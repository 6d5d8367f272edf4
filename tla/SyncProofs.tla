----------------------------- MODULE SyncProofs -----------------------------
(***************************************************************************)
(* What holds of the sync protocol for any daemons, streams, page sizes    *)
(* and bounds, with requests that are lost, served late, served in part or *)
(* served again.                                                           *)
(*                                                                         *)
(* A step is first reduced to what it does to the ledgers, the requests    *)
(* and the two cursors (StepCases), and ledgers only grow (GrowsStep).     *)
(* OriginOnce and SignedVersionKept then follow from what a served record  *)
(* is (Gains). CursorMeansAnswered is not inductive: a cursor moves when   *)
(* the answer to a whole page arrives, so every record a waiting page      *)
(* covers is answered or still to be served by its request (Waiting), and  *)
(* a request is done only when nothing is left of it (DoneIsAll).          *)
(* CacheIsTeamLayer needs, in the same way, that a pull never passes a     *)
(* record it should cache (PullCursors).                                   *)
(***************************************************************************)
EXTENDS TeamSync, FiniteSetTheorems, TLAPS

\* Versions are numbers.
LEMMA VersionsAreNat ==
    ASSUME TypeOK, NEW s
    PROVE  ServerVer(s) \in Nat /\ \A d \in Daemon : LocalVer(d, s) \in Nat
<1>1. server \in Seq(ServerRecord) /\ \A d \in Daemon : local[d] \in Seq(LocalRecord)
  BY DEF TypeOK
<1>2. /\ IsFiniteSet({n \in 1..Len(server) : server[n].stream = s})
      /\ \A d \in Daemon : IsFiniteSet({n \in 1..Len(local[d]) : local[d][n].stream = s})
  <2>1. IsFiniteSet(1..Len(server)) /\ \A d \in Daemon : IsFiniteSet(1..Len(local[d]))
    BY <1>1, FS_Interval
  <2> QED BY <2>1, FS_Subset
<1> QED BY <1>2, FS_CardinalityType DEF LocalVer, ServerVer

\* Appending to a sequence, and replacing one of its elements.
LEMMA AppendFacts ==
    ASSUME NEW S, NEW q \in Seq(S), NEW x \in S
    PROVE  /\ Append(q, x) \in Seq(S) /\ Len(Append(q, x)) = Len(q) + 1 /\ Len(q) \in Nat
           /\ Append(q, x)[Len(q) + 1] = x
           /\ \A i \in 1..Len(q) : Append(q, x)[i] = q[i]
OBVIOUS

\* Replacing one element keeps the others.
LEMMA ReplaceFacts ==
    ASSUME NEW S, NEW q \in Seq(S), NEW k \in 1..Len(q), NEW x \in S
    PROVE  /\ [q EXCEPT ![k] = x] \in Seq(S) /\ Len([q EXCEPT ![k] = x]) = Len(q)
           /\ [q EXCEPT ![k] = x][k] = x
           /\ \A i \in 1..Len(q) : i # k => [q EXCEPT ![k] = x][i] = q[i]
OBVIOUS

-----------------------------------------------------------------------------
\* What a step may do to the requests and to the server.
Answering(d, k, r) ==
    /\ sent' \in [Daemon -> Seq(Request)]
    /\ d \in Daemon /\ k \in 1..Len(sent[d]) /\ r \in Request
    /\ \A e \in Daemon : Len(sent'[e]) = Len(sent[e])
    /\ sent'[d][k] = r
    /\ \A e \in Daemon : \A i \in 1..Len(sent[e]) : <<e, i>> # <<d, k>> => sent'[e][i] = sent[e][i]

\* Changing one request leaves every other request alone.
LEMMA AnsweringFacts ==
    ASSUME TypeOK, NEW d \in Daemon, NEW k \in 1..Len(sent[d]), NEW r \in Request,
           sent' = [sent EXCEPT ![d] = [@ EXCEPT ![k] = r]]
    PROVE  Answering(d, k, r)
<1>1. PICK q \in Seq(Request) : q = sent[d]
  BY DEF TypeOK
<1>2. /\ [q EXCEPT ![k] = r] \in Seq(Request) /\ Len([q EXCEPT ![k] = r]) = Len(q)
      /\ [q EXCEPT ![k] = r][k] = r
      /\ \A i \in 1..Len(q) : i # k => [q EXCEPT ![k] = r][i] = q[i]
  BY <1>1, ReplaceFacts
<1>3. sent'[d] = [q EXCEPT ![k] = r] /\ \A e \in Daemon : e # d => sent'[e] = sent[e]
  BY <1>1 DEF TypeOK
<1>4. sent' \in [Daemon -> Seq(Request)]
  BY <1>1, <1>2 DEF TypeOK
<1> QED BY <1>1, <1>2, <1>3, <1>4 DEF Answering

\* One record of a request is served.
Serves(d, k, n) ==
    /\ d \in Daemon /\ k \in 1..Len(sent[d]) /\ n \in Nat
    /\ n \in sent[d][k].todo
    /\ Answering(d, k, [sent[d][k] EXCEPT !.todo = @ \ {n}])
    /\ \/ server' = server /\ HasOrigin(<<d, n>>)
       \/ /\ ~HasOrigin(<<d, n>>)
          /\ local[d][n].ver - 1 = ServerVer(local[d][n].stream)
          /\ server' = Append(server, [stream |-> local[d][n].stream,
                                       ver |-> ServerVer(local[d][n].stream) + 1, from |-> <<d, n>>])
       \/ server' = Append(server, [stream |-> "rejected", ver |-> ServerVer("rejected") + 1,
                                    from |-> <<d, n>>])

\* ServeRecord is a record served: a replay, a conflict or an acceptance.
LEMMA ServeFacts ==
    ASSUME TypeOK, ServeRecord
    PROVE  \E n \in Nat : Serves(mu[1], mu[2], n)
<1>0. PICK d \in Daemon : mu[1] = d /\ mu[2] \in 1..Len(sent[d])
  BY DEF TypeOK, ServeRecord
<1>1. PICK k \in 1..Len(sent[d]) : mu[1] = d /\ mu[2] = k
  BY <1>0
<1>2. PICK n \in sent[d][k].todo :
        /\ server' = CASE HasOrigin(<<d, n>>) -> server
                       [] ~HasOrigin(<<d, n>>) /\ local[d][n].good
                          /\ local[d][n].ver - 1 = ServerVer(local[d][n].stream)
                            -> Append(server, [stream |-> local[d][n].stream,
                                               ver |-> ServerVer(local[d][n].stream) + 1,
                                               from |-> <<d, n>>])
                       [] OTHER -> Append(server, [stream |-> "rejected",
                                                   ver |-> ServerVer("rejected") + 1,
                                                   from |-> <<d, n>>])
        /\ sent' = [sent EXCEPT ![d][k].todo = @ \ {n}]
  BY <1>1 DEF ServeRecord
<1>3. sent[d][k] \in Request
  BY DEF TypeOK
<1>4. n \in Nat /\ [sent[d][k] EXCEPT !.todo = @ \ {n}] \in Request
  BY <1>3 DEF Request
<1>5. sent' = [sent EXCEPT ![d] = [@ EXCEPT ![k] = [sent[d][k] EXCEPT !.todo = @ \ {n}]]]
  BY <1>2
<1>6. Answering(d, k, [sent[d][k] EXCEPT !.todo = @ \ {n}])
  BY <1>4, <1>5, AnsweringFacts
<1>7. \/ server' = server /\ HasOrigin(<<d, n>>)
      \/ /\ ~HasOrigin(<<d, n>>)
         /\ local[d][n].ver - 1 = ServerVer(local[d][n].stream)
         /\ server' = Append(server, [stream |-> local[d][n].stream,
                                      ver |-> ServerVer(local[d][n].stream) + 1, from |-> <<d, n>>])
      \/ server' = Append(server, [stream |-> "rejected", ver |-> ServerVer("rejected") + 1,
                                   from |-> <<d, n>>])
  <2>1. CASE HasOrigin(<<d, n>>)
    BY <1>2, <2>1
  <2>2. CASE ~HasOrigin(<<d, n>>) /\ local[d][n].good
             /\ local[d][n].ver - 1 = ServerVer(local[d][n].stream)
    BY <1>2, <2>2
  <2> QED BY <1>2, <2>1, <2>2
<1> QED BY <1>1, <1>4, <1>6, <1>7 DEF Serves

-----------------------------------------------------------------------------
\* A page that is offered becomes a request of its own.
Offers(d, todo) ==
    /\ todo \subseteq Nat
    /\ sent' \in [Daemon -> Seq(Request)]
    /\ Len(sent'[d]) = Len(sent[d]) + 1 /\ Len(sent[d]) \in Nat
    /\ sent'[d][Len(sent[d]) + 1] = [todo |-> todo, state |-> "sent"]
    /\ \A i \in 1..Len(sent[d]) : sent'[d][i] = sent[d][i]
    /\ \A e \in Daemon : e # d => sent'[e] = sent[e]

\* A page that is offered leaves the earlier requests alone.
LEMMA OffersFacts ==
    ASSUME TypeOK, NEW d \in Daemon, NEW todo \in SUBSET Nat,
           sent' = [sent EXCEPT ![d] = Append(@, [todo |-> todo, state |-> "sent"])]
    PROVE  Offers(d, todo)
<1>1. PICK q \in Seq(Request) : q = sent[d]
  BY DEF TypeOK
<1>2. PICK r \in Request : r = [todo |-> todo, state |-> "sent"]
  BY DEF Request
<1>3. /\ Append(q, r) \in Seq(Request) /\ Len(Append(q, r)) = Len(q) + 1 /\ Len(q) \in Nat
      /\ Append(q, r)[Len(q) + 1] = r /\ \A i \in 1..Len(q) : Append(q, r)[i] = q[i]
  BY AppendFacts
<1>4. sent'[d] = Append(q, r) /\ \A e \in Daemon : e # d => sent'[e] = sent[e]
  BY <1>1, <1>2 DEF TypeOK
<1>5. sent' \in [Daemon -> Seq(Request)]
  BY <1>1, <1>2, <1>3 DEF TypeOK
<1> QED BY <1>1, <1>2, <1>3, <1>4, <1>5 DEF Offers

\* The parts of a page of Push.
Cur(d) == push[d].state.push
Last(d) == Smaller(Len(local[d]), Cur(d) + Batch)
Offer(d) == {n \in Cur(d) + 1 .. Last(d) : Shareable(d, n, push[d].seen)}

\* A page ends within the ledger and offers records of it.
LEMMA PageFacts ==
    ASSUME TypeOK, NEW d \in Daemon
    PROVE  /\ Cur(d) \in Nat /\ Len(local[d]) \in Nat /\ Last(d) \in Nat
           /\ Last(d) <= Len(local[d]) /\ Offer(d) \subseteq Nat
           /\ Offer(d) \subseteq 1..Len(local[d])
<1>1. Cur(d) \in Nat /\ Len(local[d]) \in Nat
  BY DEF TypeOK, PushState, State, Cur
<1>2. Last(d) \in Nat /\ Last(d) <= Len(local[d])
  BY <1>1, SyncConstants DEF Last, Smaller
<1> QED BY <1>1, <1>2 DEF Offer

\* What a step of the push process does to its locals.
Advances(d, r, upto) ==
    /\ r.pc \in {"page", "save"} /\ r.seen = push[d].seen
    /\ r.state.push = upto /\ r.state.pull = push[d].state.pull

PushMoves(d, r) ==
    \/ r = NoPush /\ sent' = sent /\ saved' \in {saved, [saved EXCEPT ![d] = push[d].state]}
    \/ r.pc = "page" /\ r.state = saved[d] /\ r.seen = Len(local[d]) /\ UNCHANGED <<saved, sent>>
    \/ r.pc = "save" /\ r.state = push[d].state /\ r.seen = push[d].seen /\ UNCHANGED <<saved, sent>>
    \/ /\ Advances(d, r, Last(d)) /\ Last(d) > Cur(d) /\ Offer(d) = {} /\ UNCHANGED <<saved, sent>>
    \/ /\ Advances(d, r, push[d].last) /\ push[d].pc = "wait" /\ UNCHANGED <<saved, sent>>
       /\ sent[d][Len(sent[d])].state = "done"
    \/ /\ r.pc = "wait" /\ r.state = push[d].state /\ r.seen = push[d].seen
       /\ r.last = Last(d) /\ Last(d) > Cur(d) /\ Offers(d, Offer(d)) /\ saved' = saved

PushAction(d) ==
    StartPush(d) \/ PushPage(d) \/ PushAnswered(d) \/ PushFails(d) \/ SavePush(d) \/ PushCrashes(d)

\* Each action of the push process is one of its moves.
LEMMA PushFacts ==
    ASSUME TypeOK, NEW d \in Daemon, PushAction(d)
    PROVE  \E r \in PushState : push' = [push EXCEPT ![d] = r] /\ PushMoves(d, r)
<1>1. push[d] \in PushState /\ saved[d] \in State /\ push[d].state \in State /\ Len(local[d]) \in Nat
  BY DEF TypeOK, PushState
<1>2. NoPush \in PushState
  BY DEF NoPush, PushState, State
<1>3. ASSUME NEW last \in Nat
      PROVE  AfterPage(push[d], last) \in PushState /\ Advances(d, AfterPage(push[d], last), last)
  BY <1>1 DEF AfterPage, Advances, PushState, State
<1>4. CASE StartPush(d)
  <2>1. PICK r : r = [NoPush EXCEPT !.pc = "page", !.state = saved[d], !.seen = Len(local[d])]
    OBVIOUS
  <2>2. r \in PushState /\ r.pc = "page" /\ r.state = saved[d] /\ r.seen = Len(local[d])
    BY <1>1, <2>1 DEF NoPush, PushState
  <2> QED BY <1>4, <2>1, <2>2 DEF StartPush, PushMoves
<1>5. [push[d] EXCEPT !.pc = "save"] \in PushState
  BY <1>1 DEF PushState
<1>6. PICK stop \in PushState : stop = [push[d] EXCEPT !.pc = "save"]
  BY <1>5
<1>7. stop.pc = "save" /\ stop.state = push[d].state /\ stop.seen = push[d].seen
  BY <1>1, <1>6 DEF PushState
<1>8. CASE PushPage(d)
  <2>1. Last(d) \in Nat /\ Offer(d) \in SUBSET Nat
    BY PageFacts
  <2>2. \/ push' = [push EXCEPT ![d] = stop] /\ UNCHANGED <<saved, sent>>
        \/ /\ Last(d) > Cur(d) /\ Offer(d) = {} /\ UNCHANGED <<saved, sent>>
           /\ push' = [push EXCEPT ![d] = AfterPage(push[d], Last(d))]
        \/ /\ Last(d) > Cur(d) /\ saved' = saved
           /\ sent' = [sent EXCEPT ![d] = Append(@, [todo |-> Offer(d), state |-> "sent"])]
           /\ push' = [push EXCEPT ![d] = [push[d] EXCEPT !.pc = "wait", !.last = Last(d)]]
    BY <1>6, <1>8 DEF PushPage, Offer, Cur, Last
  <2>3. CASE push' = [push EXCEPT ![d] = stop] /\ UNCHANGED <<saved, sent>>
    BY <1>7, <2>3 DEF PushMoves
  <2>4. CASE /\ Last(d) > Cur(d) /\ Offer(d) = {} /\ UNCHANGED <<saved, sent>>
             /\ push' = [push EXCEPT ![d] = AfterPage(push[d], Last(d))]
    BY <1>3, <2>1, <2>4 DEF PushMoves
  <2>5. CASE /\ Last(d) > Cur(d) /\ saved' = saved
             /\ sent' = [sent EXCEPT ![d] = Append(@, [todo |-> Offer(d), state |-> "sent"])]
             /\ push' = [push EXCEPT ![d] = [push[d] EXCEPT !.pc = "wait", !.last = Last(d)]]
    <3>1. PICK r : r = [push[d] EXCEPT !.pc = "wait", !.last = Last(d)]
      OBVIOUS
    <3>2. /\ r \in PushState /\ r.pc = "wait" /\ r.state = push[d].state /\ r.seen = push[d].seen
          /\ r.last = Last(d)
      BY <1>1, <2>1, <3>1 DEF PushState
    <3>3. Offers(d, Offer(d))
      BY <2>1, <2>5, OffersFacts
    <3> QED BY <2>5, <3>1, <3>2, <3>3 DEF PushMoves
  <2> QED BY <2>2, <2>3, <2>4, <2>5
<1>9. CASE PushAnswered(d)
  <2>1. push[d].last \in Nat
    BY <1>1 DEF PushState
  <2> QED BY <1>3, <1>9, <2>1 DEF PushAnswered, PushMoves
<1>10. CASE PushFails(d)
  BY <1>6, <1>7, <1>10 DEF PushFails, PushMoves
<1>11. CASE SavePush(d) \/ PushCrashes(d)
  BY <1>2, <1>11 DEF SavePush, PushCrashes, PushMoves
<1> QED BY <1>4, <1>8, <1>9, <1>10, <1>11 DEF PushAction

\* What a step of the pull process does to its locals and to the cache.
Wanted(d, n) == server[n].stream \in TeamLayer /\ server[n].from[1] # d
Cached(d, n) == \E i \in 1..Len(cache[d]) : server[cache[d][i]].from = server[n].from

PullMoves(d, r) ==
    \/ r = NoPull /\ cache' = cache /\ saved' \in {saved, [saved EXCEPT ![d] = pull[d].state]}
    \/ r.pc = "page" /\ r.state = saved[d] /\ UNCHANGED <<saved, cache>>
    \/ r.pc = "save" /\ r.state = pull[d].state /\ UNCHANGED <<saved, cache>>
    \/ /\ r.pc = "cache" /\ r.state = pull[d].state /\ r.at = pull[d].state.pull
       /\ r.upto = Smaller(Len(server), pull[d].state.pull + PullLimit) /\ UNCHANGED <<saved, cache>>
    \/ /\ pull[d].pc = "cache" /\ pull[d].at < pull[d].upto
       /\ r.pc = "cache" /\ r.state = pull[d].state /\ r.upto = pull[d].upto /\ r.at = pull[d].at + 1
       /\ saved' = saved
       /\ IF Wanted(d, r.at) /\ ~Cached(d, r.at)
          THEN cache' = [cache EXCEPT ![d] = Append(@, r.at)]
          ELSE cache' = cache
    \/ /\ pull[d].pc = "cache" /\ pull[d].at = pull[d].upto
       /\ r.pc \in {"page", "save"} /\ r.state.pull = pull[d].upto /\ r.state.push = pull[d].state.push
       /\ UNCHANGED <<saved, cache>>

PullAction(d) ==
    \/ StartPull(d) \/ PullPage(d) \/ PullRecord(d) \/ PullPageDone(d)
    \/ PullFails(d) \/ SavePull(d) \/ PullCrashes(d)

\* Each action of the pull process is one of its moves.
LEMMA PullFacts ==
    ASSUME TypeOK, NEW d \in Daemon, PullAction(d)
    PROVE  \E r \in PullState : pull' = [pull EXCEPT ![d] = r] /\ PullMoves(d, r)
<1>1. pull[d] \in PullState /\ saved[d] \in State /\ pull[d].state \in State /\ Len(server) \in Nat
  BY DEF TypeOK, PullState
<1>2. NoPull \in PullState
  BY DEF NoPull, PullState, State
<1>3. CASE StartPull(d)
  <2>1. PICK r : r = [NoPull EXCEPT !.pc = "page", !.state = saved[d]]
    OBVIOUS
  <2>2. r \in PullState /\ r.pc = "page" /\ r.state = saved[d]
    BY <1>1, <2>1 DEF NoPull, PullState
  <2> QED BY <1>3, <2>1, <2>2 DEF StartPull, PullMoves
<1>4. CASE PullPage(d)
  <2>1. pull[d].state.pull \in Nat /\ PullLimit \in Nat
    BY <1>1, SyncConstants DEF State
  <2>2. PICK upto \in Nat : upto = Smaller(Len(server), pull[d].state.pull + PullLimit)
    BY <1>1, <2>1 DEF Smaller
  <2>3. PICK r : r = [pull[d] EXCEPT !.pc = "cache", !.at = pull[d].state.pull, !.upto = upto]
    OBVIOUS
  <2>4. /\ r \in PullState /\ r.pc = "cache" /\ r.state = pull[d].state /\ r.at = pull[d].state.pull
        /\ r.upto = upto
    BY <1>1, <2>1, <2>3 DEF PullState
  <2> QED BY <1>4, <2>2, <2>3, <2>4 DEF PullPage, PullMoves
<1>5. CASE PullRecord(d)
  <2>1. pull[d].at + 1 \in Nat
    BY <1>1 DEF PullState
  <2>2. PICK r : r = [pull[d] EXCEPT !.at = pull[d].at + 1]
    OBVIOUS
  <2>3. /\ r \in PullState /\ r.pc = pull[d].pc /\ r.state = pull[d].state /\ r.upto = pull[d].upto
        /\ r.at = pull[d].at + 1
    BY <1>1, <2>1, <2>2 DEF PullState
  <2>4. IF Wanted(d, r.at) /\ ~Cached(d, r.at)
        THEN cache' = [cache EXCEPT ![d] = Append(@, r.at)]
        ELSE cache' = cache
    BY <1>5, <2>3 DEF PullRecord, Wanted, Cached
  <2> QED BY <1>5, <2>2, <2>3, <2>4 DEF PullRecord, PullMoves
<1>6. CASE PullPageDone(d)
  <2>1. PICK pc \in {"page", "save"} :
          pull' = [pull EXCEPT ![d] = [pull[d] EXCEPT !.state.pull = pull[d].upto, !.pc = pc]]
    BY <1>6 DEF PullPageDone
  <2>2. PICK r : r = [pull[d] EXCEPT !.state.pull = pull[d].upto, !.pc = pc]
    OBVIOUS
  <2>3. /\ r \in PullState /\ r.pc = pc /\ r.state.pull = pull[d].upto
        /\ r.state.push = pull[d].state.push
    BY <1>1, <2>2 DEF PullState, State
  <2> QED BY <1>6, <2>1, <2>2, <2>3 DEF PullPageDone, PullMoves
<1>7. CASE PullFails(d)
  <2>1. PICK r : r = [pull[d] EXCEPT !.pc = "save"]
    OBVIOUS
  <2>2. r \in PullState /\ r.pc = "save" /\ r.state = pull[d].state
    BY <1>1, <2>1 DEF PullState
  <2> QED BY <1>7, <2>1, <2>2 DEF PullFails, PullMoves
<1>8. CASE SavePull(d) \/ PullCrashes(d)
  BY <1>2, <1>8 DEF SavePull, PullCrashes, PullMoves
<1> QED BY <1>3, <1>4, <1>5, <1>6, <1>7, <1>8 DEF PullAction

-----------------------------------------------------------------------------
\* What a step does to the ledgers.
Writes(d, e) ==
    /\ local' = [local EXCEPT ![d] = Append(@, e)] /\ e \in LocalRecord
    /\ UNCHANGED <<server, cache, saved, push, pull, sent, mu>>
Receives(s) ==
    /\ server' = Append(server, [stream |-> s, ver |-> ServerVer(s) + 1,
                                 from |-> <<"server", Len(server) + 1>>])
    /\ UNCHANGED <<local, cache, saved, push, pull, sent, mu>>
Pushes(d, r) ==
    /\ push' = [push EXCEPT ![d] = r] /\ PushMoves(d, r)
    /\ UNCHANGED <<local, server, cache, pull, mu>>
Pulls(d, r) ==
    /\ pull' = [pull EXCEPT ![d] = r] /\ PullMoves(d, r)
    /\ UNCHANGED <<local, server, push, sent, mu>>
Ends(d, k, st) ==
    /\ Answering(d, k, [todo |-> {}, state |-> st])
    /\ st = "done" => sent[d][k].todo = {}
    /\ mu # << >> /\ mu[1] = d /\ mu[2] = k /\ mu' = << >>
    /\ UNCHANGED <<local, server, cache, saved, push, pull>>
Begins(d, k) ==
    /\ k \in 1..Len(sent[d]) /\ sent[d][k].state = "sent" /\ mu' = <<d, k>>
    /\ UNCHANGED <<local, server, cache, saved, push, pull, sent>>
Stands == UNCHANGED <<local, server, cache, saved, push, pull, sent>>

\* Every step is one of these.
LEMMA StepCases ==
    ASSUME TypeOK, [Next]_vars
    PROVE  \/ \E d \in Daemon, e \in LocalRecord : Writes(d, e)
           \/ \E s \in WorkStream : Receives(s)
           \/ \E d \in Daemon, r \in PushState : Pushes(d, r)
           \/ \E d \in Daemon, r \in PullState : Pulls(d, r)
           \/ /\ \E d \in Daemon, k \in Nat, n \in Nat : Serves(d, k, n)
              /\ UNCHANGED <<local, cache, saved, push, pull, mu>>
           \/ \E d \in Daemon, k \in Nat, st \in {"done", "failed"} : Ends(d, k, st)
           \/ \E d \in Daemon, k \in Nat : Begins(d, k)
           \/ Stands /\ mu' = mu
<1>1. ASSUME NEW d \in Daemon, NEW s \in Stream, LocalWrite(d, s)
      PROVE  \E e \in LocalRecord : Writes(d, e)
  <2>1. PICK good \in Good, share \in MayShare(d, s) :
          local' = [local EXCEPT ![d] = Append(@, [stream |-> s, ver |-> LocalVer(d, s) + 1,
                                                   good |-> good, share |-> share])]
    BY <1>1 DEF LocalWrite
  <2>2. share \in BOOLEAN
    BY DEF MayShare
  <2>3. good \in BOOLEAN
    BY SyncConstants
  <2>4. LocalVer(d, s) + 1 \in Nat
    <3>1. LocalVer(d, s) \in Nat
      BY VersionsAreNat
    <3> QED BY <3>1
  <2>5. PICK e \in LocalRecord :
          e = [stream |-> s, ver |-> LocalVer(d, s) + 1, good |-> good, share |-> share]
    BY <2>2, <2>3, <2>4 DEF LocalRecord
  <2> QED BY <1>1, <2>1, <2>5 DEF LocalWrite, Writes
<1>2. ASSUME NEW s \in WorkStream, ServerWrite(s) PROVE Receives(s)
  BY <1>2 DEF ServerWrite, Receives
<1>3. ASSUME NEW d \in Daemon, PushAction(d) PROVE \E r \in PushState : Pushes(d, r)
  <2>1. UNCHANGED <<local, server, cache, pull, mu>>
    BY <1>3 DEF PushAction, StartPush, PushPage, PushAnswered, PushFails, SavePush, PushCrashes
  <2> QED BY <1>3, <2>1, PushFacts DEF Pushes
<1>4. ASSUME NEW d \in Daemon, PullAction(d) PROVE \E r \in PullState : Pulls(d, r)
  <2>1. UNCHANGED <<local, server, push, sent, mu>>
    BY <1>4 DEF PullAction, StartPull, PullPage, PullRecord, PullPageDone, PullFails, SavePull, PullCrashes
  <2> QED BY <1>4, <2>1, PullFacts DEF Pulls
<1>5. ASSUME ServeRecord
      PROVE  /\ \E d \in Daemon, k \in Nat, n \in Nat : Serves(d, k, n)
             /\ UNCHANGED <<local, cache, saved, push, pull, mu>>
  <2>1. PICK n \in Nat : Serves(mu[1], mu[2], n)
    BY <1>5, ServeFacts
  <2>2. mu[1] \in Daemon /\ mu[2] \in Nat
    BY <1>5 DEF ServeRecord, TypeOK
  <2> QED BY <1>5, <2>1, <2>2 DEF ServeRecord
<1>6. ASSUME NEW st \in {"done", "failed"}, mu # << >>, ServeEnd(st),
             st = "done" => sent[mu[1]][mu[2]].todo = {}
      PROVE  \E d \in Daemon, k \in Nat : Ends(d, k, st)
  <2>1. mu[1] \in Daemon /\ mu[2] \in 1..Len(sent[mu[1]]) /\ mu[2] \in Nat
    BY <1>6 DEF TypeOK
  <2>2. [todo |-> {}, state |-> st] \in Request
    BY DEF Request
  <2>3. Answering(mu[1], mu[2], [todo |-> {}, state |-> st])
    BY <1>6, <2>1, <2>2, AnsweringFacts DEF ServeEnd
  <2>4. Ends(mu[1], mu[2], st)
    BY <1>6, <2>3 DEF ServeEnd, Ends
  <2> QED BY <1>6, <2>1, <2>4 DEF ServeEnd
<1>7. ServeDone \/ ServeFails => \E d \in Daemon, k \in Nat, st \in {"done", "failed"} : Ends(d, k, st)
  BY <1>6 DEF ServeDone, ServeFails
<1>8. ASSUME NEW d \in Daemon, NEW k \in 1..Len(sent[d]), ServeStart(d, k)
      PROVE  k \in Nat /\ Begins(d, k)
  BY <1>8 DEF ServeStart, Begins, TypeOK
<1>9. UNCHANGED vars => Stands /\ mu' = mu
  BY DEF vars, Stands
<1>10. Pusher \subseteq Daemon /\ Puller \subseteq Daemon
  BY SyncConstants
<1>11. CASE \E d \in Daemon : \E s \in Stream : LocalWrite(d, s)
  BY <1>1, <1>11
<1>12. CASE \E d \in Pusher : PushAction(d)
  BY <1>3, <1>10, <1>12
<1>13. CASE \E d \in Puller : PullAction(d)
  BY <1>4, <1>10, <1>13
<1>14. CASE \E d \in Pusher : \E k \in 1..Len(sent[d]) : ServeStart(d, k)
  BY <1>8, <1>10, <1>14
<1>15. CASE \E s \in WorkStream : ServerWrite(s)
  BY <1>2, <1>15
<1>16. \/ \E d \in Daemon : \E s \in Stream : LocalWrite(d, s)
       \/ \E d \in Pusher : PushAction(d)
       \/ \E d \in Puller : PullAction(d)
       \/ \E d \in Pusher : \E k \in 1..Len(sent[d]) : ServeStart(d, k)
       \/ \E s \in WorkStream : ServerWrite(s)
       \/ ServeRecord \/ ServeDone \/ ServeFails \/ UNCHANGED vars
  BY DEF Next, PushAction, PullAction
<1> QED BY <1>5, <1>7, <1>9, <1>11, <1>12, <1>13, <1>14, <1>15, <1>16

-----------------------------------------------------------------------------
\* What a request offers: records its daemon has, of sessions only shared ones.
SharedLocally(d, s) == \E m \in 1..Len(local[d]) : local[d][m].share /\ local[d][m].stream = s

Offered ==
    /\ \A d \in Daemon : push[d].seen <= Len(local[d])
    /\ \A d \in Daemon : \A k \in 1..Len(sent[d]) : \A n \in sent[d][k].todo :
         /\ n \in 1..Len(local[d])
         /\ local[d][n].stream \in SessionStream => SharedLocally(d, local[d][n].stream)

\* Where the server's records come from.
Origins ==
    \A i \in 1..Len(server) :
        /\ server[i].from[1] = "server" => server[i].from[2] = i /\ server[i].stream \in WorkStream
        /\ server[i].from[1] \in Daemon => server[i].from[2] \in 1..Len(local[server[i].from[1]])
        /\ server[i].stream \in SessionStream => SharedLocally(server[i].from[1], server[i].stream)

\* Ledgers and caches only grow.
Grown(q, r) == Len(q) <= Len(r) /\ \A i \in 1..Len(q) : r[i] = q[i]
Grows ==
    /\ \A d \in Daemon : Grown(local[d], local'[d])
    /\ Grown(server, server')
    /\ \A d \in Daemon : Grown(cache[d], cache'[d])

\* What the server gains in a step.
Gains(x) ==
    /\ server' = Append(server, x) /\ local' = local
    /\ \/ x.from = <<"server", Len(server) + 1>> /\ x.stream \in WorkStream
       \/ \E d \in Daemon, n \in Nat :
            /\ x.from = <<d, n>> /\ n \in 1..Len(local[d])
            /\ \/ x.stream = "rejected"
               \/ /\ ~HasOrigin(<<d, n>>)
                  /\ x.stream = local[d][n].stream /\ x.ver = local[d][n].ver
            /\ x.stream \in SessionStream => SharedLocally(d, x.stream)

\* A step leaves the server alone or appends one record to it.
LEMMA ServerCases ==
    ASSUME TypeOK, Offered, [Next]_vars
    PROVE  server' = server \/ \E x \in ServerRecord : Gains(x)
<1>1. ASSUME NEW s \in WorkStream, Receives(s) PROVE \E x \in ServerRecord : Gains(x)
  <2>1. ServerVer(s) \in Nat /\ Len(server) \in Nat
    BY VersionsAreNat DEF TypeOK
  <2>2. PICK x : x = [stream |-> s, ver |-> ServerVer(s) + 1, from |-> <<"server", Len(server) + 1>>]
    OBVIOUS
  <2>3. x \in ServerRecord
    BY <2>1, <2>2 DEF ServerRecord, Stream
  <2> QED BY <1>1, <2>2, <2>3 DEF Receives, Gains
<1>2. ASSUME NEW d \in Daemon, NEW k \in Nat, NEW n \in Nat, Serves(d, k, n), local' = local
      PROVE  server' = server \/ \E x \in ServerRecord : Gains(x)
  <2>1. /\ n \in 1..Len(local[d])
        /\ local[d][n].stream \in SessionStream => SharedLocally(d, local[d][n].stream)
    BY <1>2 DEF Serves, Offered
  <2>2. PICK e \in LocalRecord : e = local[d][n]
    BY <2>1 DEF TypeOK
  <2>3. e.stream \in Stream /\ e.ver \in Nat
    BY <2>2 DEF LocalRecord
  <2>4. ServerVer(e.stream) \in Nat /\ ServerVer("rejected") \in Nat
    BY VersionsAreNat
  <2>5. CASE /\ ~HasOrigin(<<d, n>>) /\ e.ver - 1 = ServerVer(e.stream)
             /\ server' = Append(server, [stream |-> e.stream, ver |-> ServerVer(e.stream) + 1,
                                          from |-> <<d, n>>])
    <3>1. PICK x : x = [stream |-> e.stream, ver |-> ServerVer(e.stream) + 1, from |-> <<d, n>>]
      OBVIOUS
    <3>2. x \in ServerRecord
      BY <2>3, <2>4, <3>1 DEF ServerRecord
    <3>3. x.from = <<d, n>> /\ x.stream = e.stream /\ x.ver = e.ver /\ server' = Append(server, x)
      BY <2>3, <2>4, <2>5, <3>1
    <3> QED BY <1>2, <2>1, <2>2, <2>5, <3>2, <3>3 DEF Gains
  <2>6. CASE server' = Append(server, [stream |-> "rejected", ver |-> ServerVer("rejected") + 1,
                                       from |-> <<d, n>>])
    <3>1. PICK x : x = [stream |-> "rejected", ver |-> ServerVer("rejected") + 1, from |-> <<d, n>>]
      OBVIOUS
    <3>2. x \in ServerRecord
      BY <2>4, <3>1 DEF ServerRecord
    <3>3. x.from = <<d, n>> /\ x.stream = "rejected" /\ server' = Append(server, x)
      BY <2>6, <3>1
    <3>4. "rejected" \notin SessionStream
      BY SyncConstants
    <3> QED BY <1>2, <2>1, <3>2, <3>3, <3>4 DEF Gains
  <2> QED BY <1>2, <2>2, <2>5, <2>6 DEF Serves
<1> QED BY <1>1, <1>2, StepCases DEF Writes, Pushes, Pulls, Ends, Begins, Stands

\* Nothing that was written is lost or changed.
LEMMA GrowsStep ==
    ASSUME TypeOK, Offered, [Next]_vars
    PROVE  Grows
<1>1. ASSUME NEW S, NEW q \in Seq(S), NEW x \in S PROVE Grown(q, Append(q, x)) /\ Grown(q, q)
  BY AppendFacts DEF Grown
<1>2. Grown(server, server')
  <2>1. server \in Seq(ServerRecord)
    BY DEF TypeOK
  <2>2. ASSUME NEW x \in ServerRecord, Gains(x) PROVE Grown(server, server')
    <3>1. Grown(server, Append(server, x))
      BY <1>1, <2>1
    <3> QED BY <2>2, <3>1 DEF Gains
  <2>3. ASSUME server' = server PROVE Grown(server, server')
    BY <2>1, <2>3 DEF Grown
  <2> QED BY <2>2, <2>3, ServerCases
<1>3. \A d \in Daemon : Grown(local[d], local'[d])
  <2>1. ASSUME NEW e \in Daemon, NEW x \in LocalRecord, Writes(e, x), NEW d \in Daemon
        PROVE  Grown(local[d], local'[d])
    BY <1>1, <2>1 DEF TypeOK, Writes
  <2>2. local' = local => \A d \in Daemon : Grown(local[d], local'[d])
    BY <1>1 DEF TypeOK, Grown
  <2> QED BY <2>1, <2>2, StepCases DEF Receives, Pushes, Pulls, Ends, Begins, Stands
<1>4. \A d \in Daemon : Grown(cache[d], cache'[d])
  <2>1. ASSUME NEW e \in Daemon, NEW r \in PullState, Pulls(e, r), NEW d \in Daemon
        PROVE  Grown(cache[d], cache'[d])
    <3>1. cache' = cache \/ cache' = [cache EXCEPT ![e] = Append(@, r.at)]
      BY <2>1 DEF Pulls, PullMoves
    <3>2. r.at \in Nat
      BY DEF PullState
    <3>3. cache[d] \in Seq(Nat)
      BY DEF TypeOK
    <3>4. Grown(cache[d], Append(cache[d], r.at)) /\ Grown(cache[d], cache[d])
      BY <1>1, <3>2, <3>3
    <3>5. cache'[d] \in {cache[d], Append(cache[d], r.at)}
      BY <3>1 DEF TypeOK
    <3> QED BY <3>4, <3>5
  <2>2. cache' = cache => \A d \in Daemon : Grown(cache[d], cache'[d])
    BY <1>1 DEF TypeOK, Grown
  <2> QED BY <2>1, <2>2, StepCases DEF Writes, Receives, Pushes, Ends, Begins, Stands
<1> QED BY <1>2, <1>3, <1>4 DEF Grows

\* The variables keep their types.
LEMMA TypeStep == TypeOK /\ Offered /\ [Next]_vars => TypeOK'
<1> SUFFICES ASSUME TypeOK, Offered, [Next]_vars PROVE TypeOK'
  OBVIOUS
<1>1. server' \in Seq(ServerRecord)
  <2>1. server \in Seq(ServerRecord)
    BY DEF TypeOK
  <2>2. ASSUME NEW x \in ServerRecord, Gains(x) PROVE server' \in Seq(ServerRecord)
    <3>1. Append(server, x) \in Seq(ServerRecord)
      BY <2>1, AppendFacts
    <3> QED BY <2>2, <3>1 DEF Gains
  <2> QED BY <2>1, <2>2, ServerCases
<1>2. ASSUME NEW d \in Daemon, NEW e \in LocalRecord, Writes(d, e) PROVE TypeOK'
  <2>1. local' \in [Daemon -> Seq(LocalRecord)]
    BY <1>2, AppendFacts DEF Writes, TypeOK
  <2> QED BY <1>2, <2>1 DEF Writes, TypeOK
<1>3. ASSUME NEW s \in WorkStream, Receives(s) PROVE TypeOK'
  BY <1>1, <1>3 DEF Receives, TypeOK
<1>4. ASSUME NEW d \in Daemon, NEW r \in PushState, Pushes(d, r) PROVE TypeOK'
  <2>1. push' \in [Daemon -> PushState] /\ saved' \in [Daemon -> State]
    BY <1>4 DEF Pushes, PushMoves, TypeOK, PushState
  <2>2. /\ sent' \in [Daemon -> Seq(Request)]
        /\ \A e \in Daemon : Len(sent[e]) \in Nat /\ Len(sent'[e]) \in Nat /\ Len(sent'[e]) >= Len(sent[e])
    <3>1. CASE sent' = sent
      BY <3>1 DEF TypeOK
    <3>2. CASE Offers(d, Offer(d))
      <4>1. ASSUME NEW e \in Daemon, e # d PROVE sent'[e] = sent[e] /\ Len(sent[e]) \in Nat
        BY <3>2, <4>1 DEF Offers, TypeOK
      <4> QED BY <3>2, <4>1 DEF Offers
    <3> QED BY <1>4, <3>1, <3>2 DEF Pushes, PushMoves
  <2>3. mu # << >> => mu[1] \in Daemon /\ mu[2] \in 1..Len(sent'[mu[1]])
    BY <2>2 DEF TypeOK
  <2> QED BY <1>4, <2>1, <2>2, <2>3 DEF Pushes, TypeOK
<1>5. ASSUME NEW d \in Daemon, NEW r \in PullState, Pulls(d, r) PROVE TypeOK'
  <2>1. pull' \in [Daemon -> PullState] /\ saved' \in [Daemon -> State]
    BY <1>5 DEF Pulls, PullMoves, TypeOK, PullState
  <2>2. r.at \in Nat
    BY DEF PullState
  <2>3. cache' \in [Daemon -> Seq(Nat)]
    <3>1. cache' = cache \/ cache' = [cache EXCEPT ![d] = Append(@, r.at)]
      BY <1>5 DEF Pulls, PullMoves
    <3>2. \A e \in Daemon : cache[e] \in Seq(Nat) /\ Append(cache[e], r.at) \in Seq(Nat)
      BY <2>2, AppendFacts DEF TypeOK
    <3> QED BY <3>1, <3>2 DEF TypeOK
  <2> QED BY <1>5, <2>1, <2>3 DEF Pulls, TypeOK
<1>6. ASSUME NEW d \in Daemon, NEW k \in Nat, NEW n \in Nat, Serves(d, k, n),
             UNCHANGED <<local, cache, saved, push, pull, mu>>
      PROVE  TypeOK'
  BY <1>1, <1>6 DEF Serves, Answering, TypeOK
<1>7. ASSUME NEW d \in Daemon, NEW k \in Nat, NEW st \in {"done", "failed"}, Ends(d, k, st)
      PROVE  TypeOK'
  BY <1>7 DEF Ends, Answering, TypeOK
<1>8. ASSUME NEW d \in Daemon, NEW k \in Nat, Begins(d, k) PROVE TypeOK'
  BY <1>8 DEF Begins, TypeOK
<1>9. Stands /\ mu' = mu => TypeOK'
  BY DEF Stands, TypeOK
<1> QED BY <1>2, <1>3, <1>4, <1>5, <1>6, <1>7, <1>8, <1>9, StepCases

-----------------------------------------------------------------------------
\* A shared session stays shared.
LEMMA SharedKept ==
    ASSUME TypeOK, Grows, NEW d \in Daemon, NEW s, SharedLocally(d, s), Len(local'[d]) \in Nat
    PROVE  SharedLocally(d, s)'
<1>1. PICK m \in 1..Len(local[d]) : local[d][m].share /\ local[d][m].stream = s
  BY DEF SharedLocally
<1>2. m \in 1..Len(local'[d]) /\ local'[d][m] = local[d][m]
  BY DEF Grows, Grown, TypeOK
<1> QED BY <1>1, <1>2 DEF SharedLocally

\* What is still to do in a request was to do before, or is newly offered.
LEMMA TodoCases ==
    ASSUME TypeOK, [Next]_vars, NEW d \in Daemon, NEW k \in 1..Len(sent'[d]),
           NEW n \in sent'[d][k].todo
    PROVE  \/ k \in 1..Len(sent[d]) /\ n \in sent[d][k].todo
           \/ k = Len(sent[d]) + 1 /\ n \in Offer(d) /\ local' = local
<1>1. CASE sent' = sent
  BY <1>1
<1>2. ASSUME NEW e \in Daemon, Offers(e, Offer(e)), local' = local
      PROVE  \/ k \in 1..Len(sent[d]) /\ n \in sent[d][k].todo
             \/ k = Len(sent[d]) + 1 /\ n \in Offer(d) /\ local' = local
  <2>1. CASE e # d
    BY <1>2, <2>1 DEF Offers
  <2>2. CASE e = d
    <3>1. k \in 1..Len(sent[d]) \/ k = Len(sent[d]) + 1
      BY <1>2, <2>2 DEF Offers
    <3>2. CASE k \in 1..Len(sent[d])
      BY <1>2, <2>2, <3>2 DEF Offers
    <3>3. CASE k = Len(sent[d]) + 1
      BY <1>2, <2>2, <3>3 DEF Offers
    <3> QED BY <3>1, <3>2, <3>3
  <2> QED BY <2>1, <2>2
<1>3. ASSUME NEW e \in Daemon, NEW j \in Nat, NEW r, Answering(e, j, r), r.todo \subseteq sent[e][j].todo
      PROVE  k \in 1..Len(sent[d]) /\ n \in sent[d][k].todo
  <2>1. CASE <<d, k>> = <<e, j>>
    BY <1>3, <2>1 DEF Answering
  <2>2. CASE <<d, k>> # <<e, j>>
    BY <1>3, <2>2 DEF Answering
  <2> QED BY <2>1, <2>2
<1>4. ASSUME NEW e \in Daemon, NEW j \in Nat, NEW m \in Nat, Serves(e, j, m)
      PROVE  k \in 1..Len(sent[d]) /\ n \in sent[d][k].todo
  <2>1. sent[e][j] \in Request
    BY <1>4 DEF Serves, TypeOK
  <2>2. [sent[e][j] EXCEPT !.todo = @ \ {m}].todo \subseteq sent[e][j].todo
    BY <2>1 DEF Request
  <2> QED BY <1>3, <1>4, <2>2 DEF Serves
<1>5. ASSUME NEW e \in Daemon, NEW j \in Nat, NEW st \in {"done", "failed"}, Ends(e, j, st)
      PROVE  k \in 1..Len(sent[d]) /\ n \in sent[d][k].todo
  BY <1>3, <1>5 DEF Ends
<1>6. ASSUME NEW e \in Daemon, NEW r \in PushState, Pushes(e, r)
      PROVE  sent' = sent \/ (Offers(e, Offer(e)) /\ local' = local)
  BY <1>6 DEF Pushes, PushMoves
<1> QED BY <1>1, <1>2, <1>4, <1>5, <1>6, StepCases DEF Writes, Receives, Pulls, Begins, Stands

\* Requests stay true to their daemon's ledger.
LEMMA OfferedStep == TypeOK /\ Offered /\ [Next]_vars => Offered'
<1> SUFFICES ASSUME TypeOK, Offered, [Next]_vars PROVE Offered'
  OBVIOUS
<1>1. Grows /\ TypeOK'
  BY GrowsStep, TypeStep
<1>2. \A d \in Daemon : Len(local[d]) \in Nat /\ Len(local'[d]) \in Nat /\ Len(local[d]) <= Len(local'[d])
  BY <1>1 DEF TypeOK, Grows, Grown
<1>3. ASSUME NEW d \in Daemon PROVE push'[d].seen <= Len(local'[d])
  <2>1. push[d].seen \in Nat /\ push[d].seen <= Len(local[d])
    BY DEF Offered, TypeOK, PushState
  <2>2. push'[d].seen \in {0, push[d].seen, Len(local[d])}
    <3>1. ASSUME NEW e \in Daemon, NEW r \in PushState, Pushes(e, r)
          PROVE  push'[d].seen \in {0, push[d].seen, Len(local[d])}
      <4>1. r.seen \in {0, push[e].seen, Len(local[e])}
        BY <3>1 DEF Pushes, PushMoves, Advances, NoPush
      <4>2. push'[e] = r /\ (d # e => push'[d] = push[d])
        BY <3>1 DEF Pushes, TypeOK
      <4> QED BY <4>1, <4>2
    <3>2. push' = push => push'[d].seen \in {0, push[d].seen, Len(local[d])}
      OBVIOUS
    <3> QED BY <3>1, <3>2, StepCases DEF Writes, Receives, Pulls, Ends, Begins, Stands
  <2> QED BY <1>2, <2>1, <2>2
<1>4. ASSUME NEW d \in Daemon, NEW k \in 1..Len(sent'[d]), NEW n \in sent'[d][k].todo
      PROVE  /\ n \in 1..Len(local'[d])
             /\ local'[d][n].stream \in SessionStream => SharedLocally(d, local[d][n].stream)'
  <2>1. /\ n \in 1..Len(local[d])
        /\ local[d][n].stream \in SessionStream => SharedLocally(d, local[d][n].stream)
    <3>1. CASE k \in 1..Len(sent[d]) /\ n \in sent[d][k].todo
      BY <3>1 DEF Offered
    <3>2. CASE n \in Offer(d)
      <4>1. n \in 1..Len(local[d]) /\ Shareable(d, n, push[d].seen)
        BY <3>2, PageFacts DEF Offer
      <4>2. \A m \in 1..push[d].seen : m \in 1..Len(local[d])
        BY <1>2 DEF Offered, TypeOK, PushState
      <4> QED BY <4>1, <4>2 DEF Shareable, SharedLocally
    <3> QED BY <3>1, <3>2, TodoCases
  <2>2. n \in 1..Len(local'[d]) /\ local'[d][n] = local[d][n]
    BY <1>1, <1>2, <2>1 DEF Grows, Grown
  <2>3. PICK s : s = local[d][n].stream
    OBVIOUS
  <2>4. s \in SessionStream => SharedLocally(d, s)'
    BY <1>1, <1>2, <2>1, <2>3, SharedKept
  <2> QED BY <2>2, <2>3, <2>4 DEF SharedLocally
<1> QED BY <1>3, <1>4 DEF Offered

\* The server knows where its records come from.
LEMMA OriginsStep ==
    TypeOK /\ Offered /\ Origins /\ [Next]_vars => Origins'
<1> SUFFICES ASSUME TypeOK, Offered, Origins, [Next]_vars, NEW i \in 1..Len(server')
             PROVE  /\ server'[i].from[1] = "server" =>
                         server'[i].from[2] = i /\ server'[i].stream \in WorkStream
                    /\ server'[i].from[1] \in Daemon =>
                         server'[i].from[2] \in 1..Len(local'[server'[i].from[1]])
                    /\ server'[i].stream \in SessionStream =>
                         SharedLocally(server[i].from[1], server[i].stream)'
  BY DEF Origins
<1>1. Grows /\ TypeOK'
  BY GrowsStep, TypeStep
<1>2. \A d \in Daemon : Len(local[d]) \in Nat /\ Len(local'[d]) \in Nat /\ Len(local[d]) <= Len(local'[d])
  BY <1>1 DEF TypeOK, Grows, Grown
<1>3. CASE i \in 1..Len(server)
  <2>1. server'[i] = server[i]
    BY <1>1, <1>3 DEF Grows, Grown
  <2>2. PICK x \in ServerRecord : x = server[i]
    BY <1>3 DEF TypeOK
  <2>3. x.from[1] \in Daemon \union {"server"}
    BY <2>2 DEF ServerRecord
  <2>4. /\ x.from[1] = "server" => x.from[2] = i /\ x.stream \in WorkStream
        /\ x.from[1] \in Daemon => x.from[2] \in 1..Len(local[x.from[1]])
        /\ x.stream \in SessionStream => SharedLocally(x.from[1], x.stream)
    BY <1>3, <2>2 DEF Origins
  <2>5. ASSUME x.stream \in SessionStream PROVE x.from[1] \in Daemon /\ SharedLocally(x.from[1], x.stream)'
    <3>1. x.from[1] \in Daemon
      BY <2>3, <2>4, <2>5, SyncConstants
    <3> QED BY <1>1, <1>2, <2>4, <2>5, <3>1, SharedKept
  <2>6. x.from[1] \in Daemon => x.from[2] \in 1..Len(local'[x.from[1]])
    BY <1>2, <2>4
  <2> QED BY <2>1, <2>2, <2>4, <2>5, <2>6 DEF SharedLocally
<1>4. CASE i \notin 1..Len(server)
  <2>1. PICK x \in ServerRecord : Gains(x)
    BY <1>4, ServerCases
  <2>2. i = Len(server) + 1 /\ server'[i] = x /\ local' = local
    <3>1. server \in Seq(ServerRecord)
      BY DEF TypeOK
    <3>2. /\ Len(Append(server, x)) = Len(server) + 1 /\ Len(server) \in Nat
          /\ Append(server, x)[Len(server) + 1] = x
      BY <3>1, AppendFacts
    <3> QED BY <1>4, <2>1, <3>2 DEF Gains
  <2>3. CASE x.from = <<"server", Len(server) + 1>> /\ x.stream \in WorkStream
    BY <2>2, <2>3, SyncConstants
  <2>4. ASSUME NEW d \in Daemon, NEW n \in Nat, x.from = <<d, n>>, n \in 1..Len(local[d]),
               x.stream \in SessionStream => SharedLocally(d, x.stream)
        PROVE  /\ x.from[1] # "server" /\ x.from[1] = d /\ x.from[2] \in 1..Len(local'[d])
               /\ x.stream \in SessionStream => SharedLocally(d, x.stream)'
    BY <2>2, <2>4, SyncConstants DEF SharedLocally
  <2>5. ASSUME NEW d \in Daemon, NEW n \in Nat, x.from = <<d, n>>, n \in 1..Len(local[d]),
               x.stream \in SessionStream => SharedLocally(d, x.stream)
        PROVE  /\ server'[i].from[1] # "server"
               /\ server'[i].from[2] \in 1..Len(local'[server'[i].from[1]])
               /\ server'[i].stream \in SessionStream =>
                    SharedLocally(server[i].from[1], server[i].stream)'
    BY <2>2, <2>4, <2>5 DEF SharedLocally
  <2> QED BY <2>1, <2>3, <2>5 DEF Gains
<1> QED BY <1>3, <1>4

-----------------------------------------------------------------------------
\* An appended record is the last one.
LEMMA GainsFacts ==
    ASSUME TypeOK, NEW x \in ServerRecord, Gains(x)
    PROVE  /\ Len(server) \in Nat /\ Len(server') = Len(server) + 1 /\ local' = local
           /\ server'[Len(server) + 1] = x
           /\ \A i \in 1..Len(server') : i \in 1..Len(server) \/ i = Len(server) + 1
           /\ \A i \in 1..Len(server) : server'[i] = server[i]
<1>1. PICK q \in Seq(ServerRecord) : q = server
  BY DEF TypeOK
<1>2. /\ Len(Append(q, x)) = Len(q) + 1 /\ Len(q) \in Nat /\ Append(q, x)[Len(q) + 1] = x
      /\ \A i \in 1..Len(q) : Append(q, x)[i] = q[i]
  BY AppendFacts
<1> QED BY <1>1, <1>2 DEF Gains

\* No record of a daemon is accepted twice.
LEMMA OriginOnceStep ==
    TypeOK /\ Offered /\ Origins /\ OriginOnce /\ [Next]_vars => OriginOnce'
<1> SUFFICES ASSUME TypeOK, Offered, Origins, OriginOnce, [Next]_vars PROVE OriginOnce'
  OBVIOUS
<1>1. CASE server' = server
  BY <1>1 DEF OriginOnce
<1>2. ASSUME NEW x \in ServerRecord, Gains(x), x.stream # "rejected",
             NEW i \in 1..Len(server), server[i].stream # "rejected", server[i].from = x.from
      PROVE  FALSE
  <2>1. Len(server) \in Nat
    BY DEF TypeOK
  <2>2. CASE x.from = <<"server", Len(server) + 1>>
    BY <1>2, <2>1, <2>2 DEF Origins
  <2>3. CASE \E d \in Daemon, n \in Nat : x.from = <<d, n>> /\ ~HasOrigin(<<d, n>>)
    BY <1>2, <2>3 DEF HasOrigin
  <2> QED BY <1>2, <2>2, <2>3 DEF Gains
<1>3. ASSUME NEW x \in ServerRecord, Gains(x) PROVE OriginOnce'
  BY <1>2, <1>3, GainsFacts DEF OriginOnce
<1> QED BY <1>1, <1>3, ServerCases

\* Versions are the ones the daemons gave.
LEMMA SignedStep ==
    TypeOK /\ Offered /\ Origins /\ SignedVersionKept /\ [Next]_vars => SignedVersionKept'
<1> SUFFICES ASSUME TypeOK, Offered, Origins, SignedVersionKept, [Next]_vars,
                    NEW i \in 1..Len(server'), server'[i].stream # "rejected",
                    server'[i].from[1] \in Daemon
             PROVE  local'[server'[i].from[1]][server'[i].from[2]].ver = server'[i].ver
  BY DEF SignedVersionKept
<1>1. Grows
  BY GrowsStep
<1>2. CASE i \in 1..Len(server)
  <2>1. server'[i] = server[i]
    BY <1>1, <1>2 DEF Grows, Grown
  <2>2. PICK d \in Daemon, n \in 1..Len(local[server[i].from[1]]) :
          d = server[i].from[1] /\ n = server[i].from[2]
    BY <1>2, <2>1 DEF Origins
  <2>3. local'[d][n] = local[d][n]
    BY <1>1, <2>2 DEF Grows, Grown
  <2> QED BY <1>2, <2>1, <2>2, <2>3 DEF SignedVersionKept
<1>3. CASE i \notin 1..Len(server)
  <2>1. PICK x \in ServerRecord : Gains(x)
    BY <1>3, ServerCases
  <2>2. server'[i] = x /\ local' = local
    BY <1>3, <2>1, GainsFacts
  <2>3. PICK d \in Daemon, n \in Nat : x.from = <<d, n>> /\ x.ver = local[d][n].ver
    <3>1. x.from[1] \in Daemon /\ x.stream # "rejected" /\ "server" \notin Daemon
      BY <2>2, SyncConstants
    <3>2. x.from # <<"server", Len(server) + 1>>
      BY <3>1
    <3> QED BY <2>1, <3>1, <3>2 DEF Gains
  <2> QED BY <2>2, <2>3
<1> QED BY <1>2, <1>3

-----------------------------------------------------------------------------
\* What a push cursor means.
Answered(d, n) ==
    \/ local[d][n].stream \in SessionStream \union PersonStream
    \/ \E i \in 1..Len(server) : server[i].from = <<d, n>>
Passed(d, c) == c <= Len(local[d]) /\ \A n \in 1..c : Answered(d, n)

PushCursors ==
    \A d \in Daemon : Passed(d, saved[d].push) /\ Passed(d, push[d].state.push)
                      /\ Passed(d, pull[d].state.push)
DoneIsAll == \A d \in Daemon : \A k \in 1..Len(sent[d]) : sent[d][k].state = "done" => sent[d][k].todo = {}

InService == mu # << >> => sent[mu[1]][mu[2]].state = "sent"

\* A page that waits for its answer: each record is answered or on its way.
Waits(d) ==
    /\ Len(sent[d]) >= 1
    /\ push[d].state.push <= push[d].last /\ push[d].last <= Len(local[d])
    /\ \A n \in push[d].state.push + 1 .. push[d].last :
         \/ Answered(d, n)
         \/ n \in sent[d][Len(sent[d])].todo
         \/ sent[d][Len(sent[d])].state = "failed"
Waiting == \A d \in Daemon : push[d].pc = "wait" => Waits(d)

\* What was answered stays answered.
LEMMA AnsweredKept ==
    ASSUME TypeOK, TypeOK', Grows, NEW d \in Daemon, NEW n \in 1..Len(local[d]), Answered(d, n)
    PROVE  Answered(d, n)'
<1>1. local'[d][n] = local[d][n]
  BY DEF Grows, Grown
<1>2. ASSUME NEW i \in 1..Len(server), server[i].from = <<d, n>>
      PROVE  i \in 1..Len(server') /\ server'[i].from = <<d, n>>
  BY <1>2 DEF Grows, Grown, TypeOK
<1> QED BY <1>1, <1>2 DEF Answered

\* Ledgers grow, so what a cursor passed stays answered.
LEMMA PassedKept ==
    ASSUME TypeOK, TypeOK', Grows, NEW d \in Daemon, NEW c \in Nat, Passed(d, c)
    PROVE  Passed(d, c)'
<1>1. Len(local[d]) \in Nat /\ Len(local'[d]) \in Nat /\ Len(local[d]) <= Len(local'[d])
  BY DEF TypeOK, Grows, Grown
<1>2. c <= Len(local[d]) /\ \A n \in 1..c : n \in 1..Len(local[d])
  BY <1>1 DEF Passed
<1>3. ASSUME NEW n \in 1..c PROVE Answered(d, n)'
  BY <1>2, AnsweredKept DEF Passed
<1> QED BY <1>1, <1>2, <1>3 DEF Passed

\* A page without anything to offer, and a page that was answered, are passed.
LEMMA PagePassed ==
    ASSUME TypeOK, NEW d \in Daemon, Passed(d, Cur(d)), Offer(d) = {}
    PROVE  Passed(d, Last(d))
<1>1. /\ Cur(d) \in Nat /\ Len(local[d]) \in Nat /\ Last(d) \in Nat /\ Last(d) <= Len(local[d])
  BY PageFacts
<1>2. ASSUME NEW n \in 1..Last(d) PROVE Answered(d, n)
  <2>1. CASE n \in 1..Cur(d)
    BY <2>1 DEF Passed
  <2>2. CASE n \notin 1..Cur(d)
    <3>1. n \in Cur(d) + 1 .. Last(d)
      BY <1>1, <2>2
    <3>2. ~Shareable(d, n, push[d].seen)
      BY <3>1 DEF Offer
    <3> QED BY <3>2 DEF Shareable, Answered
  <2> QED BY <2>1, <2>2
<1> QED BY <1>1, <1>2 DEF Passed

\* A page whose request is done may be passed.
LEMMA DonePassed ==
    ASSUME TypeOK, DoneIsAll, NEW d \in Daemon, Passed(d, push[d].state.push), Waits(d),
           sent[d][Len(sent[d])].state = "done"
    PROVE  Passed(d, push[d].last)
<1>1. /\ push[d].state.push \in Nat /\ push[d].last \in Nat /\ Len(sent[d]) \in Nat /\ Len(local[d]) \in Nat
  BY DEF TypeOK, PushState, State
<1>2. Len(sent[d]) \in 1..Len(sent[d])
  BY <1>1 DEF Waits
<1>3. sent[d][Len(sent[d])].todo = {}
  BY <1>2 DEF DoneIsAll
<1>4. ASSUME NEW n \in 1..push[d].last PROVE Answered(d, n)
  <2>1. CASE n \in 1..push[d].state.push
    BY <2>1 DEF Passed
  <2>2. CASE n \notin 1..push[d].state.push
    <3>1. n \in push[d].state.push + 1 .. push[d].last
      BY <1>1, <2>2
    <3> QED BY <1>3, <3>1 DEF Waits
  <2> QED BY <2>1, <2>2
<1> QED BY <1>4 DEF Passed, Waits

\* A finished request has nothing left to do.
LEMMA DoneStep == TypeOK /\ DoneIsAll /\ [Next]_vars => DoneIsAll'
<1> SUFFICES ASSUME TypeOK, DoneIsAll, [Next]_vars, NEW d \in Daemon, NEW k \in 1..Len(sent'[d]),
                    sent'[d][k].state = "done"
             PROVE  sent'[d][k].todo = {}
  BY DEF DoneIsAll
<1>1. CASE sent' = sent
  BY <1>1 DEF DoneIsAll
<1>2. ASSUME NEW e \in Daemon, Offers(e, Offer(e)) PROVE sent'[d][k].todo = {}
  <2>1. CASE e # d
    BY <1>2, <2>1 DEF Offers, DoneIsAll
  <2>2. CASE e = d /\ k = Len(sent[d]) + 1
    BY <1>2, <2>2 DEF Offers
  <2>3. CASE e = d /\ k \in 1..Len(sent[d])
    BY <1>2, <2>3 DEF Offers, DoneIsAll
  <2>4. e = d => k \in 1..Len(sent[d]) \/ k = Len(sent[d]) + 1
    BY <1>2 DEF Offers
  <2> QED BY <2>1, <2>2, <2>3, <2>4
<1>3. ASSUME NEW e \in Daemon, NEW j \in Nat, NEW r, Answering(e, j, r), r.state = "done" => r.todo = {}
      PROVE  sent'[d][k].todo = {}
  <2>1. CASE <<d, k>> = <<e, j>>
    BY <1>3, <2>1 DEF Answering
  <2>2. CASE <<d, k>> # <<e, j>>
    BY <1>3, <2>2 DEF Answering, DoneIsAll
  <2> QED BY <2>1, <2>2
<1>4. ASSUME NEW e \in Daemon, NEW j \in Nat, NEW m \in Nat, Serves(e, j, m) PROVE sent'[d][k].todo = {}
  <2>a. sent[e] \in Seq(Request) /\ j \in 1..Len(sent[e])
    BY <1>4 DEF Serves, TypeOK
  <2>1. sent[e][j] \in Request /\ (sent[e][j].state = "done" => sent[e][j].todo = {})
    BY <2>a DEF DoneIsAll
  <2>2. PICK r : r = [sent[e][j] EXCEPT !.todo = @ \ {m}]
    OBVIOUS
  <2>3. r.state = "done" => r.todo = {}
    BY <2>1, <2>2 DEF Request
  <2> QED BY <1>3, <1>4, <2>2, <2>3 DEF Serves
<1>5. ASSUME NEW e \in Daemon, NEW j \in Nat, NEW st \in {"done", "failed"}, Ends(e, j, st)
      PROVE  sent'[d][k].todo = {}
  BY <1>3, <1>5 DEF Ends
<1>6. ASSUME NEW e \in Daemon, NEW r \in PushState, Pushes(e, r) PROVE sent' = sent \/ Offers(e, Offer(e))
  BY <1>6 DEF Pushes, PushMoves
<1> QED BY <1>1, <1>2, <1>4, <1>5, <1>6, StepCases DEF Writes, Receives, Pulls, Begins, Stands

\* A cursor only takes a value that is passed.
LEMMA CursorStep ==
    TypeOK /\ Offered /\ PushCursors /\ DoneIsAll /\ Waiting /\ [Next]_vars => PushCursors'
<1> SUFFICES ASSUME TypeOK, Offered, PushCursors, DoneIsAll, Waiting, [Next]_vars, NEW d \in Daemon
             PROVE  /\ Passed(d, saved[d].push)' /\ Passed(d, push[d].state.push)'
                    /\ Passed(d, pull[d].state.push)'
  BY DEF PushCursors
<1>1. TypeOK' /\ Grows
  BY TypeStep, GrowsStep
<1>2. /\ saved[d].push \in Nat /\ push[d].state.push \in Nat /\ pull[d].state.push \in Nat
      /\ push[d].last \in Nat /\ Last(d) \in Nat
  BY PageFacts DEF TypeOK, PushState, PullState, State
<1>3. /\ Passed(d, saved[d].push) /\ Passed(d, push[d].state.push) /\ Passed(d, pull[d].state.push)
      /\ Passed(d, 0)
  <2>1. Len(local[d]) \in Nat
    BY DEF TypeOK
  <2> QED BY <2>1 DEF PushCursors, Passed
<1> DEFINE Old(c) == c \in {0, saved[d].push, push[d].state.push, pull[d].state.push}
           New(c) == \/ c = Last(d) /\ Offer(d) = {}
                     \/ c = push[d].last /\ push[d].pc = "wait" /\ sent[d][Len(sent[d])].state = "done"
<1>4. ASSUME NEW c, Old(c) \/ New(c) PROVE c \in Nat /\ Passed(d, c)
  <2>1. CASE Old(c)
    BY <1>2, <1>3, <2>1
  <2>2. CASE c = Last(d) /\ Offer(d) = {}
    BY <1>2, <1>3, <2>2, PagePassed DEF Cur
  <2>3. CASE c = push[d].last /\ push[d].pc = "wait" /\ sent[d][Len(sent[d])].state = "done"
    BY <1>2, <1>3, <2>3, DonePassed DEF Waiting
  <2> QED BY <1>4, <2>1, <2>2, <2>3
<1> HIDE DEF Old, New
<1>5. ASSUME NEW c, Old(c) \/ New(c) PROVE Passed(d, c)'
  BY <1>1, <1>4, <1>5, PassedKept
<1>6. Old(saved'[d].push) /\ (Old(push'[d].state.push) \/ New(push'[d].state.push)) /\ Old(pull'[d].state.push)
  <2>1. CASE UNCHANGED <<saved, push, pull>>
    BY <2>1 DEF Old
  <2>2. ASSUME NEW e \in Daemon, NEW r \in PushState, Pushes(e, r)
        PROVE  /\ Old(saved'[d].push) /\ (Old(push'[d].state.push) \/ New(push'[d].state.push))
               /\ Old(pull'[d].state.push)
    <3>1. pull' = pull /\ push'[e] = r /\ (e # d => push'[d] = push[d])
      BY <2>2 DEF Pushes, TypeOK
    <3>2. saved'[d] \in {saved[d], push[d].state}
      BY <2>2 DEF Pushes, PushMoves, TypeOK
    <3>3. CASE e # d
      BY <3>1, <3>2, <3>3 DEF Old
    <3>4. CASE e = d
      <4>1. \/ r.state.push \in {0, saved[d].push, push[d].state.push}
            \/ r.state.push = Last(d) /\ Offer(d) = {}
            \/ /\ r.state.push = push[d].last /\ push[d].pc = "wait"
               /\ sent[d][Len(sent[d])].state = "done"
        BY <2>2, <3>4 DEF Pushes, PushMoves, Advances, NoPush
      <4> QED BY <3>1, <3>2, <3>4, <4>1 DEF Old, New
    <3> QED BY <3>3, <3>4
  <2>3. ASSUME NEW e \in Daemon, NEW r \in PullState, Pulls(e, r)
        PROVE  Old(saved'[d].push) /\ Old(push'[d].state.push) /\ Old(pull'[d].state.push)
    <3>1. push' = push /\ pull'[e] = r /\ (e # d => pull'[d] = pull[d])
      BY <2>3 DEF Pulls, TypeOK
    <3>2. saved'[d] \in {saved[d], pull[d].state}
      BY <2>3 DEF Pulls, PullMoves, TypeOK
    <3>3. r.state.push \in {0, saved[e].push, pull[e].state.push}
      BY <2>3 DEF Pulls, PullMoves, NoPull
    <3> QED BY <3>1, <3>2, <3>3 DEF Old
  <2> QED BY <2>1, <2>2, <2>3, StepCases DEF Writes, Receives, Ends, Begins, Stands
<1> QED BY <1>5, <1>6 DEF Passed

\* A served record is answered.
LEMMA ServedIsAnswered ==
    ASSUME TypeOK, NEW d \in Daemon, NEW k \in Nat, NEW n \in Nat, Serves(d, k, n)
    PROVE  \E i \in 1..Len(server') : server'[i].from = <<d, n>>
<1>1. CASE server' = server /\ HasOrigin(<<d, n>>)
  BY <1>1 DEF HasOrigin
<1>2. ASSUME NEW s, NEW v, server' = Append(server, [stream |-> s, ver |-> v, from |-> <<d, n>>])
      PROVE  \E i \in 1..Len(server') : server'[i].from = <<d, n>>
  <2>1. Len(server) + 1 \in 1..Len(server') /\ server'[Len(server) + 1].from = <<d, n>>
    BY <1>2 DEF TypeOK
  <2> QED BY <2>1
<1> QED BY <1>1, <1>2 DEF Serves

\* A page waits until each of its records is answered.
LEMMA WaitingStep ==
    TypeOK /\ Offered /\ DoneIsAll /\ InService /\ Waiting /\ [Next]_vars => Waiting'
<1> SUFFICES ASSUME TypeOK, Offered, DoneIsAll, InService, Waiting, [Next]_vars, NEW d \in Daemon,
                    push'[d].pc = "wait"
             PROVE  Waits(d)'
  BY DEF Waiting
<1>1. TypeOK' /\ Grows
  BY TypeStep, GrowsStep
<1>2. /\ Len(local[d]) \in Nat /\ Len(local'[d]) \in Nat /\ Len(local[d]) <= Len(local'[d])
      /\ Len(sent[d]) \in Nat /\ push[d].state.push \in Nat /\ push[d].last \in Nat
  <2>1. Len(local[d]) \in Nat /\ Len(local'[d]) \in Nat /\ Len(local[d]) <= Len(local'[d])
    BY <1>1 DEF TypeOK, Grows, Grown
  <2>2. Len(sent[d]) \in Nat /\ push[d].state.push \in Nat /\ push[d].last \in Nat
    BY DEF TypeOK, PushState, State
  <2> QED BY <2>1, <2>2
<1>3. ASSUME push'[d] = push[d], Len(sent'[d]) = Len(sent[d]),
             \A n \in Nat :
               n \in sent[d][Len(sent[d])].todo =>
                 \/ n \in sent'[d][Len(sent[d])].todo
                 \/ sent'[d][Len(sent[d])].state = "failed"
                 \/ Answered(d, n)',
             sent[d][Len(sent[d])].state = "failed" => sent'[d][Len(sent[d])].state = "failed"
      PROVE  Waits(d)'
  <2>1. Waits(d)
    BY <1>3 DEF Waiting
  <2>2. ASSUME NEW n \in push[d].state.push + 1 .. push[d].last
        PROVE  \/ Answered(d, n)'
               \/ n \in sent'[d][Len(sent[d])].todo
               \/ sent'[d][Len(sent[d])].state = "failed"
    <3>1. n \in 1..Len(local[d]) /\ n \in Nat
      BY <1>2, <2>1 DEF Waits
    <3>2. CASE Answered(d, n)
      BY <1>1, <3>1, <3>2, AnsweredKept
    <3>3. CASE n \in sent[d][Len(sent[d])].todo \/ sent[d][Len(sent[d])].state = "failed"
      BY <1>3, <3>1, <3>3
    <3> QED BY <2>1, <3>2, <3>3 DEF Waits
  <2>3. push[d].last <= Len(local'[d])
    BY <1>2, <2>1 DEF Waits
  <2> QED BY <1>2, <1>3, <2>1, <2>2, <2>3 DEF Waits
<1>4. CASE push' = push /\ sent' = sent
  BY <1>3, <1>4
<1>5. ASSUME NEW e \in Daemon, NEW r \in PushState, Pushes(e, r) PROVE Waits(d)'
  <2>1. push'[e] = r /\ (e # d => push'[d] = push[d])
    BY <1>5 DEF Pushes, TypeOK
  <2>2. CASE e # d
    <3>1. sent'[d] = sent[d]
      BY <1>5, <2>2 DEF Pushes, PushMoves, Offers
    <3> QED BY <1>3, <2>1, <2>2, <3>1
  <2>3. CASE e = d
    <3>1. /\ r.pc = "wait" /\ r.state = push[d].state /\ r.last = Last(d) /\ Last(d) > Cur(d)
          /\ Offers(d, Offer(d)) /\ local' = local /\ server' = server
      BY <1>5, <2>1, <2>3 DEF Pushes, PushMoves, Advances, NoPush
    <3>2. /\ Len(sent'[d]) = Len(sent[d]) + 1
          /\ sent'[d][Len(sent'[d])] = [todo |-> Offer(d), state |-> "sent"]
      BY <3>1 DEF Offers
    <3>3. Cur(d) \in Nat /\ Last(d) \in Nat /\ Last(d) <= Len(local[d])
      BY PageFacts
    <3>4. ASSUME NEW n \in Cur(d) + 1 .. Last(d), n \notin Offer(d) PROVE Answered(d, n)'
      <4>1. ~Shareable(d, n, push[d].seen)
        BY <3>4 DEF Offer
      <4> QED BY <3>1, <4>1 DEF Shareable, Answered
    <3>5. push'[d].state.push = Cur(d) /\ push'[d].last = Last(d)
      BY <2>1, <2>3, <3>1 DEF Cur
    <3> QED BY <1>2, <3>1, <3>2, <3>3, <3>4, <3>5 DEF Waits
  <2> QED BY <2>2, <2>3
<1>6. ASSUME NEW e \in Daemon, NEW k \in Nat, NEW m \in Nat, Serves(e, k, m), push' = push, local' = local
      PROVE  Waits(d)'
  <2>1. Waits(d) /\ Len(sent[d]) \in 1..Len(sent[d]) /\ Len(sent'[d]) = Len(sent[d])
    BY <1>2, <1>6 DEF Waiting, Waits, Serves, Answering
  <2>2. CASE <<d, Len(sent[d])>> = <<e, k>>
    <3>1. sent[d][k] \in Request /\ d = e /\ k = Len(sent[d])
      BY <1>6, <2>2 DEF Serves, TypeOK
    <3>2. sent'[d][k] = [sent[d][k] EXCEPT !.todo = @ \ {m}]
      BY <1>6, <3>1 DEF Serves, Answering
    <3>3. sent'[d][k].todo = sent[d][k].todo \ {m} /\ sent'[d][k].state = sent[d][k].state
      BY <3>1, <3>2 DEF Request
    <3>4. Answered(d, m)'
      BY <1>6, <3>1, ServedIsAnswered DEF Answered
    <3> QED BY <1>3, <1>6, <2>1, <3>1, <3>3, <3>4
  <2>3. CASE <<d, Len(sent[d])>> # <<e, k>>
    <3>1. sent'[d][Len(sent[d])] = sent[d][Len(sent[d])]
      BY <1>6, <2>1, <2>3 DEF Serves, Answering
    <3> QED BY <1>3, <1>6, <2>1, <3>1
  <2> QED BY <2>2, <2>3
<1>7. ASSUME NEW e \in Daemon, NEW k \in Nat, NEW st \in {"done", "failed"}, Ends(e, k, st)
      PROVE  Waits(d)'
  <2>1. Waits(d) /\ Len(sent[d]) \in 1..Len(sent[d]) /\ Len(sent'[d]) = Len(sent[d]) /\ push' = push
    BY <1>2, <1>7 DEF Waiting, Waits, Ends, Answering
  <2>2. CASE <<d, Len(sent[d])>> = <<e, k>>
    <3>1. sent'[d][Len(sent[d])] = [todo |-> {}, state |-> st] /\ (st = "done" => sent[d][Len(sent[d])].todo = {})
      BY <1>7, <2>2 DEF Ends, Answering
    <3>2. CASE st = "failed"
      BY <1>3, <2>1, <3>1, <3>2
    <3>3. CASE st = "done" /\ sent[d][Len(sent[d])].state # "failed"
      BY <1>3, <2>1, <3>1, <3>3
    <3>4. sent[d][Len(sent[d])].state # "failed"
      BY <1>7, <2>2 DEF Ends, InService
    <3> QED BY <3>2, <3>3, <3>4
  <2>3. CASE <<d, Len(sent[d])>> # <<e, k>>
    <3>1. sent'[d][Len(sent[d])] = sent[d][Len(sent[d])]
      BY <1>7, <2>1, <2>3 DEF Ends, Answering
    <3> QED BY <1>3, <2>1, <3>1
  <2> QED BY <2>2, <2>3
<1> QED BY <1>4, <1>5, <1>6, <1>7, StepCases DEF Writes, Receives, Pulls, Begins, Stands

\* The request that is served is one without an answer.
LEMMA InServiceStep == TypeOK /\ InService /\ [Next]_vars => InService'
<1> SUFFICES ASSUME TypeOK, InService, [Next]_vars, mu' # << >>
             PROVE  sent'[mu'[1]][mu'[2]].state = "sent"
  BY DEF InService
<1>1. CASE mu' = mu /\ sent' = sent
  BY <1>1 DEF InService
<1>2. ASSUME NEW d \in Daemon, NEW k \in Nat, NEW n \in Nat, Serves(d, k, n), mu' = mu
      PROVE  sent'[mu'[1]][mu'[2]].state = "sent"
  <2>1. sent[d][k] \in Request
    BY <1>2 DEF Serves, TypeOK
  <2>2. [sent[d][k] EXCEPT !.todo = @ \ {n}].state = sent[d][k].state
    BY <2>1 DEF Request
  <2>3. \A e \in Daemon : \A i \in 1..Len(sent[e]) : sent'[e][i].state = sent[e][i].state
    BY <1>2, <2>2 DEF Serves, Answering
  <2> QED BY <1>2, <2>3 DEF InService, TypeOK
<1>3. ASSUME NEW d \in Daemon, NEW r \in PushState, Pushes(d, r)
      PROVE  sent'[mu'[1]][mu'[2]].state = "sent"
  <2>1. mu' = mu /\ mu[1] \in Daemon /\ mu[2] \in 1..Len(sent[mu[1]])
    BY <1>3 DEF Pushes, TypeOK
  <2>2. \A e \in Daemon : \A i \in 1..Len(sent[e]) : sent'[e][i] = sent[e][i]
    BY <1>3 DEF Pushes, PushMoves, Offers
  <2> QED BY <2>1, <2>2 DEF InService
<1>4. ASSUME NEW d \in Daemon, NEW k \in Nat, Begins(d, k)
      PROVE  sent'[mu'[1]][mu'[2]].state = "sent"
  BY <1>4 DEF Begins
<1> QED BY <1>1, <1>2, <1>3, <1>4, StepCases DEF Writes, Receives, Pulls, Ends, Stands

-----------------------------------------------------------------------------
\* What a pull cursor means.
Covered(d, c) ==
    c <= Len(server) /\ \A n \in 1..c : Wanted(d, n) => \E i \in 1..Len(cache[d]) : cache[d][i] = n

CacheIsForeign ==
    \A d \in Daemon :
        /\ \A i \in 1..Len(cache[d]) : cache[d][i] \in 1..Len(server) /\ Wanted(d, cache[d][i])
        /\ \A i, j \in 1..Len(cache[d]) : server[cache[d][i]].from = server[cache[d][j]].from => i = j

PullCursors ==
    \A d \in Daemon :
        /\ Covered(d, saved[d].pull) /\ Covered(d, push[d].state.pull) /\ Covered(d, pull[d].state.pull)
        /\ pull[d].pc = "cache" =>
             Covered(d, pull[d].at) /\ pull[d].at <= pull[d].upto /\ pull[d].upto <= Len(server)

\* A record of the server stays where it is.
LEMMA ServerGrown ==
    ASSUME TypeOK, TypeOK', Grows
    PROVE  /\ Len(server) \in Nat /\ Len(server') \in Nat /\ Len(server) <= Len(server')
           /\ \A n \in 1..Len(server) : server'[n] = server[n]
<1>1. server \in Seq(ServerRecord) /\ server' \in Seq(ServerRecord)
  BY DEF TypeOK
<1>2. Grown(server, server')
  BY DEF Grows
<1> QED BY <1>1, <1>2 DEF Grown

\* What is cached stays cached.
LEMMA CoveredKept ==
    ASSUME TypeOK, TypeOK', Grows, NEW d \in Daemon, NEW c \in Nat, Covered(d, c)
    PROVE  Covered(d, c)'
<1>1. /\ Len(server) \in Nat /\ Len(server') \in Nat /\ Len(server) <= Len(server')
      /\ \A n \in 1..Len(server) : server'[n] = server[n]
  BY ServerGrown
<1>2. /\ Len(cache[d]) \in Nat /\ Len(cache'[d]) \in Nat /\ Len(cache[d]) <= Len(cache'[d])
      /\ \A i \in 1..Len(cache[d]) : cache'[d][i] = cache[d][i]
  BY DEF TypeOK, Grows, Grown
<1>3. c <= Len(server) /\ \A n \in 1..c : n \in 1..Len(server)
  BY <1>1 DEF Covered
<1>4. ASSUME NEW n \in 1..c, Wanted(d, n)' PROVE \E i \in 1..Len(cache'[d]) : cache'[d][i] = n
  <2>1. Wanted(d, n)
    BY <1>1, <1>3, <1>4 DEF Wanted
  <2>2. PICK i \in 1..Len(cache[d]) : cache[d][i] = n
    BY <2>1 DEF Covered
  <2>3. i \in 1..Len(cache'[d]) /\ cache'[d][i] = n
    BY <1>2, <2>2
  <2> QED BY <2>3
<1>5. c <= Len(server')
  BY <1>1, <1>3
<1> QED BY <1>4, <1>5 DEF Covered

\* A record that is wanted is in the cache once it was looked at.
LEMMA RecordCovered ==
    ASSUME TypeOK, TypeOK', Grows, OriginOnce, CacheIsForeign, NEW d \in Daemon, NEW a \in Nat, Covered(d, a),
           a + 1 <= Len(server), server' = server,
           IF Wanted(d, a + 1) /\ ~Cached(d, a + 1)
           THEN cache' = [cache EXCEPT ![d] = Append(@, a + 1)]
           ELSE cache' = cache
    PROVE  Covered(d, a + 1)'
<1>1. Covered(d, a)'
  BY CoveredKept
<1>2. Len(server) \in Nat /\ cache[d] \in Seq(Nat) /\ Len(cache[d]) \in Nat /\ a + 1 \in 1..Len(server)
  BY DEF TypeOK
<1>3. ASSUME Wanted(d, a + 1) PROVE \E i \in 1..Len(cache'[d]) : cache'[d][i] = a + 1
  <2>1. CASE ~Cached(d, a + 1)
    <3>1. cache'[d] = Append(cache[d], a + 1)
      BY <1>3, <2>1 DEF TypeOK
    <3>2. Len(Append(cache[d], a + 1)) = Len(cache[d]) + 1 /\ Append(cache[d], a + 1)[Len(cache[d]) + 1] = a + 1
      BY <1>2, AppendFacts
    <3>3. Len(cache[d]) + 1 \in 1..Len(cache'[d]) /\ cache'[d][Len(cache[d]) + 1] = a + 1
      BY <1>2, <3>1, <3>2
    <3> QED BY <3>3
  <2>2. CASE Cached(d, a + 1)
    <3>1. cache' = cache
      BY <2>2
    <3>2. PICK i \in 1..Len(cache[d]) : server[cache[d][i]].from = server[a + 1].from
      BY <2>2 DEF Cached
    <3>3. cache[d][i] \in 1..Len(server) /\ Wanted(d, cache[d][i])
      BY DEF CacheIsForeign
    <3>4. "rejected" \notin TeamLayer
      BY SyncConstants DEF TeamLayer
    <3>5. server[cache[d][i]].stream # "rejected" /\ server[a + 1].stream # "rejected"
      BY <1>3, <3>3, <3>4 DEF Wanted
    <3>6. cache[d][i] = a + 1
      BY <1>2, <3>2, <3>3, <3>5 DEF OriginOnce
    <3> QED BY <3>1, <3>6
  <2> QED BY <2>1, <2>2
<1>4. \A n \in 1..(a + 1) : n \in 1..a \/ n = a + 1
  OBVIOUS
<1>5. ASSUME NEW n \in 1..(a + 1), Wanted(d, n)' PROVE \E i \in 1..Len(cache'[d]) : cache'[d][i] = n
  <2>1. CASE n \in 1..a
    BY <1>1, <1>5, <2>1 DEF Covered
  <2>2. CASE n = a + 1
    BY <1>3, <1>5, <2>2 DEF Wanted
  <2> QED BY <1>4, <2>1, <2>2
<1> QED BY <1>5 DEF Covered

\* The cache takes foreign team records only, each once.
LEMMA CacheStep ==
    TypeOK /\ Offered /\ PullCursors /\ CacheIsForeign /\ [Next]_vars => CacheIsForeign'
<1> SUFFICES ASSUME TypeOK, Offered, PullCursors, CacheIsForeign, [Next]_vars, NEW d \in Daemon
             PROVE  /\ \A i \in 1..Len(cache'[d]) : cache'[d][i] \in 1..Len(server') /\ Wanted(d, cache[d][i])'
                    /\ \A i, j \in 1..Len(cache'[d]) :
                         server'[cache'[d][i]].from = server'[cache'[d][j]].from => i = j
  BY DEF CacheIsForeign
<1>1. TypeOK' /\ Grows
  BY TypeStep, GrowsStep
<1>2. /\ Len(server) \in Nat /\ Len(server') \in Nat /\ Len(server) <= Len(server')
      /\ \A n \in 1..Len(server) : server'[n] = server[n]
  BY <1>1, ServerGrown
<1>3. CASE cache'[d] = cache[d]
  <2>1. \A i \in 1..Len(cache[d]) :
          /\ cache[d][i] \in 1..Len(server) /\ Wanted(d, cache[d][i])
          /\ server'[cache[d][i]] = server[cache[d][i]] /\ cache[d][i] \in 1..Len(server')
    BY <1>2 DEF CacheIsForeign
  <2>2. \A i \in 1..Len(cache[d]) : Wanted(d, cache[d][i])'
    BY <1>3, <2>1 DEF Wanted
  <2>3. \A i, j \in 1..Len(cache[d]) : server[cache[d][i]].from = server[cache[d][j]].from => i = j
    BY DEF CacheIsForeign
  <2>4. \A i, j \in 1..Len(cache[d]) : server'[cache[d][i]].from = server'[cache[d][j]].from => i = j
    BY <2>1, <2>3
  <2>5. \A i \in 1..Len(cache[d]) : cache[d][i] \in 1..Len(server')
    BY <2>1
  <2> QED BY <1>3, <2>2, <2>4, <2>5
<1>4. ASSUME NEW r \in PullState, Pulls(d, r), cache'[d] # cache[d]
      PROVE  /\ \A i \in 1..Len(cache'[d]) : cache'[d][i] \in 1..Len(server') /\ Wanted(d, cache[d][i])'
             /\ \A i, j \in 1..Len(cache'[d]) :
                  server'[cache'[d][i]].from = server'[cache'[d][j]].from => i = j
  <2>1. /\ pull[d].pc = "cache" /\ pull[d].at < pull[d].upto /\ r.at = pull[d].at + 1
        /\ Wanted(d, r.at) /\ ~Cached(d, r.at) /\ cache' = [cache EXCEPT ![d] = Append(@, r.at)]
        /\ server' = server
    BY <1>4 DEF Pulls, PullMoves
  <2>2. r.at \in 1..Len(server)
    <3>1. pull[d].upto <= Len(server) /\ pull[d].at \in Nat /\ pull[d].upto \in Nat
      BY <2>1 DEF PullCursors, TypeOK, PullState
    <3> QED BY <1>2, <2>1, <3>1
  <2>3. PICK q \in Seq(Nat) : q = cache[d]
    BY DEF TypeOK
  <2>4. /\ Len(q) \in Nat /\ Len(cache'[d]) = Len(q) + 1 /\ cache'[d][Len(q) + 1] = r.at
        /\ \A i \in 1..Len(q) : cache'[d][i] = q[i]
    <3>1. r.at \in Nat /\ cache'[d] = Append(q, r.at)
      BY <2>1, <2>3 DEF TypeOK, PullState
    <3> QED BY <3>1, AppendFacts
  <2>5. \A i \in 1..Len(cache'[d]) : i \in 1..Len(q) \/ i = Len(q) + 1
    BY <2>4
  <2>6. \A i \in 1..Len(q) : q[i] \in 1..Len(server) /\ Wanted(d, q[i]) /\ server[q[i]].from # server[r.at].from
    BY <2>1, <2>3 DEF CacheIsForeign, Cached
  <2>7. ASSUME NEW i \in 1..Len(cache'[d])
        PROVE  cache'[d][i] \in 1..Len(server') /\ Wanted(d, cache[d][i])'
    BY <2>1, <2>2, <2>4, <2>5, <2>6 DEF Wanted
  <2>8. ASSUME NEW i \in 1..Len(cache'[d]), NEW j \in 1..Len(cache'[d]),
               server'[cache'[d][i]].from = server'[cache'[d][j]].from
        PROVE  i = j
    <3>1. CASE i \in 1..Len(q) /\ j \in 1..Len(q)
      BY <2>1, <2>3, <2>4, <2>8, <3>1 DEF CacheIsForeign
    <3>2. CASE i = Len(q) + 1 \/ j = Len(q) + 1
      BY <2>1, <2>4, <2>5, <2>6, <2>8, <3>2
    <3> QED BY <2>5, <3>1, <3>2
  <2> QED BY <2>7, <2>8
<1>5. ASSUME NEW e \in Daemon, NEW r \in PullState, Pulls(e, r), e # d PROVE cache'[d] = cache[d]
  BY <1>5 DEF Pulls, PullMoves, TypeOK
<1> QED BY <1>3, <1>4, <1>5, StepCases DEF Writes, Receives, Pushes, Ends, Begins, Stands

\* A pull cursor only takes a value the cache covers.
LEMMA PullCursorStep ==
    TypeOK /\ Offered /\ OriginOnce /\ CacheIsForeign /\ PullCursors /\ [Next]_vars => PullCursors'
<1> SUFFICES ASSUME TypeOK, Offered, OriginOnce, CacheIsForeign, PullCursors, [Next]_vars, NEW d \in Daemon
             PROVE  /\ Covered(d, saved[d].pull)' /\ Covered(d, push[d].state.pull)'
                    /\ Covered(d, pull[d].state.pull)'
                    /\ pull'[d].pc = "cache" =>
                         /\ Covered(d, pull[d].at)'
                         /\ pull'[d].at <= pull'[d].upto /\ pull'[d].upto <= Len(server')
  BY DEF PullCursors
<1>1. TypeOK' /\ Grows
  BY TypeStep, GrowsStep
<1>2. /\ saved[d].pull \in Nat /\ push[d].state.pull \in Nat /\ pull[d].state.pull \in Nat
      /\ pull[d].at \in Nat /\ pull[d].upto \in Nat
  BY DEF TypeOK, PushState, PullState, State
<1>3. Len(server) \in Nat /\ Len(server') \in Nat /\ Len(server) <= Len(server')
  BY <1>1 DEF TypeOK, Grows, Grown
<1>4. Covered(d, 0)
  BY <1>3 DEF Covered
<1> DEFINE Old(c) == \/ c \in {0, saved[d].pull, push[d].state.pull, pull[d].state.pull}
                     \/ c = pull[d].at /\ pull[d].pc = "cache"
<1>5. ASSUME NEW c, Old(c) PROVE c \in Nat /\ Covered(d, c)
  BY <1>2, <1>4, <1>5 DEF PullCursors
<1> HIDE DEF Old
<1>6. ASSUME NEW c, Old(c) PROVE Covered(d, c)'
  BY <1>1, <1>5, <1>6, CoveredKept
<1>7. Old(saved'[d].pull) /\ Old(push'[d].state.pull) /\ Old(pull'[d].state.pull)
  <2>1. CASE UNCHANGED <<saved, push, pull>>
    BY <2>1 DEF Old
  <2>2. ASSUME NEW e \in Daemon, NEW r \in PushState, Pushes(e, r)
        PROVE  Old(saved'[d].pull) /\ Old(push'[d].state.pull) /\ Old(pull'[d].state.pull)
    <3>1. pull' = pull /\ push'[e] = r /\ (e # d => push'[d] = push[d])
      BY <2>2 DEF Pushes, TypeOK
    <3>2. saved'[d] \in {saved[d], push[d].state}
      BY <2>2 DEF Pushes, PushMoves, TypeOK
    <3>3. r.state.pull \in {0, saved[e].pull, push[e].state.pull}
      BY <2>2 DEF Pushes, PushMoves, Advances, NoPush
    <3> QED BY <3>1, <3>2, <3>3 DEF Old
  <2>3. ASSUME NEW e \in Daemon, NEW r \in PullState, Pulls(e, r)
        PROVE  Old(saved'[d].pull) /\ Old(push'[d].state.pull) /\ Old(pull'[d].state.pull)
    <3>1. push' = push /\ pull'[e] = r /\ (e # d => pull'[d] = pull[d])
      BY <2>3 DEF Pulls, TypeOK
    <3>2. saved'[d] \in {saved[d], pull[d].state}
      BY <2>3 DEF Pulls, PullMoves, TypeOK
    <3>3. \/ r.state.pull \in {0, saved[e].pull, pull[e].state.pull}
          \/ r.state.pull = pull[e].at /\ pull[e].pc = "cache"
      BY <2>3 DEF Pulls, PullMoves, NoPull
    <3> QED BY <3>1, <3>2, <3>3 DEF Old
  <2> QED BY <2>1, <2>2, <2>3, StepCases DEF Writes, Receives, Ends, Begins, Stands
<1>8. ASSUME pull'[d].pc = "cache"
      PROVE  /\ Covered(d, pull[d].at)'
             /\ pull'[d].at <= pull'[d].upto /\ pull'[d].upto <= Len(server')
  <2>1. CASE pull'[d] = pull[d]
    <3>1. pull[d].at <= pull[d].upto /\ pull[d].upto <= Len(server) /\ Old(pull[d].at)
      BY <1>8, <2>1 DEF PullCursors, Old
    <3>2. Covered(d, pull[d].at)'
      BY <1>6, <2>1, <3>1 DEF Covered
    <3> QED BY <1>2, <1>3, <2>1, <3>1, <3>2
  <2>2. ASSUME NEW r \in PullState, Pulls(d, r)
        PROVE  /\ Covered(d, pull[d].at)'
               /\ pull'[d].at <= pull'[d].upto /\ pull'[d].upto <= Len(server')
    <3>1. pull'[d] = r /\ server' = server
      BY <2>2 DEF Pulls, TypeOK
    <3>2. CASE /\ r.at = pull[d].state.pull
               /\ r.upto = Smaller(Len(server), pull[d].state.pull + PullLimit)
      <4>1. Covered(d, r.at)' /\ pull[d].state.pull <= Len(server)
        BY <1>6, <3>2 DEF Old, PullCursors, Covered
      <4>2. PullLimit \in Nat
        BY SyncConstants
      <4>3. r.at <= r.upto /\ r.upto <= Len(server)
        BY <1>2, <1>3, <3>2, <4>1, <4>2 DEF Smaller
      <4> QED BY <3>1, <4>1, <4>3 DEF Covered
    <3>3. CASE /\ pull[d].pc = "cache" /\ pull[d].at < pull[d].upto /\ r.upto = pull[d].upto
               /\ r.at = pull[d].at + 1
               /\ IF Wanted(d, r.at) /\ ~Cached(d, r.at)
                  THEN cache' = [cache EXCEPT ![d] = Append(@, r.at)]
                  ELSE cache' = cache
      <4>1. Covered(d, pull[d].at) /\ pull[d].upto <= Len(server)
        BY <3>3 DEF PullCursors
      <4>2. PICK a \in Nat : a = pull[d].at
        BY <1>2
      <4>3. a + 1 <= Len(server) /\ a + 1 <= r.upto
        BY <1>2, <1>3, <3>3, <4>1, <4>2
      <4>4. Covered(d, a + 1)'
        BY <1>1, <3>1, <3>3, <4>1, <4>2, <4>3, RecordCovered
      <4> QED BY <3>1, <3>3, <4>1, <4>2, <4>3, <4>4 DEF Covered
    <3>4. r.pc = "cache"
      BY <1>8, <3>1
    <3> QED BY <2>2, <3>2, <3>3, <3>4 DEF Pulls, PullMoves, NoPull
  <2>3. ASSUME NEW e \in Daemon, NEW r \in PullState, Pulls(e, r), e # d PROVE pull'[d] = pull[d]
    BY <2>3 DEF Pulls, TypeOK
  <2> QED BY <2>1, <2>2, <2>3, StepCases DEF Writes, Receives, Pushes, Ends, Begins, Stands
<1> QED BY <1>6, <1>7, <1>8 DEF Covered

-----------------------------------------------------------------------------
\* The inductive invariant.
IInv ==
    /\ TypeOK /\ Offered /\ Origins /\ OriginOnce /\ SignedVersionKept
    /\ PushCursors /\ DoneIsAll /\ InService /\ Waiting
    /\ CacheIsForeign /\ PullCursors

\* Empty ledgers and idle processes satisfy it.
LEMMA InitIInv == Init => IInv
<1> SUFFICES ASSUME Init PROVE IInv
  OBVIOUS
<1>1. TypeOK
  BY DEF Init, TypeOK, NoPush, NoPull, PushState, PullState, State
<1>2. Offered /\ Origins /\ OriginOnce /\ SignedVersionKept
  BY DEF Init, Offered, Origins, OriginOnce, SignedVersionKept, NoPush
<1>3. PushCursors /\ DoneIsAll /\ InService /\ Waiting
  BY DEF Init, PushCursors, Passed, DoneIsAll, InService, Waiting, NoPush, NoPull
<1>4. CacheIsForeign /\ PullCursors
  BY DEF Init, CacheIsForeign, PullCursors, Covered, NoPush, NoPull
<1> QED BY <1>1, <1>2, <1>3, <1>4 DEF IInv

\* The inductive invariant holds of every reachable state.
THEOREM SyncInvariant == Spec => []IInv
<1>1. IInv /\ [Next]_vars => IInv'
  BY TypeStep, OfferedStep, OriginsStep, OriginOnceStep, SignedStep, CursorStep, DoneStep, InServiceStep,
     WaitingStep, CacheStep, PullCursorStep DEF IInv
<1> QED BY <1>1, InitIInv, PTL DEF Spec

\* The variables have their types.
THEOREM SyncTypeOK == Spec => []TypeOK
<1>1. IInv => TypeOK
  BY DEF IInv
<1> QED BY <1>1, SyncInvariant, PTL

\* Whatever is retried or processed late, the server accepts a record once.
THEOREM SyncOriginOnce == Spec => []OriginOnce
<1>1. IInv => OriginOnce
  BY DEF IInv
<1> QED BY <1>1, SyncInvariant, PTL

\* The server's copy has the version its daemon signed.
THEOREM SyncSignedVersion == Spec => []SignedVersionKept
<1>1. IInv => SignedVersionKept
  BY DEF IInv
<1> QED BY <1>1, SyncInvariant, PTL

\* A session that was not shared never reaches the server.
THEOREM SyncUnsharedStaysLocal == Spec => []UnsharedSessionStaysLocal
<1>1. IInv => UnsharedSessionStaysLocal
  BY DEF IInv, Origins, SharedLocally, UnsharedSessionStaysLocal
<1> QED BY <1>1, SyncInvariant, PTL

\* Behind the saved push cursor everything was answered for.
THEOREM SyncCursorMeansAnswered == Spec => []CursorMeansAnswered
<1>1. IInv => CursorMeansAnswered
  BY DEF IInv, PushCursors, Passed, Answered, CursorMeansAnswered
<1> QED BY <1>1, SyncInvariant, PTL

\* Behind the saved pull cursor the team cache is the team layer.
THEOREM SyncCacheIsTeamLayer == Spec => []CacheIsTeamLayer
<1>1. IInv => CacheIsTeamLayer
  BY DEF IInv, CacheIsForeign, PullCursors, Covered, Wanted, CacheIsTeamLayer
<1> QED BY <1>1, SyncInvariant, PTL
=============================================================================
