--------------------------- MODULE PipelineProofs ---------------------------
(***************************************************************************)
(* Proofs about the command pipeline, for any set of handlers, commands    *)
(* and contexts and any Decide: its type invariant, KeyOnce, that streams  *)
(* only grow, that it implements CommandLog, and what its callers may rely *)
(* on.  Then, of the scopes and gates behind the pipeline, that a gate is  *)
(* answered once and a scope stays within its cap.                         *)
(*                                                                         *)
(* An append implements Execute because the history it was decided on is a *)
(* prefix of the stream (HistIsPrefix) of the stream's length (the version *)
(* check), hence the stream itself.                                        *)
(***************************************************************************)
EXTENDS LedgerAggregates, SequenceTheorems, FiniteSetTheorems, WellFoundedInduction, TLAPS

\* Facts about the locals of a running handle().

\* What a handler has read is a prefix of its stream: streams only grow.
HistIsPrefix ==
    \A h \in Handler :
        /\ pc[h] \in {"idle", "lookup", "load"} => hist[h] = << >>
        /\ pc[h] # "idle" =>
             /\ Len(hist[h]) <= Len(log[Cmd(h).stream])
             /\ \A i \in 1..Len(hist[h]) : hist[h][i] = log[Cmd(h).stream][i]

\* Only an authorized command gets past step 1 without being refused.
PastAuthorize ==
    \A h \in Handler : pc[h] \notin {"idle", "reject"} => Cmd(h).valid

\* A decision in flight is Decide of the history that was read, in some context.
DecidedOnHist ==
    \A h \in Handler :
        /\ pc[h] = "append" =>
             /\ ~dec[h].refused
             /\ dec[h].evs # << >>
             /\ \E x \in Context : dec[h] = Decide(hist[h], Cmd(h), x)
        /\ pc[h] = "reject" /\ Cmd(h).valid =>
             /\ dec[h].refused
             /\ \E x \in Context : dec[h] = Decide(hist[h], Cmd(h), x)

\* The inductive invariant.
IInv == TypeOK /\ KeyOnce /\ HistIsPrefix /\ PastAuthorize /\ DecidedOnHist

-----------------------------------------------------------------------------
\* What sealing a batch yields: records of the right kind, one per event, the
\* key on the first only.
LEMMA SealFacts ==
    ASSUME NEW evs \in Seq(Event), NEW key \in Key \union {NoKey}
    PROVE  /\ Seal(evs, key) \in Seq(Record)
           /\ Len(Seal(evs, key)) = Len(evs)
           /\ \A i \in 1..Len(evs) :
                /\ Seal(evs, key)[i].ev = evs[i]
                /\ Seal(evs, key)[i].key = IF i = 1 THEN key ELSE NoKey
<1> DEFINE f == Seal(evs, key)
<1>1. f = [i \in 1..Len(evs) |-> [ev |-> evs[i], key |-> IF i = 1 THEN key ELSE NoKey]]
  BY DEF Seal, Abs!Seal
<1>2. Len(evs) \in Nat
  OBVIOUS
<1>3. \A i \in 1..Len(evs) : f[i] \in Record
  BY <1>1 DEF Record, Abs!Record
<1> HIDE DEF f
<1>4. f \in Seq(Record) /\ Len(f) = Len(evs)
  BY <1>1, <1>2, <1>3
<1> QED
  BY <1>1, <1>4 DEF f

\* A stream's log extended by a sealed batch keeps its old records in place.
LEMMA ConcatFacts ==
    ASSUME NEW S, NEW a \in Seq(S), NEW b \in Seq(S)
    PROVE  /\ a \o b \in Seq(S)
           /\ Len(a \o b) = Len(a) + Len(b)
           /\ \A i \in 1..Len(a) : (a \o b)[i] = a[i]
           /\ \A i \in 1..Len(b) : (a \o b)[Len(a) + i] = b[i]
OBVIOUS

\* A running handler serves a command that was sent.
LEMMA CmdType ==
    ASSUME TypeOK, NEW h \in Handler, pc[h] # "idle"
    PROVE  /\ ticket[h] \in 1..Len(sent)
           /\ ticket[h] \in 1..MaxSubmits
           /\ Cmd(h) \in Command
           /\ Cmd(h).stream \in Stream
           /\ Cmd(h).stream \in AllStreams
           /\ Cmd(h).key \in Key \union {NoKey}
           /\ Cmd(h).valid \in BOOLEAN
<1>1. ticket[h] \in 1..Len(sent) /\ ticket[h] \in 1..MaxSubmits
  BY MaxSubmitsIsNat DEF TypeOK
<1>2. Cmd(h) \in Command
  BY <1>1 DEF TypeOK, Cmd
<1> QED
  BY <1>1, <1>2, CommandsAreTyped DEF AllStreams, Abs!AllStreams

\* Handle's return keeps the types of the handler's locals.
LEMMA RespondType ==
    ASSUME TypeOK, NEW h \in Handler, pc[h] # "idle",
           NEW r \in {"ok", "replayed", "noop", "rejected", "unrecorded",
                      "conflict", "error", "projection"},
           NEW from \in Nat, NEW ver \in Nat, Respond(h, r, from, ver),
           log' \in [AllStreams -> Seq(Record)]
    PROVE  TypeOK'
<1>1. ticket[h] \in 1..MaxSubmits
  BY CmdType
<1>2. [res |-> r, from |-> from, ver |-> ver] \in Answer
  BY DEF Answer
<1>3. answers' \in [1..MaxSubmits -> Answer]
  BY <1>1, <1>2 DEF TypeOK, Respond
<1>4. dec' \in [Handler -> Outcome]
  BY DEF TypeOK, Respond, NoDecision, Outcome, Abs!Outcome
<1>5. hist' \in [Handler -> Seq(Record)]
  BY DEF TypeOK, Respond
<1>6. pc' \in [Handler -> Steps] /\ \A k \in Handler : pc'[k] # "idle" => pc[k] # "idle"
  BY DEF TypeOK, Respond, Goto, Steps
<1> QED
  BY <1>3, <1>4, <1>5, <1>6 DEF TypeOK, Respond

\* The version Lookup answers with is one of the stream's.
LEMMA VersionOfFacts ==
    ASSUME TypeOK, NEW s \in AllStreams, NEW key, Applied(s, key)
    PROVE  /\ VersionOf(s, key) \in 1..Len(log[s])
           /\ VersionOf(s, key) \in Nat
           /\ log[s][VersionOf(s, key)].key = key
<1>1. \E i \in 1..Len(log[s]) : log[s][i].key = key
  BY DEF Applied, Abs!Applied
<1>2. /\ VersionOf(s, key) \in 1..Len(log[s])
      /\ log[s][VersionOf(s, key)].key = key
  BY <1>1, Zenon DEF VersionOf
<1>3. Len(log[s]) \in Nat
  BY DEF TypeOK
<1> QED
  BY <1>2, <1>3

\* Type correctness is inductive.
LEMMA TypeStep == TypeOK /\ [Next]_vars => TypeOK'
<1> SUFFICES ASSUME TypeOK, [Next]_vars PROVE TypeOK'
  OBVIOUS
<1> USE DEF Steps
<1>1. ASSUME NEW h \in Handler, NEW c \in Command, Submit(h, c) PROVE TypeOK'
  <2>1. sent' \in Seq(Command) /\ Len(sent') = Len(sent) + 1 /\ Len(sent') <= MaxSubmits
    BY <1>1, MaxSubmitsIsNat DEF TypeOK, Submit
  <2>2. pc' \in [Handler -> Steps] /\ \A k \in Handler : k # h => pc'[k] = pc[k]
    BY <1>1 DEF TypeOK, Submit, Goto
  <2>3. ticket' \in [Handler -> 0..Len(sent')] /\ ticket'[h] = Len(sent) + 1
        /\ \A k \in Handler : k # h => ticket'[k] = ticket[k]
    BY <1>1, <2>1 DEF TypeOK, Submit
  <2> QED
    BY <1>1, <2>1, <2>2, <2>3 DEF TypeOK, Submit
<1>2. ASSUME NEW h \in Handler, Lookup(h) PROVE TypeOK'
  <2>1. CASE Applied(Cmd(h).stream, Cmd(h).key)
    <3>1. VersionOf(Cmd(h).stream, Cmd(h).key) \in Nat
      BY <1>2, <2>1, CmdType, VersionOfFacts DEF Lookup
    <3> QED
      BY <1>2, <2>1, <3>1, RespondType DEF Lookup, TypeOK
  <2>2. CASE ~Applied(Cmd(h).stream, Cmd(h).key)
    BY <1>2, <2>2 DEF Lookup, TypeOK, Goto
  <2> QED
    BY <2>1, <2>2
<1>3. ASSUME NEW h \in Handler, Load(h) PROVE TypeOK'
  <2>1. log[Cmd(h).stream] \in Seq(Record)
    BY <1>3, CmdType DEF Load, TypeOK
  <2> QED
    BY <1>3, <2>1 DEF Load, TypeOK, Goto
<1>4. ASSUME NEW h \in Handler, DecideStep(h) PROVE TypeOK'
  <2>1. PICK x \in Context :
          LET d == Decide(hist[h], Cmd(h), x) IN
          /\ d \in Outcome
          /\ IF ~d.refused /\ d.evs = << >>
             THEN Respond(h, "noop", 0, Len(hist[h]))
             ELSE /\ dec' = [dec EXCEPT ![h] = d]
                  /\ Goto(h, IF d.refused THEN "reject" ELSE "append")
                  /\ UNCHANGED <<ticket, sent, hist, answers>>
    BY <1>4 DEF DecideStep
  <2> DEFINE d == Decide(hist[h], Cmd(h), x)
  <2>2. CASE ~d.refused /\ d.evs = << >>
    <3>1. Len(hist[h]) \in Nat
      BY DEF TypeOK
    <3> QED
      BY <1>4, <2>1, <2>2, <3>1, RespondType DEF DecideStep, TypeOK
  <2>3. CASE ~(~d.refused /\ d.evs = << >>)
    BY <1>4, <2>1, <2>3 DEF DecideStep, TypeOK, Goto
  <2> QED
    BY <2>2, <2>3
<1>5. ASSUME NEW h \in Handler, AppendBatch(h) PROVE TypeOK'
  <2> DEFINE s == Cmd(h).stream
             batch == Seal(dec[h].evs, Cmd(h).key)
  <2>1. s \in AllStreams /\ pc[h] # "idle"
    BY <1>5, CmdType DEF AppendBatch
  <2>2. batch \in Seq(Record)
    BY <1>5, CmdType, SealFacts DEF AppendBatch, TypeOK, Outcome, Abs!Outcome
  <2>3. CASE log' = [log EXCEPT ![s] = @ \o batch]
    <3>1. log[s] \o batch \in Seq(Record)
      BY <2>1, <2>2, ConcatFacts DEF TypeOK
    <3>2. log' \in [AllStreams -> Seq(Record)]
      BY <2>3, <3>1 DEF TypeOK
    <3>3. CASE Respond(h, "error", 0, 0)
      BY <2>1, <3>2, <3>3, RespondType
    <3>4. CASE Goto(h, "publish") /\ UNCHANGED <<ticket, sent, hist, dec, answers>>
      BY <3>2, <3>4, <2>1 DEF TypeOK, Goto
    <3>5. CASE UNCHANGED log /\ Respond(h, "conflict", 0, 0)
      BY <2>1, <3>2, <3>5, RespondType
    <3>6. CASE Goto(h, "replay") /\ UNCHANGED <<log, ticket, sent, hist, dec, answers>>
      BY <3>2, <3>6, <2>1 DEF TypeOK, Goto
    <3> QED
      BY <1>5, <3>3, <3>4, <3>5, <3>6 DEF AppendBatch
  <2>4. CASE UNCHANGED log /\ Respond(h, "conflict", 0, 0)
    BY <2>1, <2>4, RespondType DEF TypeOK
  <2>5. CASE Goto(h, "replay") /\ UNCHANGED <<log, ticket, sent, hist, dec, answers>>
    BY <2>1, <2>5 DEF TypeOK, Goto
  <2> QED
    BY <1>5, <2>3, <2>4, <2>5 DEF AppendBatch
<1>6. ASSUME NEW h \in Handler, ReplayLookup(h) PROVE TypeOK'
  <2>1. VersionOf(Cmd(h).stream, Cmd(h).key) \in Nat
    BY <1>6, CmdType, VersionOfFacts DEF ReplayLookup
  <2> QED
    BY <1>6, <2>1, RespondType DEF ReplayLookup, TypeOK
<1>0. ASSUME NEW h \in Handler, pc[h] = "reject" PROVE Recorded(h) \in [AllStreams -> Seq(Record)]
  <2> DEFINE r == [ev |-> [rejected |-> Cmd(h)], key |-> NoKey]
  <2>1. r \in Record
    BY <1>0, CmdType DEF Record, Abs!Record, Abs!RejectedEvent
  <2>2. RejectedStream \in AllStreams
    BY DEF AllStreams, Abs!AllStreams
  <2>3. Append(log[RejectedStream], r) \in Seq(Record)
    BY <2>1, <2>2 DEF TypeOK
  <2> QED
    BY <2>2, <2>3 DEF Recorded, TypeOK
<1>7. ASSUME NEW h \in Handler, RecordRejection(h) PROVE TypeOK'
  <2>1. Len(hist[h]) \in Nat
    BY DEF TypeOK
  <2> QED
    BY <1>0, <1>7, <2>1, RespondType DEF RecordRejection
<1>8. ASSUME NEW h \in Handler, RecordRejectionFails(h) PROVE TypeOK'
  <2>1. Len(hist[h]) \in Nat
    BY DEF TypeOK
  <2> QED
    BY <1>0, <1>8, <2>1, RespondType DEF RecordRejectionFails, TypeOK
<1>9. ASSUME NEW h \in Handler, Publish(h) PROVE TypeOK'
  <2>1. Len(hist[h]) + 1 \in Nat /\ Len(hist[h]) + Len(dec[h].evs) \in Nat
    BY DEF TypeOK, Outcome, Abs!Outcome
  <2>2. PICK res \in {"ok", "projection"}, from \in Nat, ver \in Nat : Respond(h, res, from, ver)
    BY <1>9, <2>1 DEF Publish
  <2>3. pc[h] # "idle" /\ log' \in [AllStreams -> Seq(Record)]
    BY <1>9 DEF Publish, TypeOK
  <2> QED
    BY <2>2, <2>3, RespondType
<1>10. ASSUME NEW h \in Handler, Fail(h) PROVE TypeOK'
  BY <1>10, RespondType DEF Fail, TypeOK
<1>11. ASSUME NEW h \in Handler, Crash(h) PROVE TypeOK'
  BY <1>0, <1>11 DEF Crash, TypeOK, Goto, NoDecision, Outcome, Abs!Outcome
<1>12. CASE UNCHANGED vars
  BY <1>12 DEF TypeOK, vars
<1> QED
  BY <1>1, <1>2, <1>3, <1>4, <1>5, <1>6, <1>7, <1>8, <1>9, <1>10, <1>11, <1>12
     DEF Next, Quiescent

-----------------------------------------------------------------------------
\* The two ways a step writes the ledger.
Writes(h) ==
    /\ pc[h] = "append"
    /\ ~Applied(Cmd(h).stream, Cmd(h).key)
    /\ Len(log[Cmd(h).stream]) = Len(hist[h])
    /\ log' = [log EXCEPT ![Cmd(h).stream] = @ \o Seal(dec[h].evs, Cmd(h).key)]

Refuses(h) ==
    /\ pc[h] = "reject"
    /\ log' = Recorded(h)

\* Every step leaves the ledger alone or writes it in one of those ways.
LEMMA LogCases ==
    ASSUME [Next]_vars
    PROVE  UNCHANGED log \/ \E h \in Handler : Writes(h) \/ Refuses(h)
<1>1. ASSUME NEW h \in Handler, AppendBatch(h) PROVE UNCHANGED log \/ Writes(h)
  BY <1>1 DEF AppendBatch, Writes
<1>2. ASSUME NEW h \in Handler, RecordRejection(h) \/ RecordRejectionFails(h) \/ Crash(h)
      PROVE  UNCHANGED log \/ Refuses(h)
  BY <1>2 DEF RecordRejection, RecordRejectionFails, Crash, Refuses
<1>3. ASSUME NEW h \in Handler,
             \/ \E c \in Command : Submit(h, c)
             \/ Lookup(h) \/ Load(h) \/ DecideStep(h) \/ ReplayLookup(h)
             \/ Publish(h) \/ Fail(h)
      PROVE  UNCHANGED log
  BY <1>3 DEF Submit, Lookup, Load, DecideStep, ReplayLookup, Publish, Fail
<1>4. CASE UNCHANGED vars
  BY <1>4 DEF vars
<1> QED
  BY <1>1, <1>2, <1>3, <1>4 DEF Next, Quiescent

\* What a write does to the stream it extends and to the others.
Extended(s, key, evs, n, m) ==
    /\ Len(log'[s]) = n + m
    /\ \A i \in 1..n : log'[s][i] = log[s][i]
    /\ \A i \in 1..m : /\ log'[s][n + i].ev = evs[i]
                       /\ log'[s][n + i].key = IF i = 1 THEN key ELSE NoKey
    /\ \A r \in AllStreams : r # s => log'[r] = log[r]

\* An append extends its stream by the sealed batch and touches no other.
LEMMA WritesFacts ==
    ASSUME TypeOK, NEW h \in Handler, Writes(h),
           NEW s \in AllStreams, s = Cmd(h).stream,
           NEW key \in Key \union {NoKey}, key = Cmd(h).key,
           NEW evs \in Seq(Event), evs = dec[h].evs,
           NEW n \in Nat, n = Len(log[s]), NEW m \in Nat, m = Len(evs)
    PROVE  Extended(s, key, evs, n, m)
<1>1. PICK old \in Seq(Record) : old = log[s]
  BY DEF TypeOK
<1>2. PICK batch \in Seq(Record) : batch = Seal(evs, key)
  BY SealFacts
<1>3. /\ Len(batch) = m
      /\ \A i \in 1..m :
           /\ batch[i].ev = evs[i]
           /\ batch[i].key = IF i = 1 THEN key ELSE NoKey
  BY <1>2, SealFacts
<1>4. log'[s] = old \o batch /\ \A r \in AllStreams : r # s => log'[r] = log[r]
  BY <1>1, <1>2 DEF Writes, TypeOK
<1>5. /\ Len(old \o batch) = Len(old) + Len(batch)
      /\ \A i \in 1..Len(old) : (old \o batch)[i] = old[i]
      /\ \A i \in 1..Len(batch) : (old \o batch)[Len(old) + i] = batch[i]
  OBVIOUS
<1>6. /\ Len(log'[s]) = n + m
      /\ \A i \in 1..n : log'[s][i] = log[s][i]
      /\ \A i \in 1..m : log'[s][n + i] = batch[i]
  <2>1. PICK q : q = old \o batch
    OBVIOUS
  <2>2. /\ Len(q) = Len(old) + Len(batch)
        /\ \A i \in 1..Len(old) : q[i] = old[i]
        /\ \A i \in 1..Len(batch) : q[Len(old) + i] = batch[i]
    BY <1>5, <2>1
  <2>3. log'[s] = q /\ log[s] = old /\ Len(old) = n
    BY <1>1, <1>4, <2>1
  <2> QED BY <1>3, <2>2, <2>3
<1>7. ASSUME NEW i \in 1..m
      PROVE  /\ log'[s][n + i].ev = evs[i]
             /\ log'[s][n + i].key = IF i = 1 THEN key ELSE NoKey
  <2>1. log'[s][n + i] = batch[i]
    BY <1>6
  <2>2. batch[i].ev = evs[i] /\ batch[i].key = IF i = 1 THEN key ELSE NoKey
    BY <1>3
  <2> QED
    BY <2>1, <2>2
<1> QED
  BY <1>4, <1>6, <1>7 DEF Extended

\* Names for the parts of a write.
LEMMA WriteParts ==
    ASSUME TypeOK, NEW h \in Handler, Writes(h)
    PROVE  /\ Cmd(h).stream \in AllStreams
           /\ Cmd(h).stream # RejectedStream
           /\ Cmd(h).key \in Key \union {NoKey}
           /\ dec[h].evs \in Seq(Event)
           /\ Len(dec[h].evs) \in Nat
           /\ Len(log[Cmd(h).stream]) \in Nat
<1>1. /\ Cmd(h).stream \in AllStreams
      /\ Cmd(h).stream # RejectedStream
      /\ Cmd(h).key \in Key \union {NoKey}
  BY CmdType, NamesAreDistinct DEF Writes
<1>2. dec[h].evs \in Seq(Event)
  BY DEF TypeOK, Outcome, Abs!Outcome
<1>3. log[Cmd(h).stream] \in Seq(Record)
  BY <1>1 DEF TypeOK
<1> QED
  BY <1>1, <1>2, <1>3

\* What a recorded refusal does to the Rejected stream and to the others.
LEMMA RefusesFacts ==
    ASSUME TypeOK, NEW h \in Handler, Refuses(h)
    PROVE  /\ RejectedStream \in AllStreams
           /\ Len(log'[RejectedStream]) = Len(log[RejectedStream]) + 1
           /\ \A i \in 1..Len(log[RejectedStream]) :
                log'[RejectedStream][i] = log[RejectedStream][i]
           /\ log'[RejectedStream][Len(log[RejectedStream]) + 1].key = NoKey
           /\ \A r \in AllStreams : r # RejectedStream => log'[r] = log[r]
<1>1. RejectedStream \in AllStreams
  BY DEF AllStreams, Abs!AllStreams
<1>2. log[RejectedStream] \in Seq(Record)
  BY <1>1 DEF TypeOK
<1>3. /\ log'[RejectedStream] =
              Append(log[RejectedStream], [ev |-> [rejected |-> Cmd(h)], key |-> NoKey])
      /\ \A r \in AllStreams : r # RejectedStream => log'[r] = log[r]
  BY <1>1 DEF Refuses, Recorded, TypeOK
<1> QED
  BY <1>1, <1>2, <1>3

\* No step rewrites a stream.
LEMMA AppendOnlyLemma == TypeOK /\ [Next]_vars => AppendOnlyStep
<1> SUFFICES ASSUME TypeOK, [Next]_vars PROVE AppendOnlyStep
  OBVIOUS
<1> SUFFICES ASSUME NEW s \in AllStreams
             PROVE  /\ Len(log[s]) <= Len(log'[s])
                    /\ \A i \in 1..Len(log[s]) : log'[s][i] = log[s][i]
  BY DEF AppendOnlyStep
<1>1. Len(log[s]) \in Nat
  BY DEF TypeOK
<1>2. CASE UNCHANGED log
  BY <1>1, <1>2
<1>3. ASSUME NEW h \in Handler, Writes(h)
      PROVE  /\ Len(log[s]) <= Len(log'[s])
             /\ \A i \in 1..Len(log[s]) : log'[s][i] = log[s][i]
  <2>1. PICK q \in AllStreams, key \in Key \union {NoKey}, evs \in Seq(Event),
             n \in Nat, m \in Nat :
          /\ q = Cmd(h).stream /\ key = Cmd(h).key /\ evs = dec[h].evs
          /\ n = Len(log[q]) /\ m = Len(evs)
    BY <1>3, WriteParts
  <2>2. Extended(q, key, evs, n, m)
    BY <1>3, <2>1, WritesFacts
  <2>3. CASE s = q
    <3>1. Len(log[s]) = n /\ Len(log'[s]) = n + m
      BY <2>1, <2>2, <2>3 DEF Extended
    <3>2. \A i \in 1..n : log'[s][i] = log[s][i]
      BY <2>2, <2>3 DEF Extended
    <3>3. n <= n + m
      OBVIOUS
    <3> QED
      BY <3>1, <3>2, <3>3
  <2>4. CASE s # q
    BY <1>1, <2>2, <2>4 DEF Extended
  <2> QED
    BY <2>3, <2>4
<1>4. ASSUME NEW h \in Handler, Refuses(h)
      PROVE  /\ Len(log[s]) <= Len(log'[s])
             /\ \A i \in 1..Len(log[s]) : log'[s][i] = log[s][i]
  BY <1>1, <1>4, RefusesFacts
<1> QED
  BY <1>2, <1>3, <1>4, LogCases

\* KeyOnce is preserved: a batch carries its key once, on a record of a stream
\* where the key was not applied at that very moment.
LEMMA KeyOnceStep == TypeOK /\ KeyOnce /\ [Next]_vars => KeyOnce'
<1> SUFFICES ASSUME TypeOK, KeyOnce, [Next]_vars PROVE KeyOnce'
  OBVIOUS
<1> SUFFICES ASSUME NEW s \in AllStreams,
                    NEW i \in 1..Len(log'[s]), NEW j \in 1..Len(log'[s]),
                    log'[s][i].key = log'[s][j].key, log'[s][i].key # NoKey
             PROVE  i = j
  BY DEF KeyOnce
<1>1. Len(log[s]) \in Nat
  BY DEF TypeOK
<1>2. CASE UNCHANGED log
  BY <1>2 DEF KeyOnce
<1>3. ASSUME NEW h \in Handler, Writes(h) PROVE i = j
  <2>0. PICK q \in AllStreams, key \in Key \union {NoKey}, evs \in Seq(Event),
             n \in Nat, m \in Nat :
          /\ q = Cmd(h).stream /\ key = Cmd(h).key /\ evs = dec[h].evs
          /\ n = Len(log[q]) /\ m = Len(evs)
    BY <1>3, WriteParts
  <2>x. Extended(q, key, evs, n, m)
    BY <1>3, <2>0, WritesFacts
  <2>1. /\ Len(log'[q]) = n + m
        /\ \A k \in 1..n : log'[q][k] = log[q][k]
        /\ \A k \in 1..m : log'[q][n + k].key = IF k = 1 THEN key ELSE NoKey
        /\ \A r \in AllStreams : r # q => log'[r] = log[r]
    BY <2>x DEF Extended
  <2>2. CASE s # q
    BY <2>1, <2>2 DEF KeyOnce
  <2>3. CASE s = q
    <3>1. ASSUME NEW k \in 1..n PROVE log[s][k].key # key \/ key = NoKey
      BY <1>3, <2>0, <2>3, <3>1 DEF Writes, Applied, Abs!Applied
    <3>2. ASSUME NEW k \in 1..Len(log'[s]), k > n, log'[s][k].key # NoKey
          PROVE  k = n + 1 /\ log'[s][k].key = key
      <4>0. Len(log'[s]) = n + m /\ n \in Nat /\ m \in Nat
        BY <2>1, <2>3
      <4>1. k - n \in 1..m /\ k = n + (k - n)
        BY <3>2, <4>0
      <4>2. log'[s][n + (k - n)].key = IF k - n = 1 THEN key ELSE NoKey
        BY <2>1, <2>3, <4>1
      <4>3. log'[s][k].key = IF k - n = 1 THEN key ELSE NoKey
        BY <4>1, <4>2
      <4>4. k - n = 1
        BY <3>2, <4>3
      <4> QED
        BY <2>1, <4>1, <4>3, <4>4
    <3>3. CASE i <= n /\ j <= n
      <4>1. i \in 1..n /\ j \in 1..n
        BY <2>1, <3>3
      <4>2. log[s][i].key = log[s][j].key /\ log[s][i].key # NoKey
        BY <2>1, <2>3, <4>1
      <4> QED
        BY <2>0, <2>3, <4>1, <4>2 DEF KeyOnce
    <3>4. CASE i > n /\ j > n
      BY <3>2, <3>4
    <3>5. ASSUME NEW a \in 1..n, NEW b \in 1..Len(log'[s]), b > n,
                 log'[s][a].key = log'[s][b].key, log'[s][a].key # NoKey
          PROVE  FALSE
      <4>1. log[s][a].key = key /\ key # NoKey
        BY <2>1, <2>3, <3>2, <3>5
      <4> QED
        BY <3>1, <4>1
    <3>6. CASE i <= n /\ j > n
      <4>1. i \in 1..n
        BY <2>1, <3>6
      <4> QED
        BY <3>5, <3>6, <4>1
    <3>7. CASE i > n /\ j <= n
      <4>1. j \in 1..n
        BY <2>1, <3>7
      <4> QED
        BY <3>5, <3>7, <4>1
    <3>8. (i <= n \/ i > n) /\ (j <= n \/ j > n)
      BY <2>1
    <3> QED
      BY <3>3, <3>4, <3>6, <3>7, <3>8
  <2> QED
    BY <2>2, <2>3
<1>4. ASSUME NEW h \in Handler, Refuses(h) PROVE i = j
  <2>1. CASE s # RejectedStream
    BY <1>4, <2>1, RefusesFacts DEF KeyOnce
  <2>2. CASE s = RejectedStream
    <3>1. /\ Len(log'[s]) = Len(log[s]) + 1
          /\ \A k \in 1..Len(log[s]) : log'[s][k] = log[s][k]
          /\ log'[s][Len(log[s]) + 1].key = NoKey
      BY <1>4, <2>2, RefusesFacts
    <3>2. log'[s][j].key # NoKey
      OBVIOUS
    <3>3. i # Len(log[s]) + 1 /\ j # Len(log[s]) + 1
      BY <3>1, <3>2
    <3>4. i \in 1..Len(log[s]) /\ j \in 1..Len(log[s])
      BY <1>1, <3>1, <3>3
    <3>5. log[s][i].key = log[s][j].key /\ log[s][i].key # NoKey
      BY <3>1, <3>4
    <3> QED
      BY <3>4, <3>5 DEF KeyOnce
  <2> QED
    BY <2>1, <2>2
<1> QED
  BY <1>2, <1>3, <1>4, LogCases

-----------------------------------------------------------------------------
\* The ways a step changes the locals of one handler k.
Keeps(k) == hist'[k] = hist[k] /\ Cmd(k)' = Cmd(k)

Stays(k) ==
    /\ pc'[k] = pc[k] /\ hist'[k] = hist[k] /\ dec'[k] = dec[k]
    /\ pc[k] # "idle" => Cmd(k)' = Cmd(k)
Returns(k) == pc'[k] = "idle" /\ hist'[k] = << >>
Starts(k) ==
    /\ pc[k] = "idle" /\ hist'[k] = hist[k]
    /\ \/ pc'[k] = "reject" /\ ~Cmd(k)'.valid
       \/ pc'[k] \in {"lookup", "load"} /\ Cmd(k)'.valid
Misses(k) == pc[k] = "lookup" /\ pc'[k] = "load" /\ Keeps(k)
Loads(k) ==
    /\ pc[k] = "load" /\ pc'[k] = "decide" /\ Cmd(k)' = Cmd(k)
    /\ hist'[k] = log[Cmd(k).stream] /\ log' = log
Decides(k) ==
    /\ pc[k] = "decide" /\ Keeps(k)
    /\ \E x \in Context : dec'[k] = Decide(hist[k], Cmd(k), x)
    /\ \/ pc'[k] = "reject" /\ dec'[k].refused
       \/ pc'[k] = "append" /\ ~dec'[k].refused /\ dec'[k].evs # << >>
Appends(k) == pc[k] = "append" /\ pc'[k] \in {"publish", "replay"} /\ Keeps(k)

LocalStep(k) ==
    Stays(k) \/ Returns(k) \/ Starts(k) \/ Misses(k) \/ Loads(k) \/ Decides(k) \/ Appends(k)

\* Handle returning ends the handler and leaves every other one alone.
LEMMA RespondLocal ==
    ASSUME TypeOK, NEW h \in Handler, NEW k \in Handler,
           NEW r, NEW from, NEW ver, Respond(h, r, from, ver)
    PROVE  LocalStep(k)
<1>1. CASE k = h
  BY <1>1 DEF TypeOK, Respond, Goto, LocalStep, Returns
<1>2. CASE k # h
  BY <1>2 DEF TypeOK, Respond, Goto, LocalStep, Stays, Cmd
<1> QED
  BY <1>1, <1>2

\* Every step changes a handler's locals in one of those ways.
LEMMA LocalCases ==
    ASSUME TypeOK, [Next]_vars, NEW k \in Handler
    PROVE  LocalStep(k)
<1>1. ASSUME NEW h \in Handler, NEW c \in Command, Submit(h, c) PROVE LocalStep(k)
  <2>1. CASE k = h
    <3>1. sent'[ticket'[k]] = c
      BY <1>1, <2>1 DEF TypeOK, Submit
    <3>2. Cmd(k)' = c
      BY <3>1 DEF Cmd
    <3>3. \/ pc'[k] = "reject" /\ ~c.valid
          \/ pc'[k] \in {"lookup", "load"} /\ c.valid
      BY <1>1, <2>1 DEF TypeOK, Submit, Goto
    <3> QED
      BY <1>1, <2>1, <3>2, <3>3 DEF Submit, LocalStep, Starts
  <2>2. CASE k # h
    <3>1. pc'[k] = pc[k] /\ hist'[k] = hist[k] /\ dec'[k] = dec[k] /\ ticket'[k] = ticket[k]
      BY <1>1, <2>2 DEF TypeOK, Submit, Goto
    <3>2. ASSUME pc[k] # "idle" PROVE Cmd(k)' = Cmd(k)
      <4>1. ticket[k] \in 1..Len(sent)
        BY <3>2, CmdType
      <4>2. sent'[ticket[k]] = sent[ticket[k]]
        BY <1>1, <4>1 DEF TypeOK, Submit
      <4> QED
        BY <3>1, <4>2 DEF Cmd
    <3> QED
      BY <3>1, <3>2 DEF LocalStep, Stays
  <2> QED
    BY <2>1, <2>2
<1>2. ASSUME NEW h \in Handler, Lookup(h) PROVE LocalStep(k)
  <2>1. CASE Applied(Cmd(h).stream, Cmd(h).key)
    BY <1>2, <2>1, RespondLocal DEF Lookup
  <2>2. CASE ~Applied(Cmd(h).stream, Cmd(h).key)
    <3>1. CASE k = h
      BY <1>2, <2>2, <3>1 DEF TypeOK, Lookup, Goto, LocalStep, Misses, Keeps, Cmd
    <3>2. CASE k # h
      BY <1>2, <2>2, <3>2 DEF TypeOK, Lookup, Goto, LocalStep, Stays, Cmd
    <3> QED
      BY <3>1, <3>2
  <2> QED
    BY <2>1, <2>2
<1>3. ASSUME NEW h \in Handler, Load(h) PROVE LocalStep(k)
  <2>1. CASE k = h
    BY <1>3, <2>1 DEF TypeOK, Load, Goto, LocalStep, Loads, Cmd
  <2>2. CASE k # h
    BY <1>3, <2>2 DEF TypeOK, Load, Goto, LocalStep, Stays, Cmd
  <2> QED
    BY <2>1, <2>2
<1>4. ASSUME NEW h \in Handler, DecideStep(h) PROVE LocalStep(k)
  <2>1. PICK x \in Context :
          LET d == Decide(hist[h], Cmd(h), x) IN
          /\ d \in Outcome
          /\ IF ~d.refused /\ d.evs = << >>
             THEN Respond(h, "noop", 0, Len(hist[h]))
             ELSE /\ dec' = [dec EXCEPT ![h] = d]
                  /\ Goto(h, IF d.refused THEN "reject" ELSE "append")
                  /\ UNCHANGED <<ticket, sent, hist, answers>>
    BY <1>4 DEF DecideStep
  <2>2. PICK d : d = Decide(hist[h], Cmd(h), x)
    OBVIOUS
  <2>3. CASE ~d.refused /\ d.evs = << >>
    BY <2>1, <2>2, <2>3, RespondLocal
  <2>4. CASE ~(~d.refused /\ d.evs = << >>)
    <3>1. /\ dec' = [dec EXCEPT ![h] = d]
          /\ pc' = [pc EXCEPT ![h] = IF d.refused THEN "reject" ELSE "append"]
          /\ UNCHANGED <<ticket, sent, hist>>
      BY <2>1, <2>2, <2>4 DEF Goto
    <3>2. CASE k = h
      BY <1>4, <2>2, <2>4, <3>1, <3>2
         DEF TypeOK, DecideStep, LocalStep, Decides, Keeps, Cmd
    <3>3. CASE k # h
      BY <3>1, <3>3 DEF TypeOK, LocalStep, Stays, Cmd
    <3> QED
      BY <3>2, <3>3
  <2> QED
    BY <2>3, <2>4
<1>5. ASSUME NEW h \in Handler, AppendBatch(h) PROVE LocalStep(k)
  <2>1. CASE \/ Respond(h, "conflict", 0, 0)
             \/ Respond(h, "error", 0, 0)
    BY <2>1, RespondLocal
  <2>2. ASSUME NEW p \in {"replay", "publish"}, Goto(h, p),
               UNCHANGED <<ticket, sent, hist, dec, answers>>
        PROVE  LocalStep(k)
    <3>1. CASE k = h
      BY <1>5, <2>2, <3>1 DEF TypeOK, AppendBatch, Goto, LocalStep, Appends, Keeps, Cmd
    <3>2. CASE k # h
      BY <2>2, <3>2 DEF TypeOK, Goto, LocalStep, Stays, Cmd
    <3> QED
      BY <3>1, <3>2
  <2> QED
    BY <1>5, <2>1, <2>2 DEF AppendBatch
<1>6. ASSUME NEW h \in Handler,
             \/ ReplayLookup(h) \/ RecordRejection(h) \/ RecordRejectionFails(h)
             \/ Publish(h) \/ Fail(h)
      PROVE  LocalStep(k)
  BY <1>6, RespondLocal DEF ReplayLookup, RecordRejection, RecordRejectionFails, Publish, Fail
<1>7. ASSUME NEW h \in Handler, Crash(h) PROVE LocalStep(k)
  <2>1. CASE k = h
    BY <1>7, <2>1 DEF TypeOK, Crash, Goto, LocalStep, Returns
  <2>2. CASE k # h
    BY <1>7, <2>2 DEF TypeOK, Crash, Goto, LocalStep, Stays, Cmd
  <2> QED
    BY <2>1, <2>2
<1>8. CASE UNCHANGED vars
  BY <1>8 DEF vars, LocalStep, Stays, Cmd
<1> QED
  BY <1>1, <1>2, <1>3, <1>4, <1>5, <1>6, <1>7, <1>8 DEF Next, Quiescent

\* A history that was read stays a prefix, because streams only grow.
LEMMA HistStep == TypeOK /\ HistIsPrefix /\ [Next]_vars => HistIsPrefix'
<1> SUFFICES ASSUME TypeOK, HistIsPrefix, [Next]_vars, NEW k \in Handler
             PROVE  /\ pc'[k] \in {"idle", "lookup", "load"} => hist'[k] = << >>
                    /\ pc'[k] # "idle" =>
                         /\ Len(hist'[k]) <= Len(log'[Cmd(k)'.stream])
                         /\ \A i \in 1..Len(hist'[k]) : hist'[k][i] = log'[Cmd(k)'.stream][i]
  BY DEF HistIsPrefix
<1>1. LocalStep(k) /\ AppendOnlyStep /\ TypeOK'
  BY LocalCases, AppendOnlyLemma, TypeStep
<1>2. ASSUME hist'[k] = hist[k], Cmd(k)' = Cmd(k), pc[k] # "idle"
      PROVE  /\ Len(hist'[k]) <= Len(log'[Cmd(k)'.stream])
             /\ \A i \in 1..Len(hist'[k]) : hist'[k][i] = log'[Cmd(k)'.stream][i]
  <2>1. PICK s \in AllStreams : s = Cmd(k).stream
    BY <1>2, CmdType
  <2>2. PICK n \in Nat, m \in Nat, m2 \in Nat :
          n = Len(hist[k]) /\ m = Len(log[s]) /\ m2 = Len(log'[s])
    BY <1>1 DEF TypeOK
  <2>3. n <= m /\ \A i \in 1..n : hist[k][i] = log[s][i]
    BY <1>2, <2>1, <2>2 DEF HistIsPrefix
  <2>4. m <= m2 /\ \A i \in 1..m : log'[s][i] = log[s][i]
    BY <1>1, <2>2 DEF AppendOnlyStep
  <2>5. n <= m2 /\ \A i \in 1..n : hist[k][i] = log'[s][i]
    BY <2>3, <2>4
  <2> QED
    BY <1>2, <2>1, <2>2, <2>5
<1>3. ASSUME hist'[k] = << >>, pc'[k] # "idle"
      PROVE  /\ Len(hist'[k]) <= Len(log'[Cmd(k)'.stream])
             /\ \A i \in 1..Len(hist'[k]) : hist'[k][i] = log'[Cmd(k)'.stream][i]
  <2>1. Cmd(k)'.stream \in AllStreams
    <3>1. ticket'[k] \in 1..Len(sent')
      BY <1>1, <1>3 DEF TypeOK
    <3>2. Cmd(k)' \in Command
      BY <1>1, <3>1 DEF TypeOK, Cmd
    <3> QED
      BY <3>2, CommandsAreTyped DEF AllStreams, Abs!AllStreams
  <2>2. Len(log'[Cmd(k)'.stream]) \in Nat
    BY <1>1, <2>1 DEF TypeOK
  <2> QED
    BY <1>3, <2>2
<1>4. CASE Stays(k)
  BY <1>2, <1>4 DEF Stays, HistIsPrefix
<1>5. CASE Returns(k)
  BY <1>5 DEF Returns
<1>6. CASE Starts(k)
  BY <1>3, <1>6 DEF Starts, HistIsPrefix
<1>7. CASE Misses(k)
  BY <1>3, <1>7 DEF Misses, Keeps, HistIsPrefix
<1>8. CASE Loads(k)
  <2>1. Len(log[Cmd(k).stream]) \in Nat
    BY <1>8, CmdType DEF Loads, TypeOK
  <2> QED
    BY <1>8, <2>1 DEF Loads
<1>9. CASE Decides(k)
  BY <1>2, <1>9 DEF Decides, Keeps
<1>10. CASE Appends(k)
  BY <1>2, <1>10 DEF Appends, Keeps
<1> QED
  BY <1>1, <1>4, <1>5, <1>6, <1>7, <1>8, <1>9, <1>10 DEF LocalStep

\* Nothing moves an unauthorized command past the refusal.
LEMMA AuthorizeStep == TypeOK /\ PastAuthorize /\ [Next]_vars => PastAuthorize'
<1> SUFFICES ASSUME TypeOK, PastAuthorize, [Next]_vars, NEW k \in Handler,
                    pc'[k] \notin {"idle", "reject"}
             PROVE  Cmd(k)'.valid
  BY DEF PastAuthorize
<1> QED
  BY LocalCases DEF LocalStep, Stays, Returns, Starts, Misses, Loads, Decides, Appends,
                    Keeps, PastAuthorize

\* A decision in flight stays the decision on the history that was read.
LEMMA DecidedStep ==
    TypeOK /\ PastAuthorize /\ DecidedOnHist /\ [Next]_vars => DecidedOnHist'
<1> SUFFICES ASSUME TypeOK, PastAuthorize, DecidedOnHist, [Next]_vars, NEW k \in Handler
             PROVE  /\ pc'[k] = "append" =>
                         /\ ~dec'[k].refused
                         /\ dec'[k].evs # << >>
                         /\ \E x \in Context : dec'[k] = Decide(hist'[k], Cmd(k)', x)
                    /\ pc'[k] = "reject" /\ Cmd(k)'.valid =>
                         /\ dec'[k].refused
                         /\ \E x \in Context : dec'[k] = Decide(hist'[k], Cmd(k)', x)
  BY DEF DecidedOnHist
<1>1. CASE Stays(k)
  BY <1>1 DEF Stays, DecidedOnHist
<1>2. CASE Decides(k)
  BY <1>2 DEF Decides, Keeps
<1>3. CASE Returns(k) \/ Starts(k) \/ Misses(k) \/ Loads(k) \/ Appends(k)
  BY <1>3 DEF Returns, Starts, Misses, Loads, Appends
<1> QED
  BY <1>1, <1>2, <1>3, LocalCases DEF LocalStep

-----------------------------------------------------------------------------
\* An empty ledger and idle handlers satisfy the inductive invariant.
LEMMA InitIInv == Init => IInv
<1> SUFFICES ASSUME Init PROVE IInv
  OBVIOUS
<1>1. TypeOK
  BY MaxSubmitsIsNat
     DEF Init, TypeOK, Steps, NoDecision, Outcome, Abs!Outcome, NoAnswer, Answer
<1>2. KeyOnce
  BY DEF Init, KeyOnce
<1>3. HistIsPrefix /\ PastAuthorize /\ DecidedOnHist
  BY DEF Init, HistIsPrefix, PastAuthorize, DecidedOnHist
<1> QED
  BY <1>1, <1>2, <1>3 DEF IInv

\* Every step of handle() preserves the inductive invariant.
LEMMA NextIInv == IInv /\ [Next]_vars => IInv'
BY TypeStep, KeyOnceStep, HistStep, AuthorizeStep, DecidedStep DEF IInv

\* The inductive invariant holds of every reachable state of the pipeline.
THEOREM PipelineInvariant == Spec => []IInv
BY InitIInv, NextIInv, PTL DEF Spec

\* The type invariant of the pipeline, whatever its handlers and commands.
THEOREM PipelineTypeOK == Spec => []TypeOK
<1>1. IInv => TypeOK
  BY DEF IInv
<1> QED
  BY <1>1, PipelineInvariant, PTL

\* No key is applied twice to a stream, whatever races.
THEOREM PipelineKeyOnce == Spec => []KeyOnce
<1>1. IInv => KeyOnce
  BY DEF IInv
<1> QED
  BY <1>1, PipelineInvariant, PTL

\* Streams only grow.
THEOREM PipelineAppendOnly == Spec => AppendOnly
<1>1. IInv /\ [Next]_vars => [AppendOnlyStep]_vars
  BY AppendOnlyLemma DEF IInv
<1> QED
  BY <1>1, PipelineInvariant, PTL DEF Spec, AppendOnly

-----------------------------------------------------------------------------
\* A history of the same length as its stream is the stream.
LEMMA HistIsLog ==
    ASSUME IInv, NEW h \in Handler, pc[h] # "idle",
           Len(log[Cmd(h).stream]) = Len(hist[h])
    PROVE  hist[h] = log[Cmd(h).stream]
<1>1. PICK s \in AllStreams : s = Cmd(h).stream
  BY CmdType DEF IInv
<1>2. PICK a \in Seq(Record), b \in Seq(Record) : a = hist[h] /\ b = log[s]
  BY DEF IInv, TypeOK
<1>3. Len(a) = Len(b) /\ \A i \in 1..Len(a) : a[i] = b[i]
  BY <1>1, <1>2 DEF IInv, HistIsPrefix
<1>4. a = b
  BY <1>3
<1> QED
  BY <1>1, <1>2, <1>4

\* An append is the execution of its command, on the history it extends.
LEMMA WriteIsExecute ==
    ASSUME IInv, NEW h \in Handler, Writes(h)
    PROVE  Abs!Execute(Cmd(h)) /\ Cmd(h) \in Command
<1>1. Cmd(h) \in Command /\ Cmd(h).valid
  BY CmdType DEF IInv, PastAuthorize, Writes
<1>2. hist[h] = log[Cmd(h).stream]
  BY HistIsLog DEF Writes
<1>3. PICK x \in Context : dec[h] = Decide(hist[h], Cmd(h), x)
  BY DEF Writes, IInv, DecidedOnHist
<1>4. ~dec[h].refused /\ dec[h].evs # << >> /\ dec[h] \in Outcome
  BY DEF Writes, IInv, DecidedOnHist, TypeOK
<1>5. PICK d : d = dec[h]
  OBVIOUS
<1>6. /\ d = Decide(log[Cmd(h).stream], Cmd(h), x)
      /\ d \in Abs!Outcome /\ ~d.refused /\ d.evs # << >>
      /\ log' = [log EXCEPT ![Cmd(h).stream] = @ \o Abs!Seal(d.evs, Cmd(h).key)]
  BY <1>2, <1>3, <1>4, <1>5 DEF Writes, Seal, Outcome
<1>7. ~Abs!Applied(Cmd(h).stream, Cmd(h).key)
  BY DEF Writes, Applied
<1> QED
  BY <1>1, <1>6, <1>7 DEF Abs!Execute

\* A recorded refusal is a refusal on some version its stream went through.
LEMMA RefusalIsRefuse ==
    ASSUME IInv, NEW h \in Handler, Refuses(h)
    PROVE  Abs!Refuse(Cmd(h)) /\ Cmd(h) \in Command
<1>1. Cmd(h) \in Command /\ pc[h] # "idle" /\ Cmd(h).valid \in BOOLEAN
  BY CmdType DEF IInv, Refuses
<1>2. log' = [log EXCEPT ![RejectedStream] =
                  Append(@, [ev |-> [rejected |-> Cmd(h)], key |-> NoKey])]
  BY DEF Refuses, Recorded
<1>3. CASE ~Cmd(h).valid
  BY <1>1, <1>2, <1>3 DEF Abs!Refuse
<1>4. CASE Cmd(h).valid
  <2>1. dec[h].refused /\ dec[h] \in Outcome
        /\ \E x \in Context : dec[h] = Decide(hist[h], Cmd(h), x)
    BY <1>4 DEF Refuses, IInv, DecidedOnHist, TypeOK
  <2>2. PICK s \in AllStreams : s = Cmd(h).stream
    BY <1>1, CmdType DEF IInv
  <2>3. PICK a \in Seq(Record), b \in Seq(Record) : a = hist[h] /\ b = log[s]
    BY DEF IInv, TypeOK
  <2>4. Len(a) <= Len(b) /\ \A i \in 1..Len(a) : a[i] = b[i]
    BY <1>1, <2>2, <2>3 DEF IInv, HistIsPrefix
  <2>5. Len(a) \in 0..Len(b)
    BY <2>4
  <2>6. [i \in 1..Len(a) |-> b[i]] = a
    BY <2>4
  <2>7. Len(a) \in 0..Len(log[Cmd(h).stream]) /\ Abs!Prefix(Cmd(h).stream, Len(a)) = hist[h]
    BY <2>2, <2>3, <2>5, <2>6 DEF Abs!Prefix
  <2>8. PICK x \in Context : dec[h] = Decide(hist[h], Cmd(h), x)
    BY <2>1
  <2>9. /\ Decide(Abs!Prefix(Cmd(h).stream, Len(a)), Cmd(h), x) \in Abs!Outcome
        /\ Decide(Abs!Prefix(Cmd(h).stream, Len(a)), Cmd(h), x).refused
    BY <2>1, <2>7, <2>8 DEF Outcome
  <2> QED
    BY <1>1, <1>2, <2>7, <2>9 DEF Abs!Refuse
<1> QED
  BY <1>1, <1>3, <1>4

\* The pipeline implements the abstract command log.
THEOREM PipelineRefinement == Spec => ImplementsCommandLog
<1>1. Init => Abs!Init
  BY DEF Init, Abs!Init, AllStreams
<1>2. IInv /\ [Next]_vars => [Abs!Next]_log
  <2> SUFFICES ASSUME IInv, [Next]_vars PROVE Abs!Next \/ UNCHANGED log
    OBVIOUS
  <2> QED
    BY LogCases, WriteIsExecute, RefusalIsRefuse DEF Abs!Next
<1> QED
  BY <1>1, <1>2, PipelineInvariant, PTL DEF Spec, ImplementsCommandLog, Abs!Spec

-----------------------------------------------------------------------------
(***************************************************************************)
(* What the pipeline's callers are told.  A handler about to publish has   *)
(* its whole batch on its stream right behind the history it read          *)
(* (BatchWritten); streams only grow, so the answer stays true.  Two       *)
(* batches of one stream start at different versions (Positions), and a    *)
(* key is on one version only (KeyOnce), so two fresh successes of one key *)
(* are one submission.  A refusal told without an error adds one record    *)
(* and one answer in the same step, which is all that RefusalsAreRecorded  *)
(* counts.                                                                 *)
(***************************************************************************)

\* A batch is on stream s behind version n.
Held(s, key, evs, n) ==
    /\ Len(evs) >= 1 /\ n + Len(evs) <= Len(log[s])
    /\ log[s][n + 1].key = key
    /\ \A i \in 1..Len(evs) : log[s][n + i].ev = evs[i]
    /\ \A i \in 2..Len(evs) : log[s][n + i].key = NoKey

BatchWritten ==
    \A h \in Handler : pc[h] = "publish" =>
        Held(Cmd(h).stream, Cmd(h).key, dec[h].evs, Len(hist[h]))

\* A submission is served by one handler and answered after it is sent, once.
Tickets ==
    /\ \A h, g \in Handler : pc[h] # "idle" /\ pc[g] # "idle" /\ h # g => ticket[h] # ticket[g]
    /\ \A h \in Handler : pc[h] # "idle" => answers[ticket[h]].res = "none"
    /\ \A t \in 1..MaxSubmits : t > Len(sent) => answers[t].res = "none"

Fresh(t) == answers[t].res \in {"ok", "projection"}

\* No two batches of a stream start at the same version.
Positions ==
    /\ \A h, g \in Handler :
         pc[h] = "publish" /\ pc[g] = "publish" /\ h # g /\ Cmd(h).stream = Cmd(g).stream
         => Len(hist[h]) # Len(hist[g])
    /\ \A h \in Handler, t \in 1..Len(sent) :
         pc[h] = "publish" /\ Fresh(t) /\ sent[t].stream = Cmd(h).stream
         => answers[t].from # Len(hist[h]) + 1
    /\ \A t, u \in 1..Len(sent) :
         t # u /\ Fresh(t) /\ Fresh(u) /\ sent[t].stream = sent[u].stream
         => answers[t].from # answers[u].from

\* The inductive invariant.
AInv == IInv /\ BatchWritten /\ Tickets /\ Positions /\ AcknowledgedIsDurable

-----------------------------------------------------------------------------
\* A batch stays where it is.
LEMMA HeldKept ==
    ASSUME TypeOK, AppendOnlyStep, NEW s \in AllStreams, NEW key, NEW evs \in Seq(Event),
           NEW n \in Nat, Held(s, key, evs, n), Len(log'[s]) \in Nat
    PROVE  Held(s, key, evs, n)'
<1>1. Len(log[s]) \in Nat /\ Len(evs) \in Nat
  BY DEF TypeOK
<1>2. Len(log[s]) <= Len(log'[s]) /\ \A i \in 1..Len(log[s]) : log'[s][i] = log[s][i]
  BY DEF AppendOnlyStep
<1>3. \A i \in 1..Len(evs) : n + i \in 1..Len(log[s])
  BY <1>1 DEF Held
<1>4. \A i \in 1..Len(evs) : log'[s][n + i] = log[s][n + i]
  BY <1>2, <1>3
<1>5. /\ Len(evs) >= 1 /\ n + Len(evs) <= Len(log'[s])
      /\ log'[s][n + 1].key = key
  <2>1. 1 \in 1..Len(evs)
    BY <1>1 DEF Held
  <2>2. log'[s][n + 1] = log[s][n + 1]
    BY <1>4, <2>1
  <2> QED BY <1>1, <1>2, <2>2 DEF Held
<1>6. \A i \in 1..Len(evs) : log'[s][n + i].ev = evs[i]
  BY <1>4 DEF Held
<1>7. \A i \in 2..Len(evs) : log'[s][n + i].key = NoKey
  <2>1. \A i \in 2..Len(evs) : i \in 1..Len(evs)
    BY <1>1
  <2> QED BY <1>4, <2>1 DEF Held
<1> QED BY <1>5, <1>6, <1>7 DEF Held

\* What a step that leaves k about to publish does to k.
Settles(k) ==
    /\ Writes(k) /\ Keeps(k) /\ dec' = dec /\ hist' = hist
    /\ answers' = answers /\ sent' = sent /\ ticket' = ticket
    /\ \A g \in Handler : g # k => pc'[g] = pc[g]

\* A handler about to publish was already, or has just written its batch.
LEMMA PublishCases ==
    ASSUME TypeOK, [Next]_vars, NEW k \in Handler, pc'[k] = "publish"
    PROVE  \/ pc[k] = "publish" /\ Stays(k)
           \/ Settles(k)
<1>1. CASE pc[k] = "publish"
  BY <1>1, LocalCases DEF LocalStep, Stays, Returns, Starts, Misses, Loads, Decides, Appends
<1>2. CASE pc[k] # "publish"
  <2>1. pc[k] = "append" /\ Keeps(k)
    BY <1>2, LocalCases DEF LocalStep, Stays, Returns, Starts, Misses, Loads, Decides, Appends
  <2>2. AppendBatch(k)
    <3>1. ASSUME NEW h \in Handler, h # k,
                 \/ \E c \in Command : Submit(h, c)
                 \/ Lookup(h) \/ Load(h) \/ DecideStep(h) \/ AppendBatch(h) \/ ReplayLookup(h)
                 \/ RecordRejection(h) \/ RecordRejectionFails(h)
                 \/ Publish(h) \/ Fail(h) \/ Crash(h)
          PROVE  pc'[k] = pc[k]
      BY <3>1 DEF Submit, Lookup, Load, DecideStep, AppendBatch, ReplayLookup, RecordRejection,
                  RecordRejectionFails, Publish, Fail, Crash, Respond, Goto, TypeOK
    <3>2. UNCHANGED vars => pc'[k] = pc[k]
      BY DEF vars
    <3>3. \/ \E c \in Command : Submit(k, c)
          \/ Lookup(k) \/ Load(k) \/ DecideStep(k) \/ AppendBatch(k) \/ ReplayLookup(k)
          \/ RecordRejection(k) \/ RecordRejectionFails(k)
          \/ Publish(k) \/ Fail(k) \/ Crash(k)
      BY <1>2, <3>1, <3>2 DEF Next, Quiescent
    <3>4. ~Fail(k) /\ ~Crash(k)
      BY DEF Fail, Crash, Respond, Goto, TypeOK
    <3> QED BY <2>1, <3>3, <3>4 DEF Submit, Lookup, Load, DecideStep, ReplayLookup, RecordRejection,
                  RecordRejectionFails, Publish
  <2>3. /\ ~Goto(k, "replay") /\ \A res, from, ver : ~Respond(k, res, from, ver)
    BY DEF Goto, Respond, TypeOK
  <2>4. Writes(k) /\ Goto(k, "publish") /\ UNCHANGED <<ticket, sent, hist, dec, answers>>
    BY <2>2, <2>3 DEF AppendBatch, Writes
  <2> QED BY <2>1, <2>4 DEF Settles, Goto, TypeOK
<1> QED BY <1>1, <1>2

\* What a step does to the answers: a new submission, nothing, or one handler
\* that returns.
Tells(h, res, from, ver) ==
    /\ pc[h] # "idle" /\ Respond(h, res, from, ver)
    /\ res # "none"
    /\ res \in {"ok", "projection"} =>
         /\ pc[h] = "publish" /\ log' = log
         /\ from = Len(hist[h]) + 1 /\ ver = Len(hist[h]) + Len(dec[h].evs)
    /\ res = "replayed" =>
         /\ log' = log /\ Applied(Cmd(h).stream, Cmd(h).key)
         /\ ver = VersionOf(Cmd(h).stream, Cmd(h).key)
    /\ res = "rejected" => Refuses(h)

\* No step answers in any other way.
LEMMA AnswerCases ==
    ASSUME TypeOK, [Next]_vars
    PROVE  \/ \E h \in Handler, c \in Command : Submit(h, c)
           \/ UNCHANGED <<answers, sent, ticket>> /\ \A h \in Handler : pc'[h] # "idle" => pc[h] # "idle"
           \/ \E h \in Handler : \E res, from, ver : Tells(h, res, from, ver)
<1> DEFINE Quiet == UNCHANGED <<answers, sent, ticket>> /\ \A h \in Handler : pc'[h] # "idle" => pc[h] # "idle"
           Told == \E h \in Handler : \E res, from, ver : Tells(h, res, from, ver)
<1>1. ASSUME NEW h \in Handler, Lookup(h) PROVE Quiet \/ Told
  <2>1. CASE Applied(Cmd(h).stream, Cmd(h).key)
    <3>1. Tells(h, "replayed", 0, VersionOf(Cmd(h).stream, Cmd(h).key))
      BY <1>1, <2>1 DEF Lookup, Tells
    <3> QED BY <3>1, Zenon
  <2>2. CASE ~Applied(Cmd(h).stream, Cmd(h).key)
    BY <1>1, <2>2 DEF Lookup, Goto, TypeOK
  <2> QED BY <2>1, <2>2
<1>2. ASSUME NEW h \in Handler, Load(h) PROVE Quiet
  BY <1>2 DEF Load, Goto, TypeOK
<1>3. ASSUME NEW h \in Handler, DecideStep(h) PROVE Quiet \/ Told
  <2>1. CASE Respond(h, "noop", 0, Len(hist[h]))
    <3>1. Tells(h, "noop", 0, Len(hist[h]))
      BY <1>3, <2>1 DEF DecideStep, Tells
    <3> QED BY <3>1, Zenon
  <2>2. CASE ~Respond(h, "noop", 0, Len(hist[h]))
    <3>1. /\ UNCHANGED <<ticket, sent, answers>> /\ pc[h] = "decide"
          /\ Goto(h, "reject") \/ Goto(h, "append")
      BY <1>3, <2>2 DEF DecideStep
    <3> QED BY <3>1 DEF Goto, TypeOK
  <2> QED BY <2>1, <2>2
<1>4. ASSUME NEW h \in Handler, AppendBatch(h) PROVE Quiet \/ Told
  <2>1. CASE Respond(h, "conflict", 0, 0) \/ Respond(h, "error", 0, 0)
    <3>1. Tells(h, "conflict", 0, 0) \/ Tells(h, "error", 0, 0)
      BY <1>4, <2>1 DEF AppendBatch, Tells
    <3> QED BY <3>1, Zenon
  <2>2. CASE ~(Respond(h, "conflict", 0, 0) \/ Respond(h, "error", 0, 0))
    <3>1. /\ UNCHANGED <<ticket, sent, answers>> /\ pc[h] = "append"
          /\ Goto(h, "replay") \/ Goto(h, "publish")
      BY <1>4, <2>2 DEF AppendBatch
    <3> QED BY <3>1 DEF Goto, TypeOK
  <2> QED BY <2>1, <2>2
<1>5. ASSUME NEW h \in Handler, ReplayLookup(h) PROVE Told
  <2>1. Tells(h, "replayed", 0, VersionOf(Cmd(h).stream, Cmd(h).key))
    BY <1>5 DEF ReplayLookup, Tells
  <2> QED BY <2>1, Zenon
<1>6. ASSUME NEW h \in Handler, RecordRejection(h) \/ RecordRejectionFails(h) PROVE Told
  <2>1. Tells(h, "rejected", 0, Len(hist[h])) \/ Tells(h, "unrecorded", 0, Len(hist[h]))
    BY <1>6 DEF RecordRejection, RecordRejectionFails, Tells, Refuses
  <2> QED BY <2>1, Zenon
<1>7. ASSUME NEW h \in Handler, Publish(h) PROVE Told
  BY <1>7 DEF Publish, Tells
<1>8. ASSUME NEW h \in Handler, Fail(h) PROVE Told
  <2>1. Tells(h, "error", 0, 0)
    BY <1>8 DEF Fail, Tells
  <2> QED BY <2>1, Zenon
<1>9. ASSUME NEW h \in Handler, Crash(h) PROVE Quiet
  BY <1>9 DEF Crash, Goto, TypeOK
<1>10. ASSUME UNCHANGED vars PROVE Quiet
  BY <1>10 DEF vars
<1> HIDE DEF Quiet, Told
<1>11. Quiet \/ Told \/ \E h \in Handler, c \in Command : Submit(h, c)
  BY <1>10, <1>1, <1>2, <1>3, <1>4, <1>5, <1>6, <1>7, <1>8, <1>9 DEF Next, Quiescent
<1> QED BY <1>11 DEF Quiet, Told

-----------------------------------------------------------------------------
\* The batch of a handler about to publish is on its stream.
LEMMA BatchStep == IInv /\ BatchWritten /\ [Next]_vars => BatchWritten'
<1> SUFFICES ASSUME IInv, BatchWritten, [Next]_vars, NEW k \in Handler, pc'[k] = "publish"
             PROVE  Held(Cmd(k).stream, Cmd(k).key, dec[k].evs, Len(hist[k]))'
  BY DEF BatchWritten
<1>1. TypeOK /\ TypeOK' /\ AppendOnlyStep
  BY TypeStep, AppendOnlyLemma DEF IInv
<1>2. pc[k] \in {"publish", "append"} /\ Cmd(k)' = Cmd(k) /\ hist'[k] = hist[k] /\ dec'[k] = dec[k]
  BY <1>1, PublishCases DEF Stays, Settles, Keeps, Writes
<1>3. PICK s \in AllStreams, key \in Key \union {NoKey} : s = Cmd(k).stream /\ key = Cmd(k).key
  BY <1>1, <1>2, CmdType
<1>4. PICK evs \in Seq(Event), n \in Nat : evs = dec[k].evs /\ n = Len(hist[k])
  BY <1>1 DEF TypeOK, Outcome, Abs!Outcome
<1>5. Len(log'[s]) \in Nat /\ Len(log[s]) \in Nat
  BY <1>1 DEF TypeOK
<1>6. CASE pc[k] = "publish"
  <2>1. Held(s, key, evs, n)
    BY <1>3, <1>4, <1>6 DEF BatchWritten
  <2>2. Held(s, key, evs, n)'
    BY <1>1, <1>5, <2>1, HeldKept
  <2> QED BY <1>2, <1>3, <1>4, <2>2 DEF Held
<1>7. CASE Settles(k)
  <2>1. Writes(k) /\ n = Len(log[s])
    BY <1>3, <1>4, <1>7 DEF Settles, Writes
  <2>2. PICK m \in Nat : m = Len(evs)
    OBVIOUS
  <2>3. Extended(s, key, evs, n, m)
    BY <1>1, <1>3, <1>4, <2>1, <2>2, WritesFacts
  <2>4. m >= 1
    BY <1>4, <2>1, <2>2 DEF IInv, DecidedOnHist, Writes
  <2>5. /\ Len(log'[s]) = n + m
        /\ \A i \in 1..m : log'[s][n + i].ev = evs[i]
        /\ \A i \in 1..m : log'[s][n + i].key = IF i = 1 THEN key ELSE NoKey
    BY <2>3 DEF Extended
  <2>6. log'[s][n + 1].key = key
    BY <2>4, <2>5
  <2>7. \A i \in 2..m : log'[s][n + i].key = NoKey
    <3>1. \A i \in 2..m : i \in 1..m /\ i # 1
      OBVIOUS
    <3> QED BY <2>5, <3>1
  <2> QED BY <1>2, <1>3, <1>4, <2>2, <2>4, <2>5, <2>6, <2>7 DEF Held
<1> QED BY <1>1, <1>6, <1>7, PublishCases

\* A submission has one handler, and its answer comes last.
LEMMA TicketStep == TypeOK /\ Tickets /\ [Next]_vars => Tickets'
<1> SUFFICES ASSUME TypeOK, Tickets, [Next]_vars PROVE Tickets'
  OBVIOUS
<1>1. ASSUME NEW h \in Handler, NEW c \in Command, Submit(h, c) PROVE Tickets'
  <2>1. PICK n \in Nat : n = Len(sent)
    BY DEF TypeOK
  <2>2. /\ n + 1 \in 1..MaxSubmits /\ Len(sent') = n + 1 /\ ticket'[h] = n + 1 /\ answers' = answers
        /\ \A k \in Handler : k # h => ticket'[k] = ticket[k] /\ pc'[k] = pc[k]
    BY <1>1, <2>1, MaxSubmitsIsNat DEF Submit, Goto, TypeOK
  <2>3. \A k \in Handler : ticket[k] \in 0..n
    BY <2>1 DEF TypeOK
  <2>4. answers[n + 1].res = "none"
    BY <2>1, <2>2 DEF Tickets
  <2>5. \A k, g \in Handler : pc'[k] # "idle" /\ pc'[g] # "idle" /\ k # g => ticket'[k] # ticket'[g]
    BY <2>2, <2>3 DEF Tickets
  <2>6. \A k \in Handler : pc'[k] # "idle" => answers'[ticket'[k]].res = "none"
    BY <2>2, <2>4 DEF Tickets
  <2>7. \A t \in 1..MaxSubmits : t > Len(sent') => answers'[t].res = "none"
    BY <2>1, <2>2, MaxSubmitsIsNat DEF Tickets
  <2> QED BY <2>5, <2>6, <2>7 DEF Tickets
<1>2. CASE UNCHANGED <<answers, sent, ticket>> /\ \A h \in Handler : pc'[h] # "idle" => pc[h] # "idle"
  BY <1>2 DEF Tickets
<1>3. ASSUME NEW h \in Handler, NEW res, NEW from, NEW ver, Tells(h, res, from, ver) PROVE Tickets'
  <2>1. /\ ticket' = ticket /\ sent' = sent /\ pc[h] # "idle" /\ pc'[h] = "idle"
        /\ \A k \in Handler : k # h => pc'[k] = pc[k]
        /\ \A t \in 1..MaxSubmits : t # ticket[h] => answers'[t] = answers[t]
    BY <1>3 DEF Tells, Respond, Goto, TypeOK
  <2>2. ticket[h] <= Len(sent) /\ Len(sent) \in Nat
    BY DEF TypeOK
  <2>3. \A k \in Handler : pc[k] # "idle" => ticket[k] \in 1..MaxSubmits
    BY CmdType
  <2>4. \A k, g \in Handler : pc'[k] # "idle" /\ pc'[g] # "idle" /\ k # g => ticket'[k] # ticket'[g]
    BY <2>1 DEF Tickets
  <2>5. \A k \in Handler : pc'[k] # "idle" => answers'[ticket'[k]].res = "none"
    BY <2>1, <2>3 DEF Tickets
  <2>6. \A t \in 1..MaxSubmits : t > Len(sent') => answers'[t].res = "none"
    BY <2>1, <2>2 DEF Tickets
  <2> QED BY <2>4, <2>5, <2>6 DEF Tickets
<1> QED BY <1>1, <1>2, <1>3, AnswerCases

\* An answer a caller has is the one it had, or the one a handler returns now.
Given(t) == t \in 1..Len(sent) /\ answers'[t] = answers[t] /\ sent'[t] = sent[t]

Answers(g, t) ==
    /\ pc[g] # "idle" /\ pc'[g] = "idle" /\ t \in 1..Len(sent) /\ sent' = sent
    /\ \A k \in Handler : k # g => pc'[k] = pc[k]
    /\ \A u \in 1..Len(sent) : u # t => answers'[u] = answers[u]
    /\ sent[t] = Cmd(g)
    /\ answers'[t].res \in {"ok", "projection"} =>
         /\ pc[g] = "publish" /\ log' = log
         /\ answers'[t].from = Len(hist[g]) + 1
         /\ answers'[t].ver = Len(hist[g]) + Len(dec[g].evs)
    /\ answers'[t].res = "replayed" =>
         /\ log' = log /\ Applied(Cmd(g).stream, Cmd(g).key)
         /\ answers'[t].ver = VersionOf(Cmd(g).stream, Cmd(g).key)
    /\ answers'[t].res = "rejected" => Refuses(g)

\* Every answer is one of the two.
LEMMA GivenOrAnswered ==
    ASSUME TypeOK, Tickets, [Next]_vars, NEW t \in 1..Len(sent'), answers'[t].res # "none"
    PROVE  Given(t) \/ \E g \in Handler : Answers(g, t)
<1>1. ASSUME NEW h \in Handler, NEW c \in Command, Submit(h, c) PROVE Given(t)
  <2>1. PICK n \in Nat : n = Len(sent)
    BY DEF TypeOK
  <2>2. /\ n + 1 \in 1..MaxSubmits /\ Len(sent') = n + 1 /\ answers' = answers
        /\ \A i \in 1..n : sent'[i] = sent[i]
    BY <1>1, <2>1, MaxSubmitsIsNat DEF Submit, TypeOK
  <2>3. answers[n + 1].res = "none"
    BY <2>1, <2>2 DEF Tickets
  <2>4. t \in 1..n
    BY <2>2, <2>3
  <2> QED BY <2>1, <2>2, <2>4 DEF Given
<1>2. CASE UNCHANGED <<answers, sent, ticket>>
  BY <1>2 DEF Given
<1>3. ASSUME NEW h \in Handler, NEW res, NEW from, NEW ver, Tells(h, res, from, ver)
      PROVE  Given(t) \/ Answers(h, t)
  <2>1. /\ sent' = sent /\ pc[h] # "idle" /\ pc'[h] = "idle"
        /\ \A k \in Handler : k # h => pc'[k] = pc[k]
        /\ \A u \in 1..MaxSubmits : u # ticket[h] => answers'[u] = answers[u]
    BY <1>3 DEF Tells, Respond, Goto, TypeOK
  <2>2. \A u \in 1..Len(sent) : u \in 1..MaxSubmits
    BY MaxSubmitsIsNat DEF TypeOK
  <2>3. CASE t # ticket[h]
    BY <2>1, <2>2, <2>3 DEF Given
  <2>4. CASE t = ticket[h]
    <3>1. answers'[t].res = res /\ answers'[t].from = from /\ answers'[t].ver = ver
      BY <1>3, <2>1, <2>2, <2>4 DEF Tells, Respond, TypeOK
    <3>2. /\ res \in {"ok", "projection"} =>
              /\ pc[h] = "publish" /\ log' = log
              /\ from = Len(hist[h]) + 1 /\ ver = Len(hist[h]) + Len(dec[h].evs)
          /\ res = "replayed" =>
              /\ log' = log /\ Applied(Cmd(h).stream, Cmd(h).key)
              /\ ver = VersionOf(Cmd(h).stream, Cmd(h).key)
          /\ res = "rejected" => Refuses(h)
      BY <1>3, Zenon DEF Tells
    <3>3. sent[t] = Cmd(h)
      BY <2>4 DEF Cmd
    <3>4. \A u \in 1..Len(sent) : u # t => answers'[u] = answers[u]
      BY <2>1, <2>2, <2>4
    <3>5. answers'[t].res \in {"ok", "projection"} =>
            /\ pc[h] = "publish" /\ log' = log
            /\ answers'[t].from = Len(hist[h]) + 1
            /\ answers'[t].ver = Len(hist[h]) + Len(dec[h].evs)
      BY <3>1, <3>2
    <3>6. answers'[t].res = "replayed" =>
            /\ log' = log /\ Applied(Cmd(h).stream, Cmd(h).key)
            /\ answers'[t].ver = VersionOf(Cmd(h).stream, Cmd(h).key)
      BY <3>1, <3>2
    <3>7. answers'[t].res = "rejected" => Refuses(h)
      BY <3>1, <3>2
    <3> QED BY <2>1, <3>3, <3>4, <3>5, <3>6, <3>7 DEF Answers
  <2> QED BY <2>3, <2>4
<1> QED BY <1>1, <1>2, <1>3, AnswerCases

\* What a batch on its stream means for the versions around it.
LEMMA PublishBounds ==
    ASSUME TypeOK, BatchWritten, NEW h \in Handler, pc[h] = "publish"
    PROVE  /\ Cmd(h).stream \in AllStreams /\ Len(log[Cmd(h).stream]) \in Nat
           /\ Len(hist[h]) \in Nat /\ Len(hist[h]) < Len(log[Cmd(h).stream])
<1>1. /\ Cmd(h).stream \in AllStreams
      /\ Len(hist[h]) \in Nat /\ Len(dec[h].evs) \in Nat
  BY CmdType DEF TypeOK, Outcome, Abs!Outcome
<1>2. Len(log[Cmd(h).stream]) \in Nat
  BY <1>1 DEF TypeOK
<1>3. Len(dec[h].evs) >= 1 /\ Len(hist[h]) + Len(dec[h].evs) <= Len(log[Cmd(h).stream])
  BY DEF BatchWritten, Held
<1>4. \A a, b, c \in Nat : b >= 1 /\ a + b <= c => a < c
  OBVIOUS
<1>5. Len(hist[h]) < Len(log[Cmd(h).stream])
  BY <1>1, <1>2, <1>3, <1>4
<1> QED BY <1>1, <1>2, <1>5

\* What the answer of a fresh success means for its stream.
LEMMA FreshBounds ==
    ASSUME TypeOK, AcknowledgedIsDurable, NEW t \in 1..Len(sent), Fresh(t)
    PROVE  /\ answers[t].from \in Nat /\ Len(log[sent[t].stream]) \in Nat
           /\ answers[t].from <= Len(log[sent[t].stream])
<1>1. sent[t] \in Command /\ t \in 1..MaxSubmits
  BY MaxSubmitsIsNat DEF TypeOK
<1>2. sent[t].stream \in AllStreams
  BY <1>1, CommandsAreTyped DEF AllStreams, Abs!AllStreams
<1>3. Len(log[sent[t].stream]) \in Nat
  BY <1>2 DEF TypeOK
<1>4. answers[t].from \in Nat /\ answers[t].ver \in Nat
  BY <1>1 DEF TypeOK, Answer
<1> QED BY <1>3, <1>4 DEF AcknowledgedIsDurable, Fresh

\* Every batch starts behind the ones its stream already had.
LEMMA PositionStep == AInv /\ [Next]_vars => Positions'
<1> SUFFICES ASSUME AInv, [Next]_vars PROVE Positions'
  OBVIOUS
<1>1. TypeOK /\ IInv /\ BatchWritten /\ Tickets /\ Positions /\ AcknowledgedIsDurable
  BY DEF AInv, IInv
<1>2. ASSUME NEW h \in Handler, NEW g \in Handler, pc'[h] = "publish", pc'[g] = "publish", h # g,
             Cmd(h)'.stream = Cmd(g)'.stream
      PROVE  Len(hist'[h]) # Len(hist'[g])
  <2>1. /\ hist'[h] = hist[h] /\ hist'[g] = hist[g]
        /\ Cmd(h)' = Cmd(h) /\ Cmd(g)' = Cmd(g)
    BY <1>1, <1>2, PublishCases DEF Stays, Settles, Keeps
  <2>2. CASE pc[h] = "publish" /\ pc[g] = "publish"
    BY <1>1, <1>2, <2>1, <2>2 DEF Positions
  <2>3. ASSUME NEW a \in Handler, NEW b \in Handler, a # b, Settles(a), pc'[b] = "publish",
               Cmd(a).stream = Cmd(b).stream
        PROVE  Len(hist[a]) # Len(hist[b])
    <3>1. pc[b] = "publish" /\ Len(log[Cmd(a).stream]) = Len(hist[a])
      BY <2>3 DEF Settles, Writes
    <3> QED BY <1>1, <2>3, <3>1, PublishBounds
  <2>4. CASE Settles(h)
    BY <1>2, <2>1, <2>3, <2>4
  <2>5. CASE Settles(g)
    BY <1>2, <2>1, <2>3, <2>5
  <2> QED BY <1>1, <1>2, <2>2, <2>4, <2>5, PublishCases
<1>3. ASSUME NEW h \in Handler, NEW t \in 1..Len(sent'), pc'[h] = "publish", Fresh(t)',
             sent'[t].stream = Cmd(h)'.stream
      PROVE  answers'[t].from # Len(hist'[h]) + 1
  <2>1. answers'[t].res \in {"ok", "projection"}
    BY <1>3 DEF Fresh
  <2>2. hist'[h] = hist[h] /\ Cmd(h)' = Cmd(h)
    BY <1>1, <1>3, PublishCases DEF Stays, Settles, Keeps
  <2>3. CASE Given(t)
    <3>1. t \in 1..Len(sent) /\ Fresh(t) /\ sent[t].stream = Cmd(h).stream /\ answers'[t] = answers[t]
      BY <1>3, <2>1, <2>2, <2>3 DEF Given, Fresh
    <3>2. CASE pc[h] = "publish"
      BY <1>1, <2>2, <3>1, <3>2 DEF Positions
    <3>3. CASE Settles(h)
      <4>1. Len(log[Cmd(h).stream]) = Len(hist[h])
        BY <3>3 DEF Settles, Writes
      <4> QED BY <1>1, <2>2, <3>1, <4>1, FreshBounds
    <3> QED BY <1>1, <1>3, <3>2, <3>3, PublishCases
  <2>4. ASSUME NEW g \in Handler, Answers(g, t) PROVE answers'[t].from # Len(hist'[h]) + 1
    <3>1. /\ g # h /\ pc[h] = "publish" /\ pc[g] = "publish"
          /\ answers'[t].from = Len(hist[g]) + 1 /\ Cmd(g).stream = Cmd(h).stream
      BY <1>3, <2>1, <2>2, <2>4 DEF Answers
    <3>2. Len(hist[g]) # Len(hist[h]) /\ Len(hist[g]) \in Nat /\ Len(hist[h]) \in Nat
      BY <1>1, <3>1 DEF Positions, TypeOK
    <3> QED BY <2>2, <3>1, <3>2
  <2> QED BY <1>1, <2>1, <2>3, <2>4, GivenOrAnswered
<1>4. ASSUME NEW t \in 1..Len(sent'), NEW u \in 1..Len(sent'), t # u, Fresh(t)', Fresh(u)',
             sent'[t].stream = sent'[u].stream
      PROVE  answers'[t].from # answers'[u].from
  <2>1. answers'[t].res \in {"ok", "projection"} /\ answers'[u].res \in {"ok", "projection"}
    BY <1>4 DEF Fresh
  <2>2. CASE Given(t) /\ Given(u)
    BY <1>1, <1>4, <2>1, <2>2 DEF Given, Positions, Fresh
  <2>3. ASSUME NEW g \in Handler, NEW a \in 1..Len(sent'), NEW b \in 1..Len(sent'), a # b,
               Answers(g, a), answers'[a].res \in {"ok", "projection"},
               answers'[b].res \in {"ok", "projection"}, sent'[a].stream = sent'[b].stream
        PROVE  answers'[a].from # answers'[b].from
    <3>1. /\ pc[g] = "publish" /\ answers'[a].from = Len(hist[g]) + 1 /\ sent' = sent
          /\ answers'[b] = answers[b] /\ sent[a] = Cmd(g)
      BY <2>3 DEF Answers
    <3>2. Fresh(b) /\ sent[b].stream = Cmd(g).stream /\ b \in 1..Len(sent)
      BY <2>3, <3>1 DEF Fresh
    <3> QED BY <1>1, <3>1, <3>2 DEF Positions
  <2> QED BY <1>1, <1>4, <2>1, <2>2, <2>3, GivenOrAnswered
<1> QED BY <1>2, <1>3, <1>4 DEF Positions

-----------------------------------------------------------------------------
\* What one answered caller is promised.
Durable(t) ==
    LET s == sent[t].stream
        a == answers[t]
    IN
    /\ a.res \in {"ok", "projection"} =>
         /\ 1 <= a.from /\ a.from <= a.ver /\ a.ver <= Len(log[s])
         /\ log[s][a.from].key = sent[t].key
         /\ \A i \in a.from + 1 .. a.ver : log[s][i].key = NoKey
    /\ a.res = "replayed" =>
         /\ a.ver \in 1..Len(log[s])
         /\ log[s][a.ver].key = sent[t].key

\* An answer that was given stays true: streams only grow.
LEMMA DurableKept ==
    ASSUME TypeOK, TypeOK', AppendOnlyStep, NEW t \in 1..Len(sent), Durable(t), Given(t)
    PROVE  Durable(t)'
<1>1. sent[t] \in Command /\ t \in 1..MaxSubmits
  BY MaxSubmitsIsNat DEF TypeOK
<1>2. PICK s \in AllStreams : s = sent[t].stream
  BY <1>1, CommandsAreTyped DEF AllStreams, Abs!AllStreams
<1>3. PICK from \in Nat, ver \in Nat : from = answers[t].from /\ ver = answers[t].ver
  BY <1>1 DEF TypeOK, Answer
<1>4. PICK n \in Nat, m \in Nat : n = Len(log[s]) /\ m = Len(log'[s])
  BY DEF TypeOK
<1>5. n <= m /\ \A i \in 1..n : log'[s][i] = log[s][i]
  BY <1>4 DEF AppendOnlyStep
<1>6. answers'[t] = answers[t] /\ sent'[t] = sent[t]
  BY DEF Given
<1>7. ASSUME answers[t].res \in {"ok", "projection"}
      PROVE  /\ 1 <= from /\ from <= ver /\ ver <= m
             /\ log'[s][from].key = sent[t].key
             /\ \A i \in from + 1 .. ver : log'[s][i].key = NoKey
  <2>1. /\ 1 <= from /\ from <= ver /\ ver <= n
        /\ log[s][from].key = sent[t].key
        /\ \A i \in from + 1 .. ver : log[s][i].key = NoKey
    BY <1>2, <1>3, <1>4, <1>7 DEF Durable
  <2>2. from \in 1..n /\ \A i \in from + 1 .. ver : i \in 1..n
    BY <2>1
  <2> QED BY <1>5, <2>1, <2>2
<1>8. ASSUME answers[t].res = "replayed"
      PROVE  ver \in 1..m /\ log'[s][ver].key = sent[t].key
  <2>1. ver \in 1..n /\ log[s][ver].key = sent[t].key
    BY <1>2, <1>3, <1>4, <1>8 DEF Durable
  <2> QED BY <1>5, <2>1
<1> QED BY <1>2, <1>3, <1>4, <1>6, <1>7, <1>8 DEF Durable

\* A new answer is true when it is given.
LEMMA DurableGiven ==
    ASSUME IInv, BatchWritten, NEW g \in Handler, NEW t \in 1..Len(sent), Answers(g, t)
    PROVE  Durable(t)'
<1>1. TypeOK /\ sent' = sent /\ sent[t] = Cmd(g) /\ pc[g] # "idle"
  BY DEF IInv, Answers
<1>2. PICK s \in AllStreams, key \in Key \union {NoKey} : s = Cmd(g).stream /\ key = Cmd(g).key
  BY <1>1, CmdType
<1>3. PICK evs \in Seq(Event), n \in Nat, m \in Nat, len \in Nat :
        evs = dec[g].evs /\ n = Len(hist[g]) /\ m = Len(evs) /\ len = Len(log[s])
  BY <1>1 DEF TypeOK, Outcome, Abs!Outcome
<1>4. PICK a : a = answers'[t]
  OBVIOUS
<1>5. ASSUME a.res \in {"ok", "projection"}
      PROVE  /\ 1 <= a.from /\ a.from <= a.ver /\ a.ver <= Len(log'[s])
             /\ log'[s][a.from].key = key
             /\ \A i \in a.from + 1 .. a.ver : log'[s][i].key = NoKey
  <2>1. pc[g] = "publish" /\ log' = log /\ a.from = n + 1 /\ a.ver = n + m
    BY <1>3, <1>4, <1>5 DEF Answers
  <2>2. /\ m >= 1 /\ n + m <= len /\ log[s][n + 1].key = key
        /\ \A i \in 2..m : log[s][n + i].key = NoKey
    BY <1>2, <1>3, <2>1 DEF BatchWritten, Held
  <2>3. ASSUME NEW i \in (n + 1) + 1 .. n + m PROVE log[s][i].key = NoKey
    <3>1. i - n \in 2..m /\ n + (i - n) = i
      OBVIOUS
    <3> QED BY <2>2, <3>1
  <2>4. 1 <= n + 1 /\ n + 1 <= n + m /\ n + m <= len
    BY <2>2
  <2>5. 1 <= a.from /\ a.from <= a.ver /\ a.ver <= Len(log'[s])
    BY <1>3, <2>1, <2>4
  <2> QED BY <2>1, <2>2, <2>3, <2>5
<1>6. ASSUME a.res = "replayed"
      PROVE  a.ver \in 1..Len(log'[s]) /\ log'[s][a.ver].key = key
  <2>1. log' = log /\ Applied(s, key) /\ a.ver = VersionOf(s, key)
    BY <1>2, <1>4, <1>6 DEF Answers
  <2> QED BY <1>1, <2>1, VersionOfFacts
<1> QED BY <1>1, <1>2, <1>4, <1>5, <1>6 DEF Durable

\* No step makes an answer untrue.
LEMMA DurableStep == AInv /\ [Next]_vars => AcknowledgedIsDurable'
<1> SUFFICES ASSUME AInv, [Next]_vars PROVE AcknowledgedIsDurable'
  OBVIOUS
<1>1. IInv /\ TypeOK /\ TypeOK' /\ AppendOnlyStep /\ BatchWritten /\ Tickets
  BY TypeStep, AppendOnlyLemma DEF AInv, IInv
<1>2. \A t \in 1..Len(sent) : Durable(t)
  BY DEF AInv, AcknowledgedIsDurable, Durable
<1>3. ASSUME NEW t \in 1..Len(sent') PROVE Durable(t)'
  <2>1. CASE answers'[t].res = "none"
    BY <2>1 DEF Durable
  <2>2. CASE answers'[t].res # "none"
    <3>1. CASE Given(t)
      <4>1. t \in 1..Len(sent)
        BY <3>1 DEF Given
      <4> QED BY <1>1, <1>2, <3>1, <4>1, DurableKept
    <3>2. ASSUME NEW g \in Handler, Answers(g, t) PROVE Durable(t)'
      <4>1. t \in 1..Len(sent)
        BY <3>2 DEF Answers
      <4> QED BY <1>1, <3>2, <4>1, DurableGiven
    <3> QED BY <1>1, <2>2, <3>1, <3>2, GivenOrAnswered
  <2> QED BY <2>1, <2>2
<1> QED BY <1>3 DEF AcknowledgedIsDurable, Durable

-----------------------------------------------------------------------------
\* The inductive invariant holds of every reachable state.
THEOREM AnswerInvariant == Spec => []AInv
<1>1. Init => AInv
  <2> SUFFICES ASSUME Init PROVE AInv
    OBVIOUS
  <2>1. BatchWritten /\ Positions /\ AcknowledgedIsDurable
    BY DEF Init, BatchWritten, Positions, AcknowledgedIsDurable
  <2>2. Tickets
    BY DEF Init, Tickets, NoAnswer
  <2> QED BY <2>1, <2>2, InitIInv DEF AInv
<1>2. AInv /\ [Next]_vars => AInv'
  BY NextIInv, BatchStep, TicketStep, PositionStep, DurableStep DEF AInv, IInv
<1> QED BY <1>1, <1>2, PTL DEF Spec

\* A caller told that its command took effect finds it in the ledger.
THEOREM PipelineAcknowledged == Spec => []AcknowledgedIsDurable
<1>1. AInv => AcknowledgedIsDurable
  BY DEF AInv
<1> QED BY <1>1, AnswerInvariant, PTL

\* The reread after an append starts with the handler's own events.
THEOREM PipelinePublishesOwn == Spec => []PublishesOwnBatch
<1>1. AInv => PublishesOwnBatch
  <2> SUFFICES ASSUME AInv, NEW h \in Handler, pc[h] = "publish"
               PROVE  /\ Len(log[Cmd(h).stream]) >= Len(hist[h]) + Len(dec[h].evs)
                      /\ \A i \in 1..Len(dec[h].evs) :
                           log[Cmd(h).stream][Len(hist[h]) + i].ev = dec[h].evs[i]
    BY DEF PublishesOwnBatch
  <2>1. TypeOK /\ Cmd(h).stream \in AllStreams
    BY CmdType DEF AInv, IInv
  <2>2. Len(log[Cmd(h).stream]) \in Nat /\ Len(hist[h]) \in Nat /\ Len(dec[h].evs) \in Nat
    BY <2>1 DEF TypeOK, Outcome, Abs!Outcome
  <2> QED BY <2>2 DEF AInv, BatchWritten, Held
<1> QED BY <1>1, AnswerInvariant, PTL

\* Of any number of racing retries of one key, one is told of a fresh success.
THEOREM PipelineOneFreshSuccess == Spec => []OneFreshSuccessPerKey
<1>1. AInv => OneFreshSuccessPerKey
  <2> SUFFICES ASSUME AInv, NEW t \in 1..Len(sent), NEW u \in 1..Len(sent), t # u,
                      Fresh(t), Fresh(u), sent[t].stream = sent[u].stream,
                      sent[t].key = sent[u].key, sent[t].key # NoKey
               PROVE  FALSE
    BY DEF OneFreshSuccessPerKey, Fresh
  <2>1. TypeOK /\ KeyOnce /\ AcknowledgedIsDurable /\ answers[t].from # answers[u].from
    BY DEF AInv, IInv, Positions
  <2>2. PICK s \in AllStreams : s = sent[t].stream
    <3>1. sent[t] \in Command
      BY <2>1 DEF TypeOK
    <3> QED BY <3>1, CommandsAreTyped DEF AllStreams, Abs!AllStreams
  <2>3. ASSUME NEW v \in {t, u}
        PROVE  answers[v].from \in 1..Len(log[s]) /\ log[s][answers[v].from].key = sent[t].key
    <3>1. answers[v].from \in Nat /\ Len(log[s]) \in Nat /\ answers[v].from <= Len(log[s])
      BY <2>1, <2>2, FreshBounds
    <3>2. 1 <= answers[v].from /\ log[s][answers[v].from].key = sent[v].key
      BY <2>1, <2>2 DEF AcknowledgedIsDurable, Fresh
    <3> QED BY <3>1, <3>2
  <2> QED BY <2>1, <2>3 DEF KeyOnce
<1> QED BY <1>1, AnswerInvariant, PTL

-----------------------------------------------------------------------------
\* What RefusalsAreRecorded counts: the callers told, and the records.
TellsOf(c) == {t \in 1..Len(sent) : sent[t] = c /\ answers[t].res = "rejected"}
RefusalsOf(c) == {i \in 1..Len(log[RejectedStream]) : log[RejectedStream][i].ev.rejected = c}

\* Fewer on the left and more on the right keeps the order of the two sizes.
LEMMA CountGrows ==
    ASSUME NEW L, NEW L2, NEW R, NEW R2, IsFiniteSet(L), IsFiniteSet(R2),
           L2 \subseteq L, R \subseteq R2, Cardinality(L) <= Cardinality(R)
    PROVE  Cardinality(L2) <= Cardinality(R2)
<1>1. IsFiniteSet(L2) /\ Cardinality(L2) <= Cardinality(L)
  BY FS_Subset
<1>2. IsFiniteSet(R) /\ Cardinality(R) <= Cardinality(R2)
  BY FS_Subset
<1>3. /\ Cardinality(L) \in Nat /\ Cardinality(L2) \in Nat
      /\ Cardinality(R) \in Nat /\ Cardinality(R2) \in Nat
  BY <1>1, <1>2, FS_CardinalityType
<1> QED BY <1>1, <1>2, <1>3

\* So does at most one more on the left with a new one on the right.
LEMMA CountBoth ==
    ASSUME NEW L, NEW L2, NEW R, NEW R2, NEW t, NEW i, IsFiniteSet(L), IsFiniteSet(R2),
           L2 \subseteq L \union {t}, R \subseteq R2, i \in R2, i \notin R,
           Cardinality(L) <= Cardinality(R)
    PROVE  Cardinality(L2) <= Cardinality(R2)
<1>1. IsFiniteSet(R) /\ Cardinality(R) <= Cardinality(R2) /\ Cardinality(R) # Cardinality(R2)
  BY FS_Subset
<1>2. /\ IsFiniteSet(L \union {t})
      /\ Cardinality(L \union {t}) = IF t \in L THEN Cardinality(L) ELSE Cardinality(L) + 1
  BY FS_AddElement, Zenon
<1>3. IsFiniteSet(L2) /\ Cardinality(L2) <= Cardinality(L \union {t})
  BY <1>2, FS_Subset
<1>4. /\ Cardinality(L) \in Nat /\ Cardinality(L2) \in Nat
      /\ Cardinality(R) \in Nat /\ Cardinality(R2) \in Nat
  BY <1>1, <1>3, FS_CardinalityType
<1> QED BY <1>1, <1>2, <1>3, <1>4

\* A step that tells a caller of a refusal records it; no other step takes a
\* record away or tells anybody.
LEMMA RefusalStep ==
    ASSUME IInv, Tickets, RefusalsAreRecorded, [Next]_vars
    PROVE  RefusalsAreRecorded'
<1>1. TypeOK /\ TypeOK' /\ AppendOnlyStep /\ RejectedStream \in AllStreams
  BY TypeStep, AppendOnlyLemma DEF IInv, AllStreams, Abs!AllStreams
<1>2. PICK n \in Nat : n = Len(sent')
  BY <1>1 DEF TypeOK
<1>3. PICK m \in Nat : m = Len(log'[RejectedStream])
  BY <1>1 DEF TypeOK
<1>4. PICK k \in Nat : k = Len(log[RejectedStream])
  BY <1>1 DEF TypeOK
<1>5. k <= m /\ \A i \in 1..k : log'[RejectedStream][i] = log[RejectedStream][i]
  BY <1>1, <1>3, <1>4 DEF AppendOnlyStep
<1>6. Len(sent) \in Nat /\ Len(sent) <= n /\ \A i \in 1..Len(sent) : sent'[i] = sent[i]
  <2>1. ASSUME NEW h \in Handler, NEW c \in Command, Submit(h, c)
        PROVE  Len(sent) \in Nat /\ Len(sent) <= n /\ \A i \in 1..Len(sent) : sent'[i] = sent[i]
    BY <1>1, <1>2, <2>1 DEF Submit, TypeOK
  <2>2. ASSUME sent' = sent
        PROVE  Len(sent) \in Nat /\ Len(sent) <= n /\ \A i \in 1..Len(sent) : sent'[i] = sent[i]
    BY <1>2, <2>2
  <2>3. ASSUME NEW h \in Handler, NEW res, NEW from, NEW ver, Tells(h, res, from, ver)
        PROVE  sent' = sent
    BY <2>3 DEF Tells, Respond
  <2> QED BY <1>1, <2>1, <2>2, <2>3, AnswerCases
<1>7. ASSUME NEW c \in Command
      PROVE  Cardinality(TellsOf(c)') <= Cardinality(RefusalsOf(c)')
  <2>1. PICK L, L2 : L = TellsOf(c) /\ L2 = TellsOf(c)'
    OBVIOUS
  <2>2. PICK R, R2 : R = RefusalsOf(c) /\ R2 = RefusalsOf(c)'
    OBVIOUS
  <2>3. L \in SUBSET (1..n) /\ L2 \in SUBSET (1..n)
    BY <1>2, <1>6, <2>1 DEF TellsOf
  <2>4. R \in SUBSET (1..m) /\ R2 \in SUBSET (1..m) /\ R \subseteq R2
    BY <1>3, <1>4, <1>5, <2>2 DEF RefusalsOf
  <2>5. Cardinality(L) <= Cardinality(R)
    BY <2>1, <2>2 DEF RefusalsAreRecorded, TellsOf, RefusalsOf
  <2>6. IsFiniteSet(L) /\ IsFiniteSet(R2)
    <3>1. IsFiniteSet(1..n) /\ IsFiniteSet(1..m)
      BY FS_Interval
    <3> QED BY <2>3, <2>4, <3>1, FS_Subset
  <2>7. CASE \A t \in L2 : Given(t)
    <3>1. L2 \subseteq L
      BY <1>2, <2>1, <2>7 DEF TellsOf, Given
    <3>2. Cardinality(L2) <= Cardinality(R2)
      BY <2>4, <2>5, <2>6, <3>1, CountGrows
    <3> QED BY <2>1, <2>2, <3>2
  <2>8. ASSUME NEW t \in L2, ~Given(t)
        PROVE  Cardinality(TellsOf(c)') <= Cardinality(RefusalsOf(c)')
    <3>1. t \in 1..Len(sent') /\ sent'[t] = c /\ answers'[t].res = "rejected"
      BY <2>1, <2>8 DEF TellsOf
    <3>2. PICK g \in Handler : Answers(g, t)
      BY <1>1, <2>8, <3>1, GivenOrAnswered
    <3>3. /\ sent' = sent /\ Cmd(g) = c /\ Refuses(g)
          /\ \A u \in 1..Len(sent) : u # t => answers'[u] = answers[u]
      BY <3>1, <3>2 DEF Answers
    <3>4. L2 \subseteq L \union {t}
      BY <2>1, <3>3 DEF TellsOf
    <3>5. m = k + 1 /\ log'[RejectedStream][k + 1].ev.rejected = c
      BY <1>1, <1>3, <1>4, <3>3 DEF Refuses, Recorded, TypeOK
    <3>6. k + 1 \in R2 /\ k + 1 \notin R
      BY <1>3, <1>4, <2>2, <3>5 DEF RefusalsOf
    <3>7. Cardinality(L2) <= Cardinality(R2)
      BY <2>4, <2>5, <2>6, <3>4, <3>6, CountBoth
    <3> QED BY <2>1, <2>2, <3>7
  <2> QED BY <2>7, <2>8
<1> QED BY <1>7 DEF RefusalsAreRecorded, TellsOf, RefusalsOf

\* A refusal that is told without an error of its own is on record, however many
\* callers are refused at once and whichever of their handlers crash.
THEOREM PipelineRefusalsRecorded == Spec => []RefusalsAreRecorded
<1>1. Init => RefusalsAreRecorded
  <2> SUFFICES ASSUME Init, NEW c \in Command
               PROVE  Cardinality(TellsOf(c)) <= Cardinality(RefusalsOf(c))
    BY DEF RefusalsAreRecorded, TellsOf, RefusalsOf
  <2>1. RejectedStream \in AllStreams
    BY DEF AllStreams, Abs!AllStreams
  <2>2. TellsOf(c) = {} /\ RefusalsOf(c) = {}
    BY <2>1 DEF Init, TellsOf, RefusalsOf
  <2> QED BY <2>2, FS_EmptySet
<1>2. AInv /\ RefusalsAreRecorded /\ [Next]_vars => RefusalsAreRecorded'
  BY RefusalStep DEF AInv
<1> QED BY <1>1, <1>2, AnswerInvariant, PTL DEF Spec
-----------------------------------------------------------------------------
\* A set of histories of a stream that the decisions taken on them do not leave.
Closed(s, Good) ==
    \A r \in Good, c \in Command, x \in Context :
        LET d == Decide(r, c, x) IN
        /\ c.stream = s
        /\ d \in Outcome
        /\ ~d.refused
        /\ d.evs # << >>
        => r \o Seal(d.evs, c.key) \in Good

\* Whatever one decision after the other preserves, the racing handlers preserve:
\* every append is decided on the whole stream it extends.
LEMMA StreamStep ==
    ASSUME IInv, [Next]_vars, NEW s \in Stream, NEW Good, Closed(s, Good), log[s] \in Good
    PROVE  log'[s] \in Good
<1>1. CASE UNCHANGED log
  BY <1>1
<1>2. ASSUME NEW h \in Handler, Writes(h) PROVE log'[s] \in Good
  <2>1. Abs!Execute(Cmd(h)) /\ Cmd(h) \in Command
    BY <1>2, WriteIsExecute
  <2>2. PICK c \in Command : c = Cmd(h)
    BY <2>1
  <2>3. PICK x \in Context :
          LET d == Decide(log[c.stream], c, x) IN
          /\ d \in Outcome
          /\ ~d.refused
          /\ d.evs # << >>
          /\ log' = [log EXCEPT ![c.stream] = @ \o Seal(d.evs, c.key)]
    BY <2>1, <2>2 DEF Abs!Execute, Seal, Outcome
  <2>4. c.stream \in AllStreams /\ s \in AllStreams /\ log \in [AllStreams -> Seq(Record)]
    BY CommandsAreTyped DEF AllStreams, Abs!AllStreams, IInv, TypeOK
  <2>5. CASE c.stream = s
    <3>1. PICK d : d = Decide(log[s], c, x)
      OBVIOUS
    <3>2. log' = [log EXCEPT ![s] = @ \o Seal(d.evs, c.key)] /\ d \in Outcome /\ ~d.refused /\ d.evs # << >>
      BY <2>3, <2>5, <3>1
    <3>3. log[s] \o Seal(d.evs, c.key) \in Good
      BY <2>5, <3>1, <3>2 DEF Closed
    <3> QED BY <2>4, <3>2, <3>3
  <2>6. CASE c.stream # s
    BY <2>3, <2>4, <2>6
  <2> QED BY <2>5, <2>6
<1>3. ASSUME NEW h \in Handler, Refuses(h) PROVE log'[s] \in Good
  <2>1. s # RejectedStream /\ s \in AllStreams /\ log \in [AllStreams -> Seq(Record)]
    BY NamesAreDistinct DEF AllStreams, Abs!AllStreams, IInv, TypeOK
  <2> QED BY <1>3, <2>1 DEF Refuses, Recorded
<1> QED BY <1>1, <1>2, <1>3, LogCases

-----------------------------------------------------------------------------
\* The replay of a stream: the recursion of Replay, up to record n.
FoldOf(F, s, n, q) ==
    F = [i \in 0..n |-> IF i = 0 THEN Zero(s) ELSE ApplyTo(s, F[i-1], q[i].ev)]

\* A set of naturals that is not empty has a least element.
LEMMA LeastOf ==
    ASSUME NEW S, S \subseteq Nat, S # {}
    PROVE  \E x \in S : \A y \in S : x <= y
<1> DEFINE Less == {ss \in Nat \X Nat : ss[1] < ss[2]}
<1>1. IsWellFoundedOn(Less, Nat)
  BY NatLessThanWellFounded, Zenon DEF OpToRel
<1>2. PICK x \in S : \A y \in S : ~(<<y, x>> \in Less)
  BY <1>1, WFMin
<1>3. ASSUME NEW y \in S, ~(x <= y) PROVE FALSE
  <2>1. y \in Nat /\ x \in Nat /\ y < x
    BY <1>3
  <2>2. <<y, x>> \in Less
    BY <2>1
  <2> QED BY <1>2, <2>2
<1> QED BY <1>3

\* A fold, place by place.
Stepwise(F, s, n, q) ==
    /\ F = [i \in 0..n |-> F[i]]
    /\ F[0] = Zero(s)
    /\ \A i \in 1..n : F[i] = ApplyTo(s, F[i-1], q[i].ev)

\* The recursion is this step.
LEMMA FoldAt ==
    ASSUME NEW F, NEW s, NEW n \in Nat, NEW q, FoldOf(F, s, n, q)
    PROVE  Stepwise(F, s, n, q)
<1>1. \A i \in 0..n : F[i] = IF i = 0 THEN Zero(s) ELSE ApplyTo(s, F[i-1], q[i].ev)
  BY DEF FoldOf
<1>2. F = [i \in 0..n |-> F[i]]
  <2>1. DOMAIN F = 0..n
    BY DEF FoldOf
  <2>2. F = [i \in DOMAIN F |-> F[i]]
    BY DEF FoldOf
  <2> QED BY <2>1, <2>2
<1>3. F[0] = Zero(s)
  BY <1>1
<1>4. ASSUME NEW i \in 1..n PROVE F[i] = ApplyTo(s, F[i-1], q[i].ev)
  <2>1. i \in 0..n /\ i # 0
    OBVIOUS
  <2> QED BY <1>1, <2>1
<1> QED BY <1>2, <1>3, <1>4, Zenon DEF Stepwise

\* The recursion has one solution.
LEMMA FoldUnique ==
    ASSUME NEW F, NEW G, NEW s, NEW n \in Nat, NEW q, FoldOf(F, s, n, q), FoldOf(G, s, n, q)
    PROVE  F = G
<1>1. Stepwise(F, s, n, q) /\ Stepwise(G, s, n, q)
  BY FoldAt
<1>3. PICK S : S = {i \in 0..n : F[i] # G[i]}
  OBVIOUS
<1>4. ASSUME S # {} PROVE FALSE
  <2>1. PICK i \in S : \A j \in S : i <= j
    <3>1. S \subseteq Nat
      BY <1>3
    <3> QED BY <1>4, <3>1, LeastOf
  <2>2. i \in 0..n /\ F[i] # G[i]
    BY <1>3, <2>1
  <2>3. i \in 1..n
    BY <1>1, <2>2 DEF Stepwise
  <2>4. i - 1 \in 0..n /\ i - 1 \notin S
    BY <2>1, <2>3
  <2>5. F[i-1] = G[i-1]
    BY <1>3, <2>4
  <2>6. F[i] = G[i]
    BY <1>1, <2>3, <2>5 DEF Stepwise
  <2> QED BY <2>2, <2>6
<1>5. \A i \in 0..n : F[i] = G[i]
  BY <1>3, <1>4
<1> QED BY <1>1, <1>5 DEF Stepwise

\* And it has a solution that goes one record further.
LEMMA FoldFurther ==
    ASSUME NEW F, NEW s, NEW n \in Nat, NEW q, FoldOf(F, s, n, q)
    PROVE  \E G : FoldOf(G, s, n + 1, q) /\ G[n + 1] = ApplyTo(s, F[n], q[n + 1].ev)
<1>1. PICK v : v = ApplyTo(s, F[n], q[n + 1].ev)
  OBVIOUS
<1>2. PICK G : G = [i \in 0..(n + 1) |-> IF i = n + 1 THEN v ELSE F[i]]
  OBVIOUS
<1>3. ASSUME NEW i \in 0..(n + 1)
      PROVE  G[i] = IF i = 0 THEN Zero(s) ELSE ApplyTo(s, G[i-1], q[i].ev)
  <2>1. CASE i = 0
    BY <1>2, <2>1, FoldAt DEF Stepwise
  <2>2. CASE i = n + 1
    <3>1. G[i] = v /\ i - 1 = n /\ G[i-1] = F[n] /\ i # 0
      BY <1>2, <2>2
    <3> QED BY <1>1, <2>2, <3>1
  <2>3. CASE i # 0 /\ i # n + 1
    <3>1. i \in 1..n /\ G[i] = F[i] /\ G[i-1] = F[i-1]
      BY <1>2, <2>3
    <3>2. Stepwise(F, s, n, q)
      BY FoldAt
    <3>3. F[i] = ApplyTo(s, F[i-1], q[i].ev)
      BY <3>1, <3>2 DEF Stepwise
    <3> QED BY <3>1, <3>3, <2>3
  <2> QED BY <2>1, <2>2, <2>3
<1>4. FoldOf(G, s, n + 1, q)
  BY <1>2, <1>3 DEF FoldOf
<1>5. G[n + 1] = v
  BY <1>2
<1> QED BY <1>1, <1>4, <1>5

\* Every history can be replayed, to any length.
LEMMA FoldExists ==
    ASSUME NEW s, NEW q, NEW n \in Nat
    PROVE  \E F : FoldOf(F, s, n, q)
<1> DEFINE S == {k \in Nat : ~\E F : FoldOf(F, s, k, q)}
<1>1. ASSUME S # {} PROVE FALSE
  <2>1. PICK k \in S : \A j \in S : k <= j
    BY <1>1, LeastOf
  <2>2. k # 0
    <3>1. FoldOf([i \in 0..0 |-> Zero(s)], s, 0, q)
      <4>1. \A i \in 0..0 : i = 0
        OBVIOUS
      <4> QED BY <4>1 DEF FoldOf
    <3> QED BY <2>1, <3>1
  <2>3. k - 1 \in Nat /\ k - 1 \notin S
    BY <2>1, <2>2
  <2>4. PICK F : FoldOf(F, s, k - 1, q)
    BY <2>3
  <2>5. \E G : FoldOf(G, s, (k - 1) + 1, q)
    BY <2>3, <2>4, FoldFurther
  <2> QED BY <2>1, <2>5
<1> QED BY <1>1

\* Replay is the end of the fold.
LEMMA ReplayIs ==
    ASSUME NEW s, NEW q, Len(q) \in Nat, NEW F, FoldOf(F, s, Len(q), q)
    PROVE  Replay(s, q) = F[Len(q)]
<1>1. PICK G : G = CHOOSE f : FoldOf(f, s, Len(q), q)
  OBVIOUS
<1>2. FoldOf(G, s, Len(q), q)
  BY <1>1
<1>3. Replay(s, q) = G[Len(q)]
  BY <1>1 DEF Replay, FoldOf
<1> QED BY <1>2, <1>3, FoldUnique

\* A stream without records is the empty aggregate.
LEMMA ReplayNone == \A s : Replay(s, << >>) = Zero(s)
<1> TAKE s
<1>1. PICK q : q = << >>
  OBVIOUS
<1>2. Len(q) = 0
  BY <1>1
<1>3. PICK F : FoldOf(F, s, 0, q)
  BY FoldExists
<1>4. F[0] = Zero(s)
  BY <1>3, FoldAt DEF Stepwise
<1>5. Replay(s, q) = F[0]
  BY <1>2, <1>3, ReplayIs
<1> QED BY <1>1, <1>4, <1>5

\* One more record is one more Apply.
LEMMA ReplayAppend ==
    ASSUME NEW s, NEW q \in Seq(Record), NEW r \in Record
    PROVE  Replay(s, Append(q, r)) = ApplyTo(s, Replay(s, q), r.ev)
<1>1. PICK p : p = Append(q, r)
  OBVIOUS
<1>2. PICK n \in Nat : n = Len(q)
  OBVIOUS
<1>3. Len(p) = n + 1 /\ p[n + 1] = r /\ \A i \in 1..n : p[i] = q[i]
  BY <1>1, <1>2
<1>4. PICK F : FoldOf(F, s, n, q)
  BY FoldExists
<1>5. FoldOf(F, s, n, p)
  <2>1. \A i \in 0..n : F[i] = IF i = 0 THEN Zero(s) ELSE ApplyTo(s, F[i-1], p[i].ev)
    <3> SUFFICES ASSUME NEW i \in 0..n
                 PROVE  F[i] = IF i = 0 THEN Zero(s) ELSE ApplyTo(s, F[i-1], p[i].ev)
      OBVIOUS
    <3>1. CASE i = 0
      BY <1>4, <3>1, FoldAt DEF Stepwise
    <3>2. CASE i # 0
      <4>1. i \in 1..n
        BY <3>2
      <4>2. F[i] = ApplyTo(s, F[i-1], q[i].ev)
        <5>1. Stepwise(F, s, n, q)
          BY <1>4, FoldAt
        <5> QED BY <4>1, <5>1 DEF Stepwise
      <4>3. p[i] = q[i]
        BY <1>3, <4>1
      <4> QED BY <3>2, <4>2, <4>3
    <3> QED BY <3>1, <3>2
  <2>2. F = [i \in 0..n |-> F[i]]
    BY <1>4, FoldAt DEF Stepwise
  <2> QED BY <2>1, <2>2 DEF FoldOf
<1>6. PICK G : FoldOf(G, s, n + 1, p) /\ G[n + 1] = ApplyTo(s, F[n], p[n + 1].ev)
  BY <1>5, FoldFurther
<1>7. Replay(s, p) = G[n + 1] /\ Replay(s, q) = F[n]
  BY <1>2, <1>3, <1>4, <1>6, ReplayIs
<1> QED BY <1>1, <1>3, <1>6, <1>7
-----------------------------------------------------------------------------
\* The record of an event: the key goes with the first of its batch.
Sealed(e, key) == [ev |-> e, key |-> key]

\* Short sequences and what is at their places.
LEMMA Pairs ==
    ASSUME NEW S, NEW a \in S, NEW b \in S
    PROVE  /\ <<a>> \in Seq(S) /\ Len(<<a>>) = 1 /\ <<a>>[1] = a
           /\ <<a, b>> \in Seq(S) /\ Len(<<a, b>>) = 2 /\ <<a, b>>[1] = a /\ <<a, b>>[2] = b
OBVIOUS

\* The beginning of a concatenation.
LEMMA ConcatStart ==
    ASSUME NEW S, NEW q \in Seq(S), NEW d \in Seq(S)
    PROVE  /\ q \o d \in Seq(S)
           /\ Len(q \o d) = Len(q) + Len(d)
           /\ \A i \in 1..Len(q) : (q \o d)[i] = q[i]
OBVIOUS

\* The end of a concatenation.
EndIs(q, d) == \A i \in 1..Len(d) : (q \o d)[Len(q) + i] = d[i]

\* It is the second sequence.
LEMMA ConcatEnd ==
    ASSUME NEW S, NEW q \in Seq(S), NEW d \in Seq(S)
    PROVE  EndIs(q, d)
<1>1. ASSUME NEW i \in 1..Len(d) PROVE (q \o d)[Len(q) + i] = d[i]
  OBVIOUS
<1> QED BY <1>1 DEF EndIs

\* A sequence and one element.
LEMMA ConcatOne ==
    ASSUME NEW S, NEW q \in Seq(S), NEW a \in S
    PROVE  q \o <<a>> = Append(q, a)
<1>1. PICK b : b = <<a>>
  OBVIOUS
<1>2. b \in Seq(S) /\ Len(b) = 1 /\ b[1] = a
  BY <1>1, Pairs
<1>3. PICK p : p = q \o b
  OBVIOUS
<1>4. p \in Seq(S) /\ Len(p) = Len(q) + 1 /\ p[Len(q) + 1] = a /\ \A i \in 1..Len(q) : p[i] = q[i]
  <2>1. p \in Seq(S) /\ Len(p) = Len(q) + Len(b) /\ \A i \in 1..Len(q) : p[i] = q[i]
    BY <1>2, <1>3, ConcatStart
  <2>2. EndIs(q, b)
    BY <1>2, ConcatEnd
  <2>3. 1 \in 1..Len(b)
    BY <1>2
  <2>4. (q \o b)[Len(q) + 1] = b[1]
    BY <2>2, <2>3 DEF EndIs
  <2> QED BY <1>2, <1>3, <2>1, <2>4
<1>5. PICK c : c = Append(q, a)
  OBVIOUS
<1>6. c \in Seq(S) /\ Len(c) = Len(q) + 1 /\ c[Len(q) + 1] = a /\ \A i \in 1..Len(q) : c[i] = q[i]
  BY <1>5
<1>7. \A i \in 1..Len(p) : p[i] = c[i]
  BY <1>4, <1>6
<1>8. p = c
  BY <1>4, <1>6, <1>7, SeqEqual
<1> QED BY <1>1, <1>3, <1>5, <1>8

\* A sequence and two.
LEMMA ConcatTwo ==
    ASSUME NEW S, NEW q \in Seq(S), NEW a \in S, NEW b \in S
    PROVE  q \o <<a, b>> = Append(Append(q, a), b)
<1>1. PICK d : d = <<a, b>>
  OBVIOUS
<1>2. d \in Seq(S) /\ Len(d) = 2 /\ d[1] = a /\ d[2] = b
  BY <1>1, Pairs
<1>3. PICK p : p = q \o d
  OBVIOUS
<1>4. PICK n \in Nat : n = Len(q)
  OBVIOUS
<1>5. p \in Seq(S) /\ Len(p) = n + 2 /\ p[n + 1] = a /\ p[n + 2] = b /\ \A i \in 1..n : p[i] = q[i]
  <2>1. p \in Seq(S) /\ Len(p) = Len(q) + Len(d) /\ \A i \in 1..Len(q) : p[i] = q[i]
    BY <1>2, <1>3, ConcatStart
  <2>2. p[Len(q) + 1] = d[1] /\ p[Len(q) + 2] = d[2]
    <3>1. EndIs(q, d)
      BY <1>2, ConcatEnd
    <3>2. 1 \in 1..Len(d) /\ 2 \in 1..Len(d)
      BY <1>2
    <3>3. (q \o d)[Len(q) + 1] = d[1]
      BY <3>1, <3>2 DEF EndIs
    <3>4. (q \o d)[Len(q) + 2] = d[2]
      BY <3>1, <3>2 DEF EndIs
    <3> QED BY <1>3, <3>3, <3>4
  <2> QED BY <1>2, <1>4, <2>1, <2>2
<1>6. PICK c : c = Append(q, a)
  OBVIOUS
<1>7. c \in Seq(S) /\ Len(c) = n + 1 /\ c[n + 1] = a /\ \A i \in 1..n : c[i] = q[i]
  BY <1>4, <1>6
<1>8. PICK f : f = Append(c, b)
  OBVIOUS
<1>9. f \in Seq(S) /\ Len(f) = n + 2 /\ f[n + 2] = b /\ \A i \in 1..(n + 1) : f[i] = c[i]
  BY <1>7, <1>8
<1>10. ASSUME NEW i \in 1..Len(p) PROVE p[i] = f[i]
  <2>1. i \in 1..n \/ i = n + 1 \/ i = n + 2
    BY <1>5
  <2>2. CASE i \in 1..n
    BY <1>5, <1>7, <1>9, <2>2
  <2>3. CASE i = n + 1
    BY <1>5, <1>7, <1>9, <2>3
  <2>4. CASE i = n + 2
    BY <1>5, <1>9, <2>4
  <2> QED BY <2>1, <2>2, <2>3, <2>4
<1>11. p = f
  BY <1>5, <1>9, <1>10, SeqEqual
<1> QED BY <1>1, <1>3, <1>6, <1>8, <1>11

\* A batch of one event puts one record at the end of its stream.
LEMMA OneAppended ==
    ASSUME NEW q \in Seq(Record), NEW e \in Event, NEW key \in Key \union {NoKey}
    PROVE  /\ Sealed(e, key) \in Record
           /\ q \o Seal(<<e>>, key) = Append(q, Sealed(e, key))
<1>1. Sealed(e, key) \in Record
  BY DEF Sealed, Record, Abs!Record
<1>2. PICK evs : evs = <<e>>
  OBVIOUS
<1>3. evs \in Seq(Event) /\ Len(evs) = 1 /\ evs[1] = e
  BY <1>2, Pairs
<1>4. PICK b : b = Seal(evs, key)
  OBVIOUS
<1>5. b \in Seq(Record) /\ Len(b) = 1
  BY <1>3, <1>4, SealFacts
<1>6. b[1] = Sealed(e, key)
  BY <1>3, <1>4 DEF Seal, Abs!Seal, Sealed
<1>7. PICK a : a = <<Sealed(e, key)>>
  OBVIOUS
<1>8. a \in Seq(Record) /\ Len(a) = 1 /\ a[1] = Sealed(e, key)
  BY <1>1, <1>7, Pairs
<1>9. b = a
  BY <1>5, <1>6, <1>8, SeqEqual
<1>10. q \o a = Append(q, Sealed(e, key))
  BY <1>1, <1>7, ConcatOne
<1> QED BY <1>1, <1>2, <1>4, <1>9, <1>10

\* A batch of two events puts two, the key with the first.
LEMMA TwoAppended ==
    ASSUME NEW q \in Seq(Record), NEW e \in Event, NEW f \in Event, NEW key \in Key \union {NoKey}
    PROVE  /\ Sealed(e, key) \in Record /\ Sealed(f, NoKey) \in Record
           /\ q \o Seal(<<e, f>>, key) = Append(Append(q, Sealed(e, key)), Sealed(f, NoKey))
<1>1. Sealed(e, key) \in Record /\ Sealed(f, NoKey) \in Record
  BY DEF Sealed, Record, Abs!Record
<1>2. PICK evs : evs = <<e, f>>
  OBVIOUS
<1>3. evs \in Seq(Event) /\ Len(evs) = 2 /\ evs[1] = e /\ evs[2] = f
  BY <1>2, Pairs
<1>4. PICK b : b = Seal(evs, key)
  OBVIOUS
<1>5. b \in Seq(Record) /\ Len(b) = 2
  BY <1>3, <1>4, SealFacts
<1>6. b[1] = Sealed(e, key) /\ b[2] = Sealed(f, NoKey)
  BY <1>3, <1>4 DEF Seal, Abs!Seal, Sealed
<1>7. PICK a : a = <<Sealed(e, key), Sealed(f, NoKey)>>
  OBVIOUS
<1>8. a \in Seq(Record) /\ Len(a) = 2 /\ a[1] = Sealed(e, key) /\ a[2] = Sealed(f, NoKey)
  BY <1>1, <1>7, Pairs
<1>9. b = a
  <2>1. \A i \in 1..Len(b) : b[i] = a[i]
    BY <1>5, <1>6, <1>8
  <2> QED BY <1>5, <1>8, <2>1, SeqEqual
<1>10. q \o a = Append(Append(q, Sealed(e, key)), Sealed(f, NoKey))
  BY <1>1, <1>7, ConcatTwo
<1> QED BY <1>1, <1>2, <1>4, <1>9, <1>10

-----------------------------------------------------------------------------
\* Gates.  What an event may do to a gate: open or decide one that is new, or end
\* one that is open.
Follows(g, e) ==
    \/ g.state = "none" /\ e.kind \in {"GateOpened", "GateDecided"}
    \/ g.state = "open" /\ e.kind \in {"GateResolved", "GateExpired"}

\* GateDecide puts one such event into the stream.
LEMMA GateDecision ==
    ASSUME NEW g, NEW m, m.kind \in GateKinds, NEW ctx, NEW d, d = GateDecide(g, m, ctx),
           ~d.refused, d.evs # << >>
    PROVE  \E e : d.evs = <<e>> /\ Follows(g, e)
<1>1. GateReject.refused = TRUE /\ \A evs : GateEmit(evs).evs = evs
  BY DEF GateReject, GateEmit
<1>2. ASSUME NEW e, d = GateEmit(<<e>>), Follows(g, e)
      PROVE  \E f : d.evs = <<f>> /\ Follows(g, f)
  BY <1>1, <1>2
<1>3. d # GateReject /\ d # GateEmit(<< >>)
  BY <1>1
<1>4. CASE m.kind = "RequestGate"
  <2>1. d = RequestDecide(g, m, ctx)
    BY <1>4 DEF GateDecide
  <2>2. g.state = "none" /\ m.wellFormed
    BY <1>3, <2>1 DEF RequestDecide
  <2>3. PICK p : p = GatePolicy(ctx, m.requested)
    OBVIOUS
  <2>4. PICK e : e = IF p = "ask"
                     THEN [kind |-> "GateOpened", requested |-> m.requested,
                           at |-> ctx.now, expiresAt |-> ctx.now + GateTTL]
                     ELSE [kind |-> "GateDecided", requested |-> m.requested,
                           decision |-> p, at |-> ctx.now]
    OBVIOUS
  <2>5. d = GateEmit(<<e>>)
    BY <2>1, <2>2, <2>3, <2>4 DEF RequestDecide
  <2>6. e.kind \in {"GateOpened", "GateDecided"}
    BY <2>4
  <2>7. Follows(g, e)
    BY <2>2, <2>6 DEF Follows
  <2> QED BY <1>2, <2>5, <2>7
<1>5. CASE m.kind = "ResolveGate"
  <2>1. d = ResolveDecide(g, m, ctx)
    BY <1>5 DEF GateDecide
  <2>2. PICK e : e = [kind |-> "GateResolved", decision |-> m.decision, at |-> ctx.now]
    OBVIOUS
  <2>3. g.state = "open" /\ d = GateEmit(<<e>>)
    BY <1>3, <2>1, <2>2 DEF ResolveDecide
  <2>4. e.kind = "GateResolved"
    BY <2>2
  <2>5. Follows(g, e)
    BY <2>3, <2>4 DEF Follows
  <2> QED BY <1>2, <2>3, <2>5
<1>6. CASE m.kind = "ExpireGate"
  <2>1. d = ExpireDecide(g, m, ctx)
    BY <1>6 DEF GateDecide
  <2>2. PICK e : e = [kind |-> "GateExpired", at |-> ctx.now]
    OBVIOUS
  <2>3. g.state = "open" /\ d = GateEmit(<<e>>)
    BY <1>3, <2>1, <2>2 DEF ExpireDecide
  <2>4. e.kind = "GateExpired"
    BY <2>2
  <2>5. Follows(g, e)
    BY <2>3, <2>4 DEF Follows
  <2> QED BY <1>2, <2>3, <2>5
<1> QED BY <1>4, <1>5, <1>6 DEF GateKinds

\* A gate after its records: it is new only without records, nothing answers it
\* while it is open, and nothing follows its answer.
GateTold(s) ==
    {r \in Seq(Record) :
        /\ "state" \in DOMAIN Replay(s, r)
        /\ Replay(s, r).state = "none" => r = << >>
        /\ Replay(s, r).state = "open" => \A i \in 1..Len(r) : r[i].ev.kind \notin Answered
        /\ \A i \in 1..Len(r) : r[i].ev.kind \in Answered => i = Len(r)}

\* No decision about a gate leaves that set.
LEMMA GateClosed ==
    ASSUME DecidesAggregates, NEW s \in GateStream
    PROVE  Closed(s, GateTold(s)) /\ << >> \in GateTold(s)
<1>1. s \notin ScopeStream
  BY AggregateStreams
<1>2. << >> \in GateTold(s)
  <2>1. Replay(s, << >>) = NewGate
    BY <1>1, ReplayNone DEF Zero
  <2>2. "state" \in DOMAIN NewGate /\ NewGate.state = "none"
    BY DEF NewGate
  <2>3. PICK r : r = << >>
    OBVIOUS
  <2>4. r \in Seq(Record) /\ Len(r) = 0 /\ \A i \in 1..Len(r) : FALSE
    BY <2>3
  <2> QED BY <2>1, <2>2, <2>3, <2>4 DEF GateTold
<1>3. ASSUME NEW r \in GateTold(s), NEW c \in Command, NEW x \in Context, c.stream = s,
             NEW d, d = Decide(r, c, x), d \in Outcome, ~d.refused, d.evs # << >>
      PROVE  r \o Seal(d.evs, c.key) \in GateTold(s)
  <2>1. r \in Seq(Record) /\ c.key \in Key \union {NoKey}
    BY CommandsAreTyped DEF GateTold
  <2>2. PICK g : g = Replay(s, r)
    OBVIOUS
  <2>3. c.kind \in GateKinds /\ c.kind \notin ScopeKinds
    BY <1>3, CommandsNameTheirAggregate DEF GateKinds, ScopeKinds
  <2>4. d = GateDecide(g, c, DecideContext(c, x))
    BY <1>3, <2>1, <2>2, <2>3 DEF DecidesAggregates, AggregateDecide
  <2>5. PICK e : d.evs = <<e>> /\ Follows(g, e)
    <3>1. ~d.refused /\ d.evs # << >>
      BY <1>3
    <3>2. PICK ctx : ctx = DecideContext(c, x)
      OBVIOUS
    <3>3. d = GateDecide(g, c, ctx)
      BY <2>4, <3>2
    <3> HIDE <3>2
    <3>4. c.kind \in GateKinds
      BY <2>3
    <3> QED BY <3>1, <3>3, <3>4, GateDecision, Zenon
  <2>6. e \in Event
    <3>1. d.evs \in Seq(Event)
      BY <1>3 DEF Outcome, Abs!Outcome
    <3>2. Len(d.evs) = 1 /\ d.evs[1] = e
      BY <2>5
    <3> QED BY <3>1, <3>2
  <2>7. PICK b \in Record : b = Sealed(e, c.key) /\ b.ev = e
    BY <2>1, <2>6, OneAppended DEF Sealed
  <2>8. PICK q : q = Append(r, b)
    OBVIOUS
  <2>9. PICK n \in Nat : n = Len(r)
    BY <2>1
  <2>10. q \in Seq(Record) /\ Len(q) = n + 1 /\ q[n + 1] = b /\ \A i \in 1..n : q[i] = r[i]
    BY <2>1, <2>8, <2>9
  <2>11. Replay(s, q) = GateApply(g, e)
    BY <1>1, <2>1, <2>2, <2>7, <2>8, ReplayAppend DEF ApplyTo
  <2>12. "state" \in DOMAIN GateApply(g, e) /\
         GateApply(g, e).state = CASE e.kind = "GateOpened" -> "open"
                                   [] e.kind = "GateDecided" -> "decided"
                                   [] e.kind = "GateResolved" -> "resolved"
                                   [] e.kind = "GateExpired" -> "expired"
    <3>1. "state" \in DOMAIN g
      BY <2>2 DEF GateTold
    <3>2. CASE e.kind = "GateOpened"
      BY <3>2 DEF GateApply, NewGate
    <3>3. CASE e.kind = "GateDecided"
      BY <3>3 DEF GateApply, NewGate
    <3>4. CASE e.kind = "GateResolved"
      BY <3>1, <3>4 DEF GateApply
    <3>5. CASE e.kind = "GateExpired"
      BY <3>1, <3>5 DEF GateApply
    <3> QED BY <2>5, <3>2, <3>3, <3>4, <3>5 DEF Follows
  <2>13. GateApply(g, e).state # "none"
         /\ (GateApply(g, e).state = "open" => e.kind \notin Answered /\ n = 0)
    <3>1. g.state = "none" => n = 0
      BY <2>2, <2>9 DEF GateTold
    <3> QED BY <2>5, <2>12, <3>1 DEF Answered, Follows
  <2>14. \A i \in 1..n : r[i].ev.kind \notin Answered
    <3>1. CASE g.state = "none"
      BY <2>2, <2>9, <3>1 DEF GateTold
    <3>2. CASE g.state = "open"
      BY <2>2, <2>9, <3>2 DEF GateTold
    <3> QED BY <2>5, <3>1, <3>2 DEF Follows
  <2>15. ASSUME NEW i \in 1..Len(q), q[i].ev.kind \in Answered PROVE i = Len(q)
    BY <2>10, <2>14, <2>15
  <2>16. ASSUME Replay(s, q).state = "open", NEW i \in 1..Len(q) PROVE q[i].ev.kind \notin Answered
    <3>1. i = n + 1 /\ q[i].ev = e
      BY <2>7, <2>10, <2>11, <2>13, <2>16
    <3> QED BY <2>11, <2>13, <2>16, <3>1
  <2>17. q \in GateTold(s)
    BY <2>10, <2>11, <2>12, <2>13, <2>15, <2>16 DEF GateTold
  <2>18. r \o Seal(<<e>>, c.key) = Append(r, b)
    BY <2>1, <2>6, <2>7, OneAppended
  <2> QED BY <2>5, <2>8, <2>17, <2>18
<1>4. Closed(s, GateTold(s))
  BY <1>3 DEF Closed
<1> QED BY <1>2, <1>4

\* A gate is answered once, for any number of racing humans, retries, crashes and
\* expiries, and whatever the projections show when a command is decided.
THEOREM PipelineGateAnsweredOnce ==
    DecidesAggregates => (Spec => []GateAnsweredOnce)
<1> SUFFICES ASSUME DecidesAggregates PROVE Spec => []GateAnsweredOnce
  OBVIOUS
<1> DEFINE Told == \A s \in GateStream : log[s] \in GateTold(s)
<1>1. Init => Told
  <2> SUFFICES ASSUME Init, NEW s \in GateStream PROVE log[s] \in GateTold(s)
    OBVIOUS
  <2>1. log[s] = << >>
    BY AggregateStreams DEF Init, AllStreams, Abs!AllStreams
  <2> QED BY <2>1, GateClosed
<1>2. IInv /\ Told /\ [Next]_vars => Told'
  <2> SUFFICES ASSUME IInv, Told, [Next]_vars, NEW s \in GateStream PROVE log'[s] \in GateTold(s)
    OBVIOUS
  <2>1. s \in Stream /\ Closed(s, GateTold(s))
    BY GateClosed, AggregateStreams
  <2>2. log[s] \in GateTold(s)
    OBVIOUS
  <2> HIDE DEF Told
  <2> QED BY <2>1, <2>2, StreamStep
<1>3. IInv /\ Told => GateAnsweredOnce
  <2> SUFFICES ASSUME IInv, Told, NEW s \in GateStream
               PROVE  Cardinality({i \in 1..Len(log[s]) : log[s][i].ev.kind \in Answered}) <= 1
    BY DEF GateAnsweredOnce
  <2>1. PICK A : A = {i \in 1..Len(log[s]) : log[s][i].ev.kind \in Answered}
    OBVIOUS
  <2>2. A \subseteq {Len(log[s])}
    BY <2>1 DEF GateTold
  <2>3. A = {} \/ A = {Len(log[s])}
    BY <2>2
  <2>4. Cardinality({}) = 0 /\ \A n : Cardinality({n}) = 1
    BY FS_EmptySet, FS_Singleton, Zenon
  <2>5. Cardinality(A) <= 1
    <3>1. CASE A = {}
      BY <2>4, <3>1
    <3>2. CASE A = {Len(log[s])}
      <4>1. Cardinality(A) = 1
        BY <2>4, <3>2, Zenon
      <4> QED BY <4>1
    <3> QED BY <2>3, <3>1, <3>2
  <2> QED BY <2>1, <2>5
<1> HIDE DEF Told
<1> QED BY <1>1, <1>2, <1>3, PipelineInvariant, PTL DEF Spec
-----------------------------------------------------------------------------
\* Scopes.  The folded scope, with its level within its cap.
Capped(t) ==
    /\ t \in [level : Level, cap : Level, demoted : Nat, regressions : Nat]
    /\ t.level <= t.cap

\* A batch leaves a scope that way: one event, or two of which the second mends
\* what the first left.
KeepsCapped(s, evs) ==
    \/ \E e : evs = <<e>> /\ Capped(ScopeApply(s, e))
    \/ \E e, f : evs = <<e, f>> /\ Capped(ScopeApply(ScopeApply(s, e), f))

\* What is not refused carries its events.
LEMMA Emitted == Reject.refused = TRUE /\ \A evs : Emit(evs).evs = evs
BY DEF Reject, Emit

\* Batches that Decide puts together of two parts.
LEMMA Parts ==
    \A a, b : << >> \o <<a>> = <<a>> /\ <<a>> \o << >> = <<a>> /\ <<a>> \o <<b>> = <<a, b>>
<1> TAKE a, b
<1>1. << >> \o <<a>> = <<a>> /\ <<a>> \o << >> = <<a>>
  OBVIOUS
<1>2. PICK S : S = {a, b}
  OBVIOUS
<1>3. PICK q : q = <<a>>
  OBVIOUS
<1>4. PICK c : c = <<a, b>>
  OBVIOUS
<1>5. /\ q \in Seq(S) /\ Len(q) = 1 /\ q[1] = a
      /\ c \in Seq(S) /\ Len(c) = 2 /\ c[1] = a /\ c[2] = b
  BY <1>2, <1>3, <1>4, Pairs
<1>6. PICK d : d = Append(q, b)
  OBVIOUS
<1>7. d \in Seq(S) /\ Len(d) = 2 /\ d[1] = a /\ d[2] = b
  BY <1>2, <1>5, <1>6
<1>8. \A i \in 1..Len(d) : d[i] = c[i]
  BY <1>5, <1>7
<1>9. d = c
  BY <1>5, <1>7, <1>8, SeqEqual
<1>10. q \o <<b>> = d
  BY <1>2, <1>5, <1>6, ConcatOne
<1> QED BY <1>1, <1>3, <1>4, <1>9, <1>10

\* A change of the level is within the cap or follows the cap down.
LEMMA LevelChanged ==
    ASSUME NEW s, s \in [level : Level, cap : Level, demoted : Nat, regressions : Nat],
           NEW to \in Level, NEW trigger, NEW at \in Nat, to <= s.cap,
           NEW e, e = AutonomyChanged(s.level, to, trigger, at)
    PROVE  Capped(ScopeApply(s, e))
<1>1. e.kind = "AutonomyChanged" /\ e.to = to /\ e.at = at
  BY DEF AutonomyChanged
<1>2. PICK dem \in Nat : dem = IF e.trigger = "regress" THEN e.at ELSE s.demoted
  BY <1>1
<1>3. PICK t : t = [s EXCEPT !.level = to, !.demoted = dem]
  OBVIOUS
<1>4. ScopeApply(s, e) = t
  BY <1>1, <1>2, <1>3 DEF ScopeApply
<1>5. /\ t \in [level : Level, cap : Level, demoted : Nat, regressions : Nat]
      /\ t.level = to /\ t.cap = s.cap
  BY <1>2, <1>3
<1> QED BY <1>4, <1>5 DEF Capped

\* An exception leaves level and cap alone.
LEMMA ExceptionKeeps ==
    ASSUME NEW s, Capped(s), NEW level, NEW at \in Nat, NEW e, e = ExceptionRaised(level, at)
    PROVE  Capped(ScopeApply(s, e))
<1>1. e.kind = "ExceptionRaised" /\ e.at = at
  BY DEF ExceptionRaised
<1>2. s \in [level : Level, cap : Level, demoted : Nat, regressions : Nat] /\ s.level <= s.cap
  BY DEF Capped
<1>3. PICK dem \in Nat : dem = IF s.demoted < e.at THEN e.at ELSE s.demoted
  BY <1>1, <1>2
<1>4. PICK reg \in Nat : reg = s.regressions + 1
  BY <1>2
<1>5. PICK t : t = [s EXCEPT !.regressions = reg, !.demoted = dem]
  OBVIOUS
<1>6. ScopeApply(s, e) = t
  BY <1>1, <1>2, <1>3, <1>4, <1>5 DEF ScopeApply
<1>7. /\ t \in [level : Level, cap : Level, demoted : Nat, regressions : Nat]
      /\ t.level = s.level /\ t.cap = s.cap
  BY <1>2, <1>3, <1>4, <1>5
<1> QED BY <1>2, <1>6, <1>7 DEF Capped

\* A raise or a cut that is not refused stays within the cap it was decided on.
LEMMA SetAutonomyKeeps ==
    ASSUME NEW s, Capped(s), NEW m, NEW ctx, ctx.now \in Nat, NEW d, d = SetAutonomyDecide(s, m, ctx),
           ~d.refused, d.evs # << >>
    PROVE  KeepsCapped(s, d.evs)
<1>1. s \in [level : Level, cap : Level, demoted : Nat, regressions : Nat]
  BY DEF Capped
<1>2. d # Reject /\ d # Emit(<< >>)
  BY Emitted
<1>3. PICK e : e = AutonomyChanged(s.level, m.level, "promote", ctx.now)
  OBVIOUS
<1>4. m.level \in Level /\ ~(m.level > s.cap) /\ d = Emit(<<e>>)
  BY <1>2, <1>3 DEF SetAutonomyDecide
<1>5. m.level <= s.cap
  BY <1>1, <1>4 DEF Level, MaxLevel
<1>6. Capped(ScopeApply(s, e))
  BY <1>1, <1>3, <1>4, <1>5, LevelChanged
<1> QED BY <1>4, <1>6, Emitted DEF KeepsCapped

\* A cap below the level takes the level with it.
LEMMA SetCapKeeps ==
    ASSUME NEW s, Capped(s), NEW m, NEW ctx, ctx.now \in Nat, NEW d, d = SetCapDecide(s, m, ctx),
           ~d.refused, d.evs # << >>
    PROVE  KeepsCapped(s, d.evs)
<1>1. s \in [level : Level, cap : Level, demoted : Nat, regressions : Nat] /\ s.level <= s.cap
  BY DEF Capped
<1>2. d # Reject /\ d # Emit(<< >>)
  BY Emitted
<1>3. PICK e : e = CapChanged(s.cap, m.cap, ctx.now)
  OBVIOUS
<1>4. PICK f : f = AutonomyChanged(s.level, m.cap, "promote", ctx.now)
  OBVIOUS
<1>5. /\ m.cap \in Level
      /\ d = Emit(<<e>> \o IF s.level > m.cap THEN <<f>> ELSE << >>)
  BY <1>2, <1>3, <1>4 DEF SetCapDecide
<1>6. PICK t : t = [s EXCEPT !.cap = m.cap]
  OBVIOUS
<1>7. ScopeApply(s, e) = t
  <2>1. e.kind = "CapChanged" /\ e.to = m.cap
    BY <1>3 DEF CapChanged
  <2> QED BY <1>6, <2>1 DEF ScopeApply
<1>8. /\ t \in [level : Level, cap : Level, demoted : Nat, regressions : Nat]
      /\ t.level = s.level /\ t.cap = m.cap
  BY <1>1, <1>5, <1>6
<1>9. CASE s.level > m.cap
  <2>1. d = Emit(<<e, f>>)
    <3>1. <<e>> \o <<f>> = <<e, f>>
      BY Parts, Zenon
    <3> QED BY <1>5, <1>9, <3>1
  <2>2. m.cap <= t.cap /\ f = AutonomyChanged(t.level, m.cap, "promote", ctx.now)
    BY <1>4, <1>5, <1>8 DEF Level, MaxLevel
  <2>3. Capped(ScopeApply(t, f))
    BY <1>5, <1>8, <2>2, LevelChanged
  <2>4. d.evs = <<e, f>> /\ Capped(ScopeApply(ScopeApply(s, e), f))
    BY <1>7, <2>1, <2>3, Emitted
  <2> QED BY <2>4, Zenon DEF KeepsCapped
<1>10. CASE ~(s.level > m.cap)
  <2>1. d = Emit(<<e>>)
    <3>1. <<e>> \o << >> = <<e>>
      BY Parts, Zenon
    <3> QED BY <1>5, <1>10, <3>1
  <2>2. t.level <= t.cap
    BY <1>1, <1>5, <1>8, <1>10 DEF Level, MaxLevel
  <2>3. Capped(t)
    BY <1>8, <2>2 DEF Capped
  <2>4. d.evs = <<e>> /\ Capped(ScopeApply(s, e))
    BY <1>7, <2>1, <2>3, Emitted
  <2> QED BY <2>4, Zenon DEF KeepsCapped
<1> QED BY <1>9, <1>10

\* A regression takes the level down one step, or leaves it at the bottom.
LEMMA RegressKeeps ==
    ASSUME NEW s, Capped(s), NEW m, NEW ctx, ctx.now \in Nat, NEW d, d = RegressDecide(s, m, ctx)
    PROVE  KeepsCapped(s, d.evs)
<1>1. s \in [level : Level, cap : Level, demoted : Nat, regressions : Nat] /\ s.level <= s.cap
  BY DEF Capped
<1>2. PICK to : to = Transition(s.level, "regress")
  OBVIOUS
<1>3. to \in Level /\ to <= s.cap
  BY <1>1, <1>2 DEF Transition, Level, MaxLevel
<1>4. PICK e : e = AutonomyChanged(s.level, to, "regress", ctx.now)
  OBVIOUS
<1>5. PICK f : f = ExceptionRaised(to, ctx.now)
  OBVIOUS
<1>6. d = Emit((IF to # s.level THEN <<e>> ELSE << >>) \o <<f>>)
  BY <1>2, <1>4, <1>5 DEF RegressDecide
<1>7. CASE to # s.level
  <2>1. d = Emit(<<e, f>>)
    <3>1. <<e>> \o <<f>> = <<e, f>>
      BY Parts, Zenon
    <3> QED BY <1>6, <1>7, <3>1
  <2>2. PICK t : t = ScopeApply(s, e)
    OBVIOUS
  <2>3. Capped(t)
    BY <1>1, <1>3, <1>4, <2>2, LevelChanged
  <2>4. Capped(ScopeApply(t, f))
    BY <1>5, <2>3, ExceptionKeeps
  <2>5. d.evs = <<e, f>> /\ Capped(ScopeApply(ScopeApply(s, e), f))
    BY <2>1, <2>2, <2>4, Emitted
  <2> QED BY <2>5, Zenon DEF KeepsCapped
<1>8. CASE to = s.level
  <2>1. d = Emit(<<f>>)
    <3>1. << >> \o <<f>> = <<f>>
      BY Parts, Zenon
    <3> QED BY <1>6, <1>8, <3>1
  <2>2. Capped(ScopeApply(s, f))
    BY <1>5, ExceptionKeeps
  <2>3. d.evs = <<f>> /\ Capped(ScopeApply(s, f))
    BY <2>1, <2>2, Emitted
  <2> QED BY <2>3, Zenon DEF KeepsCapped
<1> QED BY <1>7, <1>8

\* Histories that replay to a scope within its cap.
ScopeTold(s) == {r \in Seq(Record) : Capped(Replay(s, r))}

\* No decision about a scope leaves them.
LEMMA ScopeClosed ==
    ASSUME DecidesAggregates, NEW s \in ScopeStream
    PROVE  Closed(s, ScopeTold(s)) /\ << >> \in ScopeTold(s)
<1>1. << >> \in ScopeTold(s)
  <2>1. Replay(s, << >>) = NewScope
    BY ReplayNone DEF Zero
  <2>2. Capped(NewScope)
    BY DEF Capped, NewScope, Level, MaxLevel
  <2>3. << >> \in Seq(Record)
    OBVIOUS
  <2> QED BY <2>1, <2>2, <2>3 DEF ScopeTold
<1>2. ASSUME NEW r \in ScopeTold(s), NEW c \in Command, NEW x \in Context, c.stream = s,
             NEW d, d = Decide(r, c, x), d \in Outcome, ~d.refused, d.evs # << >>
      PROVE  r \o Seal(d.evs, c.key) \in ScopeTold(s)
  <2>1. r \in Seq(Record) /\ c.key \in Key \union {NoKey}
    BY CommandsAreTyped DEF ScopeTold
  <2>2. PICK g : g = Replay(s, r)
    OBVIOUS
  <2>3. Capped(g)
    BY <2>2 DEF ScopeTold
  <2>4. PICK ctx : ctx = DecideContext(c, x)
    OBVIOUS
  <2>5. c.kind \in ScopeKinds /\ ctx.now \in Nat
    BY <1>2, <2>4, CommandsNameTheirAggregate DEF DecideContext
  <2>6. d = ScopeDecide(g, c, ctx)
    BY <1>2, <2>1, <2>2, <2>4, <2>5 DEF DecidesAggregates, AggregateDecide
  <2>7. KeepsCapped(g, d.evs)
    <3>1. CASE c.kind = "SetAutonomy"
      <4>1. d = SetAutonomyDecide(g, c, ctx)
        BY <2>6, <3>1 DEF ScopeDecide
      <4> QED BY <1>2, <2>3, <2>5, <4>1, SetAutonomyKeeps
    <3>2. CASE c.kind = "SetCap"
      <4>1. d = SetCapDecide(g, c, ctx)
        BY <2>6, <3>2 DEF ScopeDecide
      <4> QED BY <1>2, <2>3, <2>5, <4>1, SetCapKeeps
    <3>3. CASE c.kind = "RecordRegression"
      <4>1. d = RegressDecide(g, c, ctx)
        BY <2>6, <3>3 DEF ScopeDecide
      <4> QED BY <2>3, <2>5, <4>1, RegressKeeps
    <3> QED BY <2>5, <3>1, <3>2, <3>3 DEF ScopeKinds
  <2>8. d.evs \in Seq(Event)
    BY <1>2 DEF Outcome, Abs!Outcome
  <2>9. ASSUME NEW e, d.evs = <<e>>, Capped(ScopeApply(g, e))
        PROVE  r \o Seal(d.evs, c.key) \in ScopeTold(s)
    <3>1. e \in Event
      <4>1. Len(d.evs) = 1 /\ d.evs[1] = e
        BY <2>9
      <4> QED BY <2>8, <4>1
    <3>2. PICK b \in Record : b = Sealed(e, c.key) /\ b.ev = e
      BY <2>1, <3>1, OneAppended DEF Sealed
    <3>3. r \o Seal(d.evs, c.key) = Append(r, b)
      BY <2>1, <2>9, <3>1, <3>2, OneAppended
    <3>4. Replay(s, Append(r, b)) = ScopeApply(g, e)
      BY <2>1, <2>2, <3>2, ReplayAppend DEF ApplyTo
    <3>5. Append(r, b) \in Seq(Record)
      BY <2>1
    <3>6. Append(r, b) \in ScopeTold(s)
      BY <2>9, <3>4, <3>5 DEF ScopeTold
    <3> QED BY <3>3, <3>6
  <2>10. ASSUME NEW e, NEW f, d.evs = <<e, f>>, Capped(ScopeApply(ScopeApply(g, e), f))
         PROVE  r \o Seal(d.evs, c.key) \in ScopeTold(s)
    <3>1. e \in Event /\ f \in Event
      <4>1. Len(d.evs) = 2 /\ d.evs[1] = e /\ d.evs[2] = f
        BY <2>10
      <4> QED BY <2>8, <4>1
    <3>2. PICK b \in Record : b = Sealed(e, c.key) /\ b.ev = e
      BY <2>1, <3>1, TwoAppended DEF Sealed
    <3>3. PICK a \in Record : a = Sealed(f, NoKey) /\ a.ev = f
      BY <2>1, <3>1, TwoAppended DEF Sealed
    <3>4. r \o Seal(d.evs, c.key) = Append(Append(r, b), a)
      BY <2>1, <2>10, <3>1, <3>2, <3>3, TwoAppended
    <3>5. PICK q : q = Append(r, b)
      OBVIOUS
    <3>6. q \in Seq(Record) /\ Append(q, a) \in Seq(Record)
      BY <2>1, <3>5
    <3>7. Replay(s, q) = ScopeApply(g, e)
      BY <2>1, <2>2, <3>2, <3>5, ReplayAppend DEF ApplyTo
    <3>8. Replay(s, Append(q, a)) = ScopeApply(ScopeApply(g, e), f)
      BY <3>3, <3>6, <3>7, ReplayAppend DEF ApplyTo
    <3>9. Append(q, a) \in ScopeTold(s)
      BY <2>10, <3>6, <3>8 DEF ScopeTold
    <3> QED BY <3>4, <3>5, <3>9
  <2> QED BY <2>7, <2>9, <2>10 DEF KeepsCapped
<1>3. Closed(s, ScopeTold(s))
  BY <1>2 DEF Closed
<1> QED BY <1>1, <1>3

\* However raises, cuts, caps and regressions race, are retried, fail or crash, the
\* ledger's history of a scope replays to a level within the cap.
THEOREM PipelineScopesWithinCap ==
    DecidesAggregates => (Spec => []ScopesWithinCap)
<1> SUFFICES ASSUME DecidesAggregates PROVE Spec => []ScopesWithinCap
  OBVIOUS
<1> DEFINE Told == \A s \in ScopeStream : log[s] \in ScopeTold(s)
<1>1. Init => Told
  <2> SUFFICES ASSUME Init, NEW s \in ScopeStream PROVE log[s] \in ScopeTold(s)
    OBVIOUS
  <2>1. log[s] = << >>
    BY AggregateStreams DEF Init, AllStreams, Abs!AllStreams
  <2> QED BY <2>1, ScopeClosed
<1>2. IInv /\ Told /\ [Next]_vars => Told'
  <2> SUFFICES ASSUME IInv, Told, [Next]_vars, NEW s \in ScopeStream PROVE log'[s] \in ScopeTold(s)
    OBVIOUS
  <2>1. s \in Stream /\ Closed(s, ScopeTold(s))
    BY ScopeClosed, AggregateStreams
  <2>2. log[s] \in ScopeTold(s)
    OBVIOUS
  <2> HIDE DEF Told
  <2> QED BY <2>1, <2>2, StreamStep
<1>3. Told => ScopesWithinCap
  BY DEF ScopesWithinCap, ScopeTold, Capped
<1> HIDE DEF Told
<1> QED BY <1>1, <1>2, <1>3, PipelineInvariant, PTL DEF Spec
=============================================================================
