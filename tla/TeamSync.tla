------------------------------ MODULE TeamSync ------------------------------
(***************************************************************************)
(* The sync protocol between daemons and the team server: Syncer.Push and  *)
(* Syncer.Pull (internal/app/sync.go), the two commands that run them      *)
(* (cmd/keelage/sync.go) and TeamServer.Push and Pull                      *)
(* (internal/app/team.go).                                                 *)
(*                                                                         *)
(* "sync push" and "sync pull" are processes of their own.  Each loads     *)
(* both cursors from sync.json, moves its own and saves both, on success   *)
(* and on error.  A push request may be lost, fail half-way, be answered   *)
(* to nobody, or be processed long after its client gave up.               *)
(*                                                                         *)
(* A record is reduced to its stream, its version on that stream, whether  *)
(* the server has a reason of its own to refuse it (actor, kind, key) and  *)
(* whether it makes its stream travel: SessionShared, ConstraintPromoted.  *)
(***************************************************************************)
EXTENDS Naturals, Sequences, FiniteSets

CONSTANTS
    Daemon,
    Pusher, Puller, \* the daemons on which push, and pull, is run
    TeamStream,     \* constraint, decision, scope, anchor: pushed and pulled
    PersonStream,   \* constraints drafted on the person axis: pushed once promoted off it
    WorkStream,     \* change, gate: pushed, and written by the server too
    SessionStream,  \* pushed once shared
    Good,           \* subset of BOOLEAN: FALSE when some records have a wrong actor, kind or key
    Batch,          \* page size of Push
    PullLimit,      \* page size of Pull
    MaxLocal,       \* bound: length of a daemon's ledger
    MaxServer,      \* bound: records the server writes on its own
    MaxRuns         \* bound: push requests a daemon sends

ASSUME SyncConstants ==
    /\ Batch \in Nat \ {0} /\ PullLimit \in Nat \ {0}
    /\ MaxLocal \in Nat /\ MaxServer \in Nat /\ MaxRuns \in Nat
    /\ "server" \notin Daemon
    /\ Good \subseteq BOOLEAN
    /\ Pusher \subseteq Daemon /\ Puller \subseteq Daemon
    /\ "rejected" \notin TeamStream \union PersonStream \union WorkStream \union SessionStream
    /\ WorkStream \intersect SessionStream = {}

VARIABLES
    local,    \* [daemon -> its ledger]
    server,   \* the org's ledger; a record's seq is its index
    cache,    \* [daemon -> the server seqs in its team cache, in order]
    saved,    \* [daemon -> sync.json]
    push,     \* [daemon -> the push process]
    pull,     \* [daemon -> the pull process]
    sent,     \* [daemon -> its push requests, by number]
    mu        \* the request that holds org.mu, or << >>

vars == <<local, server, cache, saved, push, pull, sent, mu>>

Stream == TeamStream \union PersonStream \union WorkStream \union SessionStream

\* TeamLayer: what pull copies; a constraint is one whatever its scope.
TeamLayer == TeamStream \union PersonStream

NoPush == [pc |-> "idle", state |-> [push |-> 0, pull |-> 0], seen |-> 0, last |-> 0]
NoPull == [pc |-> "idle", state |-> [push |-> 0, pull |-> 0], at |-> 0, upto |-> 0]

Smaller(a, b) == IF a <= b THEN a ELSE b

\* Version of a stream in a daemon's ledger and on the server.
LocalVer(d, s) == Cardinality({n \in 1..Len(local[d]) : local[d][n].stream = s})
ServerVer(s) == Cardinality({n \in 1..Len(server) : server[n].stream = s})

\* FindOrigin: the record was accepted before.
HasOrigin(from) == \E n \in 1..Len(server) : server[n].stream # "rejected" /\ server[n].from = from

\* Mutant of Shareable: sessions are offered like everything else.
ShareableAlways(d, n, seen) == TRUE

\* shareable, on the projections the process built when it opened the ledger:
\* a session is held back unless they show it as shared, a constraint only if
\* they show it on the person axis.
Shareable(d, n, seen) ==
    LET known == {m \in 1..seen : local[d][m].stream = local[d][n].stream}
        shared == \E m \in known : local[d][m].share
    IN
    /\ local[d][n].stream \in SessionStream => shared
    /\ local[d][n].stream \in PersonStream => shared \/ known = {}

-----------------------------------------------------------------------------
Init ==
    /\ local = [d \in Daemon |-> << >>]
    /\ server = << >>
    /\ cache = [d \in Daemon |-> << >>]
    /\ saved = [d \in Daemon |-> [push |-> 0, pull |-> 0]]
    /\ push = [d \in Daemon |-> NoPush]
    /\ pull = [d \in Daemon |-> NoPull]
    /\ sent = [d \in Daemon |-> << >>]
    /\ mu = << >>

\* A session is shared after it was started and ended, and then only shared
\* again; a constraint is promoted after it was drafted and verified.
MayShare(d, s) ==
    IF s \notin SessionStream \union PersonStream \/ LocalVer(d, s) = 0
    THEN {FALSE}
    ELSE IF \E n \in 1..Len(local[d]) : local[d][n].stream = s /\ local[d][n].share
         THEN {TRUE}
         ELSE BOOLEAN

\* A command of the daemon or the CLI appends to the personal ledger.
LocalWrite(d, s) ==
    /\ Len(local[d]) < MaxLocal
    /\ \E good \in Good : \E share \in MayShare(d, s) :
         local' = [local EXCEPT ![d] =
             Append(@, [stream |-> s, ver |-> LocalVer(d, s) + 1, good |-> good, share |-> share])]
    /\ UNCHANGED <<server, cache, saved, push, pull, sent, mu>>

\* The server's own pipeline (gates, judgments of reviews).
ServerWrite(s) ==
    /\ mu = << >>
    /\ Cardinality({n \in 1..Len(server) : server[n].from[1] = "server"}) < MaxServer
    /\ server' = Append(server, [stream |-> s, ver |-> ServerVer(s) + 1,
                                 from |-> <<"server", Len(server) + 1>>])
    /\ UNCHANGED <<local, cache, saved, push, pull, sent, mu>>

-----------------------------------------------------------------------------
\* sync push: openCore and loadSyncState.
StartPush(d) ==
    /\ push[d].pc = "idle"
    /\ Len(sent[d]) < MaxRuns
    /\ push' = [push EXCEPT ![d] = [NoPush EXCEPT !.pc = "page", !.state = saved[d],
                                                  !.seen = Len(local[d])]]
    /\ UNCHANGED <<local, server, cache, saved, pull, sent, mu>>

\* The end of a page: Push returns after a short one, else reads the next.
AfterPage(p, last) ==
    [p EXCEPT !.state.push = last,
              !.pc = IF last - p.state.push < Batch THEN "save" ELSE "page"]

\* One page: its shareable records are offered; a page without any only moves
\* the cursor.
PushPage(d) ==
    LET cur == push[d].state.push
        last == Smaller(Len(local[d]), cur + Batch)
        offer == {n \in cur + 1 .. last : Shareable(d, n, push[d].seen)}
    IN
    /\ push[d].pc = "page"
    /\ \/ /\ last = cur
          /\ push' = [push EXCEPT ![d] = [@ EXCEPT !.pc = "save"]]
          /\ UNCHANGED sent
       \/ /\ last > cur /\ offer = {}
          /\ push' = [push EXCEPT ![d] = AfterPage(@, last)]
          /\ UNCHANGED sent
       \/ /\ last > cur /\ offer # {}
          /\ Len(sent[d]) < MaxRuns
          /\ sent' = [sent EXCEPT ![d] = Append(@, [todo |-> offer, state |-> "sent"])]
          /\ push' = [push EXCEPT ![d] = [@ EXCEPT !.pc = "wait", !.last = last]]
    /\ UNCHANGED <<local, server, cache, saved, pull, mu>>

\* The server answered for every record of the page.
PushAnswered(d) ==
    /\ push[d].pc = "wait"
    /\ sent[d][Len(sent[d])].state = "done"
    /\ push' = [push EXCEPT ![d] = AfterPage(@, push[d].last)]
    /\ UNCHANGED <<local, server, cache, saved, pull, sent, mu>>

\* Mutant of PushFails: an unanswered page counts as pushed.
PushFailsAdvances(d) ==
    /\ push[d].pc = "wait"
    /\ push' = [push EXCEPT ![d].pc = "save", ![d].state.push = push[d].last]
    /\ UNCHANGED <<local, server, cache, saved, pull, sent, mu>>

\* An error answer, or no answer in time: the cursor stays.
PushFails(d) ==
    /\ push[d].pc \in {"page", "wait"}
    /\ push' = [push EXCEPT ![d] = [@ EXCEPT !.pc = "save"]]
    /\ UNCHANGED <<local, server, cache, saved, pull, sent, mu>>

\* saveJSON, both cursors as this process knows them.
SavePush(d) ==
    /\ push[d].pc = "save"
    /\ saved' = [saved EXCEPT ![d] = push[d].state]
    /\ push' = [push EXCEPT ![d] = NoPush]
    /\ UNCHANGED <<local, server, cache, pull, sent, mu>>

PushCrashes(d) ==
    /\ push[d].pc # "idle"
    /\ push' = [push EXCEPT ![d] = NoPush]
    /\ UNCHANGED <<local, server, cache, saved, pull, sent, mu>>

-----------------------------------------------------------------------------
\* TeamServer.Push takes org.mu.
ServeStart(d, k) ==
    /\ mu = << >>
    /\ sent[d][k].state = "sent"
    /\ mu' = <<d, k>>
    /\ UNCHANGED <<local, server, cache, saved, push, pull, sent>>

\* A push is served in the order of the daemon's ledger.
First(todo, n) == n \in todo /\ \A m \in todo : n <= m

\* What ServeRecord does with the first record of the request when the server
\* keeps it at the end of its stream if ok holds (used by the mutants below).
ServeUnchecked(ok(_)) ==
    /\ mu # << >>
    /\ \E n \in sent[mu[1]][mu[2]].todo :
         LET s == local[mu[1]][n].stream IN
         /\ First(sent[mu[1]][mu[2]].todo, n)
         /\ server' = IF ok(<<mu[1], n>>)
                      THEN Append(server, [stream |-> s, ver |-> ServerVer(s) + 1, from |-> <<mu[1], n>>])
                      ELSE server
         /\ sent' = [sent EXCEPT ![mu[1]][mu[2]].todo = @ \ {n}]
    /\ UNCHANGED <<local, cache, saved, push, pull, mu>>

\* Mutants of ServeRecord: every record of a push is appended; only the
\* version is not compared.
ServeWithoutChecks == ServeUnchecked(LAMBDA from : TRUE)
ServeAnyVersion == ServeUnchecked(LAMBDA from : ~HasOrigin(from))

\* One record of the push: a duplicate by origin, accepted at exactly the
\* version the daemon gave it, or refused and kept on the Rejected stream.
ServeRecord ==
    /\ mu # << >>
    /\ \E n \in sent[mu[1]][mu[2]].todo :
         LET e == local[mu[1]][n]
             from == <<mu[1], n>>
             refusal == [stream |-> "rejected", ver |-> ServerVer("rejected") + 1, from |-> from]
             record == [stream |-> e.stream, ver |-> ServerVer(e.stream) + 1, from |-> from]
         IN
         /\ First(sent[mu[1]][mu[2]].todo, n)
         /\ server' = CASE HasOrigin(from) -> server
                        [] ~HasOrigin(from) /\ e.good /\ e.ver - 1 = ServerVer(e.stream)
                             -> Append(server, record)
                        [] OTHER -> Append(server, refusal)
         /\ sent' = [sent EXCEPT ![mu[1]][mu[2]].todo = @ \ {n}]
    /\ UNCHANGED <<local, cache, saved, push, pull, mu>>

ServeEnd(state) ==
    /\ sent' = [sent EXCEPT ![mu[1]][mu[2]] = [todo |-> {}, state |-> state]]
    /\ mu' = << >>
    /\ UNCHANGED <<local, server, cache, saved, push, pull>>

ServeDone == mu # << >> /\ sent[mu[1]][mu[2]].todo = {} /\ ServeEnd("done")

\* A ledger call fails, or the server stops, between two records.
ServeFails == mu # << >> /\ ServeEnd("failed")

-----------------------------------------------------------------------------
\* sync pull: openCore and loadSyncState.
StartPull(d) ==
    /\ pull[d].pc = "idle"
    /\ pull' = [pull EXCEPT ![d] = [NoPull EXCEPT !.pc = "page", !.state = saved[d]]]
    /\ UNCHANGED <<local, server, cache, saved, push, sent, mu>>

\* TeamServer.Pull: the records after the cursor, up to the limit.
PullPage(d) ==
    LET cur == pull[d].state.pull IN
    /\ pull[d].pc = "page"
    /\ pull' = [pull EXCEPT ![d] = [@ EXCEPT !.pc = "cache", !.at = cur,
                                                !.upto = Smaller(Len(server), cur + PullLimit)]]
    /\ UNCHANGED <<local, server, cache, saved, push, sent, mu>>

\* One record of the page: only the team layer travels, this daemon's own
\* records and those already cached are skipped.
PullRecord(d) ==
    LET n == pull[d].at + 1
        e == server[n]
        cached == \E i \in 1..Len(cache[d]) : server[cache[d][i]].from = e.from
    IN
    /\ pull[d].pc = "cache"
    /\ pull[d].at < pull[d].upto
    /\ pull' = [pull EXCEPT ![d] = [@ EXCEPT !.at = n]]
    /\ cache' = IF e.stream \in TeamLayer /\ e.from[1] # d /\ ~cached
                THEN [cache EXCEPT ![d] = Append(@, n)]
                ELSE cache
    /\ UNCHANGED <<local, server, saved, push, sent, mu>>

\* The cursor moves past the whole page; a full page asks for more.
PullPageDone(d) ==
    /\ pull[d].pc = "cache"
    /\ pull[d].at = pull[d].upto
    /\ pull' = [pull EXCEPT ![d] =
         [@ EXCEPT !.state.pull = pull[d].upto,
                   !.pc = IF pull[d].upto - pull[d].state.pull = PullLimit THEN "page" ELSE "save"]]
    /\ UNCHANGED <<local, server, cache, saved, push, sent, mu>>

\* Mutant of PullFails: the cursor moves past a page that broke off.
PullFailsAdvances(d) ==
    /\ pull[d].pc = "cache"
    /\ pull' = [pull EXCEPT ![d].pc = "save", ![d].state.pull = pull[d].upto]
    /\ UNCHANGED <<local, server, cache, saved, push, sent, mu>>

PullFails(d) ==
    /\ pull[d].pc \in {"page", "cache"}
    /\ pull' = [pull EXCEPT ![d] = [@ EXCEPT !.pc = "save"]]
    /\ UNCHANGED <<local, server, cache, saved, push, sent, mu>>

SavePull(d) ==
    /\ pull[d].pc = "save"
    /\ saved' = [saved EXCEPT ![d] = pull[d].state]
    /\ pull' = [pull EXCEPT ![d] = NoPull]
    /\ UNCHANGED <<local, server, cache, push, sent, mu>>

PullCrashes(d) ==
    /\ pull[d].pc # "idle"
    /\ pull' = [pull EXCEPT ![d] = NoPull]
    /\ UNCHANGED <<local, server, cache, saved, push, sent, mu>>

Next ==
    \/ \E d \in Daemon : \E s \in Stream : LocalWrite(d, s)
    \/ \E d \in Pusher :
         \/ StartPush(d) \/ PushPage(d) \/ PushAnswered(d) \/ PushFails(d)
         \/ SavePush(d) \/ PushCrashes(d)
         \/ \E k \in 1..Len(sent[d]) : ServeStart(d, k)
    \/ \E d \in Puller :
         \/ StartPull(d) \/ PullPage(d) \/ PullRecord(d) \/ PullPageDone(d)
         \/ PullFails(d) \/ SavePull(d) \/ PullCrashes(d)
    \/ \E s \in WorkStream : ServerWrite(s)
    \/ ServeRecord \/ ServeDone \/ ServeFails

Spec == Init /\ [][Next]_vars

-----------------------------------------------------------------------------
State == [push : Nat, pull : Nat]
LocalRecord == [stream : Stream, ver : Nat, good : BOOLEAN, share : BOOLEAN]
ServerRecord == [stream : Stream \union {"rejected"}, ver : Nat, from : (Daemon \union {"server"}) \X Nat]
PushState == [pc : {"idle", "page", "wait", "save"}, state : State, seen : Nat, last : Nat]
PullState == [pc : {"idle", "page", "cache", "save"}, state : State, at : Nat, upto : Nat]
Request == [todo : SUBSET Nat, state : {"sent", "done", "failed"}]

\* Every variable holds a value of its kind, and a served request is one that
\* was sent.
TypeOK ==
    /\ local \in [Daemon -> Seq(LocalRecord)]
    /\ server \in Seq(ServerRecord)
    /\ cache \in [Daemon -> Seq(Nat)]
    /\ saved \in [Daemon -> State]
    /\ push \in [Daemon -> PushState]
    /\ pull \in [Daemon -> PullState]
    /\ sent \in [Daemon -> Seq(Request)]
    /\ mu # << >> => mu[1] \in Daemon /\ mu[2] \in 1..Len(sent[mu[1]])

\* A record of a daemon is on the server at most once, although a push that
\* was processed and not acknowledged is offered again, and may be processed
\* again after the retry.
OriginOnce ==
    \A i, j \in 1..Len(server) :
        /\ server[i].stream # "rejected"
        /\ server[j].stream # "rejected"
        /\ server[i].from = server[j].from
        => i = j

\* The server keeps a record at the version the daemon sealed and signed, so
\* the daemon's signature can be checked on the server's copy, and the
\* records of one daemon keep their order.
SignedVersionKept ==
    \A i \in 1..Len(server) :
        /\ server[i].stream # "rejected"
        /\ server[i].from[1] \in Daemon
        => local[server[i].from[1]][server[i].from[2]].ver = server[i].ver

\* sync.go: "The cursor advances past what the server answered for".  Every
\* record behind the saved push cursor that the push does not hold back is on
\* the server or was refused there, even when a pull saved over the cursor.
CursorMeansAnswered ==
    \A d \in Daemon : \A n \in 1..saved[d].push :
        \/ local[d][n].stream \in SessionStream \union PersonStream
        \/ \E i \in 1..Len(server) : server[i].from = <<d, n>>

\* The team cache holds every foreign team record behind the saved pull
\* cursor exactly once and never a record of the daemon itself, whatever
\* pages were retried and whichever process saved sync.json last.
CacheIsTeamLayer ==
    \A d \in Daemon :
        /\ \A i \in 1..Len(cache[d]) : server[cache[d][i]].from[1] # d
        /\ \A i, j \in 1..Len(cache[d]) :
             server[cache[d][i]].from = server[cache[d][j]].from => i = j
        /\ \A n \in 1..saved[d].pull :
             server[n].stream \in TeamLayer /\ server[n].from[1] # d
             => \E i \in 1..Len(cache[d]) : cache[d][i] = n

\* A session reaches the server only if the person shared it, whatever is
\* retried or processed late; a refusal names the record but does not carry it.
UnsharedSessionStaysLocal ==
    \A i \in 1..Len(server) : server[i].stream \in SessionStream =>
        \E m \in 1..Len(local[server[i].from[1]]) :
            /\ local[server[i].from[1]][m].share
            /\ local[server[i].from[1]][m].stream = server[i].stream

\* sync.go: "constraints and scopes on the person axis stay local".  A push
\* that started before the constraint was drafted does not know its axis.
PersonalConstraintStaysLocal ==
    \A i \in 1..Len(server) : server[i].stream \in PersonStream =>
        \E m \in 1..Len(local[server[i].from[1]]) :
            /\ local[server[i].from[1]][m].share
            /\ local[server[i].from[1]][m].stream = server[i].stream

\* ADR 0015: when two daemons write the same stream side by side, the one
\* that pushes later is refused with version-conflict.
LaterWriterIsRefused ==
    \A i, j \in 1..Len(server) :
        /\ server[i].stream = server[j].stream
        /\ server[i].stream # "rejected"
        /\ {server[i].from[1], server[j].from[1]} \subseteq Daemon
        => server[i].from[1] = server[j].from[1]

\* ADR 0015: a session goes up only after SessionShared, and then its whole
\* stream.
SharedSessionTravelsWhole ==
    \A d \in Daemon : \A m, n \in 1..saved[d].push :
        /\ local[d][m].share
        /\ local[d][n].stream = local[d][m].stream
        /\ \A k \in 1..saved[d].push : local[d][k].good
        => HasOrigin(<<d, n>>)
=============================================================================
