------------------------------ MODULE Pipeline ------------------------------
(***************************************************************************)
(* The command pipeline (internal/app/pipeline.go) over the ledger:        *)
(*                                                                         *)
(*   1 authorize  2 load  3 context  4 decide  5 append  6 publish         *)
(*   7 respond                                                             *)
(*                                                                         *)
(* A handler is one running call of Pipeline.Handle: a goroutine of the    *)
(* daemon or of the team server, or a CLI process on the same database.    *)
(* Handlers share only the ledger, and every ledger call is one            *)
(* transaction, so a handler's steps are its ledger calls.  Between two of *)
(* them any other handler may run, fail or crash.                          *)
(***************************************************************************)
EXTENDS Naturals, Sequences, FiniteSets

CONSTANTS
    Stream, RejectedStream, Event, Key, NoKey, Command, Context,
    Decide(_, _, _),   \* see CommandLog
    Handler,           \* concurrent calls of Pipeline.Handle
    MaxSubmits         \* bound: commands submitted in a behaviour

ASSUME NamesAreDistinct ==
    /\ RejectedStream \notin Stream
    /\ NoKey \notin Key

ASSUME CommandsAreTyped ==
    \A c \in Command : /\ c.stream \in Stream
                       /\ c.key \in Key \union {NoKey}
                       /\ c.valid \in BOOLEAN

ASSUME MaxSubmitsIsNat == MaxSubmits \in Nat

VARIABLES
    log,       \* [stream -> sequence of records]
    pc,        \* [handler -> the step of handle() it is about to take]
    ticket,    \* [handler -> number of the submission it serves; 0 before its first]
    sent,      \* sequence of submitted commands; a submission's number is its index
    hist,      \* [handler -> the records Read returned]
    dec,       \* [handler -> what Decide returned]
    answers    \* [submission -> what its caller was told]

vars == <<log, pc, ticket, sent, hist, dec, answers>>

\* The refinement mapping: the ledger is the abstract log; calls in flight, their
\* locals and their answers are hidden.
Abs == INSTANCE CommandLog WITH
           Stream <- Stream, RejectedStream <- RejectedStream, Event <- Event, Key <- Key, NoKey <- NoKey,
           Command <- Command, Context <- Context, Decide <- Decide, log <- log

AllStreams == Abs!AllStreams
Record     == Abs!Record
Outcome    == Abs!Outcome
Seal(evs, key) == Abs!Seal(evs, key)
\* Mutant of Applied: Append does not look for the key.
AppliedNever(s, key) == FALSE

Applied(s, key) == Abs!Applied(s, key)

Steps == {"idle", "lookup", "load", "decide", "append", "replay", "reject", "publish"}

\* Result and error of Handle.  "projection" is ErrProjection: the command
\* took effect.  "unrecorded" joins the rejection with the error of recording
\* it.  "none" is a caller that has not been answered (or never will be).
Answer == [res : {"none", "ok", "replayed", "noop", "rejected", "unrecorded",
                  "conflict", "error", "projection"},
           from : Nat, ver : Nat]

NoAnswer == [res |-> "none", from |-> 0, ver |-> 0]
NoDecision == [refused |-> FALSE, evs |-> << >>]

Cmd(h) == sent[ticket[h]]
Goto(h, step) == pc' = [pc EXCEPT ![h] = step]

\* Handle returns to its caller; the handler's locals are gone.
Respond(h, res, from, ver) ==
    /\ answers' = [answers EXCEPT ![ticket[h]] = [res |-> res, from |-> from, ver |-> ver]]
    /\ Goto(h, "idle")
    /\ hist' = [hist EXCEPT ![h] = << >>]
    /\ dec' = [dec EXCEPT ![h] = NoDecision]
    /\ UNCHANGED <<ticket, sent>>

-----------------------------------------------------------------------------
Init ==
    /\ log = [s \in AllStreams |-> << >>]
    /\ pc = [h \in Handler |-> "idle"]
    /\ ticket = [h \in Handler |-> 0]
    /\ sent = << >>
    /\ hist = [h \in Handler |-> << >>]
    /\ dec = [h \in Handler |-> NoDecision]
    /\ answers = [t \in 1..MaxSubmits |-> NoAnswer]

\* 1 authorize, and the branch on an empty idempotency key.
Submit(h, c) ==
    /\ pc[h] = "idle"
    /\ Len(sent) < MaxSubmits
    /\ sent' = Append(sent, c)
    /\ ticket' = [ticket EXCEPT ![h] = Len(sent) + 1]
    /\ Goto(h, CASE ~c.valid      -> "reject"
                 [] c.valid /\ c.key # NoKey -> "lookup"
                 [] OTHER         -> "load")
    /\ UNCHANGED <<log, hist, dec, answers>>

\* Mutant of VersionOf: the head of the stream instead of the keyed record.
VersionOfHead(s, key) == Len(log[s])

\* Version of the record Ledger.Lookup finds for a key.
VersionOf(s, key) == CHOOSE i \in 1..Len(log[s]) : log[s][i].key = key

\* Mutant of Lookup: the replay is answered like a fresh success.
LookupAsFresh(h) ==
    /\ pc[h] = "lookup"
    /\ IF Applied(Cmd(h).stream, Cmd(h).key)
       THEN LET v == VersionOf(Cmd(h).stream, Cmd(h).key) IN Respond(h, "ok", v, v)
       ELSE Goto(h, "load") /\ UNCHANGED <<ticket, sent, hist, dec, answers>>
    /\ UNCHANGED log

\* Idempotent replay before any rule runs.
Lookup(h) ==
    /\ pc[h] = "lookup"
    /\ IF Applied(Cmd(h).stream, Cmd(h).key)
       THEN Respond(h, "replayed", 0, VersionOf(Cmd(h).stream, Cmd(h).key))
       ELSE Goto(h, "load") /\ UNCHANGED <<ticket, sent, hist, dec, answers>>
    /\ UNCHANGED log

\* 2 load: Ledger.Read and the fold of Apply (inside Decide).
Load(h) ==
    /\ pc[h] = "load"
    /\ hist' = [hist EXCEPT ![h] = log[Cmd(h).stream]]
    /\ Goto(h, "decide")
    /\ UNCHANGED <<log, ticket, sent, dec, answers>>

\* Mutant of DecideStep: a command without effect is recorded as refused.
DecideStepRefusesNoop(h) ==
    /\ pc[h] = "decide"
    /\ \E x \in Context :
         LET d == Decide(hist[h], Cmd(h), x) IN
         /\ d \in Outcome
         /\ dec' = [dec EXCEPT ![h] = d]
         /\ Goto(h, IF d.evs = << >> THEN "reject" ELSE "append")
         /\ UNCHANGED <<ticket, sent, hist, answers>>
    /\ UNCHANGED log

\* 3 context and 4 decide.  The context comes from projections, which may be
\* behind or ahead of the history that was read.
DecideStep(h) ==
    /\ pc[h] = "decide"
    /\ \E x \in Context :
         LET d == Decide(hist[h], Cmd(h), x) IN
         /\ d \in Outcome
         /\ IF ~d.refused /\ d.evs = << >>
            THEN Respond(h, "noop", 0, Len(hist[h]))
            ELSE /\ dec' = [dec EXCEPT ![h] = d]
                 /\ Goto(h, IF d.refused THEN "reject" ELSE "append")
                 /\ UNCHANGED <<ticket, sent, hist, answers>>
    /\ UNCHANGED log

\* Mutant of AppendBatch: the expected version is not compared.
AppendAnyVersion(h) ==
    /\ pc[h] = "append"
    /\ ~Applied(Cmd(h).stream, Cmd(h).key)
    /\ log' = [log EXCEPT ![Cmd(h).stream] = @ \o Seal(dec[h].evs, Cmd(h).key)]
    /\ Goto(h, "publish")
    /\ UNCHANGED <<ticket, sent, hist, dec, answers>>

\* 5 append: Ledger.Append checks the key, then the expected version, then
\* writes the whole batch.
AppendBatch(h) ==
    LET s == Cmd(h).stream
        batch == Seal(dec[h].evs, Cmd(h).key)
    IN
    /\ pc[h] = "append"
    /\ \/ /\ Applied(s, Cmd(h).key)
          /\ Goto(h, "replay")
          /\ UNCHANGED <<log, ticket, sent, hist, dec, answers>>
       \/ /\ ~Applied(s, Cmd(h).key)
          /\ Len(log[s]) # Len(hist[h])
          /\ Respond(h, "conflict", 0, 0)
          /\ UNCHANGED log
       \/ /\ ~Applied(s, Cmd(h).key)
          /\ Len(log[s]) = Len(hist[h])
          /\ log' = [log EXCEPT ![s] = @ \o batch]
          /\ \/ /\ Goto(h, "publish")
                /\ UNCHANGED <<ticket, sent, hist, dec, answers>>
             \* the commit is durable but its acknowledgement is lost
             \/ Respond(h, "error", 0, 0)

\* Append reported a duplicate key: answer with the earlier record.
ReplayLookup(h) ==
    /\ pc[h] = "replay"
    /\ Applied(Cmd(h).stream, Cmd(h).key)
    /\ Respond(h, "replayed", 0, VersionOf(Cmd(h).stream, Cmd(h).key))
    /\ UNCHANGED log

\* appendRejected: the Rejected event goes to its own stream at any version.
Recorded(h) ==
    [log EXCEPT ![RejectedStream] = Append(@, [ev |-> [rejected |-> Cmd(h)], key |-> NoKey])]

\* recordRejection: a failed reread or projector is ignored.
RecordRejection(h) ==
    /\ pc[h] = "reject"
    /\ log' = Recorded(h)
    /\ Respond(h, "rejected", 0, Len(hist[h]))

\* Mutant of RecordRejectionFails: the error of recording is dropped.
RecordingErrorDropped(h) ==
    /\ pc[h] = "reject"
    /\ Respond(h, "rejected", 0, Len(hist[h]))
    /\ UNCHANGED log

\* The append fails, or only its acknowledgement is lost.
RecordRejectionFails(h) ==
    /\ pc[h] = "reject"
    /\ log' \in {log, Recorded(h)}
    /\ Respond(h, "unrecorded", 0, Len(hist[h]))

\* 6 publish and 7 respond.  The range that Append returned starts after the
\* history that was read, as the versions were equal.  A failed reread or projector changes only the
\* error that comes with the result.
Publish(h) ==
    /\ pc[h] = "publish"
    /\ \E res \in {"ok", "projection"} :
         Respond(h, res, Len(hist[h]) + 1, Len(hist[h]) + Len(dec[h].evs))
    /\ UNCHANGED log

\* An infrastructure error of a ledger call, the codec or the context source.
Fail(h) ==
    /\ pc[h] \in {"lookup", "load", "decide", "append", "replay"}
    /\ Respond(h, "error", 0, 0)
    /\ UNCHANGED log

\* The process stops: its caller is never answered.  A refusal may be recorded.
Crash(h) ==
    /\ pc[h] # "idle"
    /\ log' = log \/ (pc[h] = "reject" /\ log' = Recorded(h))
    /\ Goto(h, "idle")
    /\ hist' = [hist EXCEPT ![h] = << >>]
    /\ dec' = [dec EXCEPT ![h] = NoDecision]
    /\ UNCHANGED <<ticket, sent, answers>>

\* Every submission is over.
Quiescent ==
    /\ Len(sent) = MaxSubmits
    /\ \A h \in Handler : pc[h] = "idle"
    /\ UNCHANGED vars

Next ==
    \/ \E h \in Handler :
         \/ \E c \in Command : Submit(h, c)
         \/ Lookup(h) \/ Load(h) \/ DecideStep(h) \/ AppendBatch(h) \/ ReplayLookup(h)
         \/ RecordRejection(h) \/ RecordRejectionFails(h)
         \/ Publish(h) \/ Fail(h) \/ Crash(h)
    \/ Quiescent

Spec == Init /\ [][Next]_vars

-----------------------------------------------------------------------------
\* Every variable holds a value of its kind, and the submission a running
\* handler serves is one of those sent.
TypeOK ==
    /\ log \in [AllStreams -> Seq(Record)]
    /\ pc \in [Handler -> Steps]
    /\ sent \in Seq(Command)
    /\ Len(sent) <= MaxSubmits
    /\ ticket \in [Handler -> 0..Len(sent)]
    /\ \A h \in Handler : pc[h] # "idle" => ticket[h] # 0
    /\ hist \in [Handler -> Seq(Record)]
    /\ dec \in [Handler -> Outcome]
    /\ answers \in [1..MaxSubmits -> Answer]

\* No idempotency key is applied twice to a stream, however retries of the
\* same command race between Lookup and Append.
KeyOnce ==
    \A s \in AllStreams : \A i, j \in 1..Len(log[s]) :
        log[s][i].key = log[s][j].key /\ log[s][i].key # NoKey => i = j

\* Streams only grow: whatever races, no step rewrites or drops a record that
\* an earlier step made durable.
AppendOnlyStep ==
    \A s \in AllStreams :
        /\ Len(log[s]) <= Len(log'[s])
        /\ \A i \in 1..Len(log[s]) : log'[s][i] = log[s][i]

AppendOnly == [][AppendOnlyStep]_vars

\* A caller told that its command took effect can rely on it: the versions in
\* the result hold that command's batch in full, whatever ran concurrently;
\* and a replayed answer names a record that carries the caller's key.
AcknowledgedIsDurable ==
    \A t \in 1..Len(sent) :
        LET s == sent[t].stream
            a == answers[t]
        IN
        /\ a.res \in {"ok", "projection"} =>
             /\ 1 <= a.from /\ a.from <= a.ver /\ a.ver <= Len(log[s])
             /\ log[s][a.from].key = sent[t].key
             /\ \A i \in a.from + 1 .. a.ver : log[s][i].key = NoKey
        /\ a.res = "replayed" =>
             /\ a.ver \in 1..Len(log[s])
             /\ log[s][a.ver].key = sent[t].key

\* The reread after an append starts with exactly the handler's own events,
\* so publish pairs every envelope with the event it was encoded from, even
\* when other handlers have already extended the stream.
PublishesOwnBatch ==
    \A h \in Handler : pc[h] = "publish" =>
        LET s == Cmd(h).stream
            n == Len(hist[h])
        IN
        /\ Len(log[s]) >= n + Len(dec[h].evs)
        /\ \A i \in 1..Len(dec[h].evs) : log[s][n + i].ev = dec[h].evs[i]

\* Two fresh successes never answer the same key of the same stream: of any
\* number of racing retries one takes effect and the others are told so.
OneFreshSuccessPerKey ==
    \A t, u \in 1..Len(sent) :
        /\ {answers[t].res, answers[u].res} \subseteq {"ok", "projection"}
        /\ sent[t].stream = sent[u].stream
        /\ sent[t].key = sent[u].key
        /\ sent[t].key # NoKey
        => t = u

\* A refusal reported without an error of its own left a record: there are at
\* least as many Rejected records of a command as callers told "rejected".
RefusalsAreRecorded ==
    \A c \in Command :
        Cardinality({t \in 1..Len(sent) : sent[t] = c /\ answers[t].res = "rejected"})
        <= Cardinality({i \in 1..Len(log[RejectedStream]) :
                            log[RejectedStream][i].ev.rejected = c})

\* The pipeline implements the abstract command log: every append is a
\* command executed atomically on the history it extends.
ImplementsCommandLog == Abs!Spec

\* pipeline.go: "Replayed is true when the command's idempotency key had
\* already been applied: nothing new was written and Version is the earlier
\* result."
ReplayReturnsEarlierResult ==
    \A t, u \in 1..Len(sent) :
        /\ sent[t] = sent[u]
        /\ answers[t].res = "ok"
        /\ answers[u].res = "replayed"
        => answers[u].ver = answers[t].ver
=============================================================================
