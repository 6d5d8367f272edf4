-------------------------------- MODULE Hooks -------------------------------
(***************************************************************************)
(* The capture of one tool session (internal/app/hooks.go): what the hooks *)
(* of the tool report, what the daemon keeps of it in memory, the records  *)
(* it makes of it on the session's stream (the Session aggregate,          *)
(* internal/core/accountability/session.go) and the projection of them     *)
(* (SessionIndex, internal/app/sessions.go).                               *)
(*                                                                         *)
(* The tool waits 50 ms for a hook and goes on, so hooks overlap, and one  *)
(* whose client left may fail at the ledger.  Running one command through  *)
(* the pipeline is one step, its publication another; a command that is    *)
(* refused is recorded elsewhere and the hook goes on.                     *)
(*                                                                         *)
(* A prompt is its class, a command whether it reverts, a file a name in   *)
(* the repository; the count of prompts and the text of summaries are left *)
(* out.                                                                    *)
(***************************************************************************)
EXTENDS Naturals, Sequences, FiniteSets

CONSTANTS
    Hook,       \* hooks that may run at the same time
    File,
    MaxEvents,  \* bound: hook events of the session
    MaxShares   \* bound: times the user shares it

ASSUME HooksConstants == MaxEvents \in Nat /\ MaxShares \in Nat

VARIABLES
    stream,     \* records of the session
    recorded,   \* Session.recorded: the start was, or is being, recorded
    turn,       \* the open turn
    hook,       \* [hook -> its locals]
    index,      \* the SessionIndex entry
    cursor,     \* the Cursor, on the records of this session
    edits,      \* history: [file -> number of edits taken up]
    owed,       \* history: files edited and in no turn since
    lost,       \* history: hooks overlapped, one failed or dropped an edit, the daemon
                \* restarted, or the tool went on where no session was open
    raced,      \* history: records were published out of order or in passing
    events      \* hook events so far

vars == <<stream, recorded, turn, hook, index, cursor, edits, owed, lost, raced, events>>

NoTurn == [known |-> FALSE, open |-> FALSE, files |-> {}]
NewTurn(open) == [known |-> TRUE, open |-> open, files |-> {}]
NoCmd == [kind |-> "none", class |-> "accept", files |-> {}]
Idle == [pc |-> "idle", ev |-> "none", cmd |-> NoCmd, next |-> "idle", seq |-> 0]
NoSession == [state |-> "none", turns |-> 0, touched |-> {}, judgments |-> 0]

Event == [kind : {"SessionStart", "SessionEnd", "RevertCommand", "Prompt", "Redirect"}]
         \union [kind : {"PostEdit"}, file : File]

\* Session.Apply: redirects and reverts are candidates for judgments.
Apply(s, r) ==
    CASE r.kind = "Started" -> [NoSession EXCEPT !.state = "open"]
      [] r.kind = "Turn"    -> [s EXCEPT !.turns = @ + 1, !.touched = @ \union r.files,
                                         !.judgments = IF r.class \in {"redirect", "revert"} THEN @ + 1 ELSE @]
      [] r.kind = "Ended"   -> [s EXCEPT !.state = "ended"]
      [] r.kind = "Shared"  -> [s EXCEPT !.state = "shared"]

Folded(to) ==
    LET F[i \in 0..to] == IF i = 0 THEN NoSession ELSE Apply(F[i-1], stream[i]) IN F[to]
State == Folded(Len(stream)).state

\* Mutant of Handle: every turn is a candidate.
HandleEveryTurn(s, r) ==
    IF r.kind = "Turn"
    THEN [s EXCEPT !.turns = @ + 1, !.touched = @ \union r.files, !.judgments = @ + 1]
    ELSE Apply(s, r)

\* SessionIndex.Handle: written apart from Apply; it counts what it is given.
Handle(s, r) ==
    CASE r.kind = "Started" -> [NoSession EXCEPT !.state = "open"]
      [] r.kind = "Turn"    -> [s EXCEPT !.turns = @ + 1, !.touched = @ \union r.files,
                                         !.judgments = IF r.class = "accept" THEN @ ELSE @ + 1]
      [] r.kind = "Ended"   -> [s EXCEPT !.state = "ended"]
      [] r.kind = "Shared"  -> [s EXCEPT !.state = "shared"]

\* Replay of the records behind a position.
Replayed(from, s) ==
    LET F[i \in from..Len(stream)] == IF i = from THEN s ELSE Handle(F[i-1], stream[i])
    IN F[Len(stream)]

\* Session.Decide, and the session:start and session:end keys: the record a
\* command makes, or none.
Decide(cmd) ==
    CASE cmd.kind = "Start" -> IF State = "none" THEN <<[kind |-> "Started"]>> ELSE << >>
      [] cmd.kind = "Turn"  -> IF State = "open"
                               THEN <<[kind |-> "Turn", class |-> cmd.class, files |-> cmd.files]>>
                               ELSE << >>
      [] cmd.kind = "End"   -> IF State = "open" THEN <<[kind |-> "Ended"]>> ELSE << >>

Init ==
    /\ stream = << >> /\ recorded = FALSE /\ turn = NoTurn
    /\ hook = [h \in Hook |-> Idle]
    /\ index = NoSession /\ cursor = 0
    /\ edits = [f \in File |-> 0] /\ owed = {} /\ lost = FALSE /\ raced = FALSE /\ events = 0

Busy(h) == hook[h].pc # "idle"
Publishing(h) == hook[h].pc = "publish"

CatchUp ==
    /\ index' = Replayed(cursor, index)
    /\ cursor' = Len(stream)
    /\ raced' = (raced \/ \E o \in Hook : Publishing(o))

\* synced.Hook: catch up, then the hook begins by its kind.
Arrive(h, e) ==
    /\ ~Busy(h)
    /\ events < MaxEvents
    /\ events' = events + 1
    /\ CatchUp
    /\ lost' = \/ lost \/ State \in {"ended", "shared"} \/ \E o \in Hook : Busy(o)
               \/ State = "none" /\ e.kind \notin {"SessionStart", "Prompt", "Redirect"}
    /\ hook' = [hook EXCEPT ![h] =
         [Idle EXCEPT !.ev = e.kind,
                      !.cmd.files = IF e.kind = "PostEdit" THEN {e.file} ELSE {},
                      !.cmd.class = CASE e.kind = "Redirect" -> "redirect"
                                      [] e.kind = "RevertCommand" -> "revert"
                                      [] OTHER -> "accept",
                      !.pc = CASE e.kind = "PostEdit" -> "edit"
                               [] e.kind \in {"SessionStart", "Prompt", "Redirect"} -> "start"
                               [] OTHER -> "close"]]
    /\ UNCHANGED <<stream, recorded, turn, edits, owed>>

\* The catch-up fails, before it read the records or at the cache behind them:
\* the hook is dropped with the edit it reports, and the tool is not told.
Drop(e) ==
    /\ events < MaxEvents
    /\ events' = events + 1
    /\ CatchUp \/ UNCHANGED <<index, cursor, raced>>
    /\ IF e.kind = "PostEdit" THEN owed' = owed \union {e.file} /\ lost' = TRUE ELSE UNCHANGED <<owed, lost>>
    /\ UNCHANGED <<stream, recorded, turn, hook, edits>>

\* post_edit, under the lock.
PostEdit(h) ==
    /\ hook[h].pc = "edit"
    /\ turn' = [(IF turn.known THEN turn ELSE NewTurn(TRUE)) EXCEPT !.files = @ \union hook[h].cmd.files]
    /\ edits' = [f \in File |-> IF f \in hook[h].cmd.files THEN edits[f] + 1 ELSE edits[f]]
    /\ owed' = owed \union hook[h].cmd.files
    /\ hook' = [hook EXCEPT ![h] = Idle]
    /\ UNCHANGED <<stream, recorded, index, cursor, lost, raced, events>>

\* Where a hook goes after it recorded the start of the session.
AfterStart(h) == IF hook[h].ev = "SessionStart" THEN "done" ELSE "close"

\* start: the mark is set before the record is made.
Start(h) ==
    /\ hook[h].pc = "start"
    /\ recorded' = TRUE
    /\ hook' = [hook EXCEPT ![h] = IF recorded THEN [@ EXCEPT !.pc = AfterStart(h)]
                                   ELSE [@ EXCEPT !.pc = "record", !.cmd.kind = "Start", !.next = AfterStart(h)]]
    /\ UNCHANGED <<stream, turn, index, cursor, edits, owed, lost, raced, events>>

AfterClose(h) == CASE hook[h].ev \in {"Prompt", "Redirect"} -> "reset"
                   [] hook[h].ev = "SessionEnd" -> "end"
                   [] OTHER -> "done"

\* Mutant of CloseTurn: the turn is not taken over but only read.
CloseTurnKeeps(h) ==
    /\ hook[h].pc = "close"
    /\ IF ~turn.known \/ turn.files = {}
       THEN /\ hook' = [hook EXCEPT ![h].pc = AfterClose(h)]
            /\ UNCHANGED turn
       ELSE /\ UNCHANGED turn
            /\ hook' = [hook EXCEPT ![h] = [@ EXCEPT !.pc = "record", !.cmd.kind = "Turn",
                                              !.cmd.files = turn.files, !.next = AfterClose(h)]]
    /\ UNCHANGED <<stream, recorded, index, cursor, edits, owed, lost, raced, events>>

\* Mutant of CloseTurn: an accepted turn makes no record.
CloseTurnIfDisputed(h) ==
    /\ hook[h].pc = "close"
    /\ turn' = NewTurn(FALSE)
    /\ hook' = [hook EXCEPT ![h] =
         IF hook[h].cmd.class = "accept"
         THEN [@ EXCEPT !.pc = AfterClose(h)]
         ELSE [@ EXCEPT !.pc = "record", !.cmd.kind = "Turn", !.cmd.files = turn.files,
                        !.next = AfterClose(h)]]
    /\ UNCHANGED <<stream, recorded, index, cursor, edits, owed, lost, raced, events>>

\* closeTurn: the files are taken over and the turn is empty, under the lock;
\* an accepted prompt without edits makes no record.
CloseTurn(h) ==
    /\ hook[h].pc = "close"
    /\ IF ~turn.known \/ (~turn.open /\ turn.files = {})
       THEN /\ hook' = [hook EXCEPT ![h].pc = AfterClose(h)]
            /\ UNCHANGED turn
       ELSE /\ turn' = NewTurn(FALSE)
            /\ hook' = [hook EXCEPT ![h] =
                 IF turn.files = {} /\ hook[h].cmd.class = "accept"
                 THEN [@ EXCEPT !.pc = AfterClose(h)]
                 ELSE [@ EXCEPT !.pc = "record", !.cmd.kind = "Turn", !.cmd.files = turn.files,
                                !.next = AfterClose(h)]]
    /\ UNCHANGED <<stream, recorded, index, cursor, edits, owed, lost, raced, events>>

\* record: the command goes through the pipeline.
Record(h) ==
    /\ hook[h].pc = "record"
    /\ LET evs == Decide(hook[h].cmd) IN
       /\ stream' = stream \o evs
       /\ owed' = IF evs # << >> /\ hook[h].cmd.kind = "Turn" THEN owed \ hook[h].cmd.files ELSE owed
       /\ hook' = [hook EXCEPT ![h] =
            IF evs = << >> THEN [@ EXCEPT !.pc = hook[h].next]
            ELSE [@ EXCEPT !.pc = "publish", !.seq = Len(stream) + 1]]
    /\ UNCHANGED <<recorded, turn, index, cursor, edits, lost, raced, events>>

\* A version conflict, a cancelled request or a failing disk ends the hook;
\* the tool is not told.
RecordFails(h) ==
    /\ hook[h].pc = "record"
    /\ hook' = [hook EXCEPT ![h] = Idle]
    /\ lost' = TRUE
    /\ UNCHANGED <<stream, recorded, turn, index, cursor, edits, owed, raced, events>>

Publish(h) ==
    /\ Publishing(h)
    /\ index' = Handle(index, stream[hook[h].seq])
    /\ cursor' = IF hook[h].seq > cursor THEN hook[h].seq ELSE cursor
    /\ raced' = (raced \/ hook[h].seq # cursor + 1)
    /\ hook' = [hook EXCEPT ![h].pc = hook[h].next]
    /\ UNCHANGED <<stream, recorded, turn, edits, owed, lost, events>>

\* The new turn of a prompt replaces whatever was reported since closeTurn.
ResetTurn(h) ==
    /\ hook[h].pc = "reset"
    /\ turn' = NewTurn(TRUE)
    /\ hook' = [hook EXCEPT ![h] = Idle]
    /\ UNCHANGED <<stream, recorded, index, cursor, edits, owed, lost, raced, events>>

End(h) ==
    /\ hook[h].pc = "end"
    /\ hook' = [hook EXCEPT ![h] = [@ EXCEPT !.pc = "record", !.cmd.kind = "End", !.next = "done"]]
    /\ UNCHANGED <<stream, recorded, turn, index, cursor, edits, owed, lost, raced, events>>

Done(h) ==
    /\ hook[h].pc = "done"
    /\ hook' = [hook EXCEPT ![h] = Idle]
    /\ UNCHANGED <<stream, recorded, turn, index, cursor, edits, owed, lost, raced, events>>

\* ShareSession by its owner, in a process of its own (the pipeline takes the
\* command; no command line issues it yet).
Share ==
    /\ State \in {"ended", "shared"}
    /\ Cardinality({i \in 1..Len(stream) : stream[i].kind = "Shared"}) < MaxShares
    /\ stream' = Append(stream, [kind |-> "Shared"])
    /\ raced' = (raced \/ \E h \in Hook : Busy(h))
    /\ UNCHANGED <<recorded, turn, hook, index, cursor, edits, owed, lost, events>>

\* The daemon's memory is gone; its projections are rebuilt.
Restart ==
    /\ recorded' = FALSE /\ turn' = NoTurn
    /\ hook' = [h \in Hook |-> Idle]
    /\ index' = Replayed(0, NoSession) /\ cursor' = Len(stream)
    /\ lost' = TRUE /\ raced' = FALSE
    /\ UNCHANGED <<stream, edits, owed, events>>

Next ==
    \/ \E h \in Hook :
         \/ \E e \in Event : Arrive(h, e)
         \/ PostEdit(h) \/ Start(h) \/ CloseTurn(h) \/ Record(h) \/ RecordFails(h)
         \/ Publish(h) \/ ResetTurn(h) \/ End(h) \/ Done(h)
    \/ \E e \in Event : Drop(e)
    \/ Share \/ Restart

Spec == Init /\ [][Next]_vars

-----------------------------------------------------------------------------
TurnsWith(f) == {i \in 1..Len(stream) : stream[i].kind = "Turn" /\ f \in stream[i].files}

\* The variables hold values of their kind; the cursor stays on the stream.
TypeOK ==
    /\ \A i \in 1..Len(stream) : stream[i].kind \in {"Started", "Turn", "Ended", "Shared"}
    /\ turn \in [known : BOOLEAN, open : BOOLEAN, files : SUBSET File]
    /\ \A h \in Hook : /\ hook[h].seq \in 0..Len(stream)
                       /\ Publishing(h) => hook[h].seq > 0
    /\ cursor \in 0..Len(stream)
    /\ edits \in [File -> 0..MaxEvents] /\ events \in 0..MaxEvents

\* An edit is blamed at most once: no file is in more turns than it was
\* edited, however hooks overlap, fail or are cut off by a restart.
EditInOneTurn == \A f \in File : Cardinality(TurnsWith(f)) <= edits[f]

\* Nothing is lost in an orderly session: as long as hooks follow one another,
\* none failed or dropped an edit, the daemon was not restarted and the tool did
\* not resume an ended session, every file edited since its last turn is in the open turn
\* or in a turn that is being recorded.
OrderlyEditsKept ==
    ~lost => owed \subseteq
        turn.files \union UNION {hook[h].cmd.files : h \in {o \in Hook : hook[o].pc = "record"}}

\* The projection that the inbox and the derivation of changes read says what
\* the records say, each counted once, as long as no record was published
\* beside another hook's catch-up or publication.
IndexIsExact == ~raced => index = Folded(cursor)

\* cursor.go: a catch-up "never applies a record twice".  A record published beside
\* a catch-up reaches the index twice, or behind a later one.
IndexIsAlwaysExact == index = Folded(cursor)

\* hooks.go: "one TurnRecorded per prompt-and-edits turn".  When the end of the
\* session has been handled, no reported edit is without a turn.
EveryEditRecorded ==
    [][\A h \in Hook : hook[h].pc = "done" /\ hook[h].ev = "SessionEnd" /\ hook'[h] = Idle =>
         owed = {}]_vars
=============================================================================
