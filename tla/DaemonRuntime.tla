--------------------------- MODULE DaemonRuntime ----------------------------
(***************************************************************************)
(* The daemon's in-memory projections against the shared SQLite ledger     *)
(* (cmd/keelage/runtime.go and main.go, internal/app/rebuild.go, cursor.go *)
(* and the publish step of pipeline.go).                                   *)
(*                                                                         *)
(* A request first catches up on the ledger under c.mu and then, for a     *)
(* hook, runs a command through the pipeline, which appends and publishes  *)
(* without c.mu.  CLI processes append to the same file at any time.  The  *)
(* cursor projector is the last of the list, so a record reaches the       *)
(* indexes before the cursor moves.  The projectors are abstracted to how  *)
(* often each record was handed to them.                                   *)
(***************************************************************************)
EXTENDS Naturals, Sequences, FiniteSets

CONSTANTS
    Req,         \* concurrent requests of the daemon (HTTP handler goroutines)
    NoReq,       \* c.mu is free
    Page,        \* records per page of Replay (500 in the code)
    MaxBatch,    \* events one command may append (a regression appends two)
    MaxSeq,      \* bound: length of the ledger
    MaxRestarts  \* bound: restarts of the daemon

ASSUME RuntimeConstants ==
    /\ NoReq \notin Req
    /\ Page \in Nat \ {0}
    /\ MaxBatch \in Nat \ {0}
    /\ MaxSeq \in Nat
    /\ MaxRestarts \in Nat

VARIABLES
    ledger,    \* sequence of writers, "daemon" or "cli"; a record's seq is its index
    times,     \* [seq -> how often the record was applied to the indexes]
    cursor,    \* Cursor.seq
    mu,        \* holder of c.mu
    pc,        \* [request -> its next step]
    loc,       \* [request -> its locals, see Locals]
    jumped,    \* records a publish moved the cursor past before they were applied
    restarts

vars == <<ledger, times, cursor, mu, pc, loc, jumped, restarts>>

Seqs == 1..MaxSeq
Steps == {"idle", "lock", "compare", "start", "read", "project", "mark", "unlock",
          "serve", "reread", "publish", "pubmark"}

\* want: length of the ledger when the request arrived; head: head.Seq as
\* catchUp read it; base: the seq the current page was read after; at: the
\* record being projected; upto: the last record of the page or batch.
Locals == [want : 0..MaxSeq, head : 0..MaxSeq, base : 0..MaxSeq,
           at : 0..MaxSeq, upto : 0..MaxSeq]
NoLocals == [want |-> 0, head |-> 0, base |-> 0, at |-> 0, upto |-> 0]

Smaller(a, b) == IF a <= b THEN a ELSE b
Larger(a, b) == IF a >= b THEN a ELSE b

Goto(r, step) == pc' = [pc EXCEPT ![r] = step]
Return(r) == Goto(r, "idle") /\ loc' = [loc EXCEPT ![r] = NoLocals]
ApplyToIndexes(n) == times' = [times EXCEPT ![n] = @ + 1]

-----------------------------------------------------------------------------
Init ==
    /\ ledger = << >>
    /\ times = [n \in Seqs |-> 0]
    /\ cursor = 0
    /\ mu = NoReq
    /\ pc = [r \in Req |-> "idle"]
    /\ loc = [r \in Req |-> NoLocals]
    /\ jumped = {}
    /\ restarts = 0

\* synced.Hook, WhatTouches, Related: a request arrives.
Arrive(r) ==
    /\ pc[r] = "idle"
    /\ loc' = [loc EXCEPT ![r].want = Len(ledger)]
    /\ Goto(r, "lock")
    /\ UNCHANGED <<ledger, times, cursor, mu, jumped, restarts>>

\* catchUp: c.mu.Lock, then Ledger.Head.
Lock(r) ==
    /\ pc[r] = "lock"
    /\ mu = NoReq
    /\ mu' = r
    /\ loc' = [loc EXCEPT ![r].head = Len(ledger)]
    /\ Goto(r, "compare")
    /\ UNCHANGED <<ledger, times, cursor, jumped, restarts>>

\* head.Seq > c.cursor.Seq()
Compare(r) ==
    /\ pc[r] = "compare"
    /\ Goto(r, IF loc[r].head > cursor THEN "start" ELSE "unlock")
    /\ UNCHANGED <<ledger, times, cursor, mu, loc, jumped, restarts>>

\* Mutant of StartReplay: the record after the cursor is taken as applied.
StartReplaySkips(r) ==
    /\ pc[r] = "start"
    /\ loc' = [loc EXCEPT ![r].at = cursor + 1]
    /\ Goto(r, "read")
    /\ UNCHANGED <<ledger, times, cursor, mu, jumped, restarts>>

\* Replay is called with the cursor read a second time.
StartReplay(r) ==
    /\ pc[r] = "start"
    /\ loc' = [loc EXCEPT ![r].at = cursor]
    /\ Goto(r, "read")
    /\ UNCHANGED <<ledger, times, cursor, mu, jumped, restarts>>

\* ReadAll of the next page; an empty page ends Replay.
ReadPage(r) ==
    LET seq == loc[r].at
        last == Smaller(Len(ledger), seq + Page)
    IN
    /\ pc[r] = "read"
    /\ IF last <= seq
       THEN Goto(r, "unlock") /\ UNCHANGED loc
       ELSE /\ loc' = [loc EXCEPT ![r].base = seq, ![r].at = seq + 1, ![r].upto = last]
            /\ Goto(r, "project")
    /\ UNCHANGED <<ledger, times, cursor, mu, jumped, restarts>>

\* The record is handed to the indexes ...
Project(r) ==
    /\ pc[r] = "project"
    /\ ApplyToIndexes(loc[r].at)
    /\ Goto(r, "mark")
    /\ UNCHANGED <<ledger, cursor, mu, loc, jumped, restarts>>

\* Mutant of Mark: the cursor is not one of the projectors of Replay.
MarkWithoutCursor(r) ==
    /\ pc[r] = "mark"
    /\ IF loc[r].at < loc[r].upto
       THEN loc' = [loc EXCEPT ![r].at = @ + 1] /\ Goto(r, "project")
       ELSE Goto(r, "unlock") /\ UNCHANGED loc
    /\ UNCHANGED <<ledger, times, cursor, mu, jumped, restarts>>

\* ... and then to the cursor.  The next record of the page follows, then the
\* next page, unless the page was short.
Mark(r) ==
    /\ pc[r] = "mark"
    /\ cursor' = Larger(cursor, loc[r].at)
    /\ IF loc[r].at < loc[r].upto
       THEN loc' = [loc EXCEPT ![r].at = @ + 1] /\ Goto(r, "project")
       ELSE /\ Goto(r, IF loc[r].upto - loc[r].base < Page THEN "unlock" ELSE "read")
            /\ UNCHANGED loc
    /\ UNCHANGED <<ledger, times, mu, jumped, restarts>>

\* Mutant of CatchUpFails: the error path does not unlock.
CatchUpFailsLocked(r) ==
    /\ pc[r] \in {"compare", "read", "project"}
    /\ Return(r)
    /\ UNCHANGED <<ledger, times, cursor, mu, jumped, restarts>>

\* Head, ReadAll or Decode failed: catchUp returns the error, the deferred
\* Unlock runs and the request is answered with the error.
CatchUpFails(r) ==
    /\ pc[r] \in {"compare", "read", "project"}
    /\ mu' = NoReq
    /\ Return(r)
    /\ UNCHANGED <<ledger, times, cursor, jumped, restarts>>

Unlock(r) ==
    /\ pc[r] = "unlock"
    /\ mu' = NoReq
    /\ Goto(r, "serve")
    /\ UNCHANGED <<ledger, times, cursor, loc, jumped, restarts>>

\* A query, or a hook that records nothing, is answered from the indexes.
Answer(r) ==
    /\ pc[r] = "serve"
    /\ Return(r)
    /\ UNCHANGED <<ledger, times, cursor, mu, jumped, restarts>>

\* Step 5 of the pipeline: the command's events are appended in one transaction.
HandleCommand(r) ==
    /\ pc[r] = "serve"
    /\ \E n \in 1..MaxBatch :
         /\ Len(ledger) + n <= MaxSeq
         /\ ledger' = ledger \o [i \in 1..n |-> "daemon"]
         /\ loc' = [loc EXCEPT ![r].at = Len(ledger) + 1, ![r].upto = Len(ledger) + n]
    /\ Goto(r, "reread")
    /\ UNCHANGED <<times, cursor, mu, jumped, restarts>>

\* Step 6 reads the batch back ...
Reread(r) ==
    /\ pc[r] = "reread"
    /\ Goto(r, "publish")
    /\ UNCHANGED <<ledger, times, cursor, mu, loc, jumped, restarts>>

\* ... which may fail (ErrProjection, or a refusal whose reread error is
\* dropped): nothing is published.
RereadFails(r) ==
    /\ pc[r] = "reread"
    /\ Return(r)
    /\ UNCHANGED <<ledger, times, cursor, mu, jumped, restarts>>

\* ... and hands each record to the indexes and then to the cursor.
Publish(r) ==
    /\ pc[r] = "publish"
    /\ ApplyToIndexes(loc[r].at)
    /\ Goto(r, "pubmark")
    /\ UNCHANGED <<ledger, cursor, mu, loc, jumped, restarts>>

PublishMark(r) ==
    /\ pc[r] = "pubmark"
    /\ cursor' = Larger(cursor, loc[r].at)
    /\ jumped' = jumped \union {n \in cursor + 1 .. loc[r].at - 1 : times[n] = 0}
    /\ IF loc[r].at < loc[r].upto
       THEN loc' = [loc EXCEPT ![r].at = @ + 1] /\ Goto(r, "publish")
       ELSE Return(r)
    /\ UNCHANGED <<ledger, times, mu, restarts>>

\* A CLI process runs a command on the same file.
CLIAppend ==
    /\ Len(ledger) < MaxSeq
    /\ ledger' = Append(ledger, "cli")
    /\ UNCHANGED <<times, cursor, mu, pc, loc, jumped, restarts>>

\* The daemon stops and starts again: openCore rebuilds from seq 1.
Restart ==
    /\ restarts < MaxRestarts
    /\ restarts' = restarts + 1
    /\ times' = [n \in Seqs |-> IF n <= Len(ledger) THEN 1 ELSE 0]
    /\ cursor' = Len(ledger)
    /\ mu' = NoReq
    /\ pc' = [r \in Req |-> "idle"]
    /\ loc' = [r \in Req |-> NoLocals]
    /\ jumped' = {}
    /\ UNCHANGED ledger

\* The steps of a request that holds c.mu.
Holding(r) ==
    \/ Compare(r) \/ StartReplay(r) \/ ReadPage(r) \/ Project(r) \/ Mark(r)
    \/ Unlock(r) \/ CatchUpFails(r)

\* The steps of a request after catch-up.
Serving(r) ==
    \/ Answer(r) \/ HandleCommand(r) \/ Reread(r) \/ RereadFails(r)
    \/ Publish(r) \/ PublishMark(r)

Next ==
    \/ \E r \in Req : Arrive(r) \/ Lock(r) \/ Holding(r) \/ Serving(r)
    \/ CLIAppend
    \/ Restart

\* A goroutine that can run eventually does; Go's mutex hands the lock to a
\* waiter that has waited too long, so a waiter that finds c.mu free again and
\* again eventually gets it.
Fairness ==
    \A r \in Req : /\ WF_vars(Holding(r))
                   /\ WF_vars(Serving(r))
                   /\ SF_vars(Lock(r))

Spec == Init /\ [][Next]_vars /\ Fairness

-----------------------------------------------------------------------------
\* Every variable holds a value of its kind, and c.mu is held by exactly the
\* request that is inside catchUp.
TypeOK ==
    /\ ledger \in Seq({"daemon", "cli"}) /\ Len(ledger) <= MaxSeq
    /\ times \in [Seqs -> Nat]
    /\ cursor \in 0..Len(ledger)
    /\ mu \in Req \union {NoReq}
    /\ pc \in [Req -> Steps]
    /\ \A r \in Req : (pc[r] \in {"compare", "start", "read", "project", "mark", "unlock"})
                      <=> (mu = r)
    /\ loc \in [Req -> Locals]
    /\ jumped \subseteq Seqs
    /\ restarts \in 0..MaxRestarts

\* Catch-up hands a record to the indexes at most once in the daemon's
\* lifetime, because c.mu serialises it with itself: a record another process
\* wrote is applied at most once and a record of the daemon's own pipeline at
\* most twice, once by its publish and once by a catch-up that overtook it.
CatchUpAppliesOnce ==
    \A n \in 1..Len(ledger) : times[n] <= IF ledger[n] = "cli" THEN 1 ELSE 2

\* A record that the cursor has passed and that is missing from the indexes
\* is one a publish jumped over; catch-up itself, its pages, its errors and
\* the requests that share the cursor lose nothing.
LostOnlyByJump ==
    \A n \in 1..cursor : times[n] = 0 => n \in jumped

\* Every request that arrives is answered, whatever fails on the way: no path
\* out of catchUp keeps c.mu.
EveryRequestEnds ==
    \A r \in Req : pc[r] = "lock" ~> pc[r] = "idle"

\* cursor.go: "a runtime that projects synchronously through the pipeline and
\* also catches up from the ledger never applies a record twice".
NeverAppliedTwice == \A n \in Seqs : times[n] <= 1

\* main.go: "synced serves hook and query requests after catching up on ledger
\* writes made by other processes".
ServedAfterCatchUp ==
    \A r \in Req : pc[r] = "serve" => \A n \in 1..loc[r].want : times[n] >= 1
=============================================================================
