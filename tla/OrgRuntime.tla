----------------------------- MODULE OrgRuntime -----------------------------
(***************************************************************************)
(* One tenant of the team server (internal/app/team.go, the review path of *)
(* prbridge.go, rejected.go): its ledger, the in-memory projections and    *)
(* the cursor that says how far they reflect the ledger.                   *)
(*                                                                         *)
(* Every request that touches the projections holds org.mu from its first  *)
(* ledger call to its answer, so the locals below are those of the one     *)
(* request inside.  Each ledger call may fail, before or after its         *)
(* transaction became durable.  Pull reads the ledger only and is part of  *)
(* TeamSync.                                                               *)
(***************************************************************************)
EXTENDS Naturals, Sequences

CONSTANTS
    Req,         \* concurrent requests of the server
    NoReq,       \* org.mu is free
    MaxPush,     \* records one push may carry
    MaxBatch,    \* events one command may append
    MaxHead,     \* bound: length of the ledger
    MaxRestarts  \* bound: restarts of the server

ASSUME OrgConstants ==
    /\ NoReq \notin Req
    /\ MaxPush \in Nat /\ MaxBatch \in Nat /\ MaxHead \in Nat /\ MaxRestarts \in Nat

VARIABLES
    head,      \* Ledger.Head().Seq
    applied,   \* the records handed to the indexes, in order
    cursor,    \* Cursor.seq
    mu,        \* holder of org.mu
    waiting,   \* requests blocked on org.mu
    step,      \* the next step of the holder, "none" when org.mu is free
    after,     \* the step that follows catchUp or the publishing of a batch
    left,      \* records of the push still to be examined
    at,        \* the last record projected by the running loop
    upto,      \* the last record of the batch being published
    restarts

vars == <<head, applied, cursor, mu, waiting, step, after, left, at, upto, restarts>>
locals == <<after, left, at, upto>>

Steps == {"none", "event", "head", "replay", "reject", "handle", "publish", "return", "leave"}

Larger(a, b) == IF a >= b THEN a ELSE b

\* One record reaches the indexes and then the cursor, the last projector.
Apply(n) ==
    /\ applied' = Append(applied, n)
    /\ cursor' = Larger(cursor, n)

-----------------------------------------------------------------------------
Init ==
    /\ head = 0
    /\ applied = << >>
    /\ cursor = 0
    /\ mu = NoReq
    /\ waiting = {}
    /\ step = "none"
    /\ after = "return" /\ left = 0 /\ at = 0 /\ upto = 0
    /\ restarts = 0

\* Push, RequestGate, ResolveGate, ListGates, describe or review is called.
Arrive(r) ==
    /\ r # mu
    /\ r \notin waiting
    /\ waiting' = waiting \union {r}
    /\ UNCHANGED <<head, applied, cursor, mu, step, locals, restarts>>

Enter(r) ==
    /\ mu = NoReq
    /\ r \in waiting
    /\ waiting' = waiting \ {r}
    /\ mu' = r

\* A push starts with its records; everything else starts with catchUp and
\* goes on to the pipeline, or only reads the projections.
EnterPush(r) ==
    /\ Enter(r)
    /\ left' \in 1..MaxPush
    /\ step' = "event"
    /\ UNCHANGED <<head, applied, cursor, after, at, upto, restarts>>

EnterOther(r) ==
    /\ Enter(r)
    /\ step' = "head"
    /\ after' \in {"handle", "return"}
    /\ left' = 0
    /\ UNCHANGED <<head, applied, cursor, at, upto, restarts>>

\* The deferred Unlock, whatever is answered.
Leave ==
    /\ step \in {"return", "leave"}
    /\ mu' = NoReq
    /\ step' = "none"
    /\ UNCHANGED <<head, applied, cursor, waiting, locals, restarts>>

\* catchUp: nothing to do unless the head is past the cursor.
CatchUpHead ==
    /\ step = "head"
    /\ IF head <= cursor
       THEN step' = after /\ UNCHANGED at
       ELSE step' = "replay" /\ at' = cursor
    /\ UNCHANGED <<head, applied, cursor, mu, waiting, after, left, upto, restarts>>

\* Replay, one record at a time; its pages do not matter under org.mu.
Replay ==
    /\ step = "replay"
    /\ IF at < head
       THEN Apply(at + 1) /\ at' = at + 1 /\ UNCHANGED step
       ELSE step' = after /\ UNCHANGED <<applied, cursor, at>>
    /\ UNCHANGED <<head, mu, waiting, after, left, upto, restarts>>

\* Mutant of Fail: the error path never returns.
FailHangs ==
    /\ step \in {"event", "head", "replay", "reject", "handle"}
    /\ step' = "none"
    /\ UNCHANGED <<head, applied, cursor, mu, waiting, locals, restarts>>

\* A ledger call or the codec fails and the request answers with the error:
\* Head, ReadAll, Decode, FindOrigin, Append before its commit, Lookup, Read.
Fail ==
    /\ step \in {"event", "head", "replay", "reject", "handle"}
    /\ step' = "leave"
    /\ UNCHANGED <<head, applied, cursor, mu, waiting, locals, restarts>>

\* Push: a duplicate origin, or a record whose hash or signature does not
\* hold, is answered without a ledger write.
EventAnswered ==
    /\ step = "event" /\ left > 0
    /\ left' = left - 1
    /\ UNCHANGED <<head, applied, cursor, mu, waiting, step, after, at, upto, restarts>>

\* Push: the record is appended (or its commit is durable and the
\* acknowledgement lost, and Push answers with the error).
EventAccepted ==
    /\ step = "event" /\ left > 0
    /\ head < MaxHead
    /\ head' = head + 1
    /\ left' = left - 1
    /\ step' \in {"event", "leave"}
    /\ UNCHANGED <<applied, cursor, mu, waiting, after, at, upto, restarts>>

\* Mutant of EventRejected: the refusal is recorded without a catchUp first.
EventRejectedUnprojected ==
    /\ step = "event" /\ left > 0
    /\ left' = left - 1
    /\ step' = "reject"
    /\ after' = "reject"
    /\ UNCHANGED <<head, applied, cursor, mu, waiting, at, upto, restarts>>

\* Push: not shareable, wrong actor, unknown event, version conflict or
\* duplicate key; what was accepted so far is projected before the refusal
\* is recorded.
EventRejected ==
    /\ step = "event" /\ left > 0
    /\ left' = left - 1
    /\ step' = "head"
    /\ after' = "reject"
    /\ UNCHANGED <<head, applied, cursor, mu, waiting, at, upto, restarts>>

\* Mutant of EventsDone: the push is acknowledged without the last catchUp.
EventsDoneUnprojected ==
    /\ step = "event" /\ left = 0
    /\ step' = "return"
    /\ UNCHANGED <<head, applied, cursor, mu, waiting, locals, restarts>>

EventsDone ==
    /\ step = "event" /\ left = 0
    /\ step' = "head"
    /\ after' = "return"
    /\ UNCHANGED <<head, applied, cursor, mu, waiting, left, at, upto, restarts>>

\* What follows a recorded refusal: a push goes on, Handle returns it.
Resume(kind) == IF kind = "reject" THEN "event" ELSE "leave"

\* appendRejected, in a push (after = "reject") or in Handle: a reread that
\* fails is dropped and the record is left to the next catchUp.
RecordRejection ==
    /\ step = "reject"
    /\ head < MaxHead
    /\ head' = head + 1
    /\ \/ /\ step' = "publish"
          /\ after' = Resume(after)
          /\ at' = head /\ upto' = head + 1
       \/ /\ step' = Resume(after)
          /\ UNCHANGED <<after, at, upto>>
       \/ /\ step' = "leave"
          /\ UNCHANGED <<after, at, upto>>
    /\ UNCHANGED <<applied, cursor, mu, waiting, left, restarts>>

\* Pipeline.Handle: a replay or a command without effect.
HandleNoEffect ==
    /\ step = "handle"
    /\ step' = "return"
    /\ UNCHANGED <<head, applied, cursor, mu, waiting, locals, restarts>>

\* Pipeline.Handle: refused, recordRejection follows without a catchUp.
HandleRefused ==
    /\ step = "handle"
    /\ step' = "reject"
    /\ UNCHANGED <<head, applied, cursor, mu, waiting, locals, restarts>>

\* Pipeline.Handle: the batch is appended, then published; a lost
\* acknowledgement or a failed reread (ErrProjection) ends the request.
HandleAccepted ==
    /\ step = "handle"
    /\ \E n \in 1..MaxBatch :
         /\ head + n <= MaxHead
         /\ head' = head + n
         /\ \/ /\ step' = "publish"
               /\ after' = "return"
               /\ at' = head /\ upto' = head + n
            \/ /\ step' = "leave"
               /\ UNCHANGED <<after, at, upto>>
    /\ UNCHANGED <<applied, cursor, mu, waiting, left, restarts>>

Publish ==
    /\ step = "publish"
    /\ Apply(at + 1)
    /\ at' = at + 1
    /\ step' = IF at + 1 < upto THEN "publish" ELSE after
    /\ UNCHANGED <<head, mu, waiting, after, left, upto, restarts>>

\* The process stops; the first request after the start rebuilds in Orgs.Get.
Restart ==
    /\ restarts < MaxRestarts
    /\ restarts' = restarts + 1
    /\ applied' = [n \in 1..head |-> n]
    /\ cursor' = head
    /\ mu' = NoReq
    /\ waiting' = {}
    /\ step' = "none"
    /\ after' = "return" /\ left' = 0 /\ at' = 0 /\ upto' = 0
    /\ UNCHANGED head

\* The steps of the request that holds org.mu.
Holding ==
    \/ CatchUpHead \/ Replay \/ Fail \/ EventAnswered \/ EventAccepted \/ EventRejected
    \/ EventsDone \/ RecordRejection \/ HandleNoEffect \/ HandleRefused \/ HandleAccepted
    \/ Publish \/ Leave

Next ==
    \/ \E r \in Req : Arrive(r) \/ EnterPush(r) \/ EnterOther(r)
    \/ Holding
    \/ Restart

\* A goroutine that can run eventually does, and a waiter that finds org.mu
\* free again and again eventually gets it (Go's mutex does not starve).
Fairness ==
    /\ WF_vars(Holding)
    /\ \A r \in Req : SF_vars(EnterPush(r) \/ EnterOther(r))

Spec == Init /\ [][Next]_vars /\ Fairness

-----------------------------------------------------------------------------
\* Every variable holds a value of its kind; org.mu is held exactly while
\* some request has a step to take, and its holder does not wait for it.
TypeOK ==
    /\ head \in 0..MaxHead
    /\ applied \in Seq(Nat)
    /\ cursor \in Nat
    /\ mu \in Req \union {NoReq}
    /\ waiting \subseteq Req
    /\ mu \notin waiting
    /\ step \in Steps
    /\ (step = "none") <=> (mu = NoReq)
    /\ after \in {"reject", "handle", "return", "event", "leave"}
    /\ left \in 0..MaxPush
    /\ at \in Nat /\ upto \in Nat
    /\ restarts \in 0..MaxRestarts

\* team.go: "nothing is applied twice" and "nothing before it may be skipped".
\* The projections are at every moment those of the first cursor records of
\* the ledger: each applied once, in order, whichever calls failed and
\* whether a record came through a push, a refusal or the pipeline.
ExactProjection ==
    /\ cursor <= head
    /\ applied = [n \in 1..cursor |-> n]

\* A command is decided, a list answered and a push acknowledged only when
\* the projections reflect every record of the ledger, those of pushes that
\* broke off half-way included.
AnswersAreCurrent ==
    step \in {"handle", "return"} => cursor = head

\* Every request gets org.mu and gives it back, whatever fails inside.
EveryRequestReturns ==
    \A r \in Req : r \in waiting ~> (r \notin waiting /\ mu # r)
=============================================================================
