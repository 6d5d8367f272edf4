----------------------------- MODULE CommandLog -----------------------------
(***************************************************************************)
(* What the command pipeline promises: every stream of the ledger is the   *)
(* history of commands executed one at a time, each decided on the history *)
(* it extends, each idempotency key applied at most once; and a refused    *)
(* command leaves a record on the Rejected stream and nothing elsewhere.   *)
(* Pipeline.tla implements this specification.                             *)
(***************************************************************************)
EXTENDS Naturals, Sequences

CONSTANTS
    Stream,          \* aggregate streams of the ledger
    RejectedStream,  \* the stream that records refused commands
    Event,           \* domain events
    Key,             \* idempotency keys
    NoKey,           \* the empty idempotency key
    Command,         \* commands: records with stream, key and valid (a well-formed actor)
    Context,         \* what projections may contribute to a decision (DecideContext)
    Decide(_, _, _)  \* replay of a stream's records, then the aggregate's Decide

VARIABLE log         \* [stream -> sequence of records]; a record's version is its index

AllStreams == Stream \union {RejectedStream}

\* A refused command is kept as a Rejected event naming the command.
RejectedEvent == [rejected : Command]

Record == [ev : Event \union RejectedEvent, key : Key \union {NoKey}]

\* What Decide answers: events (possibly none), or a Rejection.
Outcome == [refused : BOOLEAN, evs : Seq(Event)]

\* The pipeline puts the command's key on the first event of the batch only.
Seal(evs, key) ==
    [i \in 1..Len(evs) |-> [ev |-> evs[i], key |-> IF i = 1 THEN key ELSE NoKey]]

\* UNIQUE(stream, idem): the empty key is stored as NULL and never collides.
Applied(s, key) == key # NoKey /\ \E i \in 1..Len(log[s]) : log[s][i].key = key

Prefix(s, n) == [i \in 1..n |-> log[s][i]]

Init == log = [s \in AllStreams |-> << >>]

\* A command takes effect in one step, on the history it was decided on.
Execute(c) ==
    /\ c.valid
    /\ ~Applied(c.stream, c.key)
    /\ \E x \in Context :
         LET d == Decide(log[c.stream], c, x) IN
         /\ d \in Outcome
         /\ ~d.refused
         /\ d.evs # << >>
         /\ log' = [log EXCEPT ![c.stream] = @ \o Seal(d.evs, c.key)]

\* A refusal is decided on some version the stream went through: it writes
\* nothing to the stream, so nothing orders it after later commands.
Refuse(c) ==
    /\ \/ ~c.valid
       \/ \E n \in 0..Len(log[c.stream]) : \E x \in Context :
             /\ Decide(Prefix(c.stream, n), c, x) \in Outcome
             /\ Decide(Prefix(c.stream, n), c, x).refused
    /\ log' = [log EXCEPT ![RejectedStream] =
                   Append(@, [ev |-> [rejected |-> c], key |-> NoKey])]

Next == \E c \in Command : Execute(c) \/ Refuse(c)

Spec == Init /\ [][Next]_log
=============================================================================
