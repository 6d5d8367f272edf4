-------------------------- MODULE LedgerAggregates --------------------------
(***************************************************************************)
(* The pipeline over aggregates of the code: scopes and gates, registered  *)
(* in internal/app/wire.go.  Decide of Pipeline becomes the replay of the  *)
(* stream (step 2 of handle) and the aggregate's own Decide, so what the   *)
(* aggregates promise of a command can be stated of the ledger, where      *)
(* commands race.                                                          *)
(***************************************************************************)
EXTENDS Pipeline, ScopeRules, GateRules

CONSTANTS
    ScopeStream,   \* the streams scope/<key>
    GateStream     \* the streams gate/<id>

\* The command kinds RegisterAll wires to each of the two aggregates.
ScopeKinds == {"SetAutonomy", "SetCap", "RecordRegression"}
GateKinds  == {"RequestGate", "ResolveGate", "ExpireGate"}

ASSUME AggregateStreams ==
    /\ ScopeStream \union GateStream \subseteq Stream
    /\ ScopeStream \intersect GateStream = {}

\* The type of a command fixes the prefix of its stream.
ASSUME CommandsNameTheirAggregate ==
    \A c \in Command :
        /\ c.stream \in ScopeStream => c.kind \in ScopeKinds
        /\ c.stream \in GateStream => c.kind \in GateKinds
        /\ c.now \in Nat

\* The empty aggregate of a stream, and Apply of its type.
Zero(s) == IF s \in ScopeStream THEN NewScope ELSE NewGate
ApplyTo(s, agg, e) == IF s \in ScopeStream THEN ScopeApply(agg, e) ELSE GateApply(agg, e)

\* The aggregate after the records of its stream, in their order.
Replay(s, records) ==
    LET agg[n \in 0..Len(records)] ==
          IF n = 0 THEN Zero(s) ELSE ApplyTo(s, agg[n-1], records[n].ev)
    IN agg[Len(records)]

\* Step 3: the clock and the actor come with the call, the rest of the
\* context from the projections.
DecideContext(c, x) ==
    [now |-> c.now, human |-> c.human, autonomy |-> x.autonomy, cap |-> x.cap, judges |-> x.judges]

\* Step 4 on the replayed aggregate.
AggregateDecide(records, c, x) ==
    IF c.kind \in ScopeKinds
    THEN ScopeDecide(Replay(c.stream, records), c, DecideContext(c, x))
    ELSE GateDecide(Replay(c.stream, records), c, DecideContext(c, x))

\* What the pipeline is composed with: commands on scopes and gates are
\* decided by their aggregates.
DecidesAggregates ==
    \A records \in Seq(Record), c \in Command, x \in Context :
        c.stream \in ScopeStream \union GateStream =>
            Decide(records, c, x) = AggregateDecide(records, c, x)

-----------------------------------------------------------------------------
\* A gate is answered once: of a decision, two humans racing in their own
\* channels and the expiry worker, at most one terminal event is recorded,
\* because each was decided on the version it extends.
Answered == {"GateDecided", "GateResolved", "GateExpired"}

GateAnsweredOnce ==
    \A s \in GateStream :
        Cardinality({i \in 1..Len(log[s]) : log[s][i].ev.kind \in Answered}) <= 1

\* A human who lowers a cap and one who raises the level race: each was
\* accepted on a scope that the other had not touched, yet whoever replays the
\* stream finds the level within the cap, after every append, crash and retry.
ScopesWithinCap ==
    \A s \in ScopeStream : Replay(s, log[s]).level <= Replay(s, log[s]).cap
=============================================================================
