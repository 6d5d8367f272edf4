----------------------------- MODULE MCPipeline -----------------------------
(***************************************************************************)
(* The pipeline over one scope and one gate: Decide is the code's, it      *)
(* depends on the history, refuses, answers with no event, and emits one   *)
(* or two events.                                                          *)
(***************************************************************************)
EXTENDS LedgerAggregates, TLC

MCScopeStream == {"scope"}
MCGateStream == {"gate"}
MCStream == MCScopeStream \union MCGateStream
MCKey == {"k1", "k2", "k3"}

MCEvent ==
    [kind : {"AutonomyChanged"}, from : 0..3, to : 0..3,
     trigger : {"promote", "regress"}, at : 1..9]
    \union [kind : {"CapChanged"}, from : 0..3, to : 0..3, at : 1..9]
    \union [kind : {"ExceptionRaised"}, level : 0..3, at : 1..9]
    \union [kind : {"GateOpened"}, requested : 0..3, at : 1..9, expiresAt : 1..9]
    \union [kind : {"GateDecided"}, requested : 0..3, decision : {"allow", "deny"}, at : 1..9]
    \union [kind : {"GateResolved"}, decision : {"allow", "deny"}, at : 1..9]
    \union [kind : {"GateExpired"}, at : 1..9]

\* A promotion, a regression with a key of its own, a cap below the level
\* (two events), a promotion asked for by an agent, an unauthenticated call.
Promote == [kind |-> "SetAutonomy", stream |-> "scope", key |-> "k1", valid |-> TRUE,
            human |-> TRUE, now |-> 2, level |-> 1, ref |-> TRUE, since |-> 0,
            regressions |-> 0, outcomes |-> MinOutcomes]
Regress == [kind |-> "RecordRegression", stream |-> "scope", key |-> "k2", valid |-> TRUE,
            human |-> FALSE, now |-> 3]
LowerCap == [kind |-> "SetCap", stream |-> "scope", key |-> NoKey, valid |-> TRUE,
             human |-> TRUE, now |-> 4, cap |-> 0, ref |-> TRUE]
AgentPromote == [Promote EXCEPT !.human = FALSE, !.key = "k3"]
Anonymous == [Promote EXCEPT !.valid = FALSE]
ScopeCommands == {Promote, Regress, LowerCap, AgentPromote, Anonymous}

\* The broker: a request keyed by the gate id, and resolutions without a key.
Request == [kind |-> "RequestGate", stream |-> "gate", key |-> "k1", valid |-> TRUE,
            human |-> FALSE, now |-> 1, wellFormed |-> TRUE, requested |-> 1]
Resolve(d, t) ==
    [kind |-> "ResolveGate", stream |-> "gate", key |-> NoKey, valid |-> TRUE,
     human |-> TRUE, now |-> t, decision |-> d, by |-> "alice", reason |-> TRUE]
Expire == [kind |-> "ExpireGate", stream |-> "gate", key |-> NoKey, valid |-> TRUE,
           human |-> FALSE, now |-> 1 + GateTTL]
GateCommands ==
    {Request, Resolve("allow", 2), Resolve("deny", 1 + GateTTL), Expire}

MCCommand == ScopeCommands \union GateCommands

\* Projections may show the gate's scope at any level up to its cap.
MCContext == [autonomy : {0, 1}, cap : {1}, judges : {{}}]

-----------------------------------------------------------------------------
\* Bound: the commands of a behaviour all go to the scope or all to the gate.
\* Handlers of different streams share only the stream of refusals.
OneStream == \A t, u \in 1..Len(sent) : sent[t].stream = sent[u].stream

\* Next of Pipeline, with submissions so bounded.
MCNext ==
    \/ \E h \in Handler :
         \/ \E c \in Command : Submit(h, c) /\ OneStream'
         \/ Lookup(h) \/ Load(h) \/ DecideStep(h) \/ AppendBatch(h) \/ ReplayLookup(h)
         \/ RecordRejection(h) \/ RecordRejectionFails(h)
         \/ Publish(h) \/ Fail(h) \/ Crash(h)
    \/ Quiescent

MCSpec == Init /\ [][MCNext]_vars

\* Handlers are interchangeable: no definition tells one from another.
Symmetry == Permutations(Handler)
=============================================================================
