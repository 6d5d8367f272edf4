---------------------------- MODULE ScopeAutonomy ---------------------------
(***************************************************************************)
(* One scope under commands that take time (internal/core/harness/scope.go *)
(* behind internal/app/pipeline.go).  A handler reads the clock when it    *)
(* starts; loading, deciding and appending are one step here, because an   *)
(* append that is not on top of the loaded version is refused.  Handlers   *)
(* that overlap may therefore append in another order than their clocks.   *)
(***************************************************************************)
EXTENDS ScopeRules

CONSTANTS
    Handler,        \* overlapping commands on the scope
    MaxTime,        \* bound: the clock
    MaxRegressions  \* bound: regressions recorded on the scope

ASSUME ScopeBounds == MaxTime \in Nat \ {0} /\ MaxRegressions \in Nat

VARIABLES
    scope,         \* the folded Scope
    clock,
    began,         \* [handler -> the time it read; 0 when it is idle]
    evidence,      \* Evidence.Since of the latest raise
    lastDemotion,  \* the latest time of any demotion of the scope
    overlapped     \* history: a command began while another was running

vars == <<scope, clock, began, evidence, lastDemotion, overlapped>>

\* The commands: raises and cuts with the evidence they carry, caps, regressions.
SetAutonomy ==
    [kind : {"SetAutonomy"}, level : Level, ref : BOOLEAN, since : 0..MaxTime,
     regressions : {0, 1}, outcomes : {0, MinOutcomes}]
SetCap == [kind : {"SetCap"}, cap : Level, ref : BOOLEAN]
RecordRegression == [kind : {"RecordRegression"}]

\* Apply folded over the at most two events of a batch.
ApplyBatch(s, evs) ==
    CASE Len(evs) = 0 -> s
      [] Len(evs) = 1 -> ScopeApply(s, evs[1])
      [] Len(evs) = 2 -> ScopeApply(ScopeApply(s, evs[1]), evs[2])

Init ==
    /\ scope = NewScope
    /\ clock = 1
    /\ began = [h \in Handler |-> 0]
    /\ evidence = 0
    /\ lastDemotion = 0
    /\ overlapped = FALSE

Tick ==
    /\ clock < MaxTime
    /\ clock' = clock + 1
    /\ UNCHANGED <<scope, began, evidence, lastDemotion, overlapped>>

\* handle: now := Clock.Now(), before the stream is loaded.
Begin(h) ==
    /\ began[h] = 0
    /\ began' = [began EXCEPT ![h] = clock]
    /\ overlapped' = (overlapped \/ \E o \in Handler : began[o] # 0)
    /\ UNCHANGED <<scope, clock, evidence, lastDemotion>>

\* Load, decide and append one command; human: the actor is one.
Finish(h, m, human) ==
    LET now == began[h]
        d == ScopeDecide(scope, m, [now |-> now, human |-> human])
        next == IF d.refused THEN scope ELSE ApplyBatch(scope, d.evs)
        demotes == m.kind = "RecordRegression" /\ next.level < scope.level
    IN
    /\ now # 0
    /\ scope' = next
    /\ began' = [began EXCEPT ![h] = 0]
    /\ evidence' = IF next.level > scope.level THEN m.since ELSE evidence
    /\ lastDemotion' = IF demotes /\ now > lastDemotion THEN now ELSE lastDemotion
    /\ UNCHANGED <<clock, overlapped>>

Next ==
    \/ Tick
    \/ \E h \in Handler :
         \/ Begin(h)
         \/ \E human \in BOOLEAN : \E m \in SetAutonomy : Finish(h, m, human)
         \/ \E human \in BOOLEAN : \E m \in SetCap : Finish(h, m, human)
         \/ /\ scope.regressions < MaxRegressions
            /\ \E m \in RecordRegression : Finish(h, m, FALSE)

Spec == Init /\ [][Next]_vars

-----------------------------------------------------------------------------
\* The scope's fields stay in range.
TypeOK ==
    /\ scope.level \in Level /\ scope.cap \in Level
    /\ scope.demoted \in 0..MaxTime /\ scope.regressions \in 0..MaxRegressions
    /\ clock \in 1..MaxTime
    /\ began \in [Handler -> 0..MaxTime]
    /\ evidence \in 0..MaxTime /\ lastDemotion \in 0..MaxTime
    /\ overlapped \in BOOLEAN

\* The level never exceeds the cap, also after a cap below the level, which
\* takes two events to keep it so.
LevelWithinCap == scope.level <= scope.cap

\* scope.go: Evidence.Since "must not precede the last demotion (re-promotion
\* re-accumulates history)".
EvidenceFollowsLastDemotion ==
    [][scope'.level > scope.level => evidence' >= lastDemotion]_vars

\* It holds as long as the commands of the scope follow one another, whatever
\* raises, cuts, caps and regressions they are: no raise rests on evidence
\* from before the last demotion.
SerialEvidenceIsFresh ==
    [][scope'.level > scope.level /\ ~overlapped => evidence' >= lastDemotion]_vars
=============================================================================
