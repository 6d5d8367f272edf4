----------------------------- MODULE ScopeRules -----------------------------
(***************************************************************************)
(* The Scope aggregate (internal/core/harness/scope.go) and the autonomy   *)
(* transition table (internal/core/level.go) as operators: Decide and      *)
(* Apply are deterministic and free of side effects in the code.           *)
(***************************************************************************)
EXTENDS Integers, Sequences

MaxLevel == 3                 \* L3
Level == 0..MaxLevel          \* L0..L3

CONSTANT MinOutcomes          \* Policy.PromotionMinOutcomes

ASSUME MinOutcomesIsNat == MinOutcomes \in Nat

\* A Rejection, and a list of events.
Reject == [refused |-> TRUE, evs |-> << >>]
Emit(evs) == [refused |-> FALSE, evs |-> evs]

\* core.Transitions: one step up on a promotion, one step down on a
\* regression, never outside the levels.
Transition(from, trigger) ==
    IF trigger = "promote"
    THEN IF from = MaxLevel THEN MaxLevel ELSE from + 1
    ELSE IF from = 0 THEN 0 ELSE from - 1

\* NewScope: L0 with no cap, never demoted (time zero precedes every event).
NewScope == [level |-> 0, cap |-> MaxLevel, demoted |-> 0, regressions |-> 0]

AutonomyChanged(from, to, trigger, at) ==
    [kind |-> "AutonomyChanged", from |-> from, to |-> to, trigger |-> trigger, at |-> at]
CapChanged(from, to, at) ==
    [kind |-> "CapChanged", from |-> from, to |-> to, at |-> at]
ExceptionRaised(level, at) ==
    [kind |-> "ExceptionRaised", level |-> level, at |-> at]

\* Mutant of RaiseRefused: evidence from before the last demotion counts.
RaiseOnOldEvidence(s, m) ==
    \/ ~m.ref
    \/ m.level # Transition(s.level, "promote")
    \/ m.regressions > 0
    \/ m.outcomes < MinOutcomes

\* A raise is refused unless it is a one-step harness Change backed by enough
\* scored outcomes, none a regression, all since the last demotion.
RaiseRefused(s, m) ==
    \/ ~m.ref
    \/ m.level # Transition(s.level, "promote")
    \/ m.since < s.demoted
    \/ m.regressions > 0
    \/ m.outcomes < MinOutcomes

SetAutonomyDecide(s, m, ctx) ==
    IF \/ m.level \notin Level
       \/ ~ctx.human
       \/ m.level > s.cap
       \/ m.level > s.level /\ RaiseRefused(s, m)
    THEN Reject
    ELSE IF m.level = s.level
         THEN Emit(<< >>)
         ELSE Emit(<<AutonomyChanged(s.level, m.level, "promote", ctx.now)>>)

\* Mutant of SetCapDecide: a lower cap leaves the level where it is.
SetCapKeepsLevel(s, m, ctx) ==
    IF m.cap \notin Level \/ ~ctx.human \/ ~m.ref
    THEN Reject
    ELSE Emit(IF m.cap = s.cap THEN << >> ELSE <<CapChanged(s.cap, m.cap, ctx.now)>>)

SetCapDecide(s, m, ctx) ==
    IF m.cap \notin Level \/ ~ctx.human \/ ~m.ref
    THEN Reject
    ELSE IF m.cap = s.cap
         THEN Emit(<< >>)
         ELSE Emit(<<CapChanged(s.cap, m.cap, ctx.now)>>
                   \o IF s.level > m.cap
                      THEN <<AutonomyChanged(s.level, m.cap, "promote", ctx.now)>>
                      ELSE << >>)

RegressDecide(s, m, ctx) ==
    LET to == Transition(s.level, "regress") IN
    Emit((IF to # s.level
          THEN <<AutonomyChanged(s.level, to, "regress", ctx.now)>>
          ELSE << >>)
         \o <<ExceptionRaised(to, ctx.now)>>)

ScopeDecide(s, m, ctx) ==
    CASE m.kind = "SetAutonomy"      -> SetAutonomyDecide(s, m, ctx)
      [] m.kind = "SetCap"           -> SetCapDecide(s, m, ctx)
      [] m.kind = "RecordRegression" -> RegressDecide(s, m, ctx)

ScopeApply(s, e) ==
    CASE e.kind = "AutonomyChanged" ->
           [s EXCEPT !.level = e.to,
                     !.demoted = IF e.trigger = "regress" THEN e.at ELSE @]
      [] e.kind = "CapChanged" -> [s EXCEPT !.cap = e.to]
      [] e.kind = "ExceptionRaised" ->
           [s EXCEPT !.regressions = @ + 1,
                     !.demoted = IF @ < e.at THEN e.at ELSE @]
=============================================================================
