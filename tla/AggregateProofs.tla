--------------------------- MODULE AggregateProofs --------------------------
(***************************************************************************)
(* What holds of the aggregates, a scope, a Change and the constraints, by *)
(* their commands.                                                         *)
(*                                                                         *)
(* A scope, for any number of overlapping handlers, any clock and any      *)
(* policy: the level stays within the cap by what each command may do to   *)
(* the folded Scope (the Result lemmas).  Fresh evidence needs the         *)
(* history: while commands follow one another at most one is running, the  *)
(* time it read is not before the last demotion, and Demoted knows that    *)
(* demotion.                                                               *)
(*                                                                         *)
(* A Change, for any people, agents, owners, window, number of judgments   *)
(* and clock: its fields carry LiveImpactWasAccepted by themselves, since  *)
(* deployment is the only way into Live with impact and nothing touches a  *)
(* judgment afterwards.  Settlement needs one more fact, that an observed  *)
(* Change has its outcome recorded.                                        *)
(*                                                                         *)
(* Constraints and declared scopes, for any ledger, files and processes:   *)
(* the index of the daemon catches up to what the aggregates say because   *)
(* the replay of the records it has not applied ends there (Caught), and   *)
(* what a process knows of the declared scopes has levels and caps         *)
(* (Projections).  The rest is about globs: a scope that speaks of all     *)
(* files of another one contains it.                                       *)
(***************************************************************************)
EXTENDS ScopeAutonomy, ChangeLifecycle, Harness, SequenceTheorems, FiniteSetTheorems,
        WellFoundedInduction, TLAPS

-----------------------------------------------------------------------------
\* The scope.
Scopes == [level : Level, cap : Level, demoted : 0..MaxTime, regressions : Nat]

\* The fold of the batches that Decide emits.
LEMMA FoldNone == \A s : ApplyBatch(s, << >>) = s
BY DEF ApplyBatch

\* A batch of one event.
LEMMA FoldOne == \A s, e : ApplyBatch(s, <<e>>) = ScopeApply(s, e)
BY DEF ApplyBatch

\* A batch of two events.
LEMMA FoldTwo == \A s, e, f : ApplyBatch(s, <<e, f>>) = ScopeApply(ScopeApply(s, e), f)
BY DEF ApplyBatch

\* What Finish makes of a scope.
Result(s, m, ctx) ==
    LET d == ScopeDecide(s, m, ctx) IN IF d.refused THEN s ELSE ApplyBatch(s, d.evs)

\* The batches that Decide puts together of two parts.
LEMMA Concatenations ==
    \A a, b : <<a>> \o << >> = <<a>> /\ << >> \o <<a>> = <<a>> /\ <<a>> \o <<b>> = <<a, b>>
<1> TAKE a, b
<1>1. <<a>> \o << >> = <<a>> OBVIOUS
<1>2. << >> \o <<a>> = <<a>> OBVIOUS
<1>3. <<a>> \o <<b>> = <<a, b>>
  <2> DEFINE S == {a, b}
             c == <<a>> \o <<b>>
  <2>1. <<a>> \in Seq(S) /\ <<b>> \in Seq(S) /\ <<a, b>> \in Seq(S)
    OBVIOUS
  <2>2. c \in Seq(S) /\ Len(c) = 2 /\ c[1] = a /\ c[2] = b
    BY <2>1
  <2> HIDE DEF c
  <2>3. Len(<<a, b>>) = 2 /\ <<a, b>>[1] = a /\ <<a, b>>[2] = b
    OBVIOUS
  <2>4. \A i \in 1..Len(c) : c[i] = <<a, b>>[i]
    BY <2>2, <2>3
  <2> QED BY <2>1, <2>2, <2>3, <2>4, SeqEqual DEF c
<1> QED BY <1>1, <1>2, <1>3

\* Emit accepts with its events.
LEMMA EmitIs == \A evs : ~Emit(evs).refused /\ Emit(evs).evs = evs
BY DEF Emit

\* Reject refuses.
LEMMA RejectIs == Reject.refused
BY DEF Reject

\* SetAutonomy moves the level only, within the cap; upwards only on evidence
\* that is not older than Demoted.
LEMMA SetAutonomyResult ==
    ASSUME NEW s \in Scopes, s.level <= s.cap, NEW m \in SetAutonomy, NEW tm \in 0..MaxTime,
           NEW human \in BOOLEAN,
           NEW n, n = Result(s, m, [now |-> tm, human |-> human])
    PROVE  /\ n \in Scopes /\ n.level <= n.cap /\ n.demoted = s.demoted
           /\ n.regressions = s.regressions
           /\ n.level > s.level => m.since >= s.demoted
<1> DEFINE ctx == [now |-> tm, human |-> human]
           e == AutonomyChanged(s.level, m.level, "promote", tm)
<1>1. m.kind = "SetAutonomy" /\ m.level \in Level
  BY DEF SetAutonomy
<1>2. ScopeDecide(s, m, ctx) = SetAutonomyDecide(s, m, ctx)
  BY <1>1 DEF ScopeDecide
<1>3. CASE SetAutonomyDecide(s, m, ctx) = Reject \/ SetAutonomyDecide(s, m, ctx) = Emit(<< >>)
  <2>1. n = s
    BY <1>2, <1>3, RejectIs, EmitIs, FoldNone DEF Result
  <2> QED BY <2>1 DEF Scopes, Level, MaxLevel
<1>5. CASE /\ SetAutonomyDecide(s, m, ctx) = Emit(<<e>>)
           /\ m.level <= s.cap
           /\ m.level > s.level => m.since >= s.demoted
  <2>1. n = ScopeApply(s, e)
    BY <1>2, <1>5, EmitIs, FoldOne DEF Result
  <2>2. n = [s EXCEPT !.level = m.level]
    <3>1. e.kind = "AutonomyChanged" /\ e.to = m.level /\ e.trigger = "promote"
      BY DEF AutonomyChanged
    <3>2. ScopeApply(s, e) = [s EXCEPT !.level = e.to, !.demoted = s.demoted]
      BY <3>1 DEF ScopeApply
    <3> QED BY <2>1, <3>1, <3>2 DEF Scopes
  <2> QED BY <2>2, <1>1, <1>5 DEF Scopes
<1>6. \/ SetAutonomyDecide(s, m, ctx) = Reject
      \/ SetAutonomyDecide(s, m, ctx) = Emit(<< >>)
      \/ /\ SetAutonomyDecide(s, m, ctx) = Emit(<<e>>)
         /\ m.level <= s.cap
         /\ m.level > s.level => m.since >= s.demoted
  <2>1. m.level \in Int /\ s.cap \in Int /\ s.level \in Int /\ m.since \in Int /\ s.demoted \in Int
    BY ScopeBounds DEF SetAutonomy, Scopes, Level, MaxLevel
  <2>2. ctx.now = tm
    OBVIOUS
  <2> HIDE DEF ctx
  <2> QED BY <2>1, <2>2 DEF SetAutonomyDecide, RaiseRefused
<1> QED BY <1>3, <1>5, <1>6

\* SetCap lowers the level with the cap, never raises it.
LEMMA SetCapResult ==
    ASSUME NEW s \in Scopes, s.level <= s.cap, NEW m \in SetCap, NEW tm \in 0..MaxTime,
           NEW human \in BOOLEAN,
           NEW n, n = Result(s, m, [now |-> tm, human |-> human])
    PROVE  /\ n \in Scopes /\ n.level <= n.cap /\ n.demoted = s.demoted
           /\ n.regressions = s.regressions
           /\ n.level <= s.level
<1> DEFINE ctx == [now |-> tm, human |-> human]
           c == CapChanged(s.cap, m.cap, tm)
           e == AutonomyChanged(s.level, m.cap, "promote", tm)
<1>1. m.kind = "SetCap" /\ m.cap \in Level
  BY DEF SetCap
<1>2. ScopeDecide(s, m, ctx) = SetCapDecide(s, m, ctx)
  BY <1>1 DEF ScopeDecide
<1>c. ScopeApply(s, c) = [s EXCEPT !.cap = m.cap]
  <2>1. c.kind = "CapChanged" /\ c.to = m.cap
    BY DEF CapChanged
  <2> QED BY <2>1 DEF ScopeApply
<1>3. CASE SetCapDecide(s, m, ctx) = Reject \/ SetCapDecide(s, m, ctx) = Emit(<< >>)
  <2>1. n = s
    BY <1>2, <1>3, RejectIs, EmitIs, FoldNone DEF Result
  <2> QED BY <2>1 DEF Scopes, Level, MaxLevel
<1>5. CASE SetCapDecide(s, m, ctx) = Emit(<<c>>) /\ s.level <= m.cap
  <2>1. n = [s EXCEPT !.cap = m.cap]
    BY <1>2, <1>5, <1>c, EmitIs, FoldOne DEF Result
  <2> QED BY <2>1, <1>1, <1>5 DEF Scopes, Level, MaxLevel
<1>6. CASE SetCapDecide(s, m, ctx) = Emit(<<c, e>>) /\ s.level > m.cap
  <2>1. n = ScopeApply([s EXCEPT !.cap = m.cap], e)
    BY <1>2, <1>6, <1>c, EmitIs, FoldTwo DEF Result
  <2>2. e.kind = "AutonomyChanged" /\ e.to = m.cap /\ e.trigger = "promote"
    BY DEF AutonomyChanged
  <2>3. n = [s EXCEPT !.cap = m.cap, !.level = m.cap]
    BY <2>1, <2>2 DEF ScopeApply, Scopes
  <2>4. /\ n.level = m.cap /\ n.cap = m.cap /\ n.demoted = s.demoted
        /\ n.regressions = s.regressions /\ n \in Scopes
    BY <2>3, <1>1 DEF Scopes
  <2> QED BY <2>4, <1>1, <1>6 DEF Scopes, Level, MaxLevel
<1>7. \/ SetCapDecide(s, m, ctx) = Reject
      \/ SetCapDecide(s, m, ctx) = Emit(<< >>)
      \/ SetCapDecide(s, m, ctx) = Emit(<<c>>) /\ s.level <= m.cap
      \/ SetCapDecide(s, m, ctx) = Emit(<<c, e>>) /\ s.level > m.cap
  <2>1. <<c>> \o << >> = <<c>> /\ <<c>> \o <<e>> = <<c, e>>
    BY Concatenations, Zenon
  <2>2. m.cap \in Int /\ s.level \in Int /\ ctx.now = tm
    BY <1>1 DEF Scopes, Level, MaxLevel
  <2> HIDE DEF ctx
  <2>3. CASE m.cap \notin Level \/ ~ctx.human \/ ~m.ref
    BY <2>3 DEF SetCapDecide
  <2>4. CASE ~(m.cap \notin Level \/ ~ctx.human \/ ~m.ref)
    <3>1. CASE m.cap = s.cap
      BY <2>4, <3>1 DEF SetCapDecide
    <3>2. CASE m.cap # s.cap /\ s.level > m.cap
      BY <2>4, <3>2, <2>1, <2>2 DEF SetCapDecide
    <3>3. CASE m.cap # s.cap /\ ~(s.level > m.cap)
      BY <2>4, <3>3, <2>1, <2>2 DEF SetCapDecide
    <3> QED BY <3>1, <3>2, <3>3
  <2> QED BY <2>3, <2>4
<1> QED BY <1>3, <1>5, <1>6, <1>7

\* A regression takes the level down one step and marks its time, or at L0
\* moves Demoted forward only.
LEMMA RegressResult ==
    ASSUME NEW s \in Scopes, s.level <= s.cap, NEW m \in RecordRegression, NEW tm \in 0..MaxTime,
           NEW human,
           NEW n, n = Result(s, m, [now |-> tm, human |-> human])
    PROVE  /\ n \in Scopes /\ n.level <= n.cap /\ n.level <= s.level
           /\ n.regressions = s.regressions + 1
           /\ n.level < s.level => n.demoted = tm
           /\ n.level = s.level => n.demoted >= s.demoted
<1> DEFINE ctx == [now |-> tm, human |-> human]
           to == Transition(s.level, "regress")
           e == AutonomyChanged(s.level, to, "regress", tm)
           x == ExceptionRaised(to, tm)
<1>1. m.kind = "RecordRegression"
  BY DEF RecordRegression
<1>2. ScopeDecide(s, m, ctx) = RegressDecide(s, m, ctx)
  BY <1>1 DEF ScopeDecide
<1>3. to \in Level /\ to <= s.level /\ (to = s.level => s.level = 0) /\ s.level \in Level
  BY DEF Transition, Scopes, Level, MaxLevel
<1>x. x.kind = "ExceptionRaised" /\ x.at = tm
  BY DEF ExceptionRaised
<1>e. e.kind = "AutonomyChanged" /\ e.to = to /\ e.trigger = "regress" /\ e.at = tm
  BY DEF AutonomyChanged
<1>4. CASE to = s.level
  <2>1. RegressDecide(s, m, ctx) = Emit(<<x>>)
    <3>1. << >> \o <<x>> = <<x>>
      BY Concatenations, Zenon
    <3> QED BY <3>1, <1>4 DEF RegressDecide
  <2>2. n = ScopeApply(s, x)
    BY <1>2, <2>1, EmitIs, FoldOne DEF Result
  <2>3. n = [s EXCEPT !.regressions = s.regressions + 1,
                      !.demoted = IF s.demoted < tm THEN tm ELSE s.demoted]
    BY <2>2, <1>x DEF ScopeApply, Scopes
  <2>4. /\ n.level = s.level /\ n.regressions = s.regressions + 1 /\ n.cap = s.cap
        /\ n.demoted = IF s.demoted < tm THEN tm ELSE s.demoted
        /\ n \in Scopes
    <3> DEFINE r == s.regressions + 1
               d == IF s.demoted < tm THEN tm ELSE s.demoted
    <3>1. r \in Nat /\ d \in 0..MaxTime
      BY DEF Scopes
    <3> HIDE DEF r, d
    <3>2. n = [s EXCEPT !.regressions = r, !.demoted = d]
      BY <2>3 DEF r, d
    <3>3. n \in Scopes /\ n.level = s.level /\ n.regressions = r /\ n.cap = s.cap /\ n.demoted = d
      BY <3>1, <3>2 DEF Scopes
    <3> QED BY <3>3 DEF r, d
  <2> QED BY <2>4, ScopeBounds DEF Scopes, Level, MaxLevel
<1>5. CASE to # s.level
  <2>1. RegressDecide(s, m, ctx) = Emit(<<e, x>>)
    <3>1. <<e>> \o <<x>> = <<e, x>>
      BY Concatenations, Zenon
    <3> QED BY <3>1, <1>5 DEF RegressDecide
  <2>2. n = ScopeApply(ScopeApply(s, e), x)
    BY <1>2, <2>1, EmitIs, FoldTwo DEF Result
  <2>3. ScopeApply(s, e) = [s EXCEPT !.level = to, !.demoted = tm]
    BY <1>e DEF ScopeApply
  <2>4. n = [s EXCEPT !.level = to, !.demoted = tm, !.regressions = s.regressions + 1]
    <3> DEFINE t == [s EXCEPT !.level = to, !.demoted = tm]
    <3>1. t.demoted = tm /\ t.regressions = s.regressions
      BY DEF Scopes
    <3>2. n = [t EXCEPT !.regressions = t.regressions + 1,
                        !.demoted = IF t.demoted < tm THEN tm ELSE t.demoted]
      BY <2>2, <2>3, <1>x DEF ScopeApply
    <3> HIDE DEF to
    <3> QED BY <3>1, <3>2 DEF Scopes
  <2>5. /\ n.level = to /\ n.demoted = tm /\ n.regressions = s.regressions + 1 /\ n.cap = s.cap
        /\ n \in Scopes
    <3> DEFINE r == s.regressions + 1
    <3>1. r \in Nat
      BY DEF Scopes
    <3> HIDE DEF to, r
    <3>2. n = [s EXCEPT !.level = to, !.demoted = tm, !.regressions = r]
      BY <2>4 DEF r
    <3>3. n \in Scopes /\ n.level = to /\ n.demoted = tm /\ n.regressions = r /\ n.cap = s.cap
      BY <3>1, <3>2, <1>3 DEF Scopes
    <3> QED BY <3>3 DEF r
  <2> HIDE DEF to
  <2> QED BY <2>5, <1>5, <1>3 DEF Scopes, Level, MaxLevel
<1> QED BY <1>4, <1>5

-----------------------------------------------------------------------------
\* While commands follow one another: one runs at a time, and neither the time
\* it read nor Demoted is before the last demotion.
Serial ==
    ~overlapped =>
        /\ \A g, h \in Handler : began[g] # 0 /\ began[h] # 0 => g = h
        /\ \A h \in Handler : began[h] # 0 => lastDemotion <= began[h]
        /\ lastDemotion <= scope.demoted

\* The inductive invariant.
Inv ==
    /\ scope \in Scopes /\ scope.regressions <= MaxRegressions
    /\ clock \in 1..MaxTime
    /\ began \in [Handler -> 0..MaxTime]
    /\ evidence \in 0..MaxTime /\ lastDemotion \in 0..MaxTime
    /\ overlapped \in BOOLEAN
    /\ lastDemotion <= clock /\ \A h \in Handler : began[h] <= clock
    /\ LevelWithinCap
    /\ Serial

\* A scope nobody touched satisfies the invariant.
LEMMA InitInv == Init => Inv
<1> SUFFICES ASSUME Init PROVE Inv
  OBVIOUS
<1>1. scope = [level |-> 0, cap |-> 3, demoted |-> 0, regressions |-> 0]
  BY DEF Init, NewScope, MaxLevel
<1>2. scope \in Scopes /\ scope.regressions <= MaxRegressions /\ LevelWithinCap /\ scope.demoted = 0
  BY <1>1, ScopeBounds DEF Scopes, Level, MaxLevel, LevelWithinCap
<1>3. began \in [Handler -> 0..MaxTime] /\ \A h \in Handler : began[h] = 0
  BY ScopeBounds DEF Init
<1>4. clock = 1 /\ evidence = 0 /\ lastDemotion = 0 /\ 1 \in 1..MaxTime /\ 0 \in 0..MaxTime
  BY ScopeBounds DEF Init
<1>5. overlapped \in BOOLEAN
  BY DEF Init
<1>6. lastDemotion <= clock /\ \A h \in Handler : began[h] <= clock
  BY <1>3, <1>4
<1>7. Serial
  BY <1>2, <1>3, <1>4 DEF Serial
<1> QED BY <1>2, <1>3, <1>4, <1>5, <1>6, <1>7 DEF Inv

\* A command that does not record a regression leaves Demoted and the last
\* demotion alone and ends its handler.
LEMMA QuietFinish ==
    ASSUME Inv, NEW h \in Handler, NEW n, scope' = n, n \in Scopes, n.level <= n.cap,
           n.demoted = scope.demoted, n.regressions = scope.regressions,
           began' = [began EXCEPT ![h] = 0], evidence' \in 0..MaxTime,
           lastDemotion' = lastDemotion, UNCHANGED <<clock, overlapped>>
    PROVE  Inv'
<1>1. /\ began' \in [Handler -> 0..MaxTime]
      /\ \A g \in Handler : began'[g] = IF g = h THEN 0 ELSE began[g]
  BY ScopeBounds DEF Inv
<1>2. \A g \in Handler : began'[g] <= clock'
  BY <1>1, ScopeBounds DEF Inv
<1>3. Serial'
  BY <1>1 DEF Inv, Serial
<1> QED BY <1>1, <1>2, <1>3 DEF Inv, LevelWithinCap

\* Every step of a command, and of the clock, keeps it.
LEMMA NextInv == Inv /\ [Next]_vars => Inv'
<1> SUFFICES ASSUME Inv, [Next]_vars PROVE Inv'
  OBVIOUS
<1> USE ScopeBounds
<1>1. CASE Tick
  <2>1. clock' \in 1..MaxTime /\ clock <= clock' /\ lastDemotion' = lastDemotion
    BY <1>1 DEF Tick, Inv
  <2> QED BY <1>1, <2>1 DEF Tick, Inv, LevelWithinCap, Serial
<1>2. ASSUME NEW h \in Handler, Begin(h) PROVE Inv'
  <2>1. /\ began' \in [Handler -> 0..MaxTime]
        /\ \A g \in Handler : began'[g] = IF g = h THEN clock ELSE began[g]
        /\ UNCHANGED <<scope, clock, evidence, lastDemotion>>
        /\ overlapped' = (overlapped \/ \E o \in Handler : began[o] # 0)
    BY <1>2 DEF Begin, Inv
  <2>2. \A g \in Handler : began'[g] <= clock'
    BY <2>1 DEF Inv
  <2>3. Serial'
    <3> SUFFICES ASSUME ~overlapped' PROVE Serial'
      BY DEF Serial
    <3>1. ~overlapped /\ \A o \in Handler : began[o] = 0
      BY <2>1
    <3>2. \A g \in Handler : began'[g] # 0 => g = h /\ began'[g] = clock
      BY <3>1, <2>1
    <3> QED BY <3>1, <3>2, <2>1 DEF Serial, Inv
  <2> QED BY <2>1, <2>2, <2>3 DEF Inv, LevelWithinCap
<1>3. ASSUME NEW h \in Handler, NEW human \in BOOLEAN, NEW m \in SetAutonomy, Finish(h, m, human)
      PROVE  Inv'
  <2>1. /\ scope' = Result(scope, m, [now |-> began[h], human |-> human])
        /\ began' = [began EXCEPT ![h] = 0]
        /\ evidence' \in {m.since, evidence} /\ lastDemotion' = lastDemotion
        /\ UNCHANGED <<clock, overlapped>>
    BY <1>3 DEF Finish, Result, SetAutonomy
  <2>2. scope' \in Scopes /\ scope'.level <= scope'.cap /\ scope'.demoted = scope.demoted
        /\ scope'.regressions = scope.regressions
    BY <2>1, SetAutonomyResult DEF Inv, LevelWithinCap
  <2> QED BY <2>1, <2>2, QuietFinish DEF Inv, SetAutonomy
<1>4. ASSUME NEW h \in Handler, NEW human \in BOOLEAN, NEW m \in SetCap, Finish(h, m, human)
      PROVE  Inv'
  <2>1. /\ scope' = Result(scope, m, [now |-> began[h], human |-> human])
        /\ began' = [began EXCEPT ![h] = 0]
        /\ evidence' = IF scope'.level > scope.level THEN m.since ELSE evidence
        /\ lastDemotion' = lastDemotion
        /\ UNCHANGED <<clock, overlapped>>
    BY <1>4 DEF Finish, Result, SetCap
  <2>2. scope' \in Scopes /\ scope'.level <= scope'.cap /\ scope'.demoted = scope.demoted
        /\ scope'.regressions = scope.regressions /\ scope'.level <= scope.level
    BY <2>1, SetCapResult DEF Inv, LevelWithinCap
  <2>3. evidence' = evidence
    BY <2>1, <2>2 DEF Inv, Scopes, Level, MaxLevel
  <2> QED BY <2>1, <2>2, <2>3, QuietFinish DEF Inv
<1>5. ASSUME NEW h \in Handler, NEW m \in RecordRegression, Finish(h, m, FALSE),
             scope.regressions < MaxRegressions
      PROVE  Inv'
  <2> DEFINE tm == began[h]
  <2>1. /\ scope' = Result(scope, m, [now |-> tm, human |-> FALSE])
        /\ began' = [began EXCEPT ![h] = 0] /\ tm # 0
        /\ evidence' = IF scope'.level > scope.level THEN m.since ELSE evidence
        /\ lastDemotion' = IF scope'.level < scope.level /\ tm > lastDemotion THEN tm ELSE lastDemotion
        /\ UNCHANGED <<clock, overlapped>>
    BY <1>5 DEF Finish, Result, RecordRegression
  <2>2. tm \in 0..MaxTime /\ tm <= clock
    BY DEF Inv
  <2>3. /\ scope' \in Scopes /\ scope'.level <= scope'.cap /\ scope'.level <= scope.level
        /\ scope'.regressions = scope.regressions + 1
        /\ scope'.level < scope.level => scope'.demoted = tm
        /\ scope'.level = scope.level => scope'.demoted >= scope.demoted
    <3> HIDE DEF tm
    <3> QED BY <2>1, <2>2, RegressResult DEF Inv, LevelWithinCap
  <2>4. scope'.level \in Int /\ scope.level \in Int /\ scope'.demoted \in Int /\ scope.demoted \in Int
    BY <2>3 DEF Inv, Scopes, Level, MaxLevel
  <2>5. evidence' = evidence
    BY <2>1, <2>3, <2>4
  <2>6. /\ began' \in [Handler -> 0..MaxTime]
        /\ \A g \in Handler : began'[g] = IF g = h THEN 0 ELSE began[g]
    BY <2>1 DEF Inv
  <2>7. \A g \in Handler : began'[g] <= clock'
    BY <2>1, <2>6 DEF Inv
  <2>8. lastDemotion' \in 0..MaxTime /\ lastDemotion' <= clock'
    BY <2>1, <2>2 DEF Inv
  <2>9. Serial'
    <3> SUFFICES ASSUME ~overlapped' PROVE Serial'
      BY DEF Serial
    <3>1. ~overlapped
      BY <2>1
    <3>2. \A g \in Handler : began'[g] = 0
      BY <3>1, <2>1, <2>6 DEF Inv, Serial
    <3>3. lastDemotion <= tm /\ lastDemotion <= scope.demoted
      BY <3>1, <2>1 DEF Inv, Serial
    <3>4. lastDemotion' <= scope'.demoted
      <4> HIDE DEF tm
      <4> QED BY <3>3, <2>1, <2>2, <2>3, <2>4 DEF Inv
    <3> QED BY <3>2, <3>4 DEF Serial
  <2>10. scope'.regressions <= MaxRegressions
    BY <2>3, <1>5 DEF Inv, Scopes
  <2> QED BY <2>1, <2>3, <2>5, <2>6, <2>7, <2>8, <2>9, <2>10 DEF Inv, LevelWithinCap
<1>6. CASE UNCHANGED vars
  BY <1>6 DEF vars, Inv, LevelWithinCap, Serial
<1> QED BY <1>1, <1>2, <1>3, <1>4, <1>5, <1>6 DEF Next

\* The invariant holds of every behaviour.
LEMMA ScopeInv == Spec => []Inv
<1>1. Init => Inv BY InitInv
<1>2. Inv /\ [Next]_vars => Inv' BY NextInv
<1> QED BY <1>1, <1>2, PTL DEF Spec

\* Commands of one scope that follow one another never raise it on evidence
\* from before its last demotion.
LEMMA FreshStep ==
    ASSUME Inv, [Next]_vars
    PROVE  scope'.level > scope.level /\ ~overlapped => evidence' >= lastDemotion
<1> SUFFICES ASSUME scope'.level > scope.level, ~overlapped PROVE evidence' >= lastDemotion
  OBVIOUS
<1> USE ScopeBounds
<1>1. scope.level \in Int /\ ~(scope.level > scope.level)
  BY DEF Inv, Scopes, Level, MaxLevel
<1>2. CASE UNCHANGED scope
  BY <1>2, <1>1
<1>3. ASSUME NEW h \in Handler, NEW human \in BOOLEAN, NEW m \in SetAutonomy, Finish(h, m, human)
      PROVE  evidence' >= lastDemotion
  <2>1. /\ scope' = Result(scope, m, [now |-> began[h], human |-> human])
        /\ evidence' = IF scope'.level > scope.level THEN m.since ELSE evidence
    BY <1>3 DEF Finish, Result
  <2>2. m.since >= scope.demoted
    BY <2>1, SetAutonomyResult DEF Inv, LevelWithinCap
  <2>3. m.since \in Int /\ scope.demoted \in Int /\ lastDemotion \in Int
    BY DEF Inv, SetAutonomy, Scopes
  <2> QED BY <2>1, <2>2, <2>3 DEF Inv, Serial
<1>4. ASSUME NEW h \in Handler, NEW human \in BOOLEAN, NEW m \in SetCap, Finish(h, m, human)
      PROVE  FALSE
  <2>1. scope' = Result(scope, m, [now |-> began[h], human |-> human])
    BY <1>4 DEF Finish, Result
  <2>2. scope' \in Scopes /\ scope'.level <= scope.level
    BY <2>1, SetCapResult DEF Inv, LevelWithinCap
  <2> QED BY <2>2 DEF Inv, Scopes, Level, MaxLevel
<1>5. ASSUME NEW h \in Handler, NEW m \in RecordRegression, Finish(h, m, FALSE)
      PROVE  FALSE
  <2>1. scope' = Result(scope, m, [now |-> began[h], human |-> FALSE])
    BY <1>5 DEF Finish, Result
  <2>2. scope' \in Scopes /\ scope'.level <= scope.level
    BY <2>1, RegressResult DEF Inv, LevelWithinCap
  <2> QED BY <2>2 DEF Inv, Scopes, Level, MaxLevel
<1> QED BY <1>2, <1>3, <1>4, <1>5 DEF Next, Tick, Begin, vars

\* The fields of a scope, the clock and the history keep their ranges.
THEOREM ScopeTypeOK == Spec => []TypeOK
<1>1. Inv => TypeOK
  BY ScopeBounds DEF Inv, TypeOK, Scopes
<1> QED BY <1>1, ScopeInv, PTL

\* The level never exceeds the cap, whatever raises, caps and regressions
\* overlap (scope.go, Decide).
THEOREM ScopeLevelWithinCap == Spec => []LevelWithinCap
<1>1. Inv => LevelWithinCap BY DEF Inv
<1> QED BY <1>1, ScopeInv, PTL

\* No raise rests on evidence from before the last demotion, as long as the
\* commands of the scope follow one another (scope.go, Evidence.Since).
THEOREM ScopeSerialEvidence == Spec => SerialEvidenceIsFresh
<1>1. Inv /\ [Next]_vars =>
        [scope'.level > scope.level /\ ~overlapped => evidence' >= lastDemotion]_vars
  BY FreshStep
<1> QED BY <1>1, ScopeInv, PTL DEF Spec, SerialEvidenceIsFresh

-----------------------------------------------------------------------------
\* The Change.
\* The inductive invariant.
Accountable ==
    /\ ChangeFields
    /\ LiveImpactWasAccepted
    /\ SettledAfterObservation
    /\ change.state = "observed" => change.observed

\* A Change that is not open yet satisfies it.
LEMMA ChangeInitInv == ChangeInit => Accountable
BY ChangeConstants
DEF ChangeInit, Accountable, ChangeFields, None, Live, Autonomy, LiveImpactWasAccepted,
       SettledAfterObservation

\* What judgmentsAllow is asked for: the acceptance that LiveImpactWasAccepted
\* demands of the judgments of this Change.
Accepted ==
    /\ change.judgments # << >>
    /\ Accepts(change.judgments[Len(change.judgments)])
    /\ \A o \in Owners : \E i \in 1..Len(change.judgments) :
         change.judgments[i].by = o /\ Accepts(change.judgments[i])
    /\ \/ change.kind = "realization" /\ change.autonomy >= 2
       \/ \E i \in 1..Len(change.judgments) :
            change.judgments[i].by \in Person /\ Accepts(change.judgments[i])

\* Judgments that allow a deployment are an acceptance.
LEMMA AllowedIsAccepted ==
    ASSUME ChangeFields, JudgmentsAllow
    PROVE  Accepted
<1> DEFINE js == change.judgments
           good == {k \in 1..Len(js) : Accepts(js[k])}
           accepted == {js[i].by : i \in good}
<1>1. /\ js # << >>
      /\ Accepts(js[Len(js)])
      /\ change.kind = "harness" \/ change.autonomy <= 1 => accepted \intersect Person # {}
      /\ Owners \subseteq accepted
  BY DEF JudgmentsAllow
<1>2. \A o \in Owners : \E i \in 1..Len(js) : js[i].by = o /\ Accepts(js[i])
  BY <1>1
<1>3. \/ change.kind = "realization" /\ change.autonomy >= 2
      \/ \E i \in 1..Len(js) : js[i].by \in Person /\ Accepts(js[i])
  <2>1. CASE change.kind = "harness" \/ change.autonomy <= 1
    BY <2>1, <1>1
  <2>2. CASE ~(change.kind = "harness" \/ change.autonomy <= 1)
    <3> HIDE DEF js
    <3> QED BY <2>2 DEF ChangeFields, Autonomy
  <2> QED BY <2>1, <2>2
<1> QED BY <1>1, <1>2, <1>3 DEF Accepted

\* Settling a Change without impact, or one whose judgments allow it, and
\* deploying one, keep the acceptance.
LEMMA ChangeNextInv == Accountable /\ [ChangeNext]_changeVars => Accountable'
<1> SUFFICES ASSUME Accountable, [ChangeNext]_changeVars PROVE Accountable'
  OBVIOUS
<1> USE ChangeConstants
<1>t. ChangeFields BY DEF Accountable
<1>1. CASE OpenChange
  <2>1. PICK kind \in {"realization", "harness"}, impact \in BOOLEAN, effective \in Autonomy,
             p \in {0, 1} :
          change' = [None EXCEPT !.state = "proposed", !.kind = kind, !.impact = impact,
                                 !.autonomy = IF kind = "harness" THEN 0 ELSE effective,
                                 !.proposals = p]
    BY <1>1, Zenon DEF OpenChange
  <2> DEFINE level == IF kind = "harness" THEN 0 ELSE effective
  <2>2. level \in Autonomy
    BY DEF Autonomy
  <2>3. change' = [state |-> "proposed", kind |-> kind, impact |-> impact, autonomy |-> level,
                   proposals |-> p, judgments |-> << >>, deployedAt |-> 0, observed |-> FALSE]
    BY <2>1 DEF None
  <2> HIDE DEF level
  <2> QED BY <2>2, <2>3, <1>1, <1>t
          DEF OpenChange, Accountable, ChangeFields, Live, LiveImpactWasAccepted,
              SettledAfterObservation
<1>2. CASE AddProposal
  <2>1. change' \in [state : {"none", "proposed", "judged"} \union Live,
                     kind : {"realization", "harness"}, impact : BOOLEAN,
                     autonomy : Autonomy, proposals : 0..MaxProposals, judgments : Seq(Judgment),
                     deployedAt : 0..MaxNow, observed : BOOLEAN]
    <3>1. /\ change' = [change EXCEPT !.proposals = change.proposals + 1]
          /\ change.proposals + 1 \in 0..MaxProposals
          /\ change.state \in {"proposed", "judged"}
      BY <1>2, <1>t DEF AddProposal, ChangeFields
    <3> QED BY <3>1, <1>t, SMTT(30) DEF ChangeFields
  <2>2. change'.state = change.state /\ change'.judgments = change.judgments /\ now' = now
    BY <1>2, <1>t DEF AddProposal, ChangeFields
  <2>3. change'.state \in {"proposed", "judged"}
    BY <1>2, <2>2 DEF AddProposal
  <2> QED BY <2>1, <2>2, <2>3, <1>t
          DEF Accountable, ChangeFields, Live, LiveImpactWasAccepted, SettledAfterObservation
<1>3. ASSUME NEW j \in Judgment, Judge(j) PROVE Accountable'
  <2>1. change' = [change EXCEPT !.judgments = Append(change.judgments, j), !.state = "judged"]
    BY <1>3 DEF Judge
  <2>2. Append(change.judgments, j) \in Seq(Judgment) /\ Append(change.judgments, j) # << >>
    BY <1>t DEF ChangeFields
  <2>3. change' \in [state : {"none", "proposed", "judged"} \union Live,
                     kind : {"realization", "harness"}, impact : BOOLEAN,
                     autonomy : Autonomy, proposals : 0..MaxProposals, judgments : Seq(Judgment),
                     deployedAt : 0..MaxNow, observed : BOOLEAN]
    BY <2>1, <2>2, <1>t DEF ChangeFields
  <2>4. change'.state = "judged" /\ change'.judgments # << >> /\ now' = now
    BY <2>1, <2>2, <1>3, <1>t DEF ChangeFields, Judge
  <2> QED BY <2>3, <2>4, <1>t
          DEF Accountable, ChangeFields, Live, LiveImpactWasAccepted, SettledAfterObservation
<1>4. CASE Deploy
  <2>1. change' = [change EXCEPT !.state = "deployed", !.deployedAt = now] /\ now' = now
    BY <1>4 DEF Deploy
  <2>2. ChangeFields'
    BY <2>1, <1>t DEF ChangeFields, Live
  <2>3. change.impact => Accepted
    BY <1>4, <1>t, AllowedIsAccepted DEF Deploy
  <2>4. /\ change'.judgments = change.judgments /\ change'.kind = change.kind
        /\ change'.autonomy = change.autonomy /\ change'.impact = change.impact
        /\ change'.state = "deployed"
    BY <2>1, <1>t DEF ChangeFields
  <2>5. LiveImpactWasAccepted'
    BY <2>3, <2>4 DEF LiveImpactWasAccepted, Accepted, Accepts
  <2> QED BY <2>2, <2>4, <2>5 DEF Accountable, SettledAfterObservation
<1>5. CASE RecordOutcome
  <2>1. change' = [change EXCEPT !.state = "observed", !.observed = TRUE] /\ now' = now
    BY <1>5 DEF RecordOutcome
  <2>2. ChangeFields'
    BY <2>1, <1>t DEF ChangeFields, Live
  <2>3. /\ change'.judgments = change.judgments /\ change'.kind = change.kind
        /\ change'.autonomy = change.autonomy /\ change'.impact = change.impact
        /\ change'.state = "observed" /\ change'.observed /\ change.state = "deployed"
    BY <2>1, <1>5, <1>t DEF ChangeFields, RecordOutcome
  <2>4. LiveImpactWasAccepted'
    BY <2>3 DEF LiveImpactWasAccepted, Accepts, Accountable, Live
  <2> QED BY <2>2, <2>3, <2>4 DEF Accountable, SettledAfterObservation
<1>6. ASSUME NEW a \in Actor, Settle(a) PROVE Accountable'
  <2>1. change' = [change EXCEPT !.state = "settled"] /\ now' = now
    BY <1>6 DEF Settle
  <2>2. ChangeFields'
    BY <2>1, <1>t DEF ChangeFields, Live
  <2>3. /\ change'.judgments = change.judgments /\ change'.kind = change.kind
        /\ change'.autonomy = change.autonomy /\ change'.impact = change.impact
        /\ change'.observed = change.observed /\ change'.deployedAt = change.deployedAt
        /\ change'.state = "settled"
    BY <2>1, <1>t DEF ChangeFields
  <2>4. change.impact => Accepted
    BY <1>6, <1>t, AllowedIsAccepted DEF Settle
  <2>5. LiveImpactWasAccepted'
    BY <2>3, <2>4 DEF LiveImpactWasAccepted, Accepted, Accepts
  <2>6. SettledAfterObservation'
    BY <1>6, <2>1, <2>3 DEF Settle, SettledAfterObservation, Accountable
  <2> QED BY <2>2, <2>3, <2>5, <2>6 DEF Accountable
<1>7. CASE TimePasses
  <2>1. change' = change /\ now' = now + 1 /\ now < MaxNow
    BY <1>7 DEF TimePasses
  <2>2. ChangeFields'
    BY <2>1, <1>t DEF ChangeFields
  <2>3. LiveImpactWasAccepted'
    BY <2>1 DEF Accountable, LiveImpactWasAccepted, Accepts
  <2>4. SettledAfterObservation'
    BY <2>1, <1>t DEF Accountable, SettledAfterObservation, ChangeFields
  <2> QED BY <2>1, <2>2, <2>3, <2>4 DEF Accountable
<1>8. CASE UNCHANGED changeVars
  BY <1>8 DEF changeVars, Accountable, ChangeFields, LiveImpactWasAccepted,
              SettledAfterObservation, Accepts
<1> QED BY <1>1, <1>2, <1>3, <1>4, <1>5, <1>6, <1>7, <1>8 DEF ChangeNext

\* The invariant holds of every behaviour.
LEMMA ChangeInv == ChangeSpec => []Accountable
<1>1. ChangeInit => Accountable BY ChangeInitInv
<1>2. Accountable /\ [ChangeNext]_changeVars => Accountable' BY ChangeNextInv
<1> QED BY <1>1, <1>2, PTL DEF ChangeSpec

\* The fields of a Change keep their kinds, and a Change that says it was
\* judged has a judgment (change.go, Apply).
THEOREM ChangeTypeOK == ChangeSpec => []ChangeFields
<1>1. Accountable => ChangeFields BY DEF Accountable
<1> QED BY <1>1, ChangeInv, PTL

\* No Change with impact is live that its owners and, below L2 or for a harness
\* change, a human have not accepted (change.go, deploy and judgmentsAllow).
THEOREM ChangeLiveImpactWasAccepted == ChangeSpec => []LiveImpactWasAccepted
<1>1. Accountable => LiveImpactWasAccepted BY DEF Accountable
<1> QED BY <1>1, ChangeInv, PTL

\* No Change with impact settles before its outcome or the end of its window
\* (change.go, settle).
THEOREM ChangeSettledAfterObservation == ChangeSpec => []SettledAfterObservation
<1>1. Accountable => SettledAfterObservation BY DEF Accountable
<1> QED BY <1>1, ChangeInv, PTL

-----------------------------------------------------------------------------
\* The constraints, the index of the daemon and the declared scopes.

\* The fields of a constraint, its events, and the records of the ledger.
Con == [state : {"none", "generated", "verified", "retired"}, kind : {"autonomy", "rule"},
        scope : Key, level : Int, deny : BOOLEAN, origin : BOOLEAN, anchors : SUBSET Anchor,
        successor : {NoId, Successor}]
DraftedEv == [kind : {"Drafted"}, of : {"autonomy", "rule"}, scope : Key, level : Int,
              deny : BOOLEAN, origin : BOOLEAN, anchors : SUBSET Anchor]
Ev == DraftedEv
      \union [kind : {"Rebound"}, anchors : SUBSET Anchor]
      \union [kind : {"Verified"}, human : BOOLEAN]
      \union [kind : {"Promoted", "Demoted"}, scope : Key]
      \union [kind : {"Superseded"}, by : {Successor}]
      \union [kind : {"Retired"}]
Rec == [id : Id, ev : Ev]
       \union [id : {NoId}, ev : [kind : {"Scope", "Session"}]]
       \union [id : {NoId}, ev : [kind : {"AnchorRecorded"}, anchor : Anchor]]
Summaries == [Id -> Con]
Empty == [c \in Id |-> NoConstraint]

\* The summary of the index says what the aggregate says, but for the origin.
Agree(s, a) ==
    /\ s.state = a.state /\ s.kind = a.kind /\ s.scope = a.scope /\ s.level = a.level
    /\ s.deny = a.deny /\ s.anchors = a.anchors

\* What Reject and Emit are.
LEMMA Answers == Reject.refused = TRUE /\ \A e : Emit(<<e>>).refused = FALSE /\ Emit(<<e>>).evs[1] = e
BY DEF Reject, Emit

\* The zero constraint has the fields of one.
LEMMA NoConstraintIs == NoConstraint \in Con /\ NoConstraint.state = "none"
BY HarnessConstants DEF NoConstraint, Con

\* A command that is accepted emits one event; on a new constraint it is a
\* draft, whose autonomy is within the cap of the context.
LEMMA Decided ==
    ASSUME NEW a \in Con, NEW c \in Id, NEW m \in Commands(c), NEW ctx, ctx.human \in BOOLEAN,
           ctx.cap \in Int, NEW d, d = ConstraintDecide(a, m, ctx), ~d.refused
    PROVE  /\ d.evs[1] \in Ev
           /\ a.state = "none" =>
                /\ m \in Draft /\ d.evs[1] \in DraftedEv
                /\ d.evs[1].of = m.kind /\ d.evs[1].level = m.level /\ d.evs[1].scope = m.scope
                /\ m.kind = "autonomy" => m.level <= ctx.cap
<1> USE HarnessConstants
<1>1. CASE m \in Draft
  <2>1. m.cmd = "Draft"
    BY <1>1
  <2>2. d = DraftDecide(a, m, ctx)
    BY <2>1 DEF ConstraintDecide
  <2> DEFINE e == [kind |-> "Drafted", of |-> m.kind, scope |-> m.scope, level |-> m.level,
                   deny |-> m.deny, origin |-> m.origin, anchors |-> m.anchors]
  <2>3. e \in DraftedEv /\ e.of = m.kind /\ e.level = m.level /\ e.scope = m.scope
    BY <1>1 DEF DraftedEv
  <2>4. d = Emit(<<e>>) /\ (m.kind = "autonomy" => ~(m.level > ctx.cap))
    BY <2>2, Answers DEF DraftDecide
  <2> HIDE DEF e
  <2>5. d.evs[1] = e
    BY <2>4, Answers
  <2>6. m.kind = "autonomy" => m.level <= ctx.cap
    <3> m.level \in Int
      BY <1>1
    <3> QED BY <2>4
  <2> QED BY <1>1, <2>3, <2>5, <2>6 DEF Ev
<1>2. CASE m \in [cmd : {"Verify", "Retire"}]
  <2>1. CASE m.cmd = "Verify"
    <3> DEFINE e == [kind |-> "Verified", human |-> ctx.human]
    <3>1. d = VerifyDecide(a, ctx)
      BY <2>1 DEF ConstraintDecide
    <3>2. d = Emit(<<e>>) /\ a.state # "none"
      BY <3>1, Answers DEF VerifyDecide
    <3>3. e \in Ev
      BY DEF Ev
    <3> HIDE DEF e
    <3> QED BY <3>2, <3>3, Answers
  <2>2. CASE m.cmd = "Retire"
    <3> DEFINE e == [kind |-> "Retired"]
    <3>1. d = RetireDecide(a)
      BY <2>2 DEF ConstraintDecide
    <3>2. d = Emit(<<e>>) /\ a.state # "none"
      BY <3>1, Answers DEF RetireDecide
    <3>3. e \in Ev
      BY DEF Ev
    <3> HIDE DEF e
    <3> QED BY <3>2, <3>3, Answers
  <2> QED BY <1>2, <2>1, <2>2
<1>3. CASE m \in [cmd : {"Promote", "Demote"}, scope : Key, origin : {TRUE}, wellFormed : {TRUE}]
  <2>0. m.scope \in Key
    BY <1>3
  <2>1. CASE m.cmd = "Promote"
    <3> DEFINE e == [kind |-> "Promoted", scope |-> m.scope]
    <3>1. d = PromoteDecide(a, m, ctx)
      BY <2>1 DEF ConstraintDecide
    <3>2. d = Emit(<<e>>) /\ a.state # "none"
      BY <3>1, Answers DEF PromoteDecide
    <3>3. e \in Ev
      BY <2>0 DEF Ev
    <3> HIDE DEF e
    <3> QED BY <3>2, <3>3, Answers
  <2>2. CASE m.cmd = "Demote"
    <3> DEFINE e == [kind |-> "Demoted", scope |-> m.scope]
    <3>1. d = DemoteDecide(a, m)
      BY <2>2 DEF ConstraintDecide
    <3>2. d = Emit(<<e>>) /\ a.state # "none"
      BY <3>1, Answers DEF DemoteDecide
    <3>3. e \in Ev
      BY <2>0 DEF Ev
    <3> HIDE DEF e
    <3> QED BY <3>2, <3>3, Answers
  <2> QED BY <1>3, <2>1, <2>2
<1>4. CASE m \in [cmd : {"Supersede"}, id : {c}, by : {c, NoId, Successor}]
  <2> DEFINE e == [kind |-> "Superseded", by |-> m.by]
  <2>1. d = SupersedeDecide(a, m) /\ m.id = c
    BY <1>4 DEF ConstraintDecide
  <2>2. d = Emit(<<e>>) /\ a.state # "none" /\ m.by # NoId /\ m.by # c
    BY <2>1, Answers DEF SupersedeDecide
  <2>3. e \in Ev
    BY <1>4, <2>2 DEF Ev
  <2> HIDE DEF e
  <2> QED BY <2>2, <2>3, Answers
<1>5. CASE m \in [cmd : {"Rebind"}, anchors : SUBSET Anchor, wellFormed : {TRUE}]
  <2> DEFINE e == [kind |-> "Rebound", anchors |-> m.anchors]
  <2>1. d = RebindDecide(a, m)
    BY <1>5 DEF ConstraintDecide
  <2>2. d = Emit(<<e>>) /\ a.state # "none"
    BY <2>1, Answers DEF RebindDecide
  <2>3. e \in Ev
    BY <1>5 DEF Ev
  <2> HIDE DEF e
  <2> QED BY <2>2, <2>3, Answers
<1> QED BY <1>1, <1>2, <1>3, <1>4, <1>5 DEF Commands

\* Apply and Handle keep the fields, and do the same to what they share.
LEMMA AppliedAlike ==
    ASSUME NEW s \in Con, NEW a \in Con, NEW e \in Ev
    PROVE  /\ ConstraintApply(a, e) \in Con /\ IndexHandle(s, e) \in Con
           /\ Agree(s, a) => Agree(IndexHandle(s, e), ConstraintApply(a, e))
<1> USE HarnessConstants, NoConstraintIs
<1>1. CASE e \in DraftedEv
  <2> DEFINE x == [NoConstraint EXCEPT !.state = "generated", !.kind = e.of,
                     !.scope = e.scope, !.level = e.level, !.deny = e.deny,
                     !.origin = e.origin, !.anchors = e.anchors]
             y == [NoConstraint EXCEPT !.state = "generated", !.kind = e.of,
                     !.scope = e.scope, !.level = e.level, !.deny = e.deny,
                     !.anchors = e.anchors]
  <2>1. e.kind = "Drafted"
    BY <1>1 DEF DraftedEv
  <2>2. ConstraintApply(a, e) = x /\ IndexHandle(s, e) = y
    BY <2>1 DEF ConstraintApply, IndexHandle
  <2>3. x \in Con /\ y \in Con /\ Agree(y, x)
    BY <1>1 DEF DraftedEv, Con, Agree
  <2> QED BY <2>2, <2>3
<1>2. CASE e \in [kind : {"Rebound"}, anchors : SUBSET Anchor]
  <2> DEFINE x == [a EXCEPT !.anchors = e.anchors]
             y == [s EXCEPT !.anchors = e.anchors]
  <2>1. ConstraintApply(a, e) = x /\ IndexHandle(s, e) = y
    BY <1>2 DEF ConstraintApply, IndexHandle
  <2>2. x \in Con /\ y \in Con /\ (Agree(s, a) => Agree(y, x))
    BY <1>2 DEF Con, Agree
  <2> QED BY <2>1, <2>2
<1>3. CASE e \in [kind : {"Verified"}, human : BOOLEAN]
  <2> DEFINE x == [a EXCEPT !.state = "verified"]
             y == [s EXCEPT !.state = "verified"]
  <2>1. ConstraintApply(a, e) = x /\ IndexHandle(s, e) = y
    BY <1>3 DEF ConstraintApply, IndexHandle
  <2>2. x \in Con /\ y \in Con /\ (Agree(s, a) => Agree(y, x))
    BY DEF Con, Agree
  <2> QED BY <2>1, <2>2
<1>4. CASE e \in [kind : {"Promoted", "Demoted"}, scope : Key]
  <2> DEFINE x == [a EXCEPT !.scope = e.scope, !.origin = TRUE]
             z == [a EXCEPT !.scope = e.scope]
             y == [s EXCEPT !.scope = e.scope]
  <2>1. ConstraintApply(a, e) \in {x, z} /\ IndexHandle(s, e) = y
    BY <1>4 DEF ConstraintApply, IndexHandle
  <2>2. x \in Con /\ z \in Con /\ y \in Con /\ (Agree(s, a) => Agree(y, x) /\ Agree(y, z))
    BY <1>4 DEF Con, Agree
  <2> HIDE DEF x, y, z
  <2> QED BY <2>1, <2>2
<1>5. CASE e \in [kind : {"Superseded"}, by : {Successor}]
  <2> DEFINE x == [a EXCEPT !.state = "retired", !.successor = e.by]
             y == [s EXCEPT !.state = "retired", !.successor = e.by]
  <2>1. ConstraintApply(a, e) = x /\ IndexHandle(s, e) = y
    BY <1>5 DEF ConstraintApply, IndexHandle
  <2>2. x \in Con /\ y \in Con /\ (Agree(s, a) => Agree(y, x))
    BY <1>5 DEF Con, Agree
  <2> QED BY <2>1, <2>2
<1>6. CASE e \in [kind : {"Retired"}]
  <2> DEFINE x == [a EXCEPT !.state = "retired"]
             y == [s EXCEPT !.state = "retired"]
  <2>1. ConstraintApply(a, e) = x /\ IndexHandle(s, e) = y
    BY <1>6 DEF ConstraintApply, IndexHandle
  <2>2. x \in Con /\ y \in Con /\ (Agree(s, a) => Agree(y, x))
    BY DEF Con, Agree
  <2> QED BY <2>1, <2>2
<1> QED BY <1>1, <1>2, <1>3, <1>4, <1>5, <1>6 DEF Ev

\* A record changes the summary of the constraint it names.
LEMMA ProjectedIs ==
    ASSUME NEW x \in Summaries, NEW r \in Rec
    PROVE  /\ Projected(x, r) \in Summaries
           /\ \A c \in Id : Projected(x, r)[c] = IF r.id = c THEN IndexHandle(x[c], r.ev) ELSE x[c]
           /\ r.id = NoId => Projected(x, r) = x
<1> USE HarnessConstants
<1>1. CASE r.id = NoId
  BY <1>1 DEF Projected, Summaries
<1>2. CASE r.id # NoId
  <2>1. r.id \in Id /\ r.ev \in Ev
    BY <1>2 DEF Rec
  <2>2. x[r.id] \in Con
    BY <2>1 DEF Summaries
  <2>3. IndexHandle(x[r.id], r.ev) \in Con
    BY <2>1, <2>2, AppliedAlike
  <2>4. Projected(x, r) = [x EXCEPT ![r.id] = IndexHandle(x[r.id], r.ev)]
    BY <1>2 DEF Projected
  <2> QED BY <1>2, <2>1, <2>3, <2>4 DEF Summaries
<1> QED BY <1>1, <1>2
-----------------------------------------------------------------------------
\* F holds what the index is after each of the records behind from.
ReplayOf(F, x, from, q) ==
    F = [i \in from..Len(q) |-> IF i = from THEN x ELSE Projected(F[i-1], q[i])]

\* An index x that reflects the records up to from can catch up: there is one
\* replay of the rest, it ends with what the aggregates say, and it changes
\* nothing before the first record that names a constraint.
Replaying(x, from, q, a) ==
    \E F \in [from..Len(q) -> Summaries] :
        /\ ReplayOf(F, x, from, q)
        /\ \A G : ReplayOf(G, x, from, q) => G = F
        /\ \A c \in Id : Agree(F[Len(q)][c], a[c])
        /\ \A n \in from..Len(q) : (\A i \in (from+1)..n : q[i].id = NoId) => F[n] = x

\* Nothing is behind an index that is up to date.
LEMMA ReplayOfNothing ==
    ASSUME NEW q \in Seq(Rec), NEW x \in Summaries, NEW a, \A c \in Id : Agree(x[c], a[c])
    PROVE  Replaying(x, Len(q), q, a)
<1> DEFINE n == Len(q)
           F == [i \in n..n |-> x]
<1>1. n \in Nat /\ F[n] = x /\ F \in [n..n -> Summaries]
  OBVIOUS
<1>2. \A i \in n..n : i = n
  BY <1>1
<1>3. ReplayOf(F, x, n, q)
  BY <1>2 DEF ReplayOf
<1>4. \A G : ReplayOf(G, x, n, q) => G = F
  BY <1>2 DEF ReplayOf
<1>5. \A m \in n..n : F[m] = x
  BY <1>1, <1>2
<1> HIDE DEF F
<1> QED BY <1>1, <1>3, <1>4, <1>5 DEF Replaying

\* A record is appended, and the aggregates take its event as the index does.
LEMMA ReplayGrows ==
    ASSUME NEW q \in Seq(Rec), NEW from \in 0..Len(q), NEW x \in Summaries, NEW a, NEW b,
           NEW r \in Rec, Replaying(x, from, q, a),
           \A c \in Id, s \in Con :
              Agree(s, a[c]) => Agree(IF r.id = c THEN IndexHandle(s, r.ev) ELSE s, b[c])
    PROVE  Replaying(x, from, Append(q, r), b)
<1> DEFINE n == Len(q)
           p == Append(q, r)
<1>1. PICK F \in [from..n -> Summaries] :
        /\ ReplayOf(F, x, from, q)
        /\ \A G : ReplayOf(G, x, from, q) => G = F
        /\ \A c \in Id : Agree(F[n][c], a[c])
        /\ \A m \in from..n : (\A i \in (from+1)..m : q[i].id = NoId) => F[m] = x
  BY DEF Replaying
<1>2. n \in Nat /\ Len(p) = n + 1 /\ p[n + 1] = r /\ from \in 0..n /\ \A i \in 1..n : p[i] = q[i]
  OBVIOUS
<1> HIDE DEF p, n
<1>3. PICK y \in Summaries : /\ y = Projected(F[n], r)
                             /\ \A c \in Id : Agree(y[c], b[c])
                             /\ r.id = NoId => y = F[n]
  <2>1. F[n] \in Summaries
    BY <1>1, <1>2
  <2>2. \A c \in Id : F[n][c] \in Con
    BY <2>1 DEF Summaries
  <2> DEFINE y == Projected(F[n], r)
  <2>3. /\ y \in Summaries /\ (r.id = NoId => y = F[n])
        /\ \A c \in Id : y[c] = IF r.id = c THEN IndexHandle(F[n][c], r.ev) ELSE F[n][c]
    BY <2>1, ProjectedIs
  <2> HIDE DEF y
  <2>4. \A c \in Id : Agree(y[c], b[c])
    BY <1>1, <2>2, <2>3
  <2> QED BY <2>3, <2>4 DEF y
<1> DEFINE H == [i \in from..(n+1) |-> IF i = n + 1 THEN y ELSE F[i]]
<1>4. H \in [from..(n+1) -> Summaries]
  BY <1>1, <1>2
<1>5. \A i \in from..n : H[i] = F[i] /\ i \in from..(n+1)
  BY <1>2
<1>6. H[n + 1] = y /\ n + 1 \in from..(n+1)
  BY <1>2
<1>7. \A i \in from..n : F[i] = IF i = from THEN x ELSE Projected(F[i-1], q[i])
  BY <1>1 DEF ReplayOf, n
<1>8. \A i \in from..n : i # from => i - 1 \in from..n /\ i \in 1..n
  BY <1>2
<1>h. H = [i \in from..(n+1) |-> H[i]]
  OBVIOUS
<1> HIDE DEF H
<1>9. \A i \in from..(n+1) : H[i] = IF i = from THEN x ELSE Projected(H[i-1], p[i])
  <2> SUFFICES ASSUME NEW i \in from..(n+1)
               PROVE  H[i] = IF i = from THEN x ELSE Projected(H[i-1], p[i])
    OBVIOUS
  <2>1. CASE i = n + 1
    BY <2>1, <1>2, <1>3, <1>5, <1>6
  <2>2. CASE i # n + 1
    <3>1. i \in from..n
      BY <1>2, <2>2
    <3> QED BY <3>1, <1>2, <1>5, <1>7, <1>8
  <2> QED BY <2>1, <2>2
<1>10. ReplayOf(H, x, from, p)
  BY <1>2, <1>9, <1>h DEF ReplayOf
<1>11. ASSUME NEW G, ReplayOf(G, x, from, p) PROVE G = H
  <2>1. /\ G = [i \in from..(n+1) |-> G[i]]
        /\ \A i \in from..(n+1) : G[i] = IF i = from THEN x ELSE Projected(G[i-1], p[i])
    BY <1>2, <1>11 DEF ReplayOf
  <2> DEFINE D == [i \in from..n |-> G[i]]
  <2>2. \A i \in from..n : D[i] = G[i] /\ i \in from..(n+1)
    BY <1>2
  <2>3. \A i \in from..n : D[i] = IF i = from THEN x ELSE Projected(D[i-1], q[i])
    BY <1>2, <1>8, <2>1, <2>2
  <2>4. D = [i \in from..n |-> IF i = from THEN x ELSE Projected(D[i-1], q[i])]
    <3> D = [i \in from..n |-> D[i]]
      OBVIOUS
    <3> HIDE DEF D
    <3> QED BY <2>3
  <2> HIDE DEF D
  <2>5. D = F
    BY <1>1, <2>4 DEF ReplayOf, n
  <2>6. \A i \in from..n : G[i] = H[i]
    BY <1>5, <2>2, <2>5
  <2>7. G[n + 1] = H[n + 1]
    <3>1. n + 1 \in from..(n+1) /\ n + 1 # from /\ n \in from..n /\ (n + 1) - 1 = n
      BY <1>2, SMTT(30)
    <3>2. G[n + 1] = Projected(G[n], p[n + 1]) /\ H[n + 1] = Projected(H[n], p[n + 1])
      BY <1>9, <2>1, <3>1
    <3> QED BY <2>6, <3>1, <3>2
  <2>8. \A i \in from..(n+1) : G[i] = H[i]
    BY <1>2, <2>6, <2>7
  <2> QED BY <1>h, <2>1, <2>8
<1>12. \A m \in from..(n+1) : (\A i \in (from+1)..m : p[i].id = NoId) => H[m] = x
  <2> SUFFICES ASSUME NEW m \in from..(n+1), \A i \in (from+1)..m : p[i].id = NoId
               PROVE  H[m] = x
    OBVIOUS
  <2>1. \A k \in from..n : k <= m => F[k] = x
    <3> SUFFICES ASSUME NEW k \in from..n, k <= m PROVE F[k] = x
      OBVIOUS
    <3>1. \A i \in (from+1)..k : i \in (from+1)..m /\ i \in 1..n
      BY <1>2
    <3> QED BY <1>1, <1>2, <3>1
  <2>2. CASE m = n + 1
    <3>1. CASE from = n + 1
      BY <3>1, <1>2
    <3>2. CASE from # n + 1
      <4>1. F[n] = x
        BY <1>2, <2>1, <2>2
      <4>2. r.id = NoId
        BY <1>2, <2>2
      <4> QED BY <1>3, <1>6, <2>2, <4>1, <4>2
    <3> QED BY <3>1, <3>2
  <2>3. CASE m # n + 1
    BY <1>2, <1>5, <2>1, <2>3
  <2> QED BY <2>2, <2>3
<1> QED BY <1>2, <1>3, <1>4, <1>6, <1>10, <1>11, <1>12 DEF Replaying, p

\* Records that name no constraint may be passed over.
LEMMA ReplaySkips ==
    ASSUME NEW q \in Seq(Rec), NEW from \in 0..Len(q), NEW to \in from..Len(q),
           NEW x \in Summaries, NEW a, Replaying(x, from, q, a),
           \A i \in (from+1)..to : q[i].id = NoId
    PROVE  Replaying(x, to, q, a)
<1> DEFINE n == Len(q)
<1>1. PICK F \in [from..n -> Summaries] :
        /\ ReplayOf(F, x, from, q)
        /\ \A G : ReplayOf(G, x, from, q) => G = F
        /\ \A c \in Id : Agree(F[n][c], a[c])
        /\ \A m \in from..n : (\A i \in (from+1)..m : q[i].id = NoId) => F[m] = x
  BY DEF Replaying
<1>2. n \in Nat /\ from \in Nat /\ to \in Nat /\ from <= to /\ to <= n
  OBVIOUS
<1> HIDE DEF n
<1>3. F[to] = x
  BY <1>1, <1>2 DEF n
<1>4. \A i \in from..n : F[i] = IF i = from THEN x ELSE Projected(F[i-1], q[i])
  BY <1>1 DEF ReplayOf, n
<1>5. \A i \in to..n : i \in from..n /\ (i # to => i - 1 \in to..n /\ i # from)
  BY <1>2
<1> DEFINE H == [i \in to..n |-> F[i]]
<1>6. H \in [to..n -> Summaries] /\ \A i \in to..n : H[i] = F[i]
  BY <1>1, <1>5
<1>h. H = [i \in to..n |-> H[i]]
  OBVIOUS
<1> HIDE DEF H
<1>7. \A i \in to..n : H[i] = IF i = to THEN x ELSE Projected(H[i-1], q[i])
  BY <1>3, <1>4, <1>5, <1>6
<1>8. ReplayOf(H, x, to, q)
  BY <1>7, <1>h DEF ReplayOf, n
<1>9. ASSUME NEW G, ReplayOf(G, x, to, q) PROVE G = H
  <2>1. /\ G = [i \in to..n |-> G[i]]
        /\ \A i \in to..n : G[i] = IF i = to THEN x ELSE Projected(G[i-1], q[i])
    BY <1>9 DEF ReplayOf, n
  <2> DEFINE D == [i \in from..n |-> IF i < to THEN F[i] ELSE G[i]]
  <2>2. \A i \in from..n : D[i] = IF i < to THEN F[i] ELSE G[i]
    OBVIOUS
  <2>d. D = [i \in from..n |-> D[i]]
    OBVIOUS
  <2> HIDE DEF D
  <2>3. \A i \in from..n : D[i] = IF i = from THEN x ELSE Projected(D[i-1], q[i])
    <3> SUFFICES ASSUME NEW i \in from..n
                 PROVE  D[i] = IF i = from THEN x ELSE Projected(D[i-1], q[i])
      OBVIOUS
    <3>1. CASE i < to
      <4>1. i # from => i - 1 \in from..n /\ i - 1 < to
        BY <1>2, <3>1
      <4> QED BY <3>1, <4>1, <1>4, <2>2
    <3>2. CASE i = to
      <4>1. D[i] = x
        <5>1. to \in to..n /\ to \in from..n /\ ~(to < to)
          BY <1>2
        <5>2. G[to] = x
          BY <2>1, <5>1
        <5> QED BY <2>2, <3>2, <5>1, <5>2
      <4>2. CASE i = from
        BY <4>1, <4>2
      <4>3. CASE i # from
        <5>1. i - 1 \in from..n /\ i - 1 < to
          BY <1>2, <3>2, <4>3
        <5> QED BY <1>3, <1>4, <2>2, <3>2, <4>1, <4>3, <5>1
      <4> QED BY <4>2, <4>3
    <3>3. CASE i > to
      <4>1. i - 1 \in from..n /\ ~(i - 1 < to) /\ i \in to..n /\ i # to /\ i # from /\ ~(i < to)
        BY <1>2, <3>3
      <4> QED BY <2>1, <2>2, <4>1
    <3> QED BY <1>2, <3>1, <3>2, <3>3
  <2>4. D = F
    BY <1>1, <2>3, <2>d DEF ReplayOf, n
  <2>5. \A i \in to..n : G[i] = H[i]
    BY <1>2, <1>5, <1>6, <2>2, <2>4
  <2> QED BY <1>h, <2>1, <2>5
<1>10. \A m \in to..n : (\A i \in (to+1)..m : q[i].id = NoId) => H[m] = x
  <2> SUFFICES ASSUME NEW m \in to..n, \A i \in (to+1)..m : q[i].id = NoId
               PROVE  H[m] = x
    OBVIOUS
  <2>1. \A i \in (from+1)..m : i \in (from+1)..to \/ i \in (to+1)..m
    BY <1>2
  <2>2. \A i \in (from+1)..m : q[i].id = NoId
    BY <2>1
  <2> QED BY <1>1, <1>5, <1>6, <2>2
<1>11. n \in to..n /\ n \in from..n
  BY <1>2
<1> QED BY <1>1, <1>6, <1>8, <1>9, <1>10, <1>11 DEF Replaying, n

\* Catching up takes an index to what the aggregates say.
LEMMA ReplayEnds ==
    ASSUME ledger \in Seq(Rec), NEW from \in 0..Len(ledger), NEW x \in Summaries, NEW a,
           Replaying(x, from, ledger, a)
    PROVE  /\ Replayed(x, from) \in Summaries
           /\ \A c \in Id : Agree(Replayed(x, from)[c], a[c])
           /\ Replaying(Replayed(x, from), Len(ledger), ledger, a)
<1> DEFINE n == Len(ledger)
<1>1. PICK F \in [from..n -> Summaries] :
        /\ ReplayOf(F, x, from, ledger)
        /\ \A G : ReplayOf(G, x, from, ledger) => G = F
        /\ \A c \in Id : Agree(F[n][c], a[c])
  BY DEF Replaying
<1>2. n \in from..n
  OBVIOUS
<1>3. Replayed(x, from) = (CHOOSE G : ReplayOf(G, x, from, ledger))[n]
  BY DEF Replayed, ReplayOf
<1>4. Replayed(x, from) = F[n]
  BY <1>1, <1>3
<1> HIDE DEF n
<1>5. Replayed(x, from) \in Summaries /\ \A c \in Id : Agree(Replayed(x, from)[c], a[c])
  BY <1>1, <1>2, <1>4
<1> QED BY <1>5, ReplayOfNothing
-----------------------------------------------------------------------------
\* A set of naturals that is not empty has a least element.
LEMMA LeastIs ==
    ASSUME NEW S, S \subseteq Nat, S # {}
    PROVE  \E x \in S : \A y \in S : x <= y
<1> DEFINE Less == {ss \in Nat \X Nat : ss[1] < ss[2]}
<1>1. IsWellFoundedOn(Less, Nat)
  BY NatLessThanWellFounded, Zenon DEF OpToRel
<1>2. PICK x \in S : \A y \in S : ~(<<y, x>> \in Less)
  BY <1>1, WFMin
<1>3. ASSUME NEW y \in S, ~(x <= y) PROVE FALSE
  <2>1. y \in Nat /\ x \in Nat /\ y < x
    BY <1>3
  <2>2. <<y, x>> \in Less
    BY <2>1
  <2> QED BY <1>2, <2>2
<1> QED BY <1>3

\* Declared levels and caps are levels.
WellDeclared(d) == \A k \in DOMAIN d : d[k].level \in Level /\ d[k].cap \in Level

\* The effective cap is a level, and no cap that applies is below it.
LEMMA EffectiveCapIs ==
    ASSUME NEW d, WellDeclared(d), NEW t
    PROVE  /\ EffectiveCap(d, t, MaxLevel) \in Level
           /\ \A k \in DOMAIN d : Contains(k, t) => EffectiveCap(d, t, MaxLevel) <= d[k].cap
<1> DEFINE caps == {d[k].cap : k \in Applicable(DOMAIN d, t)} \union {MaxLevel}
<1>1. caps \subseteq Level /\ caps # {} /\ caps \subseteq Nat
  BY DEF Applicable, WellDeclared, Level, MaxLevel
<1>2. EffectiveCap(d, t, MaxLevel) = CHOOSE c \in caps : \A x \in caps : c <= x
  BY DEF EffectiveCap
<1>3. \A k \in DOMAIN d : Contains(k, t) => d[k].cap \in caps
  BY DEF Applicable
<1> HIDE DEF caps
<1>4. PICK c \in caps : \A x \in caps : c <= x
  BY <1>1, LeastIs
<1>5. /\ EffectiveCap(d, t, MaxLevel) \in caps
      /\ \A x \in caps : EffectiveCap(d, t, MaxLevel) <= x
  BY <1>2, <1>4
<1> QED BY <1>1, <1>3, <1>5

\* Every choice of declared scopes has a narrowest one.
Topped(K) == \A S \in SUBSET K : S # {} => \E k \in S : \A j \in S \ {k} : Precedes(j, k)

\* One more scope has its place in the order of the others.
LEMMA ToppedGrows ==
    ASSUME NEW K \in SUBSET Key, NEW k \in Key, Topped(K)
    PROVE  Topped(K \union {k})
<1> SUFFICES ASSUME NEW S \in SUBSET (K \union {k}), S # {}
             PROVE  \E x \in S : \A j \in S \ {x} : Precedes(j, x)
  BY DEF Topped
<1>1. CASE S \ {k} = {}
  BY <1>1
<1>2. CASE S \ {k} # {}
  <2>1. S \ {k} \in SUBSET K /\ S \subseteq Key
    OBVIOUS
  <2>2. PICK x \in S \ {k} : \A j \in (S \ {k}) \ {x} : Precedes(j, x)
    BY <1>2, <2>1 DEF Topped
  <2>3. CASE k \notin S
    BY <2>2, <2>3
  <2>4. CASE k \in S /\ Precedes(k, x)
    BY <2>2, <2>4
  <2>5. CASE k \in S /\ Precedes(x, k)
    <3>1. \A j \in S \ {k} : Precedes(j, k)
      BY <2>1, <2>2, <2>5, KeysAreOrdered
    <3> QED BY <2>5, <3>1
  <2> QED BY <2>1, <2>2, <2>3, <2>4, <2>5, KeysAreOrdered
<1> QED BY <1>1, <1>2

\* The level of a target is at most its cap.
LEMMA EffectiveLevelIs ==
    ASSUME NEW d, WellDeclared(d), Topped(DOMAIN d), NEW t
    PROVE  /\ EffectiveLevel(d, t, MaxLevel) <= EffectiveCap(d, t, MaxLevel)
           /\ EffectiveLevel(d, t, MaxLevel) \in Int
<1> DEFINE cap == EffectiveCap(d, t, MaxLevel)
           on == Applicable(DOMAIN d, t)
           level == IF on = {} THEN 0 ELSE d[Narrowest(DOMAIN d, t)].level
<1>1. cap \in Level
  BY EffectiveCapIs
<1>2. level \in Int
  <2>1. CASE on = {}
    BY <2>1
  <2>2. CASE on # {}
    <3>1. on \in SUBSET DOMAIN d
      BY DEF Applicable
    <3>2. Narrowest(DOMAIN d, t) = CHOOSE k \in on : \A j \in on \ {k} : Precedes(j, k)
      BY DEF Narrowest
    <3> HIDE DEF on
    <3>3. \E k \in on : \A j \in on \ {k} : Precedes(j, k)
      BY <2>2, <3>1 DEF Topped
    <3>4. Narrowest(DOMAIN d, t) \in on
      BY <3>2, <3>3
    <3> QED BY <2>2, <3>1, <3>4 DEF WellDeclared, Level, MaxLevel
  <2> QED BY <2>1, <2>2
<1>3. EffectiveLevel(d, t, MaxLevel) = IF level > cap THEN cap ELSE level
  BY DEF EffectiveLevel
<1> HIDE DEF cap, level
<1>4. IF level > cap THEN cap <= cap /\ cap \in Int ELSE level <= cap
  BY <1>1, <1>2 DEF Level, MaxLevel
<1> QED BY <1>2, <1>3, <1>4 DEF cap

-----------------------------------------------------------------------------
\* The ledger, the aggregates and the daemon's index: catching up from where
\* the index stands, and from nothing, leads to what the aggregates say, and
\* the anchors in the index and those behind the cursor are all that are recorded.
Caught ==
    /\ ledger \in Seq(Rec) /\ Len(ledger) <= MaxRecords /\ agg \in Summaries
    /\ cursor \in 0..Len(ledger) /\ pending \in 0..Len(ledger)
    /\ pending # 0 => ~Concerns(ledger[pending])
    /\ jumped \in BOOLEAN
    /\ Replaying(Empty, 0, ledger, agg)
    /\ ~jumped => index \in Summaries /\ Replaying(index, cursor, ledger, agg)
    /\ ~jumped => anchorIndex \union RecordedFrom(cursor) = RecordedFrom(0)

\* The declared scopes, and the projections that processes have of them.
Projections ==
    /\ DOMAIN declared \subseteq Key /\ WellDeclared(declared) /\ Topped(DOMAIN declared)
    /\ DOMAIN known = Proc
    /\ \A p \in Proc : WellDeclared(known[p])

\* The anchors behind a place of the ledger: a record adds its own.
LEMMA RecordedGrows ==
    ASSUME ledger \in Seq(Rec), NEW r \in Rec, ledger' = Append(ledger, r),
           NEW n \in 0..Len(ledger)
    PROVE  RecordedFrom(n)' = RecordedFrom(n) \union (IF OfAnchor(r) THEN {r.ev.anchor} ELSE {})
<1>1. /\ Len(ledger) \in Nat /\ Len(ledger') = Len(ledger) + 1 /\ ledger'[Len(ledger) + 1] = r
      /\ \A i \in 1..Len(ledger) : ledger'[i] = ledger[i]
  OBVIOUS
<1>2. \A i : i \in n+1..Len(ledger') <=> i \in n+1..Len(ledger) \/ i = Len(ledger) + 1
  BY <1>1
<1>3. \A i \in n+1..Len(ledger) : ledger'[i] = ledger[i]
  BY <1>1
<1>4. \A x : x \in RecordedFrom(n) <=>
               \E i \in n+1..Len(ledger) : OfAnchor(ledger[i]) /\ x = ledger[i].ev.anchor
  BY Zenon DEF RecordedFrom
<1>5. \A x : x \in RecordedFrom(n)' <=>
               \E i \in n+1..Len(ledger') : OfAnchor(ledger'[i]) /\ x = ledger'[i].ev.anchor
  BY Zenon DEF RecordedFrom, OfAnchor
<1>6. \A x : x \in RecordedFrom(n)' <=>
               \/ \E i \in n+1..Len(ledger) : OfAnchor(ledger'[i]) /\ x = ledger'[i].ev.anchor
               \/ OfAnchor(ledger'[Len(ledger) + 1]) /\ x = ledger'[Len(ledger) + 1].ev.anchor
  <2> TAKE x
  <2> DEFINE P(i) == OfAnchor(ledger'[i]) /\ x = ledger'[i].ev.anchor
  <2>1. (\E i \in n+1..Len(ledger') : P(i)) <=> (\E i \in n+1..Len(ledger) : P(i)) \/ P(Len(ledger) + 1)
    <3> HIDE DEF P
    <3> QED BY <1>2, Zenon
  <2> QED BY <1>5, <2>1, Zenon
<1>7. \A x : x \in RecordedFrom(n)' <=> x \in RecordedFrom(n) \/ (OfAnchor(r) /\ x = r.ev.anchor)
  <2>1. \A x : (\E i \in n+1..Len(ledger) : OfAnchor(ledger'[i]) /\ x = ledger'[i].ev.anchor) <=>
               x \in RecordedFrom(n)
    BY <1>3, <1>4, Zenon
  <2> QED BY <1>1, <1>6, <2>1
<1> QED BY <1>7

\* Nothing is behind the end, and what names no anchor may be passed over.
LEMMA RecordedSkips ==
    ASSUME ledger \in Seq(Rec), NEW from \in 0..Len(ledger), NEW to \in from..Len(ledger),
           \A i \in (from+1)..to : ~OfAnchor(ledger[i])
    PROVE  RecordedFrom(to) = RecordedFrom(from) /\ RecordedFrom(Len(ledger)) = {}
<1>1. Len(ledger) \in Nat
  OBVIOUS
<1>2. \A i : i \in from+1..Len(ledger) <=> i \in (from+1)..to \/ i \in to+1..Len(ledger)
  BY <1>1
<1>3. \A i : i \notin Len(ledger)+1..Len(ledger)
  BY <1>1
<1> QED BY <1>2, <1>3 DEF RecordedFrom

\* The index and the aggregates start alike.
LEMMA EmptyIs == Empty \in Summaries /\ \A c \in Id : Agree(Empty[c], Empty[c])
BY NoConstraintIs DEF Empty, Summaries, Agree

\* Nothing is behind at the start.
LEMMA HarnessInitInv == HarnessInit => Caught /\ Projections
<1> SUFFICES ASSUME HarnessInit PROVE Caught /\ Projections
  OBVIOUS
<1>1. /\ ledger = << >> /\ agg = Empty /\ index = Empty /\ declared = << >>
      /\ cursor = 0 /\ pending = 0 /\ jumped = FALSE
      /\ known = [p \in Proc |-> << >>] /\ anchorIndex = {}
  BY DEF HarnessInit, Empty
<1>2. ledger \in Seq(Rec) /\ Len(ledger) = 0
  BY <1>1
<1>3. Replaying(Empty, 0, ledger, agg)
  BY <1>1, <1>2, EmptyIs, ReplayOfNothing
<1>4. Caught
  <2>1. 0 \in 0..0 /\ Len(ledger) <= MaxRecords
    BY <1>2, HarnessConstants
  <2>2. agg \in Summaries /\ index \in Summaries /\ Replaying(index, cursor, ledger, agg)
    BY <1>1, <1>3, EmptyIs
  <2>3. cursor \in 0..Len(ledger) /\ pending \in 0..Len(ledger) /\ pending = 0
    BY <1>1, <1>2, <2>1
  <2>4. jumped \in BOOLEAN
    BY <1>1, Zenon
  <2>5. anchorIndex \union RecordedFrom(cursor) = RecordedFrom(0)
    BY <1>1
  <2> QED BY <1>2, <1>3, <2>1, <2>2, <2>3, <2>4, <2>5 DEF Caught
<1>5. DOMAIN declared = {}
  BY <1>1
<1>6. WellDeclared(declared) /\ Topped(DOMAIN declared)
  BY <1>5 DEF WellDeclared, Topped
<1>7. DOMAIN known = Proc /\ \A p \in Proc : DOMAIN known[p] = {}
  BY <1>1
<1>8. Projections
  BY <1>5, <1>6, <1>7 DEF Projections, WellDeclared
<1> QED BY <1>4, <1>8

\* A record that the aggregates and the index take alike keeps both.
LEMMA CaughtGrows ==
    ASSUME Caught, NEW r \in Rec, ledger' = Append(ledger, r), Len(ledger) < MaxRecords,
           agg' \in Summaries, UNCHANGED <<index, anchorIndex, cursor, jumped>>,
           \A c \in Id, s \in Con :
              Agree(s, agg[c]) => Agree(IF r.id = c THEN IndexHandle(s, r.ev) ELSE s, agg'[c]),
           pending' = pending \/ (pending' = Len(ledger) + 1 /\ ~Concerns(r))
    PROVE  Caught'
<1>1. /\ ledger \in Seq(Rec) /\ cursor \in 0..Len(ledger) /\ pending \in 0..Len(ledger)
      /\ 0 \in 0..Len(ledger) /\ Len(ledger) \in Nat
  BY DEF Caught
<1>2. /\ ledger' \in Seq(Rec) /\ Len(ledger') = Len(ledger) + 1 /\ ledger'[Len(ledger) + 1] = r
      /\ \A i \in 1..Len(ledger) : ledger'[i] = ledger[i]
  BY <1>1
<1>3. Replaying(Empty, 0, ledger', agg')
  BY <1>1, EmptyIs, ReplayGrows DEF Caught
<1>4. ~jumped => Replaying(index, cursor, ledger', agg')
  BY <1>1, ReplayGrows DEF Caught
<1>5. pending' \in 0..Len(ledger') /\ (pending' # 0 => ~Concerns(ledger'[pending']))
  <2>1. CASE pending' = pending
    <3>1. pending' \in 0..Len(ledger') /\ (pending' # 0 => pending' \in 1..Len(ledger))
      BY <1>1, <1>2, <2>1
    <3> QED BY <1>2, <2>1, <3>1 DEF Caught
  <2>2. CASE pending' = Len(ledger) + 1 /\ ~Concerns(r)
    BY <1>1, <1>2, <2>2
  <2> QED BY <2>1, <2>2
<1>6. cursor \in 0..Len(ledger') /\ Len(ledger') <= MaxRecords
  BY <1>1, <1>2, HarnessConstants
<1>7. ~jumped => anchorIndex \union RecordedFrom(cursor)' = RecordedFrom(0)'
  <2>1. \A n \in 0..Len(ledger) :
          RecordedFrom(n)' = RecordedFrom(n) \union (IF OfAnchor(r) THEN {r.ev.anchor} ELSE {})
    BY <1>1, RecordedGrows
  <2> QED BY <1>1, <2>1 DEF Caught
<1> QED BY <1>2, <1>3, <1>4, <1>5, <1>6, <1>7 DEF Caught

\* The index is brought to the end of the ledger.
LEMMA CaughtUp ==
    ASSUME Caught, NEW x \in Summaries, NEW from \in 0..Len(ledger), Replaying(x, from, ledger, agg),
           UNCHANGED <<ledger, agg>>, index' = Replayed(x, from), cursor' = Len(ledger),
           anchorIndex' = RecordedFrom(0), jumped' \in BOOLEAN, pending' \in {0, pending}
    PROVE  Caught' /\ index' \in Summaries /\ \A c \in Id : Agree(index'[c], agg[c])
<1>1. /\ index' \in Summaries /\ Replaying(index', Len(ledger), ledger, agg)
      /\ \A c \in Id : Agree(index'[c], agg[c])
  BY ReplayEnds DEF Caught
<1>2. Len(ledger) \in Nat /\ 0 \in 0..Len(ledger) /\ Len(ledger) \in Len(ledger)..Len(ledger)
  BY DEF Caught
<1>3. (RecordedFrom(cursor))' = RecordedFrom(Len(ledger)) /\ RecordedFrom(0)' = RecordedFrom(0)
  BY DEF RecordedFrom
<1>4. RecordedFrom(Len(ledger)) = {}
  BY <1>2, RecordedSkips DEF Caught
<1> QED BY <1>1, <1>2, <1>3, <1>4 DEF Caught

\* Every step keeps the index able to catch up.
LEMMA HarnessNextCaught ==
    ASSUME Caught, Projections, [HarnessNext]_harnessVars
    PROVE  Caught'
<1> USE HarnessConstants
<1>1. ASSUME NEW p \in Proc, Open(p) PROVE Caught'
  BY <1>1 DEF Open, Caught, RecordedFrom
<1>2. ASSUME NEW p \in Proc, NEW c \in Id, NEW human \in BOOLEAN, NEW m \in Commands(c),
             Run(p, c, m, human)
      PROVE  Caught'
  <2> DEFINE d == ConstraintDecide(agg[c], m, Context(p, m, human))
             r == [id |-> c, ev |-> d.evs[1]]
  <2>1. /\ Len(ledger) < MaxRecords /\ ~d.refused
        /\ ledger' = Append(ledger, r)
        /\ agg' = [agg EXCEPT ![c] = ConstraintApply(agg[c], d.evs[1])]
        /\ UNCHANGED <<index, anchorIndex, cursor, pending, jumped>>
    BY <1>2 DEF Run
  <2>2. agg[c] \in Con
    BY DEF Caught, Summaries
  <2>k. WellDeclared(known[p])
    BY DEF Projections
  <2>3. Context(p, m, human).human \in BOOLEAN /\ Context(p, m, human).cap \in Int
    BY <2>k, EffectiveCapIs DEF Context, Level, MaxLevel
  <2>4. d.evs[1] \in Ev
    BY <2>1, <2>2, <2>3, Decided
  <2>5. r \in Rec /\ r.id = c /\ r.ev = d.evs[1]
    BY <2>4 DEF Rec
  <2> HIDE DEF d, r
  <2>6. ConstraintApply(agg[c], r.ev) \in Con
    BY <2>2, <2>4, <2>5, AppliedAlike
  <2>7. /\ agg' \in Summaries
        /\ \A b \in Id : agg'[b] = IF b = c THEN ConstraintApply(agg[c], r.ev) ELSE agg[b]
    BY <2>1, <2>5, <2>6 DEF Caught, Summaries
  <2>8. ASSUME NEW b \in Id, NEW s \in Con, Agree(s, agg[b])
        PROVE  Agree(IF r.id = b THEN IndexHandle(s, r.ev) ELSE s, agg'[b])
    <3>1. CASE b = c
      BY <2>2, <2>4, <2>5, <2>7, <2>8, <3>1, AppliedAlike
    <3>2. CASE b # c
      BY <2>5, <2>7, <2>8, <3>2
    <3> QED BY <3>1, <3>2
  <2> QED BY <2>1, <2>5, <2>7, <2>8, CaughtGrows
<1>3. ASSUME NEW p \in Proc, NEW k \in Capped, NEW level \in Level, NEW cap \in Cap \union {MaxLevel},
             SetScope(p, k, level, cap)
      PROVE  Caught'
  <2> DEFINE r == [id |-> NoId, ev |-> [kind |-> "Scope"]]
  <2>1. /\ Len(ledger) < MaxRecords /\ ledger' = Append(ledger, r)
        /\ UNCHANGED <<agg, index, anchorIndex, cursor, pending, jumped>>
    BY <1>3 DEF SetScope
  <2>2. r \in Rec /\ r.id = NoId
    BY DEF Rec
  <2> HIDE DEF r
  <2>3. agg \in Summaries /\ \A b \in Id : r.id # b
    BY <2>2 DEF Caught
  <2> QED BY <2>1, <2>2, <2>3, CaughtGrows
<1>10. ASSUME NEW x \in Anchor, RecordAnchor(x) PROVE Caught'
  <2> DEFINE r == [id |-> NoId, ev |-> [kind |-> "AnchorRecorded", anchor |-> x]]
  <2>1. /\ Len(ledger) < MaxRecords /\ ledger' = Append(ledger, r)
        /\ UNCHANGED <<agg, index, anchorIndex, cursor, pending, jumped>>
    BY <1>10 DEF RecordAnchor
  <2>2. r \in Rec /\ r.id = NoId
    BY DEF Rec
  <2> HIDE DEF r
  <2>3. agg \in Summaries /\ \A b \in Id : r.id # b
    BY <2>2 DEF Caught
  <2> QED BY <2>1, <2>2, <2>3, CaughtGrows
<1>4. ASSUME NEW f \in File, PreEdit(f) PROVE Caught'
  <2>1. /\ index' = Replayed(index, cursor) /\ cursor' = Len(ledger)
        /\ anchorIndex' = anchorIndex \union RecordedFrom(cursor)
        /\ UNCHANGED <<ledger, agg, pending, jumped>>
    BY <1>4 DEF PreEdit
  <2>2. CASE jumped
    <3>1. Len(ledger) \in 0..Len(ledger)
      BY DEF Caught
    <3> QED BY <2>1, <2>2, <3>1 DEF Caught
  <2>3. CASE ~jumped
    <3>1. index \in Summaries /\ Replaying(index, cursor, ledger, agg) /\ anchorIndex' = RecordedFrom(0)
      BY <2>1, <2>3 DEF Caught
    <3>2. cursor \in 0..Len(ledger) /\ jumped' \in BOOLEAN /\ pending' \in {0, pending}
      BY <2>1 DEF Caught
    <3> QED BY <2>1, <3>1, <3>2, CaughtUp
  <2> QED BY <2>2, <2>3
<1>5. CASE Answer
  BY <1>5 DEF Answer, Caught, RecordedFrom
<1>6. CASE SessionAppend
  <2> DEFINE r == [id |-> NoId, ev |-> [kind |-> "Session"]]
  <2>1. /\ Len(ledger) < MaxRecords /\ ledger' = Append(ledger, r)
        /\ pending' = Len(ledger) + 1
        /\ UNCHANGED <<agg, index, anchorIndex, cursor, jumped>>
    BY <1>6 DEF SessionAppend
  <2>2. r \in Rec /\ r.id = NoId /\ ~Concerns(r)
    BY DEF Rec, Concerns, OfAnchor
  <2> HIDE DEF r
  <2>3. agg \in Summaries /\ \A b \in Id : r.id # b
    BY <2>2 DEF Caught
  <2> QED BY <2>1, <2>2, <2>3, CaughtGrows
<1>7. CASE SessionPublish
  <2>1. /\ pending # 0 /\ pending' = 0 /\ UNCHANGED <<ledger, agg, index, anchorIndex>>
        /\ jumped' = (jumped \/ \E i \in cursor+1..pending-1 : Concerns(ledger[i]))
        /\ cursor' = IF pending > cursor THEN pending ELSE cursor
    BY <1>7 DEF SessionPublish
  <2>2. /\ cursor \in 0..Len(ledger) /\ pending \in 0..Len(ledger) /\ Len(ledger) \in Nat
        /\ jumped' \in BOOLEAN /\ cursor' \in cursor..Len(ledger)
    BY <2>1 DEF Caught
  <2>3. ASSUME ~jumped'
        PROVE  /\ index \in Summaries /\ Replaying(index, cursor', ledger, agg)
               /\ anchorIndex \union RecordedFrom(cursor') = RecordedFrom(0)
    <3>1. ~jumped /\ \A i \in cursor+1..pending-1 : ~Concerns(ledger[i])
      BY <2>1, <2>3
    <3>2. \A i \in (cursor+1)..cursor' : ledger[i].id = NoId /\ ~OfAnchor(ledger[i])
      <4>1. \A i \in (cursor+1)..cursor' : i \in cursor+1..pending-1 \/ i = pending
        BY <2>1, <2>2
      <4> QED BY <2>1, <3>1, <4>1 DEF Caught, Concerns
    <3>3. index \in Summaries /\ Replaying(index, cursor, ledger, agg) /\ ledger \in Seq(Rec)
      BY <3>1 DEF Caught
    <3>4. Replaying(index, cursor', ledger, agg)
      BY <2>2, <3>2, <3>3, ReplaySkips
    <3>5. RecordedFrom(cursor') = RecordedFrom(cursor)
      BY <2>2, <3>2, <3>3, RecordedSkips
    <3> QED BY <3>1, <3>3, <3>4, <3>5 DEF Caught
  <2>5. (RecordedFrom(cursor))' = RecordedFrom(cursor') /\ RecordedFrom(0)' = RecordedFrom(0)
    BY <2>1 DEF RecordedFrom
  <2>4. cursor' \in 0..Len(ledger) /\ 0 \in 0..Len(ledger)
    BY <2>2
  <2> QED BY <2>1, <2>2, <2>3, <2>4, <2>5 DEF Caught
<1>8. CASE Restart
  <2>1. /\ index' = Replayed(Empty, 0) /\ cursor' = Len(ledger) /\ pending' = 0
        /\ anchorIndex' = RecordedFrom(0) /\ jumped' = FALSE /\ UNCHANGED <<ledger, agg>>
    BY <1>8 DEF Restart, Empty
  <2>2. 0 \in 0..Len(ledger) /\ Replaying(Empty, 0, ledger, agg)
    BY DEF Caught
  <2> QED BY <2>1, <2>2, EmptyIs, CaughtUp
<1>9. CASE UNCHANGED harnessVars
  BY <1>9 DEF harnessVars, Caught, RecordedFrom
<1> QED BY <1>1, <1>2, <1>3, <1>4, <1>5, <1>6, <1>7, <1>8, <1>9, <1>10 DEF HarnessNext

\* What declaring a scope does to a projection.
LEMMA Declares ==
    ASSUME NEW d, WellDeclared(d), NEW k, NEW level \in Level, NEW cap \in Level
    PROVE  /\ WellDeclared(Declare(d, k, [level |-> level, cap |-> cap]))
           /\ DOMAIN Declare(d, k, [level |-> level, cap |-> cap]) = DOMAIN d \union {k}
BY DEF Declare, WellDeclared

\* Every step keeps the declared scopes and what the processes know of them.
LEMMA HarnessNextProjections ==
    ASSUME Projections, [HarnessNext]_harnessVars
    PROVE  Projections'
<1> USE HarnessConstants
<1>1. ASSUME NEW p \in Proc, Open(p) PROVE Projections'
  <2>1. declared' = declared /\ known' = [known EXCEPT ![p] = declared]
    BY <1>1 DEF Open
  <2>2. DOMAIN known' = Proc /\ \A q \in Proc : known'[q] = IF q = p THEN declared ELSE known[q]
    BY <2>1 DEF Projections
  <2> QED BY <2>1, <2>2 DEF Projections
<1>2. ASSUME NEW p \in Proc, NEW k \in Capped, NEW level \in Level, NEW cap \in Cap \union {MaxLevel},
             SetScope(p, k, level, cap)
      PROVE  Projections'
  <2> DEFINE e == [level |-> level, cap |-> cap]
             old == Entry(declared, k)
             mine == Entry(known[p], k)
             l == IF level # old.level THEN level ELSE mine.level
             c == IF cap # old.cap THEN cap ELSE mine.cap
             seen == [level |-> l, cap |-> c]
  <2>1. /\ declared' = Declare(declared, k, e)
        /\ known' = [known EXCEPT ![p] = Declare(known[p], k, seen)]
    BY <1>2 DEF SetScope
  <2>2. cap \in Level /\ k \in Key /\ WellDeclared(declared) /\ WellDeclared(known[p])
    BY DEF Level, MaxLevel, Projections
  <2>3. mine.level \in Level /\ mine.cap \in Level
    <3>1. CASE k \in DOMAIN known[p]
      BY <2>2, <3>1 DEF Entry, WellDeclared
    <3>2. CASE k \notin DOMAIN known[p]
      BY <3>2 DEF Entry, Level, MaxLevel
    <3> QED BY <3>1, <3>2
  <2> HIDE DEF old, mine
  <2>4. l \in Level /\ c \in Level
    BY <2>2, <2>3
  <2> HIDE DEF l, c
  <2>5. WellDeclared(Declare(declared, k, e)) /\ DOMAIN Declare(declared, k, e) = DOMAIN declared \union {k}
    BY <2>2, Declares
  <2>6. WellDeclared(Declare(known[p], k, seen))
    BY <2>2, <2>4, Declares
  <2> HIDE DEF e, seen
  <2>7. Topped(DOMAIN declared')
    BY <2>1, <2>2, <2>5, ToppedGrows DEF Projections
  <2>8. DOMAIN known' = Proc /\ \A q \in Proc : WellDeclared(known'[q])
    <3>1. \A q \in Proc : known'[q] = IF q = p THEN Declare(known[p], k, seen) ELSE known[q]
      BY <2>1 DEF Projections
    <3> QED BY <2>1, <2>6, <3>1 DEF Projections
  <2>9. DOMAIN declared' \subseteq Key /\ WellDeclared(declared')
    BY <2>1, <2>2, <2>5 DEF Projections
  <2> QED BY <2>7, <2>8, <2>9 DEF Projections
<1>3. CASE UNCHANGED <<declared, known>>
  BY <1>3 DEF Projections
<1> QED BY <1>1, <1>2, <1>3
        DEF HarnessNext, Run, RecordAnchor, PreEdit, Answer, SessionAppend, SessionPublish, Restart,
            harnessVars

\* The invariants hold of every behaviour.
LEMMA HarnessInv == HarnessSpec => [](Caught /\ Projections)
<1>1. Caught /\ Projections /\ [HarnessNext]_harnessVars => (Caught /\ Projections)'
  BY HarnessNextCaught, HarnessNextProjections
<1> QED BY <1>1, HarnessInitInv, PTL DEF HarnessSpec
-----------------------------------------------------------------------------
\* A glob that ends in "**" names its directory segment by segment: the code
\* compares the directory of "dir/**" literally, so that a wildcard in it
\* matches nothing.
PlainGlobs == \A k \in Key : IsTree(k.path) => \A i \in 1..(Len(k.path) - 1) : k.path[i] \notin Wildcard

\* Path holds every path of two names or more: a scope that covers another on
\* Path covers it on every repository.
EveryPath == Seq(Name) \ {<< >>} \subseteq Path /\ \E a, b \in Name : a # b

\* The segments of a directory.
LEMMA DirIs ==
    ASSUME NEW g \in Seq(Name \union Wildcard), g # << >>
    PROVE  /\ Len(g) \in Nat /\ Len(g) > 0
           /\ Len(Dir(g)) = Len(g) - 1
           /\ \A i \in 1..(Len(g) - 1) : Dir(g)[i] = g[i]
<1>1. Len(g) \in Nat /\ Len(g) > 0
  OBVIOUS
<1>2. \A n \in 0..Len(g) : Len(SubSeq(g, 1, n)) = n /\ \A i \in 1..n : SubSeq(g, 1, n)[i] = g[i]
  OBVIOUS
<1>3. Len(g) - 1 \in 0..Len(g)
  BY <1>1
<1> QED BY <1>1, <1>2, <1>3 DEF Dir

\* A glob of another form does not end in "**".
LEMMA LastIs ==
    ASSUME NEW g \in Seq(Name \union Wildcard), g # << >>, ~IsTree(g), g # <<"**">>
    PROVE  g[Len(g)] # "**"
<1>1. Len(g) = 1 \/ Len(g) > 1
  <2>1. \A n \in Nat : n = 0 \/ n = 1 \/ n > 1
    OBVIOUS
  <2>2. Len(g) \in Nat /\ Len(g) # 0
    OBVIOUS
  <2> QED BY <2>1, <2>2, Zenon
<1>2. CASE Len(g) > 1
  BY <1>2 DEF IsTree
<1>3. CASE Len(g) = 1
  <2>1. g = <<g[1]>>
    BY <1>3
  <2> QED BY <1>3, <2>1
<1> QED BY <1>1, <1>2, <1>3

\* The files a glob is written for, without the sequences in between.
LEMMA DenotesIs ==
    ASSUME NEW g \in Seq(Name \union Wildcard), g # << >>, NEW f \in Seq(Name), f # << >>
    PROVE  Denotes(g, f) <=>
             IF g[Len(g)] = "**"
             THEN /\ Len(f) >= Len(g) - 1
                  /\ \A i \in 1..(Len(g) - 1) : g[i] \in Wildcard \/ g[i] = f[i]
             ELSE /\ Len(g) = Len(f)
                  /\ \A i \in 1..Len(g) : g[i] \in Wildcard \/ g[i] = f[i]
<1>1. CASE g[Len(g)] # "**"
  BY <1>1 DEF Denotes, PathMatch
<1>2. CASE g[Len(g)] = "**" /\ ~(Len(f) >= Len(g) - 1)
  BY <1>2 DEF Denotes
<1>3. CASE g[Len(g)] = "**" /\ Len(f) >= Len(g) - 1
  <2> DEFINE m == Len(g) - 1
             h == SubSeq(f, 1, m)
  <2>1. m \in Nat /\ Len(Dir(g)) = m /\ \A i \in 1..m : Dir(g)[i] = g[i]
    BY DirIs
  <2>2. Len(h) = m /\ \A i \in 1..m : h[i] = f[i]
    BY <1>3, <2>1
  <2>3. Denotes(g, f) <=> PathMatch(Dir(g), h)
    BY <1>3 DEF Denotes
  <2> HIDE DEF h
  <2>4. PathMatch(Dir(g), h) <=> \A i \in 1..m : g[i] \in Wildcard \/ g[i] = f[i]
    BY <2>1, <2>2 DEF PathMatch
  <2> QED BY <1>3, <2>3, <2>4
<1> QED BY <1>1, <1>2, <1>3

\* A tree of a plain directory holds what begins with its segments.
LEMMA TreeIs ==
    ASSUME NEW g \in Seq(Name \union Wildcard), IsTree(g), NEW p \in Seq(Name \union Wildcard)
    PROVE  GlobMatch(g, p) <=> Len(p) >= Len(g) - 1 /\ \A i \in 1..(Len(g) - 1) : p[i] = g[i]
<1>1. g # << >> /\ (GlobMatch(g, p) <=> HasPrefix(p, Dir(g)))
  BY DEF GlobMatch, IsTree
<1> QED BY <1>1, DirIs DEF HasPrefix

\* Contains takes a file for one of a scope exactly when the scope's glob is
\* written for it.
LEMMA ContainsAFile ==
    ASSUME PlainGlobs, NEW k \in Key, NEW f \in File
    PROVE  Contains(k, FileKey(f)) <=> Covers(k, FileKey(f), {f})
<1> DEFINE g == k.path
           t == FileKey(f)
<1>1. f \in Seq(Name) /\ f # << >> /\ f \in Seq(Name \union Wildcard)
  BY HarnessConstants
<1>2. t.path = f
  BY DEF FileKey, Global
<1>3. g \in Seq(Name \union Wildcard)
  BY HarnessConstants DEF ScopeKey
<1>4. f[Len(f)] # "**" /\ \A i \in 1..Len(f) : f[i] \in Name
  BY <1>1, NamesAreLiteral DEF Wildcard
<1>5. Denotes(f, f)
  BY <1>1, <1>4, DenotesIs
<1>6. ASSUME g # << >>
      PROVE  Denotes(g, f) <=> g = f \/ GlobMatch(g, f)
  <2>1. CASE IsTree(g)
    <3>1. g[Len(g)] = "**" /\ g # f
      BY <1>4, <2>1 DEF IsTree
    <3>2. \A i \in 1..(Len(g) - 1) : g[i] \notin Wildcard
      BY <2>1 DEF PlainGlobs
    <3>3. Denotes(g, f) <=> /\ Len(f) >= Len(g) - 1
                            /\ \A i \in 1..(Len(g) - 1) : g[i] = f[i]
      BY <1>1, <1>3, <1>6, <3>1, <3>2, DenotesIs
    <3>4. GlobMatch(g, f) <=> /\ Len(f) >= Len(g) - 1
                              /\ \A i \in 1..(Len(g) - 1) : f[i] = g[i]
      BY <1>1, <1>3, <2>1, TreeIs
    <3> HIDE DEF g
    <3>5. (\A i \in 1..(Len(g) - 1) : g[i] = f[i]) <=> (\A i \in 1..(Len(g) - 1) : f[i] = g[i])
      OBVIOUS
    <3> QED BY <3>1, <3>3, <3>4, <3>5
  <2>2. CASE g = <<"**">>
    <3>1. Len(g) = 1 /\ g[Len(g)] = "**" /\ Len(f) \in Nat
      BY <1>1, <2>2
    <3> HIDE DEF g
    <3>2. Len(f) >= Len(g) - 1 /\ \A i \in 1..(Len(g) - 1) : FALSE
      BY <3>1
    <3>3. Denotes(g, f)
      BY <1>1, <1>3, <1>6, <3>1, <3>2, DenotesIs
    <3> QED BY <2>2, <3>1, <3>3 DEF GlobMatch, IsTree
  <2>3. CASE ~IsTree(g) /\ g # <<"**">>
    <3>1. g[Len(g)] # "**"
      BY <1>3, <1>6, <2>3, LastIs
    <3>2. Denotes(g, f) <=> PathMatch(g, f)
      BY <3>1 DEF Denotes
    <3>3. GlobMatch(g, f) <=> PathMatch(g, f)
      BY <2>3 DEF GlobMatch
    <3>4. PathMatch(f, f)
      BY <1>1 DEF PathMatch
    <3> QED BY <3>2, <3>3, <3>4
  <2> QED BY <2>1, <2>2, <2>3
<1>7. Contains(k, t) <=> /\ \A a \in LiteralAxis : k[a] = Unset \/ k[a] = t[a]
                         /\ g = << >> \/ g = f \/ GlobMatch(g, f)
  BY <1>1, <1>2 DEF Contains
<1>8. Covers(k, t, {f}) <=> /\ \A a \in LiteralAxis : k[a] = Unset \/ k[a] = t[a]
                            /\ g = << >> \/ Denotes(g, f)
  BY <1>1, <1>2, <1>5 DEF Covers
<1> QED BY <1>6, <1>7, <1>8

\* A file that a glob is written for: its names, and u for its wildcards.
Inst(h, u) == [i \in 1..Len(h) |-> IF h[i] \in Name THEN h[i] ELSE u]

\* That file is one of the glob's.
LEMMA InstIs ==
    ASSUME NEW h \in Seq(Name \union Wildcard), h # << >>, NEW u \in Name
    PROVE  /\ Inst(h, u) \in Seq(Name) \ {<< >>} /\ Len(Inst(h, u)) = Len(h)
           /\ \A i \in 1..Len(h) : Inst(h, u)[i] = IF h[i] \in Name THEN h[i] ELSE u
           /\ Denotes(h, Inst(h, u))
<1> DEFINE f == Inst(h, u)
<1>1. Len(h) \in Nat /\ Len(h) > 0
  OBVIOUS
<1>2. /\ f \in [1..Len(h) -> Name]
      /\ \A i \in 1..Len(h) : f[i] = IF h[i] \in Name THEN h[i] ELSE u
  BY DEF Inst
<1>3. f = [i \in 1..Len(h) |-> IF h[i] \in Name THEN h[i] ELSE u]
  BY DEF Inst
<1>4. f \in Seq(Name) /\ Len(f) = Len(h) /\ f # << >>
  BY <1>1, <1>3
<1> HIDE DEF f
<1>5. \A i \in 1..Len(h) : h[i] \in Wildcard \/ h[i] = f[i]
  BY <1>2
<1>6. Denotes(h, f)
  BY <1>1, <1>4, <1>5, DenotesIs
<1> QED BY <1>2, <1>4, <1>6 DEF f

\* A glob that is written for every file of another one matches it.
LEMMA CoveredMatches ==
    ASSUME EveryPath, NEW g \in Seq(Name \union Wildcard), g # << >>,
           NEW h \in Seq(Name \union Wildcard), h # << >>,
           IsTree(g) => \A i \in 1..(Len(g) - 1) : g[i] \notin Wildcard,
           \A f \in Path : Denotes(h, f) => Denotes(g, f)
    PROVE  GlobMatch(g, h)
<1>1. PICK a, b \in Name : a # b
  BY DEF EveryPath
<1>2. ASSUME NEW u \in Name
      PROVE  Denotes(g, Inst(h, u))
  BY InstIs DEF EveryPath
<1> DEFINE fa == Inst(h, a)
           fb == Inst(h, b)
<1>3. /\ Denotes(g, fa) /\ fa \in Seq(Name) /\ fa # << >> /\ Len(fa) = Len(h)
      /\ Denotes(g, fb) /\ fb \in Seq(Name) /\ fb # << >> /\ Len(fb) = Len(h)
  BY <1>2, InstIs
<1>4. \A i \in 1..Len(h) : /\ fa[i] = IF h[i] \in Name THEN h[i] ELSE a
                           /\ fb[i] = IF h[i] \in Name THEN h[i] ELSE b
  BY InstIs
<1> HIDE DEF fa, fb
<1>5. \A i \in 1..Len(h) : g[i] = fa[i] /\ g[i] = fb[i] => g[i] = h[i]
  BY <1>1, <1>4
<1>6. Len(g) \in Nat /\ Len(g) > 0 /\ Len(h) \in Nat /\ Len(h) > 0
  OBVIOUS
<1>7. CASE IsTree(g)
  <2>1. g[Len(g)] = "**"
    BY <1>7 DEF IsTree
  <2>2. Len(h) >= Len(g) - 1 /\ \A i \in 1..(Len(g) - 1) : g[i] = fa[i] /\ g[i] = fb[i]
    <3>1. Len(fa) >= Len(g) - 1 /\ \A i \in 1..(Len(g) - 1) : g[i] \in Wildcard \/ g[i] = fa[i]
      BY <1>3, <2>1, DenotesIs
    <3>2. \A i \in 1..(Len(g) - 1) : g[i] \in Wildcard \/ g[i] = fb[i]
      BY <1>3, <2>1, DenotesIs
    <3>3. \A i \in 1..(Len(g) - 1) : g[i] \notin Wildcard
      BY <1>7
    <3>4. Len(h) >= Len(g) - 1
      BY <1>3, <3>1
    <3> QED BY <3>1, <3>2, <3>3, <3>4, Zenon
  <2>3. \A i \in 1..(Len(g) - 1) : i \in 1..Len(h)
    BY <1>6, <2>2
  <2>4. \A i \in 1..(Len(g) - 1) : h[i] = g[i]
    BY <1>5, <2>2, <2>3
  <2> QED BY <1>7, <2>2, <2>4, TreeIs
<1>8. CASE g = <<"**">>
  BY <1>8 DEF GlobMatch, IsTree
<1>9. CASE ~IsTree(g) /\ g # <<"**">>
  <2>1. g[Len(g)] # "**"
    BY <1>9, LastIs
  <2>2. Len(g) = Len(h) /\ \A i \in 1..Len(g) : g[i] \in Wildcard \/ (g[i] = fa[i] /\ g[i] = fb[i])
    <3>1. Len(g) = Len(fa) /\ \A i \in 1..Len(g) : g[i] \in Wildcard \/ g[i] = fa[i]
      BY <1>3, <2>1, DenotesIs
    <3>2. \A i \in 1..Len(g) : g[i] \in Wildcard \/ g[i] = fb[i]
      BY <1>3, <2>1, DenotesIs
    <3> QED BY <1>3, <3>1, <3>2, Zenon
  <2>3. PathMatch(g, h)
    BY <1>5, <2>2 DEF PathMatch
  <2> QED BY <1>9, <2>3 DEF GlobMatch
<1> QED BY <1>7, <1>8, <1>9

\* A scope that speaks of all files of another one contains it.
LEMMA CoversContains ==
    ASSUME PlainGlobs, EveryPath, NEW k \in Key, NEW t, t.path \in Seq(Name \union Wildcard),
           Covers(k, t, Path)
    PROVE  Contains(k, t)
<1> DEFINE g == k.path
           h == t.path
<1>1. g \in Seq(Name \union Wildcard)
  BY HarnessConstants DEF ScopeKey
<1>2. \A a \in LiteralAxis : k[a] = Unset \/ k[a] = t[a]
  BY DEF Covers
<1>3. g = << >> \/ (h # << >> /\ \A f \in Path : Denotes(h, f) => Denotes(g, f))
  BY DEF Covers
<1>4. IsTree(g) => \A i \in 1..(Len(g) - 1) : g[i] \notin Wildcard
  BY DEF PlainGlobs
<1>5. g = << >> \/ (h # << >> /\ GlobMatch(g, h))
  <2> HIDE DEF g, h
  <2> QED BY <1>1, <1>3, <1>4, CoveredMatches DEF h
<1> QED BY <1>2, <1>5 DEF Contains

\* What the variables hold: the statement of HarnessTypeOK.
THEOREM HarnessTypes == HarnessSpec => []HarnessTypeOK
<1>1. Caught /\ Projections => HarnessTypeOK
  <2> SUFFICES ASSUME Caught, Projections PROVE HarnessTypeOK
    OBVIOUS
  <2>1. /\ Len(ledger) \in 0..MaxRecords /\ cursor \in 0..Len(ledger)
        /\ pending \in 0..Len(ledger)
    BY HarnessConstants DEF Caught
  <2>2. \A c \in Id : agg[c] \in Con
    BY DEF Caught, Summaries
  <2>3. \A c \in Id : /\ agg[c].state \in {"none", "generated", "verified", "retired"}
                      /\ agg[c].scope \in Key
    BY <2>2 DEF Con
  <2> QED BY <2>1, <2>3 DEF HarnessTypeOK, Projections, WellDeclared
<1> QED BY <1>1, HarnessInv, PTL

\* An index that agrees with the aggregates, and the recorded anchors, stop the
\* edits that are denied.
LEMMA BlockedIsDenied ==
    ASSUME PlainGlobs, NEW f \in File, NEW x \in Summaries, NEW R,
           \A c \in Id : Agree(x[c], agg[c]), R = RecordedFrom(0)
    PROVE  (\E c \in Id : Blocks(x[c], FileKey(f), R)) <=> Denied(f)
<1>1. FileKey(f).path = f /\ FileAnchor(f).path = f
  BY DEF FileKey, Global, FileAnchor
<1>2. ASSUME NEW c \in Id
      PROVE  Blocks(x[c], FileKey(f), R) <=>
               /\ agg[c].state = "verified" /\ agg[c].kind = "autonomy" /\ agg[c].deny
               /\ \/ Covers(agg[c].scope, FileKey(f), {f})
                  \/ FileAnchor(f) \in agg[c].anchors
                  \/ \E a \in agg[c].anchors : a.path = f /\ a \in R
  <2>1. x[c] \in Con /\ Agree(x[c], agg[c])
    BY DEF Summaries
  <2>2. PICK s : s = x[c]
    OBVIOUS
  <2>3. s.state # "review" /\ s.scope \in Key
    BY <2>1, <2>2 DEF Con
  <2>4. Contains(s.scope, FileKey(f)) <=> Covers(s.scope, FileKey(f), {f})
    BY <2>3, ContainsAFile
  <2>5. s.state = "verified" =>
          (AppliesTo(s, FileKey(f), R) <=>
             \/ Contains(s.scope, FileKey(f))
             \/ FileAnchor(f) \in s.anchors
             \/ \E a \in s.anchors : a.path = f /\ a \in R)
    <3> SUFFICES ASSUME s.state = "verified"
                 PROVE  AppliesTo(s, FileKey(f), R) <=>
                          \/ Contains(s.scope, FileKey(f))
                          \/ FileAnchor(f) \in s.anchors
                          \/ \E a \in s.anchors : a.path = f /\ a \in R
      OBVIOUS
    <3>1. InForce(s, FileKey(f)) <=> Contains(s.scope, FileKey(f))
      BY DEF InForce
    <3>2. BoundTo(s, FileAnchor(f)) <=> FileAnchor(f) \in s.anchors
      BY <1>1 DEF BoundTo
    <3>3. \A a : a.path = f => (BoundTo(s, a) <=> a \in s.anchors \/ FileAnchor(f) \in s.anchors)
      BY DEF BoundTo
    <3> QED BY <1>1, <3>1, <3>2, <3>3 DEF AppliesTo
  <2>6. Blocks(s, FileKey(f), R) <=>
          s.state = "verified" /\ s.kind = "autonomy" /\ s.deny /\ AppliesTo(s, FileKey(f), R)
    BY <2>3 DEF Blocks, AppliesTo
  <2>7. /\ s.state = agg[c].state /\ s.kind = agg[c].kind /\ s.scope = agg[c].scope
        /\ s.anchors = agg[c].anchors /\ s.deny = agg[c].deny
    BY <2>1, <2>2 DEF Agree
  <2> QED BY <2>2, <2>4, <2>5, <2>6, <2>7, Zenon
<1> QED BY <1>2 DEF Denied

\* An edit is blocked exactly when a deny constraint verified by the time the
\* daemon caught up speaks of the file, of its scope or of a recorded anchor in
\* it: the statement of AnswerIsCurrent, for scopes whose trees have plain
\* directories.
THEOREM HarnessAnswerIsCurrent == PlainGlobs => (HarnessSpec => []AnswerIsCurrent)
<1> SUFFICES ASSUME PlainGlobs PROVE HarnessSpec => []AnswerIsCurrent
  OBVIOUS
<1>1. HarnessInit => AnswerIsCurrent
  BY DEF HarnessInit, AnswerIsCurrent
<1>2. Caught /\ AnswerIsCurrent /\ [HarnessNext]_harnessVars => AnswerIsCurrent'
  <2> SUFFICES ASSUME Caught, AnswerIsCurrent, [HarnessNext]_harnessVars
               PROVE  AnswerIsCurrent'
    OBVIOUS
  <2>1. ASSUME NEW f \in File, PreEdit(f) PROVE AnswerIsCurrent'
    <3> SUFFICES ASSUME ~jumped' PROVE Blocked(edit.file)' = edit'.due
      BY DEF AnswerIsCurrent
    <3>1. /\ index' = Replayed(index, cursor) /\ cursor' = Len(ledger)
          /\ anchorIndex' = anchorIndex \union RecordedFrom(cursor)
          /\ UNCHANGED <<ledger, agg, pending, jumped>>
          /\ edit' = [file |-> f, due |-> Denied(f)]
      BY <2>1 DEF PreEdit
    <3>2. /\ index \in Summaries /\ Replaying(index, cursor, ledger, agg)
          /\ jumped \in BOOLEAN /\ cursor \in 0..Len(ledger) /\ agg \in Summaries
          /\ anchorIndex' = RecordedFrom(0)
      BY <3>1 DEF Caught
    <3>3. index' \in Summaries /\ \A c \in Id : Agree(index'[c], agg[c])
      BY <3>1, <3>2, CaughtUp
    <3>4. Blocked(f)' = Denied(f)
      <4>1. (\E c \in Id : Blocks(index'[c], FileKey(f), anchorIndex')) <=> Denied(f)
        BY <3>2, <3>3, BlockedIsDenied
      <4>2. Blocked(f)' \in BOOLEAN /\ Denied(f) \in BOOLEAN
        BY DEF Blocked, Denied
      <4>3. Blocked(f)' <=> \E c \in Id : Blocks(index'[c], FileKey(f), anchorIndex')
        BY DEF Blocked
      <4>4. Blocked(f)' <=> Denied(f)
        BY <4>1, <4>3
      <4>5. \A x, y \in BOOLEAN : (x <=> y) => x = y
        BY Zenon
      <4> QED BY <4>2, <4>4, <4>5
    <3>5. PICK dd : dd = Denied(f)
      OBVIOUS
    <3>6. edit'.file = f /\ edit'.due = dd
      BY <3>1, <3>5
    <3> QED BY <3>4, <3>5, <3>6, Zenon DEF Blocked
  <2>2. CASE edit' = NoEdit
    BY <2>2 DEF AnswerIsCurrent
  <2>3. CASE UNCHANGED <<index, anchorIndex, edit>> /\ (jumped => jumped')
    BY <2>3 DEF AnswerIsCurrent, Blocked
  <2>4. CASE SessionPublish
    <3>1. jumped => jumped'
      BY <2>4 DEF SessionPublish
    <3> QED BY <2>3, <2>4, <3>1 DEF SessionPublish
  <2>5. CASE UNCHANGED <<index, anchorIndex, edit, jumped>>
    BY <2>3, <2>5
  <2>6. ASSUME NEW p \in Proc,
               \/ Open(p)
               \/ \E c \in Id, human \in BOOLEAN : \E m \in Commands(c) : Run(p, c, m, human)
               \/ \E k \in Capped, level \in Level, cap \in Cap \union {MaxLevel} :
                    SetScope(p, k, level, cap)
        PROVE  UNCHANGED <<index, anchorIndex, edit, jumped>>
    BY <2>6 DEF Open, Run, SetScope
  <2>7. ASSUME NEW x \in Anchor, RecordAnchor(x) PROVE UNCHANGED <<index, anchorIndex, edit, jumped>>
    BY <2>7 DEF RecordAnchor
  <2>8. CASE Answer \/ Restart
    BY <2>2, <2>8 DEF Answer, Restart
  <2>9. CASE SessionAppend \/ UNCHANGED harnessVars
    BY <2>5, <2>9 DEF SessionAppend, harnessVars
  <2> QED BY <2>1, <2>4, <2>5, <2>6, <2>7, <2>8, <2>9 DEF HarnessNext
<1> QED BY <1>1, <1>2, HarnessInv, PTL DEF HarnessSpec

\* No target gets a cap or a level above the cap of a scope that speaks of all
\* its files: the statement of CapsBindNarrower, when Path holds every path.
THEOREM HarnessCapsBindNarrower ==
    PlainGlobs /\ EveryPath => (HarnessSpec => []CapsBindNarrower)
<1> SUFFICES ASSUME PlainGlobs, EveryPath PROVE HarnessSpec => []CapsBindNarrower
  OBVIOUS
<1>1. Projections => CapsBindNarrower
  <2> SUFFICES ASSUME Projections, NEW k \in DOMAIN declared,
                      NEW t \in Key \union {FileKey(f) : f \in File}, Covers(k, t, Path)
               PROVE  /\ EffectiveCap(declared, t, MaxLevel) <= declared[k].cap
                      /\ EffectiveLevel(declared, t, MaxLevel) <= declared[k].cap
    BY DEF CapsBindNarrower
  <2>1. t.path \in Seq(Name \union Wildcard)
    <3>1. CASE t \in Key
      BY <3>1, HarnessConstants DEF ScopeKey
    <3>2. ASSUME NEW f \in File, t = FileKey(f) PROVE t.path \in Seq(Name \union Wildcard)
      <4>1. t.path = f
        BY <3>2 DEF FileKey, Global
      <4> QED BY <4>1, HarnessConstants
    <3> QED BY <3>1, <3>2
  <2>2. Contains(k, t)
    BY <2>1, CoversContains DEF Projections
  <2>3. /\ EffectiveCap(declared, t, MaxLevel) <= declared[k].cap
        /\ EffectiveCap(declared, t, MaxLevel) \in Level
    BY <2>2, EffectiveCapIs DEF Projections
  <2>4. /\ EffectiveLevel(declared, t, MaxLevel) <= EffectiveCap(declared, t, MaxLevel)
        /\ EffectiveLevel(declared, t, MaxLevel) \in Int
    BY EffectiveLevelIs DEF Projections
  <2>5. declared[k].cap \in Level
    BY DEF Projections, WellDeclared
  <2> QED BY <2>3, <2>4, <2>5 DEF Level, MaxLevel
<1> QED BY <1>1, HarnessInv, PTL

\* No process drafts autonomy above the cap of a scope around it whose current
\* cap it knows, whatever else it or others have missed: the statement of
\* DraftsWithinCap.
THEOREM HarnessDraftsWithinCap ==
    PlainGlobs /\ EveryPath => (HarnessSpec => DraftsWithinCap)
<1> SUFFICES ASSUME PlainGlobs, EveryPath PROVE HarnessSpec => DraftsWithinCap
  OBVIOUS
<1>1. ASSUME Caught, Projections, NEW p \in Proc, NEW c \in Id, Drafts(p, c),
             NEW k \in DOMAIN declared, Covers(k, agg'[c].scope, Path), Knows(p, k)
      PROVE  agg'[c].level <= declared[k].cap
  <2>3. PICK m \in Draft, human \in BOOLEAN : m.kind = "autonomy" /\ Run(p, c, m, human)
    BY <1>1 DEF Drafts
  <2>1. m \in Commands(c) /\ agg[c].state = "none"
    BY <1>1 DEF Commands, Drafts
  <2> DEFINE ctx == Context(p, m, human)
             d == ConstraintDecide(agg[c], m, ctx)
  <2>4. ~d.refused /\ agg' = [agg EXCEPT ![c] = ConstraintApply(agg[c], d.evs[1])]
    BY <2>3 DEF Run
  <2>5. agg \in Summaries /\ agg[c] \in Con
    BY <1>1 DEF Caught, Summaries
  <2>7. WellDeclared(known[p])
    BY <1>1 DEF Projections
  <2>8. ctx.human \in BOOLEAN /\ ctx.cap \in Int
    BY <2>7, EffectiveCapIs DEF Context, Level, MaxLevel
  <2> HIDE DEF d, ctx
  <2>9. /\ d.evs[1] \in DraftedEv
        /\ d.evs[1].of = m.kind /\ d.evs[1].level = m.level /\ d.evs[1].scope = m.scope
        /\ m.kind = "autonomy" => m.level <= ctx.cap
    BY <2>1, <2>4, <2>5, <2>8, Decided DEF d
  <2>10. PICK e \in DraftedEv : e = d.evs[1]
    BY <2>9
  <2>11. agg'[c] = ConstraintApply(agg[c], e)
    BY <2>4, <2>5, <2>10 DEF Summaries
  <2>12. agg'[c] = [NoConstraint EXCEPT !.state = "generated", !.kind = e.of,
                      !.scope = e.scope, !.level = e.level, !.deny = e.deny,
                      !.origin = e.origin, !.anchors = e.anchors]
    BY <2>11 DEF ConstraintApply, DraftedEv
  <2>13. agg'[c].scope = e.scope /\ agg'[c].level = e.level
    BY <2>12 DEF NoConstraint
  <2>14. /\ agg'[c].scope = m.scope /\ agg'[c].level = m.level /\ m.level <= ctx.cap
         /\ m.level \in Int /\ m.scope \in Key /\ m.cmd = "Draft"
    BY <2>3, <2>9, <2>10, <2>13, HarnessConstants
  <2>15. ctx.cap = EffectiveCap(known[p], m.scope, MaxLevel)
    BY <2>14 DEF ctx, Context
  <2>16. Contains(k, m.scope)
    <3>1. m.scope.path \in Seq(Name \union Wildcard) /\ k \in Key
      BY <1>1, <2>14, HarnessConstants DEF ScopeKey, Projections
    <3> QED BY <1>1, <2>14, <3>1, CoversContains
  <2>17. k \in DOMAIN known[p] /\ known[p][k].cap = declared[k].cap
    BY <1>1 DEF Knows
  <2>18. ctx.cap <= declared[k].cap /\ declared[k].cap \in Level
    BY <2>7, <2>15, <2>16, <2>17, EffectiveCapIs DEF WellDeclared
  <2> QED BY <2>8, <2>14, <2>18 DEF Level, MaxLevel
<1>2. Caught /\ Projections /\ [HarnessNext]_harnessVars =>
        [\A p \in Proc, c \in Id : Drafts(p, c) =>
           \A k \in DOMAIN declared : Covers(k, agg'[c].scope, Path) /\ Knows(p, k) =>
             agg'[c].level <= declared[k].cap]_harnessVars
  BY <1>1
<1> QED BY <1>2, HarnessInv, PTL DEF HarnessSpec, DraftsWithinCap
=============================================================================
