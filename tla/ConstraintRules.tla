-------------------------- MODULE ConstraintRules ---------------------------
(***************************************************************************)
(* The Constraint aggregate (internal/core/harness/constraint.go) and its  *)
(* projection (ConstraintIndex, internal/app/projection.go) as operators.  *)
(*                                                                         *)
(* Kinds other than autonomy behave alike ("rule"); of the body and of     *)
(* Checkable only the deny-edit marker matters; an anchor is a symbol of a *)
(* file, or the file; origin tells whether there are source judgments.  A  *)
(* command with wellFormed = FALSE misses an id, a body, a reason, an      *)
(* explanation, or has an anchor that does not parse.                      *)
(***************************************************************************)
EXTENDS ScopeLattice, ScopeRules

CONSTANT NoId     \* the zero id

NoConstraint ==
    [state |-> "none", kind |-> "rule", scope |-> Global, level |-> 0, deny |-> FALSE,
     origin |-> FALSE, anchors |-> {}, successor |-> NoId]

DraftDecide(c, m, ctx) ==
    IF \/ c.state # "none"
       \/ ~m.wellFormed
       \/ ~Validate(m.scope)
       \/ ~m.authored /\ ~m.origin
       \/ m.kind = "autonomy" /\ (m.level \notin Level \/ m.level > ctx.cap)
    THEN Reject
    ELSE Emit(<<[kind |-> "Drafted", of |-> m.kind, scope |-> m.scope, level |-> m.level,
                 deny |-> m.deny, origin |-> m.origin, anchors |-> m.anchors]>>)

RebindDecide(c, m) ==
    IF c.state \in {"none", "retired"} \/ ~m.wellFormed
    THEN Reject
    ELSE Emit(<<[kind |-> "Rebound", anchors |-> m.anchors]>>)

VerifyDecide(c, ctx) ==
    IF ctx.human /\ c.state \in {"generated", "review", "stale"}
    THEN Emit(<<[kind |-> "Verified", human |-> ctx.human]>>)
    ELSE Reject

\* PromoteConstraint names no target scope (it is not core.Scoped), so
\* ctx.cap is the cap of the global scope.
PromoteDecide(c, m, ctx) ==
    IF \/ c.state # "verified"
       \/ ~ctx.human
       \/ ~Validate(m.scope)
       \/ ~Contains(m.scope, c.scope) \/ m.scope = c.scope
       \/ ~c.origin /\ ~m.origin
       \/ ~m.wellFormed
       \/ c.kind = "autonomy" /\ c.level > ctx.cap
    THEN Reject
    ELSE Emit(<<[kind |-> "Promoted", scope |-> m.scope]>>)

DemoteDecide(c, m) ==
    IF \/ c.state \in {"none", "retired"}
       \/ ~Validate(m.scope)
       \/ ~Contains(c.scope, m.scope) \/ m.scope = c.scope
       \/ ~m.wellFormed
    THEN Reject
    ELSE Emit(<<[kind |-> "Demoted", scope |-> m.scope]>>)

SupersedeDecide(c, m) ==
    IF c.state \in {"none", "retired"} \/ m.by = NoId \/ m.by = m.id
    THEN Reject
    ELSE Emit(<<[kind |-> "Superseded", by |-> m.by]>>)

RetireDecide(c) ==
    IF c.state \in {"none", "retired"} THEN Reject ELSE Emit(<<[kind |-> "Retired"]>>)

ConstraintDecide(c, m, ctx) ==
    CASE m.cmd = "Draft"     -> DraftDecide(c, m, ctx)
      [] m.cmd = "Verify"    -> VerifyDecide(c, ctx)
      [] m.cmd = "Promote"   -> PromoteDecide(c, m, ctx)
      [] m.cmd = "Demote"    -> DemoteDecide(c, m)
      [] m.cmd = "Supersede" -> SupersedeDecide(c, m)
      [] m.cmd = "Retire"    -> RetireDecide(c)
      [] m.cmd = "Rebind"    -> RebindDecide(c, m)

ConstraintApply(c, e) ==
    CASE e.kind = "Drafted"    -> [NoConstraint EXCEPT !.state = "generated", !.kind = e.of,
                                     !.scope = e.scope, !.level = e.level, !.deny = e.deny,
                                     !.origin = e.origin, !.anchors = e.anchors]
      [] e.kind = "Rebound"    -> [c EXCEPT !.anchors = e.anchors]
      [] e.kind = "Verified"   -> [c EXCEPT !.state = "verified"]
      [] e.kind = "Promoted"   -> [c EXCEPT !.scope = e.scope, !.origin = TRUE]
      [] e.kind = "Demoted"    -> [c EXCEPT !.scope = e.scope]
      [] e.kind = "Superseded" -> [c EXCEPT !.state = "retired", !.successor = e.by]
      [] e.kind = "Retired"    -> [c EXCEPT !.state = "retired"]

\* Mutant of IndexHandle: a superseded constraint stays as it was.
IndexKeepsSuperseded(s, e) ==
    IF e.kind = "Superseded" THEN [s EXCEPT !.successor = e.by] ELSE ConstraintApply(s, e)

\* ConstraintIndex.Handle: written apart from Apply, and without the origin.
\* An event of an unknown constraint starts from the zero summary.
IndexHandle(s, e) ==
    CASE e.kind = "Drafted"    -> [NoConstraint EXCEPT !.state = "generated", !.kind = e.of,
                                     !.scope = e.scope, !.level = e.level, !.deny = e.deny,
                                     !.anchors = e.anchors]
      [] e.kind = "Rebound"    -> [s EXCEPT !.anchors = e.anchors]
      [] e.kind = "Verified"   -> [s EXCEPT !.state = "verified"]
      [] e.kind \in {"Promoted", "Demoted"} -> [s EXCEPT !.scope = e.scope]
      [] e.kind = "Superseded" -> [s EXCEPT !.state = "retired", !.successor = e.by]
      [] e.kind = "Retired"    -> [s EXCEPT !.state = "retired"]

\* InForce: constraints for the scope of a target.
InForce(s, t) == s.state \in {"verified", "review"} /\ Contains(s.scope, t)

\* BoundTo: constraints bound to an anchor, or to the file it lies in.
FileAnchor(f) == [path |-> f, symbol |-> "none"]
BoundTo(s, a) == s.state # "retired" /\ (a \in s.anchors \/ FileAnchor(a.path) \in s.anchors)

\* factsFor: what applies to a file is what is bound to one of its recorded
\* anchors or to the file itself, or in force for its scope, and verified.
AppliesTo(s, t, recorded) ==
    /\ s.state \in {"verified", "review"}
    /\ \/ \E a \in recorded : a.path = t.path /\ BoundTo(s, a)
       \/ BoundTo(s, FileAnchor(t.path))
       \/ InForce(s, t)

\* Compose: only an autonomy constraint with the deny-edit marker blocks an agent.
Blocks(s, t, recorded) == AppliesTo(s, t, recorded) /\ s.kind = "autonomy" /\ s.deny
=============================================================================
