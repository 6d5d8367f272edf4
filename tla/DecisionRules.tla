---------------------------- MODULE DecisionRules ---------------------------
(***************************************************************************)
(* The Decision aggregate (internal/core/harness/decision.go) as operators.*)
(* Title and body are one text; a command is well-formed when both are     *)
(* there, the scope is valid and the anchors parse.                        *)
(***************************************************************************)
EXTENDS ScopeRules

CONSTANT NoText

NoDecision == [state |-> "none", text |-> NoText, successor |-> 0]

DecisionDecide(d, m, ctx) ==
    LET live == d.state \in {"generated", "verified"} IN
    CASE m.cmd = "Draft"     -> IF d.state = "none" /\ m.wellFormed
                                THEN Emit(<<[kind |-> "Drafted", text |-> m.text]>>) ELSE Reject
      [] m.cmd = "Verify"    -> IF ctx.human /\ d.state = "generated"
                                THEN Emit(<<[kind |-> "Verified"]>>) ELSE Reject
      [] m.cmd = "Revise"    -> CASE ~live -> Reject
                                  [] live /\ m.text = d.text -> Emit(<< >>)
                                  [] live /\ m.text # d.text ->
                                       IF m.wellFormed THEN Emit(<<[kind |-> "Revised", text |-> m.text]>>)
                                       ELSE Reject
      [] m.cmd = "Supersede" -> IF live /\ m.by \notin {0, m.id}
                                THEN Emit(<<[kind |-> "Superseded", by |-> m.by]>>) ELSE Reject
      [] m.cmd = "Retire"    -> IF live THEN Emit(<<[kind |-> "Retired"]>>) ELSE Reject

\* A revised text is to be verified again.
DecisionApply(d, e) ==
    CASE e.kind = "Drafted"    -> [NoDecision EXCEPT !.state = "generated", !.text = e.text]
      [] e.kind = "Verified"   -> [d EXCEPT !.state = "verified"]
      [] e.kind = "Revised"    -> [d EXCEPT !.state = "generated", !.text = e.text]
      [] e.kind = "Superseded" -> [d EXCEPT !.state = "retired", !.successor = e.by]
      [] e.kind = "Retired"    -> [d EXCEPT !.state = "retired"]
=============================================================================
