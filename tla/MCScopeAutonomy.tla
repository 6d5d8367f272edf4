-------------------------- MODULE MCScopeAutonomy ---------------------------
(* Instances of ScopeAutonomy for TLC. *)
EXTENDS ScopeAutonomy, TLC

\* Handlers are interchangeable.
Symmetry == Permutations(Handler)
=============================================================================
