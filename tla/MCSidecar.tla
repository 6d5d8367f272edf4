------------------------------ MODULE MCSidecar -----------------------------
(* Instance of Sidecar for TLC. *)
EXTENDS Sidecar, TLC

\* One scope is in use.
MCBefore(j, k) == FALSE
Symmetry == Permutations(Rule) \union Permutations(Adr) \union Permutations(Event)
=============================================================================
