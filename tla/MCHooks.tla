------------------------------- MODULE MCHooks ------------------------------
(* Instance of Hooks for TLC. *)
EXTENDS Hooks, TLC

Symmetry == Permutations(Hook) \union Permutations(File)
=============================================================================
