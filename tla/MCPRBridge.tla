----------------------------- MODULE MCPRBridge -----------------------------
(* Instance of PRBridge for TLC. *)
EXTENDS PRBridge

\* Handlers are interchangeable, and so are the Changes of the commit.
Symmetry == Permutations(Delivery) \union Permutations(Change)
=============================================================================
