------------------------------ MODULE MCChange ------------------------------
(* Instance of ChangeLifecycle for TLC. *)
EXTENDS ChangeLifecycle, TLC
=============================================================================
