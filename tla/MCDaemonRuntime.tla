-------------------------- MODULE MCDaemonRuntime ---------------------------
(* Instance of DaemonRuntime for TLC: two requests and the CLI. *)
EXTENDS DaemonRuntime, TLC

\* Requests are interchangeable (used only where no liveness is checked).
Symmetry == Permutations(Req)
=============================================================================
