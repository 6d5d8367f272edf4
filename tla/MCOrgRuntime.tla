---------------------------- MODULE MCOrgRuntime ----------------------------
(* Instance of OrgRuntime for TLC.  Liveness is checked, so requests are not *)
(* declared symmetric.                                                       *)
EXTENDS OrgRuntime
=============================================================================
