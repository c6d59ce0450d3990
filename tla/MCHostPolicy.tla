---------------------------- MODULE MCHostPolicy ----------------------------
(* HostPolicy on small instances; each .cfg chooses features and budgets.   *)
EXTENDS HostPolicy
=============================================================================
