----------------------------- MODULE MCHandoff -----------------------------
(* Handoff on a small instance.                                             *)
EXTENDS Handoff
=============================================================================
