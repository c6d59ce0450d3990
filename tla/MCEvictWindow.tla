---------------------------- MODULE MCEvictWindow ----------------------------
(* EvictWindow with a ring of three and enough events to wrap it.           *)
EXTENDS EvictWindow
=============================================================================
