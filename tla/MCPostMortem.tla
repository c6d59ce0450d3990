---------------------------- MODULE MCPostMortem ----------------------------
(* PostMortem with a few faults and resets.                                 *)
EXTENDS PostMortem
=============================================================================
