----------------------------- MODULE MCFraming -----------------------------
(* Framing with short payloads over the three markers and one other byte.   *)
EXTENDS Framing
=============================================================================
