--------------------------- MODULE MCDumpProtocol ---------------------------
(* DumpProtocol with snapshots of a few lines.                              *)
EXTENDS DumpProtocol
=============================================================================
