--------------------------- MODULE MCDiagnostics ---------------------------
(* Diagnostics under five small loads; the third report of the last one     *)
(* makes the totals wrap.                                                   *)
EXTENDS Diagnostics

Load(reports, releases, profiles, exchanges) ==
    [reports |-> reports, releases |-> releases, profiles |-> profiles,
     exchanges |-> exchanges, flushes |-> 1]

MCLoads ==
    {Load(2, 0, 0, 0), Load(1, 0, 1, 0), Load(0, 0, 0, 2), Load(0, 1, 0, 1),
     [Load(3, 0, 0, 0) EXCEPT !.flushes = 0]}
=============================================================================
