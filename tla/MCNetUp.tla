------------------------------ MODULE MCNetUp ------------------------------
(* The netup of the boot and two started by hand, with three tries as in   *)
(* the script.                                                             *)
EXTENDS NetUp

CONSTANTS boot, first, second

MCRuns == {boot, first, second}
=============================================================================
