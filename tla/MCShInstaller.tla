--------------------------- MODULE MCShInstaller ---------------------------
(* Two disks: enough for one left mounted or being the live root, and another. *)
EXTENDS ShInstaller, TLC

CONSTANTS sda, sdb

MCDisks == {sda, sdb}
MCSymmetry == Permutations(MCDisks)
=============================================================================
