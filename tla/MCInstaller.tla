---------------------------- MODULE MCInstaller ----------------------------
(* Two disks, so that a second attempt may choose another one than the     *)
(* first, which is perhaps still mounted; none has an NVMe-style name,     *)
(* which the properties checked do not tell apart.  The live system has a  *)
(* kernel under /boot and nothing else.                                    *)
EXTENDS Installer, TLC

CONSTANTS sda, sdb

MCDisks == {sda, sdb}
MCNumbered == {}
MCMediaBoot == {"kernel"}
MCSymmetry == Permutations(MCDisks)
=============================================================================
