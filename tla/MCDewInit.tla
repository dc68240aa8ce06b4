---------------------------- MODULE MCDewInit ----------------------------
(* Four names: the two accounts of an installed system, one whose uid is   *)
(* no number, and a name no file knows.                                    *)
EXTENDS DewInit

MCNames == {"root", "user", "broken", "nobody"}
MCGood == {"root", "user"}
MCBadId == {"broken"}
=============================================================================
