----------------------------- MODULE MCCapture -----------------------------
(* Two programs left behind, of one tool or of two; a pipe that is full after *)
(* one write of two.                                                          *)
EXTENDS Capture

CONSTANTS wpa, other

MCDaemons == {wpa, other}
MCExits == {0, 1}
MCSignals == {13}
=============================================================================
