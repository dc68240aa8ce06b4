--------------------------- MODULE MCLineEditor ---------------------------
(* Two bytes to type, one of which is also the last byte of an arrow.      *)
EXTENDS LineEditor

CONSTANTS letter, up, down, forward, back, bracket, ignored

MCTyped == {letter, up}
=============================================================================
