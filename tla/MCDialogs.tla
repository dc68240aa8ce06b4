----------------------------- MODULE MCDialogs -----------------------------
(* A user name may have the letter, and not what is left of Delete; the    *)
(* word is shorter than INSTALL.                                           *)
EXTENDS Dialogs

MCWords == {<<"y", "y">>}
MCKeys == {"Up", "Right", "Enter", "Backspace", "Esc", "Delete", "Tab", "y"}
=============================================================================
