----------------------------- MODULE LineBuffer -----------------------------
(***************************************************************************)
(* What the prompt of the shell promises: a line with a gap in it, typed   *)
(* into at the gap, and a history with a gap in it, stepped through line   *)
(* by line.  No counters, so none that can be off.                         *)
(***************************************************************************)
EXTENDS SequencesExt, Naturals

CONSTANT Chars

VARIABLES
  left, right,    \* the line before and after the gap
  older, newer,   \* the history before and after the gap
  open            \* is a line being edited?

vars == <<left, right, older, newer, open>>

Init == /\ left = <<>> /\ right = <<>>
        /\ older = <<>> /\ newer = <<>>
        /\ open = FALSE

\* A fresh line; the gap of the history is behind its newest line.
Begin == /\ ~open /\ open'
         /\ left' = <<>> /\ right' = <<>>
         /\ older' = older \o newer /\ newer' = <<>>

Insert(c) == /\ left' = Append(left, c)
             /\ UNCHANGED <<right, older, newer, open>>

Erase == /\ left # <<>>
         /\ left' = Front(left)
         /\ UNCHANGED <<right, older, newer, open>>

Left == /\ left # <<>>
        /\ left' = Front(left)
        /\ right' = <<Last(left)>> \o right
        /\ UNCHANGED <<older, newer, open>>

Right == /\ right # <<>>
         /\ left' = Append(left, Head(right))
         /\ right' = Tail(right)
         /\ UNCHANGED <<older, newer, open>>

\* The line next before the gap replaces what was typed.
Older == /\ older # <<>>
         /\ left' = Last(older) /\ right' = <<>>
         /\ older' = Front(older)
         /\ newer' = <<Last(older)>> \o newer
         /\ UNCHANGED open

\* The line after the one recalled last, or an empty line when there is none.
Newer == /\ right' = <<>>
         /\ \/ /\ Len(newer) > 1
               /\ left' = newer[2]
               /\ older' = Append(older, Head(newer))
               /\ newer' = Tail(newer)
            \/ /\ Len(newer) <= 1
               /\ left' = <<>>
               /\ older' = older \o newer
               /\ newer' = <<>>
         /\ UNCHANGED open

\* A line that is not empty goes to the end of the history, whatever was
\* recalled; lines already there stay as they were.
Accept == /\ ~open'
          /\ UNCHANGED <<left, right, older>>
          /\ newer' = IF left \o right = <<>> THEN newer
                      ELSE Append(newer, left \o right)

Next == \/ Begin
        \/ /\ open
           /\ \/ \E c \in Chars : Insert(c)
              \/ Erase \/ Left \/ Right \/ Older \/ Newer \/ Accept

Spec == Init /\ [][Next]_vars
=============================================================================
