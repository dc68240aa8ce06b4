----------------------------- MODULE LineEditor -----------------------------
(***************************************************************************)
(* The prompt of the built-in shell, read_line in app/init/shell.cpp: one  *)
(* byte at a time from a raw console into a line with a cursor, arrows as  *)
(* three bytes ESC [ A..D, a history with an index that outlives the line, *)
(* and a redraw after every change.  The two reads inside an escape        *)
(* sequence block: there the cursor does not blink and any byte is taken.  *)
(***************************************************************************)
EXTENDS SequencesExt, Naturals

CONSTANTS
  Typed,     \* bytes 32..126 as they are typed into a line
  Bracket,   \* "[", and the last bytes of the four arrows
  Up, Down, Forward, Back,
  Ignored,   \* a byte read_line has no use for
  MaxLen,    \* bound on the length of a line
  MaxLines   \* bound on the number of lines in the history

Arrows == {Up, Down, Forward, Back}
Keys == {"enter", "esc", "erase"}
Bytes == Typed \cup {Bracket, Ignored} \cup Arrows

ASSUME BytesAssumption ==
  /\ Bracket \notin Arrows /\ Ignored \notin Arrows \cup {Bracket} \cup Typed
  /\ Up \notin {Down, Forward, Back} /\ Down \notin {Forward, Back}
  /\ Forward # Back
  /\ Bytes \cap Keys = {}
ASSUME BoundsAssumption == MaxLen \in Nat /\ MaxLines \in Nat

VARIABLES
  pc,        \* "run" a command, or read: at a "key", after ESC, "csi", or "other"
  line, cursor,
  history, history_index,
  visible,   \* cursor_visible
  shown,     \* line, cursor and mark as redraw_line last drew them
  enters     \* history variable: how many of the last bytes were all Enter

edited == <<line, cursor, history, history_index>>
vars == <<pc, edited, visible, shown, enters>>

Lines == Seq(Typed)
Modes == {"key", "esc", "csi", "other"}

TypeOK ==
  /\ pc \in {"run"} \cup Modes
  /\ line \in Lines
  /\ cursor \in 0 .. Len(line)
  /\ history \in Seq(Lines)
  /\ history_index \in 0 .. Len(history)
  /\ visible \in BOOLEAN
  /\ enters \in Nat

Init ==
  /\ pc = "run"
  /\ line = <<>> /\ cursor = 0
  /\ history = <<>> /\ history_index = 0
  /\ visible = TRUE
  /\ shown = <<<<>>, 0, TRUE>>
  /\ enters = 0

redraw_line(l, c, v) == shown' = <<l, c, v>>

\* The line becomes l with the cursor at c, and is drawn.
Edit(l, c) == /\ line' = l
              /\ cursor' = c
              /\ redraw_line(l, c, visible)

\* shell_loop comes back from a command.
BeginLine ==
  /\ pc = "run"
  /\ pc' = "key"
  /\ line' = <<>> /\ cursor' = 0
  /\ history_index' = Len(history)
  /\ visible' = TRUE
  /\ redraw_line(<<>>, 0, TRUE)
  /\ UNCHANGED <<history, enters>>

\* select times out: the cursor blinks.
Blink ==
  /\ pc = "key"
  /\ visible' = ~visible
  /\ redraw_line(line, cursor, visible')
  /\ UNCHANGED <<pc, edited, enters>>

\* A read that fails in the middle of an escape sequence drops it.
ReadFails ==
  /\ pc \in {"esc", "csi", "other"}
  /\ pc' = "key"
  /\ UNCHANGED <<edited, visible, shown, enters>>

-----------------------------------------------------------------------------
(* Bytes outside escape sequences.                                         *)

Other == enters' = 0

\* The line is drawn without the mark, kept unless it is empty, and returned.
Enter ==
  /\ pc = "key"
  /\ Len(history) < MaxLines
  /\ pc' = "run"
  /\ redraw_line(line, cursor, FALSE)
  /\ history' = IF line = <<>> THEN history ELSE Append(history, line)
  /\ enters' = 0
  /\ UNCHANGED <<line, cursor, history_index, visible>>

\* Variant of Type: drawn with the next key only.
Type_NoRedraw(c) ==
  /\ pc = "key"
  /\ Len(line) < MaxLen
  /\ line' = InsertAt(line, cursor + 1, c) /\ cursor' = cursor + 1
  /\ Other
  /\ UNCHANGED <<pc, history, history_index, visible, shown>>

\* c goes in before the cursor.
Type(c) ==
  /\ pc = "key"
  /\ Len(line) < MaxLen
  /\ Edit(InsertAt(line, cursor + 1, c), cursor + 1)
  /\ Other
  /\ UNCHANGED <<pc, history, history_index, visible>>

\* Variant of Erase: the cursor stays where it was.
Erase_KeepsCursor ==
  /\ pc = "key"
  /\ IF cursor > 0 THEN Edit(RemoveAt(line, cursor), cursor)
     ELSE UNCHANGED <<line, cursor, shown>>
  /\ Other
  /\ UNCHANGED <<pc, history, history_index, visible>>

\* The byte before the cursor goes.
Erase ==
  /\ pc = "key"
  /\ IF cursor > 0 THEN Edit(RemoveAt(line, cursor), cursor - 1)
     ELSE UNCHANGED <<line, cursor, shown>>
  /\ Other
  /\ UNCHANGED <<pc, history, history_index, visible>>

Escape ==
  /\ pc = "key"
  /\ pc' = "esc"
  /\ Other
  /\ UNCHANGED <<edited, visible, shown>>

IgnoredByte ==
  /\ pc = "key"
  /\ Other
  /\ UNCHANGED <<pc, edited, visible, shown>>

-----------------------------------------------------------------------------
(* The second and third byte of an escape sequence.                        *)

\* Whatever it is, also an Enter, it goes no further.
Swallow(b) == enters' = IF b = "enter" THEN enters + 1 ELSE 0

Second(b) ==
  /\ pc = "esc"
  /\ pc' = IF b = Bracket THEN "csi" ELSE "other"
  /\ Swallow(b)
  /\ UNCHANGED <<edited, visible, shown>>

\* The line before; the copy is edited, the history is not.
ArrowUp ==
  /\ pc = "csi"
  /\ pc' = "key"
  /\ IF history # <<>> /\ history_index > 0
     THEN /\ history_index' = history_index - 1
          /\ Edit(history[history_index], Len(history[history_index]))
     ELSE UNCHANGED <<line, cursor, history_index, shown>>
  /\ Other
  /\ UNCHANGED <<history, visible>>

\* Variant of ArrowDown: the index is incremented after it was used.
ArrowDown_PostIncrement ==
  /\ pc = "csi"
  /\ pc' = "key"
  /\ IF history_index + 1 < Len(history)
     THEN /\ history_index' = history_index + 1
          /\ Edit(history[history_index + 1], Len(history[history_index + 1]))
     ELSE /\ history_index' = Len(history)
          /\ Edit(<<>>, 0)
  /\ Other
  /\ UNCHANGED <<history, visible>>

\* The line after the recalled one; after the newest, and when none was
\* recalled, an empty one: what had been typed is gone.
ArrowDown ==
  /\ pc = "csi"
  /\ pc' = "key"
  /\ IF history_index + 1 < Len(history)
     THEN /\ history_index' = history_index + 1
          /\ Edit(history[history_index + 2], Len(history[history_index + 2]))
     ELSE /\ history_index' = Len(history)
          /\ Edit(<<>>, 0)
  /\ Other
  /\ UNCHANGED <<history, visible>>

ArrowForward ==
  /\ pc = "csi"
  /\ pc' = "key"
  /\ IF cursor < Len(line) THEN Edit(line, cursor + 1)
     ELSE UNCHANGED <<line, cursor, shown>>
  /\ Other
  /\ UNCHANGED <<history, history_index, visible>>

ArrowBack ==
  /\ pc = "csi"
  /\ pc' = "key"
  /\ IF cursor > 0 THEN Edit(line, cursor - 1)
     ELSE UNCHANGED <<line, cursor, shown>>
  /\ Other
  /\ UNCHANGED <<history, history_index, visible>>

\* Variant of Third: only an arrow ends the sequence.
Third_WaitsForArrow(b) ==
  /\ pc \in {"csi", "other"}
  /\ pc = "csi" => b \notin Arrows
  /\ UNCHANGED pc
  /\ Swallow(b)
  /\ UNCHANGED <<edited, visible, shown>>

\* Any other third byte, and every third byte of a sequence that is none.
Third(b) ==
  /\ pc \in {"csi", "other"}
  /\ pc = "csi" => b \notin Arrows
  /\ pc' = "key"
  /\ Swallow(b)
  /\ UNCHANGED <<edited, visible, shown>>

-----------------------------------------------------------------------------
Next ==
  \/ BeginLine \/ Blink \/ ReadFails
  \/ Enter \/ Erase \/ Escape \/ IgnoredByte
  \/ \E c \in Typed : Type(c)
  \/ ArrowUp \/ ArrowDown \/ ArrowForward \/ ArrowBack
  \/ \E b \in Bytes \cup Keys : Second(b) \/ Third(b)

Spec == Init /\ [][Next]_vars

-----------------------------------------------------------------------------
(* Properties.                                                             *)

\* Whenever read_line waits for a byte the screen shows the line, the cursor
\* and the mark as they are.
ShownIsCurrent == pc \in Modes => shown = <<line, cursor, visible>>

\* An unfinished escape sequence swallows Enter, but never more than two in a
\* row: the third returns the line.
TwoEntersAtMost == enters <= 2

\* Cursor, index and inserts in the middle do what a line and a history with a
\* gap in them do: nothing typed or recalled is lost, doubled or taken from the
\* wrong place, and the history is only ever added to.
Buffer == INSTANCE LineBuffer WITH
            Chars <- Typed,
            left <- SubSeq(line, 1, cursor),
            right <- SubSeq(line, cursor + 1, Len(line)),
            older <- SubSeq(history, 1, history_index),
            newer <- SubSeq(history, history_index + 1, Len(history)),
            open <- pc # "run"

ImplementsLineBuffer == Buffer!Spec
=============================================================================
