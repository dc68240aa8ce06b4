------------------------------ MODULE Dialogs ------------------------------
(***************************************************************************)
(* The keyboard side of app/installer/dew-install.cpp: read_key, which     *)
(* makes keys of the bytes a terminal sends, the menus and prompts made of *)
(* keys, and the order of the screens they lead through.                   *)
(*                                                                         *)
(* A key is one byte or an escape sequence of several, which may arrive    *)
(* one by one.  Somebody may type ahead of the screens.  What the install  *)
(* itself does is the module Installer's.                                  *)
(***************************************************************************)
EXTENDS Integers, Sequences, FiniteSets, SequencesExt

CONSTANTS
  Keyboard,   \* keys that are pressed
  MaxAhead,   \* how many are pressed before the first is answered, or one
              \* more that read_key waits for
  MaxLine,    \* how many are pressed for one line
  MaxDisks,   \* how many disks there may be
  Unprintable, \* keys of one byte outside 32 .. 126, but for Enter and Backspace
  Valid,      \* characters of a user name
  Words       \* the ways to write INSTALL

ASSUME NumbersAssumption == MaxAhead \in Nat \ {0} /\ MaxLine \in Nat /\ MaxDisks \in Nat

\* The byte escape is no key; the key Esc sends it.
ASSUME KeyboardAssumption == "ESC" \notin Keyboard

\* Keys of which read_key has a meaning of its own, and those it takes for others.
ArrowKeys == {"Up", "Down", "Left", "Right"}
Named == ArrowKeys \cup {"Enter", "Backspace", "Esc", "Delete"}
Unknown == {"Esc", "Delete"}

ASSUME UnprintableAssumption == Unprintable \cap (Named \cup {"ESC"}) = {}

VARIABLES
  dialog,    \* the screen
  items,     \* entries of its menu
  idx,       \* the one that is marked
  buf,       \* the line typed into its prompt
  user,      \* cfg.username
  password,  \* cfg.password
  disk,      \* cfg.disk: its place in the list
  seq,       \* what read_key has read of an escape sequence
  typed,     \* bytes that wait in the terminal
  wire,      \* bytes of the last key that have not arrived
  pressed,   \* history: keys pressed and neither answered nor thrown away
  mistaken,  \* history: has a key been answered that was not the one pressed?
  keyed,     \* history: keys answered since this prompt was shown
  again      \* history: the password as it was typed the second time

screen == <<dialog, items, idx, buf, keyed, user, password, disk, again>>
input == <<seq, typed, wire, pressed, mistaken>>
dialogsVars == <<screen, input>>

\* What a terminal sends.
BytesOf(k) ==
  CASE k = "Up" -> <<"ESC", "[", "A">>
    [] k = "Down" -> <<"ESC", "[", "B">>
    [] k = "Right" -> <<"ESC", "[", "C">>
    [] k = "Left" -> <<"ESC", "[", "D">>
    [] k = "Delete" -> <<"ESC", "[", "3", "~">>
    [] k = "Esc" -> <<"ESC">>
    [] OTHER -> <<k>>

Menus == {"welcome", "nodisks", "pick", "mismatch", "done", "failed"}
Prompts == {"hostname", "username", "password", "again", "confirm"}
Size(p) == CASE p = "welcome" -> 4 [] p = "done" -> 3 [] OTHER -> 1

DialogsTypeOK ==
  /\ dialog \in Menus \cup Prompts \cup {"install", "left"}
  /\ items \in 1 .. 4 \cup 1 .. MaxDisks + 1
  /\ idx \in 0 .. items - 1
  /\ Range(buf) \cap (Named \cup Unprintable \cup {"ESC"}) = {}
  /\ disk \in 0 .. MaxDisks
  /\ Len(seq) \in 0 .. 2
  /\ pressed \in Seq(Keyboard)
  /\ mistaken \in BOOLEAN

DialogsInit ==
  /\ dialog = "welcome"
  /\ items = 4
  /\ idx = 0
  /\ buf = <<>> /\ keyed = <<>>
  /\ user = <<>> /\ password = <<>> /\ again = <<>>
  /\ disk = 0
  /\ seq = <<>> /\ typed = <<>> /\ wire = <<>> /\ pressed = <<>> /\ mistaken = FALSE

-----------------------------------------------------------------------------
(* The user and the terminal.                                              *)

Press(k) ==
  /\ dialog # "left" /\ wire = <<>>
  /\ Len(pressed) < MaxAhead \/ (seq # <<>> /\ typed = <<>>)
  /\ k \in {"Enter", "Esc"} \/ Len(keyed) + Len(pressed) < MaxLine
  /\ wire' = BytesOf(k)
  /\ pressed' = Append(pressed, k)
  /\ UNCHANGED <<screen, seq, typed, mistaken>>

Arrive ==
  /\ wire # <<>>
  /\ typed' = Append(typed, Head(wire))
  /\ wire' = Tail(wire)
  /\ UNCHANGED <<screen, seq, pressed, mistaken>>

-----------------------------------------------------------------------------
(* Screens.                                                                *)

Show(p, n) == dialog' = p /\ items' = n /\ idx' = 0 /\ buf' = <<>> /\ keyed' = <<>>

\* Variant of Goto: the line is declared outside of the loop.
Goto_OldLine(p) ==
  /\ dialog' = p /\ items' = Size(p) /\ idx' = 0 /\ keyed' = <<>>
  /\ buf' = IF p = "confirm" THEN buf ELSE <<>>
Goto(p) == Show(p, Size(p))

\* list_disks, anew each time.
PickDisk == \/ Goto("nodisks")
            \/ \E n \in 1 .. MaxDisks : Show("pick", n + 1)

\* The host name may be anything but empty, and is not kept here.
cfg == <<user, password, disk, again>>

\* The entry i of a menu has been chosen, or none of them (ESC).
Choose(i, esc) ==
  \/ /\ dialog = "welcome"
     /\ IF ~esc /\ i = 0 THEN PickDisk
        ELSE Goto(IF ~esc /\ i \in {2, 3} THEN "left" ELSE "welcome")
     /\ UNCHANGED cfg
  \/ /\ dialog = "nodisks"
     /\ Goto("welcome")
     /\ UNCHANGED cfg
  \/ /\ dialog = "pick"
     /\ IF esc \/ i = items - 1 THEN Goto("welcome") /\ UNCHANGED disk
        ELSE Goto("hostname") /\ disk' = i
     /\ UNCHANGED <<user, password, again>>
  \/ /\ dialog = "mismatch"
     /\ Goto("password")
     /\ UNCHANGED cfg
  \/ /\ dialog \in {"done", "failed"}
     /\ Goto("left")
     /\ UNCHANGED cfg

Marked(k) ==
  IF k = "Up" THEN (idx - 1 + items) % items
  ELSE IF k = "Down" THEN (idx + 1) % items ELSE idx

menu(k) ==
  /\ dialog \in Menus
  /\ IF k = "Enter" \/ k = "Esc" THEN Choose(idx, k = "Esc")
     ELSE idx' = Marked(k) /\ UNCHANGED <<dialog, items, buf, keyed, cfg>>

\* Variant of Agrees: an empty confirmation is taken for a yes.
Agrees_Empty == buf \in {password, <<>>}
Agrees == buf = password

\* Enter: the line is accepted, or asked for once more.
Accept ==
  CASE dialog = "hostname" -> Goto(IF buf = <<>> THEN dialog ELSE "username") /\ UNCHANGED cfg
    [] dialog = "username" ->
         /\ Goto(IF buf = <<>> \/ ~Range(buf) \subseteq Valid THEN dialog ELSE "password")
         /\ user' = buf
         /\ UNCHANGED <<password, disk, again>>
    [] dialog = "password" ->
         /\ Goto(IF buf = <<>> THEN dialog ELSE "again")
         /\ password' = buf
         /\ UNCHANGED <<user, disk, again>>
    [] dialog = "again" ->
         /\ Goto(IF Agrees THEN "confirm" ELSE "mismatch")
         /\ again' = buf
         /\ UNCHANGED <<user, password, disk>>
    [] dialog = "confirm" -> Goto(IF buf \in Words THEN "install" ELSE dialog) /\ UNCHANGED cfg

\* What a key that neither ends nor leaves the line makes of it.
Edited(text, k) ==
  CASE k = "Backspace" -> IF text = <<>> THEN text ELSE Front(text)
    [] k \in ArrowKeys \cup Unprintable -> text
    [] OTHER -> Append(text, k)

prompt(k) ==
  /\ dialog \in Prompts
  /\ CASE k = "Enter" -> Accept
       [] k = "Esc" -> /\ PickDisk
                       /\ user' = IF dialog = "username" THEN <<>> ELSE user
                       /\ password' = IF dialog = "password" THEN <<>> ELSE password
                       /\ UNCHANGED <<disk, again>>
       [] OTHER -> /\ buf' = Edited(buf, k)
                   /\ keyed' = Append(keyed, k)
                   /\ UNCHANGED <<dialog, items, idx, cfg>>

-----------------------------------------------------------------------------
(* read_key.                                                               *)

\* The shell of the first screen, and leaving: TCSAFLUSH drops what was typed,
\* and the shell there takes the rest of a key that is still on its way.
Flushes(k) == \/ dialog = "welcome" /\ k = "Enter" /\ idx > 0
              \/ dialog \in {"done", "failed"} /\ k \in {"Enter", "Esc"}

Sent(keys) == FlattenSeq([i \in 1 .. Len(keys) |-> BytesOf(keys[i])])

\* From a key that read_key does not know until all that was typed is read,
\* what is answered need not be what was pressed.
Astray == pressed # <<>> /\ Head(pressed) \in Unknown

Answer(k, rest) ==
  /\ menu(k) \/ prompt(k)
  /\ seq' = <<>>
  /\ mistaken' = (mistaken \/ (~Astray /\ (pressed = <<>> \/ Head(pressed) # k)))
  /\ IF Flushes(k)
     THEN typed' = <<>> /\ wire' = <<>> /\ pressed' = <<>>
     ELSE /\ typed' = rest
          /\ pressed' = CASE ~Astray -> SubSeq(pressed, 2, Len(pressed))
                          [] Astray /\ rest \o wire = <<>> -> <<>>
                          [] OTHER -> pressed
          /\ UNCHANGED wire

Decode(s) == CASE s = <<"ESC", "[", "A">> -> "Up"
               [] s = <<"ESC", "[", "B">> -> "Down"
               [] s = <<"ESC", "[", "C">> -> "Right"
               [] s = <<"ESC", "[", "D">> -> "Left"
               [] OTHER -> "Esc"

\* One read; what begins with an escape is three bytes long.
ReadByte ==
  /\ dialog \in Menus \cup Prompts
  /\ typed # <<>>
  /\ LET s == Append(seq, Head(typed))
     IN  IF Head(s) # "ESC" THEN Answer(Head(s), Tail(typed))
         ELSE IF Len(s) = 3 THEN Answer(Decode(s), Tail(typed))
         ELSE seq' = s /\ typed' = Tail(typed) /\ UNCHANGED <<screen, wire, pressed, mistaken>>

\* Variant of read_key: an escape with nothing behind it yet is the key ESC.
read_key_NoWait == ReadByte \/ (seq = <<"ESC">> /\ typed = <<>> /\ Answer("Esc", typed))

\* Variant of read_key: an arrow is answered when it is seen what follows.
read_key_Peek == (seq = <<"ESC", "[">> => Len(typed) > 1) /\ ReadByte

\* VMIN is 1 and VTIME 0, also after an escape.
read_key == ReadByte

\* screen_install returns; meanwhile nobody reads.
InstallEnds ==
  /\ dialog = "install"
  /\ Goto("done") \/ Goto("failed")
  /\ UNCHANGED <<cfg, input>>

\* "install" is run once more, in a terminal whose input enable_raw flushes.
RunAgain ==
  /\ dialog = "left"
  /\ Goto("welcome")
  /\ user' = <<>> /\ password' = <<>> /\ disk' = 0
  /\ seq' = <<>> /\ typed' = <<>> /\ wire' = <<>> /\ pressed' = <<>>
  /\ UNCHANGED <<again, mistaken>>

-----------------------------------------------------------------------------
DialogsNext == \/ \E k \in Keyboard : Press(k)
        \/ Arrive \/ read_key \/ InstallEnds \/ RunAgain

DialogsSpec == DialogsInit /\ [][DialogsNext]_dialogsVars

\* The terminal delivers, the installer reads and its tools come to an end;
\* nobody has to press a key or to run it again.
DialogsFairSpec ==
  /\ DialogsSpec
  /\ WF_dialogsVars(Arrive) /\ WF_dialogsVars(read_key) /\ WF_dialogsVars(InstallEnds)

-----------------------------------------------------------------------------
(* Properties.                                                             *)

\* However the bytes of the keys arrive, each key answered is the one that was
\* pressed, in order, and what is still unread are the keys pressed after it: no
\* key is taken for another, for a part of one or for nothing.  Exceptions: a
\* lone ESC and keys of four bytes, until all that was typed with them is read.
NothingMistaken ==
  ~mistaken /\ (Astray \/ seq \o typed \o wire = Sent(pressed))

\* When nobody presses a key any more, every key pressed has been answered, or
\* thrown away with what was typed ahead of a shell or of the installer's end,
\* as long as none of them was a key read_key does not know.
KeysAnswered ==
  []<>(pressed = <<>> \/ Astray) \/ []<><<\E k \in Keyboard : Press(k)>>_dialogsVars

\* A printable key typed for this line is in it as long as at no moment since more
\* keys have been taken back than typed.
Stays(i) ==
  LET chars == {n \in 1 .. Len(keyed) : keyed[n] \notin Named \cup Unprintable}
      erasures == {n \in 1 .. Len(keyed) : keyed[n] = "Backspace"}
  IN  /\ i \in chars
      /\ \A j \in i + 1 .. Len(keyed) :
           Cardinality(erasures \cap (i + 1 .. j)) <= Cardinality(chars \cap (i + 1 .. j))

\* The line a prompt goes by is made of the printable keys typed since it was
\* shown that were not taken back, in order, whatever came before it.
LineIsTyped ==
  dialog \in Prompts =>
    LET kept == {i \in 1 .. Len(keyed) : Stays(i)}
    IN  buf = [n \in 1 .. Cardinality(kept) |->
                 keyed[CHOOSE i \in kept : Cardinality({j \in kept : j <= i}) = n]]

\* Whoever is asked to type INSTALL has given a user name the system accepts
\* and the same password twice.
AccountGiven ==
  dialog \in {"confirm", "install"} =>
    user # <<>> /\ Range(user) \subseteq Valid /\ password # <<>> /\ password = again

-----------------------------------------------------------------------------
(* What the code says, and does not hold.                                  *)

\* "ESC back": every key pressed is answered.  A lone ESC waits for two more
\* bytes, and takes them with it.
AlwaysAnswered ==
  []<>(pressed = <<>>) \/ []<><<\E k \in Keyboard : Press(k)>>_dialogsVars
=============================================================================
