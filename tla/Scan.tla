------------------------------- MODULE Scan -------------------------------
(***************************************************************************)
(* "network scan" of app/init/network.cpp: iw is run, and what it prints   *)
(* is read line by line into a table of networks.  The line that begins a  *)
(* network is recognised by "BSS ", and so is the line "BSS Load:" that iw *)
(* prints inside of one.                                                   *)
(*                                                                         *)
(* The table is printed in columns that are padded with 34 - size() and    *)
(* 14 - size() spaces, in size_t, by a process that must not die.          *)
(***************************************************************************)
EXTENDS Naturals, Sequences, SequencesExt

CONSTANTS
  Bsses,    \* what iw may find: name, signal, privacy, information elements
  Hidden,   \* the name of a network without one
  Length,   \* how long a name or a signal is printed
  MaxSeen   \* how many networks are found at most

Elements == {"RSN", "WPA", "BSS Load"}
ASSUME BssesAssumption ==
  \A b \in Bsses : /\ b = [ssid |-> b.ssid, signal |-> b.signal,
                           privacy |-> b.privacy, elements |-> b.elements]
                   /\ b.privacy \in BOOLEAN
                   /\ b.elements \in Seq(Elements)

ASSUME MaxSeenAssumption == MaxSeen \in Nat

\* A name and a signal are printed in some length.
ASSUME LengthAssumption ==
  \A b \in Bsses : (b.ssid # Hidden => Length[b.ssid] \in Nat) /\ Length[b.signal] \in Nat

VARIABLES
  stage,     \* what scan_wifi is at
  seen,      \* history: the networks iw found
  lines,     \* lines of its output still to be read
  current,   \* the network being read
  networks,  \* those that have been read
  row,       \* the row being printed
  padding    \* the spaces put behind its two cells

scanVars == <<stage, seen, lines, current, networks, row, padding>>

Ssids == {b.ssid : b \in Bsses}
NoSignal == ""
Signals == {b.signal : b \in Bsses} \cup {NoSignal}
Network == [ssid : Ssids \cup {Hidden}, signal : Signals,
            security : {"open", "protected", "WPA", "WPA2/RSN"}]
NewNetwork == [ssid |-> Hidden, signal |-> NoSignal, security |-> "open"]

ScanTypeOK ==
  /\ stage \in {"off", "link", "scan", "read", "print"}
  /\ seen \in Seq(Bsses)
  /\ current \in Network
  /\ networks \in Seq(Network)
  /\ row \in 0 .. Len(networks)
  /\ Len(padding) = 2

ScanInit ==
  /\ stage = "off"
  /\ seen = <<>>
  /\ lines = <<>>
  /\ current = NewNetwork
  /\ networks = <<>>
  /\ row = 0
  /\ padding = <<0, 0>>

-----------------------------------------------------------------------------
\* What iw prints for a network.
Text(b) ==
  <<[key |-> "BSS"],
    [key |-> "capability", privacy |-> b.privacy],
    [key |-> "signal", value |-> b.signal],
    [key |-> "SSID", value |-> b.ssid]>>
  \o [i \in 1 .. Len(b.elements) |-> [key |-> b.elements[i]]]

\* The interface is known or the first with wireless; no interface or no iw is
\* the end.
StartScan ==
  /\ stage = "off"
  /\ stage' \in {"off", "link"}
  /\ seen' = <<>>
  /\ networks' = <<>>
  /\ row' = 0
  /\ padding' = <<0, 0>>
  /\ UNCHANGED <<lines, current>>

\* rfkill and ip, which may fail as they like.
LinkUp ==
  /\ stage = "link"
  /\ stage' = "scan"
  /\ UNCHANGED <<seen, lines, current, networks, row, padding>>

ScanFails ==
  /\ stage = "scan"
  /\ stage' = "off"
  /\ UNCHANGED <<seen, lines, current, networks, row, padding>>

Iw ==
  /\ stage = "scan"
  /\ stage' = "read"
  /\ seen' \in UNION {[1 .. n -> Bsses] : n \in 0 .. MaxSeen}
  /\ lines' = FlattenSeq([i \in DOMAIN seen' |-> Text(seen'[i])])
  /\ current' = NewNetwork
  /\ UNCHANGED <<networks, row, padding>>

-----------------------------------------------------------------------------
\* Variant of flush_current: what has no name is kept as well.
flush_current_All ==
  /\ networks' = IF current = NewNetwork THEN networks ELSE Append(networks, current)
  /\ current' = NewNetwork

\* A network without a name is dropped.
flush_current ==
  /\ networks' = IF current.ssid # Hidden THEN Append(networks, current) ELSE networks
  /\ current' = NewNetwork

Security(l, old) ==
  CASE l.key = "RSN" -> "WPA2/RSN"
    [] l.key = "WPA" -> "WPA"
    [] l.key = "capability" /\ l.privacy -> "protected"
    [] OTHER -> old

\* A line, by what it begins with.
ReadLine ==
  /\ stage = "read"
  /\ lines # <<>>
  /\ LET l == Head(lines)
     IN  \/ l.key \in {"BSS", "BSS Load"} /\ flush_current
         \/ l.key = "SSID" /\ current' = [current EXCEPT !.ssid = l.value] /\ UNCHANGED networks
         \/ l.key = "signal" /\ current' = [current EXCEPT !.signal = l.value] /\ UNCHANGED networks
         \/ /\ l.key \in {"RSN", "WPA", "capability"}
            /\ current' = [current EXCEPT !.security = Security(l, @)]
            /\ UNCHANGED networks
  /\ lines' = Tail(lines)
  /\ UNCHANGED <<stage, seen, row, padding>>

LastLine ==
  /\ stage = "read"
  /\ lines = <<>>
  /\ flush_current
  /\ stage' = "print"
  /\ UNCHANGED <<seen, lines, row, padding>>

\* Variant of Cut: the three points are not counted.
Cut_Points(n, most) == IF n > most THEN most + 3 ELSE n

\* What is left of a cell that is too long.
Cut(n, most) == IF n > most THEN most ELSE n

\* Spaces up to the width of the column, a size_t (of 16 bits).
Pad(n, width) == (width + 65536 - n) % 65536

PrintRow ==
  /\ stage = "print"
  /\ row < Len(networks)
  /\ row' = row + 1
  /\ padding' = <<Pad(Cut(Length[networks[row'].ssid], 32), 34),
                  Pad(Cut(Length[networks[row'].signal], 12), 14)>>
  /\ UNCHANGED <<stage, seen, lines, current, networks>>

Printed ==
  /\ stage = "print"
  /\ row = Len(networks)
  /\ stage' = "off"
  /\ UNCHANGED <<seen, lines, current, networks, row, padding>>

-----------------------------------------------------------------------------
ScanNext == \/ StartScan \/ LinkUp \/ ScanFails \/ Iw \/ ReadLine \/ LastLine
        \/ PrintRow \/ Printed

ScanSpec == ScanInit /\ [][ScanNext]_scanVars

-----------------------------------------------------------------------------
(* Properties.                                                             *)

\* The networks with a name, in the order they were found.
VisibleOf(bs) ==
  FlattenSeq([i \in 1 .. Len(bs) |-> IF bs[i].ssid # Hidden THEN <<bs[i]>> ELSE <<>>])
Visible == VisibleOf(seen)

\* What each network is protected with: the last element that says so.
Protection(b) ==
  LET ways == {i \in DOMAIN b.elements : b.elements[i] # "BSS Load"}
      last == CHOOSE i \in ways : \A j \in ways : j <= i
  IN  IF ways # {} THEN IF b.elements[last] = "RSN" THEN "WPA2/RSN" ELSE "WPA"
      ELSE IF b.privacy THEN "protected" ELSE "open"

\* Every network with a name has its row, with its own signal and, if it does
\* not tell its load, its own security, whatever iw prints in between; and no
\* network that asks for a key is shown as open.
TableRight ==
  stage = "print" =>
    /\ Len(networks) = Len(Visible)
    /\ \A i \in DOMAIN networks :
         /\ networks[i].ssid = Visible[i].ssid
         /\ networks[i].signal = Visible[i].signal
         /\ IF "BSS Load" \in Range(Visible[i].elements)
            THEN networks[i].security = "open" => ~Visible[i].privacy
            ELSE networks[i].security = Protection(Visible[i])

\* The column SECURITY is right of every network: false, for what follows "BSS Load:" is lost.
SecurityShown ==
  stage = "print" =>
    \A i \in DOMAIN networks : networks[i].security = Protection(Visible[i])

\* No name and no signal, however long, makes PID 1 ask for more spaces than
\* there is memory for.
PaddingFits == padding[1] <= 34 /\ padding[2] <= 14
=============================================================================
