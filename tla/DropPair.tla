------------------------------ MODULE DropPair ------------------------------
(***************************************************************************)
(* Two drops at once, one of them in the background of a sub-shell.  Each  *)
(* is Drop with variables of its own; the tree and /var/drop are one, and  *)
(* nothing locks them.                                                     *)
(***************************************************************************)
EXTENDS Naturals, Sequences, FiniteSets

CONSTANTS Pkgs, MetaNames, MetaFor, Index, Files, Dirs, Root, Parent, Size, Listing, Base, MaxNames,
  MaxTouched  \* bound on the packages that faults or both drops at once touch

VARIABLES
  present, known, listed, meta,                           \* the disk, as in Drop
  pcA, opA, namesA, iA, restA, rcA, cleanA, stuckA, cutA, \* the first drop
  pcB, opB, namesB, iB, restB, rcB, cleanB, stuckB, cutB, \* the second
  met     \* history: packages both were at work on at the same time

disk == <<present, known, listed, meta>>
localA == <<pcA, opA, namesA, iA, restA, rcA, cleanA, stuckA, cutA>>
localB == <<pcB, opB, namesB, iB, restB, rcB, cleanB, stuckB, cutB>>
vars == <<disk, localA, localB, met>>

A == INSTANCE Drop WITH pc <- pcA, op <- opA, names <- namesA, i <- iA,
                        rest <- restA, rc <- rcA, clean <- cleanA, stuck <- stuckA,
                        cut <- cutA
B == INSTANCE Drop WITH pc <- pcB, op <- opB, names <- namesB, i <- iB,
                        rest <- restB, rc <- rcB, clean <- cleanB, stuck <- stuckB,
                        cut <- cutB

ASSUME PairAssumption ==
  A!TreeAssumption /\ A!ListingAssumption /\ A!MetaAssumption /\ A!MaxNamesAssumption

TypeOK == A!TypeOK /\ B!TypeOK /\ met \subseteq Pkgs

Init == A!Init /\ B!Init /\ met = {}

-----------------------------------------------------------------------------
\* x and every directory above it: what every tree that holds x must hold.
Above(x) == {y \in A!Paths : \A S \in SUBSET A!Paths : x \in S /\ A!Closed(S) => y \in S}

\* The other drop has removed a directory this tar had made: busybox tar makes
\* what is missing above a member.
RemakeA(x) ==
  /\ pcA = "extract"
  /\ x \in restA
  /\ Parent[x] \notin restA \cup present \cup {Root}
  /\ present' = present \cup Above(x)
  /\ restA' = restA \ {x}
  /\ UNCHANGED <<known, listed, meta, pcA, opA, namesA, iA, rcA, cleanA, stuckA, cutA>>

RemakeB(x) ==
  /\ pcB = "extract"
  /\ x \in restB
  /\ Parent[x] \notin restB \cup present \cup {Root}
  /\ present' = present \cup Above(x)
  /\ restB' = restB \ {x}
  /\ UNCHANGED <<known, listed, meta, pcB, opB, namesB, iB, rcB, cleanB, stuckB, cutB>>

StepA == (A!Next \/ \E x \in A!Paths : RemakeA(x)) /\ UNCHANGED localB
StepB == (B!Next \/ \E x \in A!Paths : RemakeB(x)) /\ UNCHANGED localA

Both(p) == A!AtWork(p) /\ B!AtWork(p)

Faulted == {p \in Pkgs : (A!AtWork(p) /\ ~cleanA) \/ (B!AtWork(p) /\ ~cleanB)}
Touched == cutA \cup cutB \cup met \cup Faulted

Next ==
  /\ StepA \/ StepB
  /\ met' = met \cup {p \in Pkgs : Both(p)'}
  /\ Cardinality(Touched') <= MaxTouched

Spec == Init /\ [][Next]_vars

-----------------------------------------------------------------------------
(* Properties.                                                             *)

\* Two drops may share directories, the index and /var/drop: as long as they
\* do not work on one package at the same time, each package is wholly there or
\* wholly gone when nobody is at it, unless a fault of one of them has touched
\* it or its .meta was removed by name. While one fills a directory the other
\* may be about to remove it.
PairSettled ==
  \A p \in Pkgs \ (cutA \cup cutB \cup met) :
    A!AtWork(p) \/ B!AtWork(p) \/ A!Absent(p) \/ A!Complete(p)

\* "installed (n files)" without a fault: manifest and files are there, whatever
\* the other drop does meanwhile.
InstalledIsThere ==
  [][pcA = "meta" /\ pcA' = "next" /\ cleanA =>
       namesA[iA] \in known /\ A!FilesOf(namesA[iA]) \subseteq present]_vars
=============================================================================
