-------------------------- MODULE DropPairProofs --------------------------
(***************************************************************************)
(* Proofs about DropPair.  Each drop is Drop with variables of its own, so *)
(* the lemmas of DropProofs hold of each; what is added is that the one    *)
(* does not disturb the work of the other while they are not at the same   *)
(* package.  Where they have met, nothing is claimed.                      *)
(***************************************************************************)
EXTENDS DropPair, TLAPS

PA == INSTANCE DropProofs WITH pc <- pcA, op <- opA, names <- namesA, i <- iA,
                               rest <- restA, rc <- rcA, clean <- cleanA,
                               stuck <- stuckA, cut <- cutA
PB == INSTANCE DropProofs WITH pc <- pcB, op <- opB, names <- namesB, i <- iB,
                               rest <- restB, rc <- rcB, clean <- cleanB,
                               stuck <- stuckB, cut <- cutB

\* The work of a drop is as far as WorkInv of DropProofs says, unless the other
\* was at the same package.
WorkA == (\E p \in met : PA!AtWork(p)) \/ PA!WorkInv
WorkB == (\E p \in met : PB!AtWork(p)) \/ PB!WorkInv

\* A package a drop has left alone.
KeptA(p) == PA!Same(p) /\ PA!MetaKept(p) /\ (p \notin cutA' => p \notin cutA)
KeptB(p) == PB!Same(p) /\ PB!MetaKept(p) /\ (p \notin cutB' => p \notin cutB)

\* Packages both are at are remembered.
MetInv == \A p \in Pkgs : PA!AtWork(p) /\ PB!AtWork(p) => p \in met

SettledInv ==
  \A p \in Pkgs \ (cutA \cup cutB \cup met) :
    PA!AtWork(p) \/ PB!AtWork(p) \/ PA!Absent(p) \/ PA!Complete(p)

DiskInv == PA!TypeOK /\ PB!TypeOK /\ met \subseteq Pkgs

IInv == DiskInv /\ PA!MembersInv /\ PB!MembersInv /\ WorkA /\ WorkB /\ MetInv /\ SettledInv

-----------------------------------------------------------------------------
(* The two instances.                                                      *)

\* The assumptions of Drop hold for either instance.
LEMMA Assumptions ==
  /\ PA!TreeAssumption /\ PA!ListingAssumption /\ PA!MetaAssumption /\ PA!MaxNamesAssumption
  /\ PB!TreeAssumption /\ PB!ListingAssumption /\ PB!MetaAssumption /\ PB!MaxNamesAssumption
  BY PairAssumption
     DEF A!TreeAssumption, A!ListingAssumption, A!MetaAssumption, PA!MetaAssumption,
         PB!MetaAssumption, A!MaxNamesAssumption, A!Paths, A!Closed,
         PA!TreeAssumption, PA!ListingAssumption, PA!MaxNamesAssumption, PA!Paths, PA!Closed,
         PB!TreeAssumption, PB!ListingAssumption, PB!MaxNamesAssumption, PB!Paths, PB!Closed

\* What drop A does is what the lemmas of DropProofs are about.
LEMMA SameNextA == A!Next => PA!Next
  BY DEF A!Next, PA!Next, A!Command, PA!Command, A!Exit, PA!Exit,
         A!InstallRefused, PA!InstallRefused, A!AlreadyInstalled,
         PA!AlreadyInstalled, A!BeginExtract, PA!BeginExtract,
         A!ExtractFails, PA!ExtractFails, A!Extracted, PA!Extracted,
         A!CreateManifest, PA!CreateManifest, A!WriteManifest,
         PA!WriteManifest, A!WriteMeta, PA!WriteMeta, A!NotInstalled,
         PA!NotInstalled, A!RemoveMeta, PA!RemoveMeta, A!is_installed,
         PA!is_installed, A!ReadManifest, PA!ReadManifest, A!Unlinked,
         PA!Unlinked, A!Rmdired, PA!Rmdired, A!Forget, PA!Forget,
         A!ForgetMeta, PA!ForgetMeta, A!ExtractMember, PA!ExtractMember,
         A!Unlink, PA!Unlink, A!Rmdir, PA!Rmdir, A!TryRmdir, PA!TryRmdir, A!Kill, PA!Kill, A!Gone,
         PA!Gone, A!Continue, PA!Continue, A!Settle, PA!Settle, A!Working,
         PA!Working, A!Empty, PA!Empty, A!Closed, PA!Closed, A!Arguments,
         PA!Arguments, A!Paths, PA!Paths, A!cur, PA!cur, A!disk, PA!disk

\* What drop B does is what the lemmas of DropProofs are about.
LEMMA SameNextB == B!Next => PB!Next
  BY DEF B!Next, PB!Next, B!Command, PB!Command, B!Exit, PB!Exit,
         B!InstallRefused, PB!InstallRefused, B!AlreadyInstalled,
         PB!AlreadyInstalled, B!BeginExtract, PB!BeginExtract,
         B!ExtractFails, PB!ExtractFails, B!Extracted, PB!Extracted,
         B!CreateManifest, PB!CreateManifest, B!WriteManifest,
         PB!WriteManifest, B!WriteMeta, PB!WriteMeta, B!NotInstalled,
         PB!NotInstalled, B!RemoveMeta, PB!RemoveMeta, B!is_installed,
         PB!is_installed, B!ReadManifest, PB!ReadManifest, B!Unlinked,
         PB!Unlinked, B!Rmdired, PB!Rmdired, B!Forget, PB!Forget,
         B!ForgetMeta, PB!ForgetMeta, B!ExtractMember, PB!ExtractMember,
         B!Unlink, PB!Unlink, B!Rmdir, PB!Rmdir, B!TryRmdir, PB!TryRmdir, B!Kill, PB!Kill, B!Gone,
         PB!Gone, B!Continue, PB!Continue, B!Settle, PB!Settle, B!Working,
         PB!Working, B!Empty, PB!Empty, B!Closed, PB!Closed, B!Arguments,
         PB!Arguments, B!Paths, PB!Paths, B!cur, PB!cur, B!disk, PB!disk

-----------------------------------------------------------------------------
(* Remaking a directory.                                                   *)

\* What is made above a member are directories.
LEMMA AboveIsTree ==
  ASSUME NEW x \in A!Paths
  PROVE  /\ x \in Above(x) /\ Above(x) \subseteq A!Paths
         /\ Above(x) \ {x} \subseteq Dirs
<1> USE PairAssumption DEF A!TreeAssumption, A!Paths, A!Closed
<1>1. x \in Above(x) /\ Above(x) \subseteq A!Paths
  BY DEF Above
<1>2. Above(x) \ {x} \subseteq Dirs
  <2>1. Dirs \cup {x} \in SUBSET A!Paths /\ A!Closed(Dirs \cup {x})
    OBVIOUS
  <2> QED
    BY <2>1 DEF Above
<1> QED
  BY <1>1, <1>2

\* A tar that has to make directories again keeps to its own package too.
LEMMA RemakeStepA ==
  ASSUME IInv, NEW x \in A!Paths, RemakeA(x)
  PROVE  /\ PA!TypeOK' /\ PA!MembersInv'
         /\ PA!WorkInv => PA!WorkInv'
         /\ \A p : PA!AtWork(p)' = PA!AtWork(p)
         /\ \A p \in Pkgs : ~PA!AtWork(p) => PA!Same(p)
         /\ UNCHANGED <<meta, cutA>>
<1> USE PairAssumption DEF A!TreeAssumption, A!ListingAssumption, A!Paths, A!Closed
<1>1. /\ pcA = "extract" /\ x \in restA /\ restA' = restA \ {x}
      /\ present' = present \cup Above(x)
      /\ UNCHANGED <<known, listed, meta, pcA, opA, namesA, iA, rcA, cleanA, stuckA, cutA>>
  BY DEF RemakeA
<1>2. /\ x \in Above(x) /\ Above(x) \subseteq Files \cup Dirs
      /\ Above(x) \ {x} \subseteq Dirs
  BY AboveIsTree
<1>3. PA!TypeOK /\ PA!MembersInv
  BY DEF IInv, DiskInv
<1>4. PA!cur \in Pkgs /\ PA!cur' = PA!cur /\ x \in Listing[PA!cur]
  BY <1>1, <1>3 DEF PA!TypeOK, PA!MembersInv, PA!cur
<1>5. PA!TypeOK'
  BY <1>1, <1>2, <1>3, <1>4 DEF PA!TypeOK, PA!Paths
<1>7. PA!MembersInv'
  BY <1>1, <1>3, <1>4 DEF PA!MembersInv
<1>8. PA!WorkInv => PA!WorkInv'
  BY <1>1, <1>2, <1>4 DEF PA!WorkInv, PA!FilesOf
<1>9. ASSUME NEW p \in Pkgs, ~PA!AtWork(p) PROVE PA!Same(p)
  <2>1. p # PA!cur
    BY <1>1, <1>9 DEF PA!AtWork
  <2>2. \A y \in Above(x) : y \notin PA!FilesOf(p)
    BY <1>2, <1>4, <2>1 DEF PA!FilesOf
  <2> QED
    BY <1>1, <2>2 DEF PA!Same
<1> QED
  BY <1>1, <1>4, <1>5, <1>7, <1>8, <1>9 DEF PA!AtWork

\* A tar that has to make directories again keeps to its own package too.
LEMMA RemakeStepB ==
  ASSUME IInv, NEW x \in A!Paths, RemakeB(x)
  PROVE  /\ PB!TypeOK' /\ PB!MembersInv'
         /\ PB!WorkInv => PB!WorkInv'
         /\ \A p : PB!AtWork(p)' = PB!AtWork(p)
         /\ \A p \in Pkgs : ~PB!AtWork(p) => PB!Same(p)
         /\ UNCHANGED <<meta, cutB>>
<1> USE PairAssumption DEF A!TreeAssumption, A!ListingAssumption, A!Paths, A!Closed
<1>1. /\ pcB = "extract" /\ x \in restB /\ restB' = restB \ {x}
      /\ present' = present \cup Above(x)
      /\ UNCHANGED <<known, listed, meta, pcB, opB, namesB, iB, rcB, cleanB, stuckB, cutB>>
  BY DEF RemakeB
<1>2. /\ x \in Above(x) /\ Above(x) \subseteq Files \cup Dirs
      /\ Above(x) \ {x} \subseteq Dirs
  BY AboveIsTree
<1>3. PB!TypeOK /\ PB!MembersInv
  BY DEF IInv, DiskInv
<1>4. PB!cur \in Pkgs /\ PB!cur' = PB!cur /\ x \in Listing[PB!cur]
  BY <1>1, <1>3 DEF PB!TypeOK, PB!MembersInv, PB!cur
<1>5. PB!TypeOK'
  BY <1>1, <1>2, <1>3, <1>4 DEF PB!TypeOK, PB!Paths
<1>7. PB!MembersInv'
  BY <1>1, <1>3, <1>4 DEF PB!MembersInv
<1>8. PB!WorkInv => PB!WorkInv'
  BY <1>1, <1>2, <1>4 DEF PB!WorkInv, PB!FilesOf
<1>9. ASSUME NEW p \in Pkgs, ~PB!AtWork(p) PROVE PB!Same(p)
  <2>1. p # PB!cur
    BY <1>1, <1>9 DEF PB!AtWork
  <2>2. \A y \in Above(x) : y \notin PB!FilesOf(p)
    BY <1>2, <1>4, <2>1 DEF PB!FilesOf
  <2> QED
    BY <1>1, <2>2 DEF PB!Same
<1> QED
  BY <1>1, <1>4, <1>5, <1>7, <1>8, <1>9 DEF PB!AtWork

-----------------------------------------------------------------------------
(* One drop moves.                                                         *)

\* What a step of drop A leaves to itself, and to the packages it is not at.
LEMMA MovesA ==
  ASSUME IInv, A!Next \/ (\E x \in A!Paths : RemakeA(x)) \/ UNCHANGED vars
  PROVE  /\ PA!TypeOK' /\ PA!MembersInv'
         /\ PA!WorkInv => PA!WorkInv'
         /\ \A p : PA!AtWork(p) => PA!AtWork(p)' \/ PA!WorkInv'
         /\ \A p \in Pkgs : ~PA!AtWork(p) => KeptA(p)
         /\ \A p \in Pkgs : /\ PA!WorkInv /\ PA!AtWork(p) /\ ~PA!AtWork(p)' /\ p \notin cutA'
                            => PA!Absent(p)' \/ PA!Complete(p)'
<1> USE Assumptions
<1>1. PA!TypeOK /\ PA!MembersInv
  BY DEF IInv, DiskInv
<1>2. CASE \E x \in A!Paths : RemakeA(x)
  BY <1>2, RemakeStepA DEF KeptA, PA!MetaKept
<1>3. CASE A!Next \/ UNCHANGED vars
  <2>1. [PA!Next]_(PA!vars)
    BY <1>3, SameNextA DEF vars, disk, localA, PA!vars, PA!disk
  <2>2. PA!TypeOK' /\ PA!MembersInv' /\ (PA!WorkInv => PA!WorkInv')
    BY <1>1, <2>1, PA!TypeStep, PA!MembersStep, PA!WorkStep
  <2>3. ASSUME NEW p, PA!AtWork(p) PROVE PA!AtWork(p)' \/ PA!WorkInv'
    BY <1>1, <2>1, <2>3, PA!StaysAtWork, PA!NoWork
  <2>4. ASSUME NEW p \in Pkgs, ~PA!AtWork(p)
        PROVE  KeptA(p)
    BY <1>1, <2>1, <2>4, PA!OthersKept DEF KeptA
  <2>5. ASSUME NEW p \in Pkgs, PA!WorkInv, PA!AtWork(p), ~PA!AtWork(p)', p \notin cutA'
        PROVE  PA!Absent(p)' \/ PA!Complete(p)'
    BY <1>1, <2>1, <2>5, PA!Finished
  <2> QED
    BY <2>2, <2>3, <2>4, <2>5
<1> QED
  BY <1>2, <1>3

\* What a step of drop B leaves to itself, and to the packages it is not at.
LEMMA MovesB ==
  ASSUME IInv, B!Next \/ (\E x \in A!Paths : RemakeB(x)) \/ UNCHANGED vars
  PROVE  /\ PB!TypeOK' /\ PB!MembersInv'
         /\ PB!WorkInv => PB!WorkInv'
         /\ \A p : PB!AtWork(p) => PB!AtWork(p)' \/ PB!WorkInv'
         /\ \A p \in Pkgs : ~PB!AtWork(p) => KeptB(p)
         /\ \A p \in Pkgs : /\ PB!WorkInv /\ PB!AtWork(p) /\ ~PB!AtWork(p)' /\ p \notin cutB'
                            => PB!Absent(p)' \/ PB!Complete(p)'
<1> USE Assumptions
<1>1. PB!TypeOK /\ PB!MembersInv
  BY DEF IInv, DiskInv
<1>2. CASE \E x \in A!Paths : RemakeB(x)
  BY <1>2, RemakeStepB DEF KeptB, PB!MetaKept
<1>3. CASE B!Next \/ UNCHANGED vars
  <2>1. [PB!Next]_(PB!vars)
    BY <1>3, SameNextB DEF vars, disk, localB, PB!vars, PB!disk
  <2>2. PB!TypeOK' /\ PB!MembersInv' /\ (PB!WorkInv => PB!WorkInv')
    BY <1>1, <2>1, PB!TypeStep, PB!MembersStep, PB!WorkStep
  <2>3. ASSUME NEW p, PB!AtWork(p) PROVE PB!AtWork(p)' \/ PB!WorkInv'
    BY <1>1, <2>1, <2>3, PB!StaysAtWork, PB!NoWork
  <2>4. ASSUME NEW p \in Pkgs, ~PB!AtWork(p)
        PROVE  KeptB(p)
    BY <1>1, <2>1, <2>4, PB!OthersKept DEF KeptB
  <2>5. ASSUME NEW p \in Pkgs, PB!WorkInv, PB!AtWork(p), ~PB!AtWork(p)', p \notin cutB'
        PROVE  PB!Absent(p)' \/ PB!Complete(p)'
    BY <1>1, <2>1, <2>5, PB!Finished
  <2> QED
    BY <2>2, <2>3, <2>4, <2>5
<1> QED
  BY <1>2, <1>3

\* A step of drop A keeps the invariant: its own part by the lemmas of
\* DropProofs, that of the other because its package is left alone.
LEMMA StepAIInv ==
  ASSUME IInv, A!Next \/ (\E x \in A!Paths : RemakeA(x)) \/ UNCHANGED vars,
         UNCHANGED localB, met \subseteq met', met' \subseteq Pkgs,
         \A p \in Pkgs : A!AtWork(p)' /\ B!AtWork(p)' => p \in met'
  PROVE  IInv'
<1> USE Assumptions
<1>1. /\ PA!TypeOK' /\ PA!MembersInv'
      /\ PA!WorkInv => PA!WorkInv'
      /\ \A p : PA!AtWork(p) => PA!AtWork(p)' \/ PA!WorkInv'
      /\ \A p \in Pkgs : ~PA!AtWork(p) => KeptA(p)
      /\ \A p \in Pkgs : /\ PA!WorkInv /\ PA!AtWork(p) /\ ~PA!AtWork(p)' /\ p \notin cutA'
                         => PA!Absent(p)' \/ PA!Complete(p)'
  BY MovesA
<1>2. UNCHANGED <<pcB, opB, namesB, iB, restB, rcB, cleanB, stuckB, cutB>>
  BY DEF localB
<1>3. \A p : PB!AtWork(p)' = PB!AtWork(p)
  BY <1>2 DEF PB!AtWork, PB!cur
<1>4. DiskInv'
  BY <1>1, <1>2 DEF IInv, DiskInv, PA!TypeOK, PB!TypeOK, PA!Pcs, PB!Pcs, PA!Paths,
       PB!Paths, PA!cur, PB!cur
<1>5. PB!MembersInv'
  BY <1>1, <1>2 DEF IInv, PA!MembersInv, PB!MembersInv, PA!cur, PB!cur
<1>6. WorkA'
  BY <1>1 DEF IInv, WorkA
<1>7. WorkB'
  <2>1. CASE \E p \in met : PB!AtWork(p)
    BY <1>3, <2>1 DEF WorkB
  <2>2. CASE ~(\E p \in met : PB!AtWork(p))
    <3>1. PB!WorkInv /\ PB!TypeOK
      BY <2>2 DEF IInv, DiskInv, WorkB
    <3>2. ASSUME pcB \notin {"idle", "next"} PROVE PB!Same(PB!cur)
      <4>1. PB!cur \in Pkgs /\ PB!AtWork(PB!cur)
        BY <3>1, <3>2, PB!CurType DEF PB!TypeOK, PB!AtWork
      <4>2. ~PA!AtWork(PB!cur)
        BY <2>2, <4>1 DEF IInv, MetInv
      <4> QED
        BY <1>1, <4>1, <4>2 DEF KeptA, PA!Same, PB!Same, PA!FilesOf, PB!FilesOf
    <3>3. PB!WorkInv'
      BY <1>2, <3>1, <3>2, PB!Undisturbed
    <3> QED
      BY <3>3 DEF WorkB
  <2> QED
    BY <2>1, <2>2
<1>8. MetInv'
  BY DEF MetInv, A!AtWork, B!AtWork, PA!AtWork, PB!AtWork, A!cur, B!cur, PA!cur, PB!cur
<1>9. SettledInv'
  <2> SUFFICES ASSUME NEW p \in Pkgs, p \notin cutA', p \notin cutB', p \notin met',
                      ~PA!AtWork(p)', ~PB!AtWork(p)'
               PROVE  PA!Absent(p)' \/ PA!Complete(p)'
    BY DEF SettledInv
  <2>1. p \notin cutB /\ p \notin met /\ ~PB!AtWork(p)
    BY <1>2, <1>3
  <2>2. CASE PA!AtWork(p)
    <3>1. \A q : PA!AtWork(q) => q = p
      BY <2>2 DEF PA!AtWork
    <3>2. PA!WorkInv
      BY <2>1, <3>1 DEF IInv, WorkA
    <3> QED
      BY <1>1, <2>2, <3>2 DEF PA!Absent, PB!Absent, PA!Complete, PB!Complete, PA!FilesOf, PB!FilesOf
  <2>3. CASE ~PA!AtWork(p)
    <3>1. KeptA(p)
      BY <1>1, <2>3
    <3>2. p \notin cutA /\ PA!Same(p) /\ (p \in meta' <=> p \in meta)
      BY <3>1 DEF KeptA, PA!MetaKept, PA!Same, PB!Same, PA!FilesOf, PB!FilesOf
    <3>3. PA!Absent(p) \/ PA!Complete(p)
      BY <2>1, <2>3, <3>2 DEF IInv, SettledInv
    <3> QED
      BY <3>2, <3>3, PA!SameStatus
  <2> QED
    BY <2>2, <2>3
<1> QED
  BY <1>1, <1>4, <1>5, <1>6, <1>7, <1>8, <1>9 DEF IInv

\* A step of drop B keeps the invariant: its own part by the lemmas of
\* DropProofs, that of the other because its package is left alone.
LEMMA StepBIInv ==
  ASSUME IInv, B!Next \/ (\E x \in A!Paths : RemakeB(x)) \/ UNCHANGED vars,
         UNCHANGED localA, met \subseteq met', met' \subseteq Pkgs,
         \A p \in Pkgs : A!AtWork(p)' /\ B!AtWork(p)' => p \in met'
  PROVE  IInv'
<1> USE Assumptions
<1>1. /\ PB!TypeOK' /\ PB!MembersInv'
      /\ PB!WorkInv => PB!WorkInv'
      /\ \A p : PB!AtWork(p) => PB!AtWork(p)' \/ PB!WorkInv'
      /\ \A p \in Pkgs : ~PB!AtWork(p) => KeptB(p)
      /\ \A p \in Pkgs : /\ PB!WorkInv /\ PB!AtWork(p) /\ ~PB!AtWork(p)' /\ p \notin cutB'
                         => PB!Absent(p)' \/ PB!Complete(p)'
  BY MovesB
<1>2. UNCHANGED <<pcA, opA, namesA, iA, restA, rcA, cleanA, stuckA, cutA>>
  BY DEF localA
<1>3. \A p : PA!AtWork(p)' = PA!AtWork(p)
  BY <1>2 DEF PA!AtWork, PA!cur
<1>4. DiskInv'
  BY <1>1, <1>2 DEF IInv, DiskInv, PA!TypeOK, PB!TypeOK, PA!Pcs, PB!Pcs, PA!Paths,
       PB!Paths, PA!cur, PB!cur
<1>5. PA!MembersInv'
  BY <1>1, <1>2 DEF IInv, PA!MembersInv, PB!MembersInv, PA!cur, PB!cur
<1>6. WorkB'
  BY <1>1 DEF IInv, WorkB
<1>7. WorkA'
  <2>1. CASE \E p \in met : PA!AtWork(p)
    BY <1>3, <2>1 DEF WorkA
  <2>2. CASE ~(\E p \in met : PA!AtWork(p))
    <3>1. PA!WorkInv /\ PA!TypeOK
      BY <2>2 DEF IInv, DiskInv, WorkA
    <3>2. ASSUME pcA \notin {"idle", "next"} PROVE PA!Same(PA!cur)
      <4>1. PA!cur \in Pkgs /\ PA!AtWork(PA!cur)
        BY <3>1, <3>2, PA!CurType DEF PA!TypeOK, PA!AtWork
      <4>2. ~PB!AtWork(PA!cur)
        BY <2>2, <4>1 DEF IInv, MetInv
      <4> QED
        BY <1>1, <4>1, <4>2 DEF KeptB, PA!Same, PB!Same, PA!FilesOf, PB!FilesOf
    <3>3. PA!WorkInv'
      BY <1>2, <3>1, <3>2, PA!Undisturbed
    <3> QED
      BY <3>3 DEF WorkA
  <2> QED
    BY <2>1, <2>2
<1>8. MetInv'
  BY DEF MetInv, A!AtWork, B!AtWork, PA!AtWork, PB!AtWork, A!cur, B!cur, PA!cur, PB!cur
<1>9. SettledInv'
  <2> SUFFICES ASSUME NEW p \in Pkgs, p \notin cutA', p \notin cutB', p \notin met',
                      ~PA!AtWork(p)', ~PB!AtWork(p)'
               PROVE  PA!Absent(p)' \/ PA!Complete(p)'
    BY DEF SettledInv
  <2>1. p \notin cutA /\ p \notin met /\ ~PA!AtWork(p)
    BY <1>2, <1>3
  <2>2. CASE PB!AtWork(p)
    <3>1. \A q : PB!AtWork(q) => q = p
      BY <2>2 DEF PB!AtWork
    <3>2. PB!WorkInv
      BY <2>1, <3>1 DEF IInv, WorkB
    <3> QED
      BY <1>1, <2>2, <3>2 DEF PA!Absent, PB!Absent, PA!Complete, PB!Complete, PA!FilesOf, PB!FilesOf
  <2>3. CASE ~PB!AtWork(p)
    <3>1. KeptB(p)
      BY <1>1, <2>3
    <3>2. p \notin cutB /\ PA!Same(p) /\ (p \in meta' <=> p \in meta)
      BY <3>1 DEF KeptB, PB!MetaKept, PA!Same, PB!Same, PA!FilesOf, PB!FilesOf
    <3>3. PA!Absent(p) \/ PA!Complete(p)
      BY <2>1, <2>3, <3>2 DEF IInv, SettledInv
    <3> QED
      BY <3>2, <3>3, PA!SameStatus
  <2> QED
    BY <2>2, <2>3
<1> QED
  BY <1>1, <1>4, <1>5, <1>6, <1>7, <1>8, <1>9 DEF IInv

-----------------------------------------------------------------------------
\* At first nothing is installed and neither drop is at work.
LEMMA InitIInv == Init => IInv
<1> SUFFICES ASSUME Init PROVE IInv
  OBVIOUS
<1> USE Assumptions DEF Init, A!Init, B!Init, PA!Init, PB!Init
<1>1. PA!Init /\ PB!Init
  OBVIOUS
<1>2. PA!IInv /\ PB!IInv
  BY <1>1, PA!InitIInv, PB!InitIInv
<1>3. SettledInv
  BY <1>2 DEF PA!IInv, PA!Settled, SettledInv
<1> QED
  BY <1>2, <1>3 DEF PA!IInv, PB!IInv, IInv, DiskInv, WorkA, WorkB, MetInv, PA!AtWork

\* The invariant holds in every reachable state.
LEMMA IInvAlways == Spec => []IInv
<1>1. IInv /\ [Next]_vars => IInv'
  <2> SUFFICES ASSUME IInv, [Next]_vars PROVE IInv'
    OBVIOUS
  <2>1. met \subseteq met' /\ met' \subseteq Pkgs
    BY DEF Next, vars, IInv, DiskInv
  <2>2. CASE UNCHANGED vars
    <3>1. \A p \in Pkgs : A!AtWork(p)' /\ B!AtWork(p)' => p \in met'
      BY <2>2 DEF vars, localA, localB, IInv, MetInv, A!AtWork, B!AtWork, PA!AtWork,
           PB!AtWork, A!cur, B!cur, PA!cur, PB!cur
    <3> QED
      BY <2>1, <2>2, <3>1, StepAIInv DEF vars
  <2>3. CASE Next
    <3>1. \A p \in Pkgs : A!AtWork(p)' /\ B!AtWork(p)' => p \in met'
      BY <2>3 DEF Next, Both
    <3>2. CASE StepA
      BY <2>1, <3>1, <3>2, StepAIInv DEF StepA
    <3>3. CASE StepB
      BY <2>1, <3>1, <3>3, StepBIInv DEF StepB
    <3> QED
      BY <2>3, <3>2, <3>3 DEF Next
  <2> QED
    BY <2>2, <2>3
<1> QED
  BY InitIInv, <1>1, PTL DEF Spec

\* Both drops keep to their types, and only packages are ever met on.
THEOREM TypeCorrect == Spec => []TypeOK
<1>1. PA!TypeOK => A!TypeOK
  BY DEF A!TypeOK, PA!TypeOK, A!Paths, PA!Paths, A!Pcs, PA!Pcs, A!cur, PA!cur
<1>2. PB!TypeOK => B!TypeOK
  BY DEF B!TypeOK, PB!TypeOK, B!Paths, PB!Paths, B!Pcs, PB!Pcs, B!cur, PB!cur
<1>3. IInv => TypeOK
  BY <1>1, <1>2 DEF IInv, DiskInv, TypeOK
<1> QED
  BY <1>3, IInvAlways, PTL

\* Two drops at once, without a lock, over any packages and any tree: as long as
\* they do not meet on one package, each is wholly there or wholly gone unless a
\* fault touched it or its .meta was removed by name, however their steps
\* interleave.
THEOREM AlwaysPairSettled == Spec => []PairSettled
<1>1. IInv => PairSettled
  BY DEF IInv, DiskInv, SettledInv, PairSettled,
       A!AtWork, PA!AtWork, A!cur, PA!cur, B!AtWork, PB!AtWork, B!cur, PB!cur,
       A!Absent, PA!Absent, A!Complete, PA!Complete, A!FilesOf, PA!FilesOf
<1> QED
  BY <1>1, IInvAlways, PTL
=============================================================================
