---------------------------- MODULE DropProofs ----------------------------
(***************************************************************************)
(* Proofs about Drop, for any packages, any tree and any number of names.  *)
(* Settled speaks only of packages nobody is working on; to prove it, the  *)
(* invariant WorkInv says how far the work on the current name has got.    *)
(***************************************************************************)
EXTENDS Drop, TLAPS

\* Where drop stands with the name it is working on: its manifest, its files.
WorkInv ==
  /\ pc = "extract" => /\ cur \notin known
                       /\ FilesOf(cur) \subseteq present \cup rest
                       /\ clean
  /\ pc = "record" => /\ cur \notin known
                      /\ FilesOf(cur) \subseteq present
                      /\ clean
  /\ pc = "write" => /\ cur \in known
                     /\ listed[cur] = {}
                     /\ FilesOf(cur) \subseteq present
                     /\ clean
  /\ pc = "meta" /\ clean => /\ cur \in known
                             /\ listed[cur] = Listing[cur]
                             /\ FilesOf(cur) \subseteq present
  /\ pc \in {"unlink", "rmdir", "forget"} => cur \in known
  /\ pc = "unlink" /\ clean => FilesOf(cur) \cap present \subseteq rest
  /\ pc = "forget_meta" /\ clean => cur \notin known
  /\ pc \in {"rmdir", "forget", "forget_meta"} /\ clean =>
       FilesOf(cur) \cap present = {}

\* Manifests, and what is left to do for a name, name only its own members.
MembersInv ==
  /\ \A p \in Pkgs : listed[p] \subseteq Listing[p]
  /\ pc \in {"extract", "unlink"} => rest \subseteq Listing[cur]
  /\ pc = "rmdir" => rest \subseteq Dirs

IInv == TypeOK /\ MembersInv /\ WorkInv /\ Settled

-----------------------------------------------------------------------------
\* The arguments of a command are a sequence of package names.
LEMMA ArgumentsType == \A ns \in Arguments : ns \in Seq(Pkgs \cup MetaNames) /\ Len(ns) \in Nat
  BY MaxNamesAssumption DEF Arguments

\* What is worked on is a package.
LEMMA CurType == TypeOK /\ pc \notin {"idle", "next"} => cur \in Pkgs
  BY DEF TypeOK

LEMMA InitIInv == Init => IInv
<1> SUFFICES ASSUME Init PROVE IInv
  OBVIOUS
<1> USE DEF Init
<1>1. TypeOK
  BY TreeAssumption DEF TypeOK, Pcs, Paths
<1>3. MembersInv /\ WorkInv
  BY DEF MembersInv, WorkInv
<1>4. Settled
  BY TreeAssumption DEF Settled, Absent, FilesOf
<1> QED
  BY <1>1, <1>3, <1>4 DEF IInv

LEMMA TypeStep == TypeOK /\ [Next]_vars => TypeOK'
<1> SUFFICES ASSUME TypeOK, [Next]_vars PROVE TypeOK'
  OBVIOUS
<1> USE CurType, ListingAssumption DEF TypeOK, Pcs, disk, cur
<1>1. ASSUME NEW o \in {"install", "remove"}, NEW ns \in Arguments, Command(o, ns)
      PROVE TypeOK'
  BY <1>1, ArgumentsType DEF Command
<1>2. CASE Exit
  BY <1>2 DEF Exit, Gone
<1>3. CASE InstallRefused \/ AlreadyInstalled \/ NotInstalled
  BY <1>3 DEF InstallRefused, AlreadyInstalled, NotInstalled, Working, Continue
<1>4. CASE BeginExtract \/ ReadManifest
  BY <1>4 DEF BeginExtract, ReadManifest, Working, cur
<1>5. CASE ExtractFails
  BY <1>5 DEF ExtractFails, Continue
<1>6. CASE Extracted \/ Unlinked \/ Rmdired
  BY <1>6 DEF Extracted, Unlinked, Rmdired
<1>7. CASE CreateManifest
  BY <1>7 DEF CreateManifest
<1>8. CASE WriteManifest
  BY <1>8 DEF WriteManifest
<1>9. CASE WriteMeta
  BY <1>9 DEF WriteMeta, Continue, Settle
<1>15. CASE RemoveMeta
  BY <1>15, MetaAssumption DEF RemoveMeta, Working, Continue
<1>10. CASE Forget
  BY <1>10 DEF Forget
<1>11. CASE ForgetMeta
  BY <1>11 DEF ForgetMeta, Continue, Settle
<1>12. ASSUME NEW x \in Paths, ExtractMember(x) \/ Unlink(x) \/ Rmdir(x)
       PROVE TypeOK'
  BY <1>12 DEF ExtractMember, Unlink, Rmdir, TryRmdir
<1>13. CASE Kill
  BY <1>13 DEF Kill, Gone
<1>14. CASE UNCHANGED vars
  BY <1>14 DEF vars
<1> QED
  BY <1>1, <1>2, <1>3, <1>4, <1>5, <1>6, <1>7, <1>8, <1>9, <1>10, <1>11,
     <1>12, <1>13, <1>14, <1>15 DEF Next

-----------------------------------------------------------------------------
\* Manifests keep naming only members of their package, and so does the work.
LEMMA MembersStep == TypeOK /\ MembersInv /\ [Next]_vars => MembersInv'
<1> SUFFICES ASSUME TypeOK, MembersInv, [Next]_vars PROVE MembersInv'
  OBVIOUS
<1> USE CurType, ListingAssumption DEF TypeOK, MembersInv, disk
<1>1. ASSUME NEW o \in {"install", "remove"}, NEW ns \in Arguments, Command(o, ns)
      PROVE MembersInv'
  BY <1>1 DEF Command
<1>2. CASE Exit \/ Kill
  BY <1>2 DEF Exit, Kill, Gone
<1>3. CASE InstallRefused \/ AlreadyInstalled \/ NotInstalled \/ ExtractFails
           \/ WriteMeta \/ ForgetMeta \/ RemoveMeta
  BY <1>3 DEF InstallRefused, AlreadyInstalled, NotInstalled, ExtractFails,
              WriteMeta, ForgetMeta, RemoveMeta, Continue
<1>4. CASE BeginExtract \/ ReadManifest
  BY <1>4 DEF BeginExtract, ReadManifest, Working, is_installed, cur
<1>5. CASE Extracted \/ Unlinked \/ Rmdired
  BY <1>5, TreeAssumption DEF Extracted, Unlinked, Rmdired, cur, Paths
<1>6. CASE CreateManifest \/ WriteManifest \/ Forget
  <2>1. PICK S \in SUBSET Listing[cur] :
          listed' = listed \/ listed' = [listed EXCEPT ![cur] = S]
    BY <1>6 DEF CreateManifest, WriteManifest, Forget
  <2>2. \A p \in Pkgs : listed'[p] \subseteq Listing[p]
    BY <2>1
  <2>3. pc' \in {"write", "meta", "forget_meta"}
    BY <1>6 DEF CreateManifest, WriteManifest, Forget
  <2> QED
    BY <2>2, <2>3
<1>7. ASSUME NEW x \in Paths, ExtractMember(x) \/ Unlink(x) \/ Rmdir(x)
      PROVE MembersInv'
  BY <1>7 DEF ExtractMember, Unlink, Rmdir, cur
<1>8. CASE UNCHANGED vars
  BY <1>8 DEF vars, cur
<1> QED
  BY <1>1, <1>2, <1>3, <1>4, <1>5, <1>6, <1>7, <1>8 DEF Next

\* The work on the current name goes on as WorkInv says.
LEMMA WorkStep == TypeOK /\ MembersInv /\ WorkInv /\ [Next]_vars => WorkInv'
<1> SUFFICES ASSUME TypeOK, MembersInv, WorkInv, [Next]_vars PROVE WorkInv'
  OBVIOUS
<1> USE CurType, ListingAssumption DEF TypeOK, WorkInv, disk, FilesOf
<1>1. ASSUME NEW o \in {"install", "remove"}, NEW ns \in Arguments, Command(o, ns)
      PROVE WorkInv'
  BY <1>1 DEF Command
<1>2. CASE Exit \/ Kill
  BY <1>2 DEF Exit, Kill, Gone
<1>3. CASE InstallRefused \/ AlreadyInstalled \/ NotInstalled \/ RemoveMeta
  BY <1>3 DEF InstallRefused, AlreadyInstalled, NotInstalled, RemoveMeta, Continue
<1>4. CASE BeginExtract
  BY <1>4 DEF BeginExtract, Working, is_installed, cur
<1>5. CASE ReadManifest
  BY <1>5 DEF ReadManifest, Working, is_installed, cur
<1>6. CASE ExtractFails \/ WriteMeta \/ ForgetMeta
  BY <1>6 DEF ExtractFails, WriteMeta, ForgetMeta, Continue
<1>7. CASE Extracted
  BY <1>7 DEF Extracted, cur
<1>8. CASE CreateManifest
  BY <1>8 DEF CreateManifest, cur
<1>9. CASE WriteManifest
  BY <1>9 DEF WriteManifest, cur
<1>10. CASE Unlinked
  BY <1>10, TreeAssumption DEF Unlinked, cur, Paths
<1>11. CASE Rmdired
  BY <1>11 DEF Rmdired, cur
<1>12. CASE Forget
  BY <1>12 DEF Forget, cur
<1>13. ASSUME NEW x \in Paths, ExtractMember(x) PROVE WorkInv'
  BY <1>13 DEF ExtractMember, cur
<1>14. ASSUME NEW x \in Paths, Unlink(x) PROVE WorkInv'
  BY <1>14 DEF Unlink, cur
<1>15. ASSUME NEW x \in Paths, Rmdir(x) PROVE WorkInv'
  <2>1. FilesOf(cur) \cap present' = FilesOf(cur) \cap present
    BY <1>15, TreeAssumption DEF Rmdir, TryRmdir, MembersInv
  <2> QED
    BY <1>15, <2>1 DEF Rmdir, cur
<1>16. CASE UNCHANGED vars
  BY <1>16 DEF vars, cur
<1> QED
  BY <1>1, <1>2, <1>3, <1>4, <1>5, <1>6, <1>7, <1>8, <1>9, <1>10, <1>11,
     <1>12, <1>13, <1>14, <1>15, <1>16 DEF Next

\* What the disk says of a package: its manifest and its files.
Same(p) == /\ p \in known' <=> p \in known
           /\ listed'[p] = listed[p]
           /\ FilesOf(p) \cap present' = FilesOf(p) \cap present

\* Its .meta, too, unless that was removed by its own name.
MetaKept(p) == (p \in meta' <=> p \in meta) \/ p \in cut'

\* Nothing else happens to a package drop is not at work on.
LEMMA OthersKept ==
  ASSUME TypeOK, MembersInv, [Next]_vars, NEW p \in Pkgs, ~AtWork(p)
  PROVE  Same(p) /\ MetaKept(p) /\ (p \notin cut' => p \notin cut)
<1> USE CurType DEF TypeOK, AtWork, disk, Same, MetaKept
<1>1. CASE UNCHANGED disk
  BY <1>1 DEF Next, vars, Command, Exit, InstallRefused, AlreadyInstalled,
       BeginExtract, ExtractFails, Extracted, CreateManifest, WriteManifest,
       WriteMeta, NotInstalled, RemoveMeta, ReadManifest, Unlinked, Rmdired, Forget,
       ForgetMeta, Kill, ExtractMember, Unlink, Rmdir, TryRmdir, Settle
<1>2. CASE CreateManifest \/ WriteManifest \/ Forget
  BY <1>2 DEF CreateManifest, WriteManifest, Forget
<1>3. CASE WriteMeta \/ ForgetMeta
  BY <1>3 DEF WriteMeta, ForgetMeta, Settle
<1>4. ASSUME NEW x \in Paths, ExtractMember(x) \/ Unlink(x) \/ Rmdir(x)
      PROVE  Same(p) /\ MetaKept(p) /\ (p \notin cut' => p \notin cut)
  <2>1. cur \in Pkgs /\ p # cur
    BY <1>4 DEF ExtractMember, Unlink, Rmdir
  <2>2. x \in Listing[cur] \/ x \in Dirs
    BY <1>4 DEF ExtractMember, Unlink, Rmdir, MembersInv
  <2>3. x \notin FilesOf(p)
    BY <2>1, <2>2, ListingAssumption, TreeAssumption DEF FilesOf
  <2> QED
    BY <1>4, <2>3 DEF ExtractMember, Unlink, Rmdir, TryRmdir
<1>5. CASE RemoveMeta
  BY <1>5, MetaAssumption DEF RemoveMeta
<1> QED
  BY <1>1, <1>2, <1>3, <1>4, <1>5 DEF Next, vars, Command, Exit, InstallRefused,
       AlreadyInstalled, BeginExtract, ExtractFails, Extracted, NotInstalled, RemoveMeta,
       ReadManifest, Unlinked, Rmdired, Kill

\* Work that ends without a fault leaves its package wholly there or gone.
LEMMA Finished ==
  ASSUME TypeOK, WorkInv, [Next]_vars, NEW p \in Pkgs, AtWork(p), ~AtWork(p)',
         p \notin cut'
  PROVE  Absent(p)' \/ Complete(p)'
<1> USE CurType DEF TypeOK, AtWork, disk
<1>1. WriteMeta \/ ForgetMeta
  BY DEF Next, vars, Command, Exit, InstallRefused, AlreadyInstalled, Working,
       BeginExtract, ExtractFails, Extracted, CreateManifest, WriteManifest,
       NotInstalled, RemoveMeta, ReadManifest, Unlinked, Rmdired, Forget, Kill,
       ExtractMember, Unlink, Rmdir, cur
<1>2. CASE WriteMeta
  BY <1>2 DEF WriteMeta, Settle, WorkInv, Complete, FilesOf
<1>3. CASE ForgetMeta
  BY <1>3 DEF ForgetMeta, Settle, WorkInv, Absent, FilesOf
<1> QED
  BY <1>1, <1>2, <1>3

\* A package of which the disk says the same is as absent or complete as before.
LEMMA SameStatus ==
  ASSUME NEW p \in Pkgs, Same(p), p \in meta' <=> p \in meta
  PROVE  Absent(p)' = Absent(p) /\ Complete(p)' = Complete(p)
<1>1. FilesOf(p)' = FilesOf(p)
  BY DEF FilesOf
<1> QED
  BY <1>1 DEF Same, Absent, Complete

\* Every step leaves the packages no fault has touched settled.
LEMMA SettledStep ==
  TypeOK /\ MembersInv /\ WorkInv /\ Settled /\ [Next]_vars => Settled'
<1> SUFFICES ASSUME TypeOK, MembersInv, WorkInv, Settled, [Next]_vars,
                    NEW p \in Pkgs, p \notin cut', ~AtWork(p)'
             PROVE  Absent(p)' \/ Complete(p)'
  BY DEF Settled
<1>1. CASE AtWork(p)
  BY <1>1, Finished
<1>2. CASE ~AtWork(p)
  <2>1. Same(p) /\ p \notin cut /\ (p \in meta' <=> p \in meta)
    BY <1>2, OthersKept DEF MetaKept
  <2> QED
    BY <1>2, <2>1, SameStatus DEF Settled
<1> QED
  BY <1>1, <1>2

-----------------------------------------------------------------------------
(* What a drop may rely on when it is not alone.                           *)

\* A drop that is not at work claims nothing about the disk.
LEMMA NoWork == ASSUME pc' \in {"idle", "next"} PROVE WorkInv'
  BY DEF WorkInv

\* The work of a drop is disturbed only by changes to the package it is at.
LEMMA Undisturbed ==
  ASSUME TypeOK, WorkInv, UNCHANGED <<pc, names, i, rest, clean>>,
         pc \notin {"idle", "next"} => Same(cur)
  PROVE  WorkInv'
<1>1. CASE pc \in {"idle", "next"}
  BY <1>1, NoWork
<1>2. CASE pc \notin {"idle", "next"}
  BY <1>2 DEF WorkInv, Same, FilesOf, cur
<1> QED
  BY <1>1, <1>2

\* Until it is done with a package, a drop stays at it.
LEMMA StaysAtWork ==
  ASSUME TypeOK, [Next]_vars, NEW p, AtWork(p), pc' \notin {"idle", "next"}
  PROVE  AtWork(p)'
  BY DEF AtWork, TypeOK, Pcs, Next, vars, disk, Command, Exit, InstallRefused,
         AlreadyInstalled, BeginExtract, ExtractFails, Extracted, CreateManifest,
         WriteManifest, WriteMeta, NotInstalled, RemoveMeta, ReadManifest, Unlinked, Rmdired,
         Forget, ForgetMeta, Kill, Gone, Continue, Working, ExtractMember, Unlink,
         Rmdir, cur

-----------------------------------------------------------------------------
\* The invariant holds in every reachable state.
THEOREM IInvAlways == Spec => []IInv
<1>1. IInv /\ [Next]_vars => IInv'
  BY TypeStep, MembersStep, WorkStep, SettledStep DEF IInv
<1> QED
  BY InitIInv, <1>1, PTL DEF Spec

\* The state of drop, in memory and on disk, stays in its types.
THEOREM TypeCorrect == Spec => []TypeOK
<1>1. IInv => TypeOK
  BY DEF IInv
<1> QED
  BY <1>1, IInvAlways, PTL

\* Installing and removing is all or nothing for every package that no fault
\* has touched since its last clean command, for any set of packages and any
\* order of commands, kills and failures.
THEOREM AlwaysSettled == Spec => []Settled
<1>1. IInv => Settled
  BY DEF IInv
<1> QED
  BY <1>1, IInvAlways, PTL
-----------------------------------------------------------------------------
(* What a finished name and an emptied directory leave behind.             *)

\* Only packages of the index are installed, and only they get a manifest.
OpInv ==
  /\ pc \in {"extract", "record", "write", "meta"} => op = "install" /\ cur \in Index
  /\ pc \in {"unlink", "rmdir", "forget", "forget_meta"} => op = "remove"
  /\ known \subseteq Index

\* The state the command asks for.
Done(p) == IF op = "install" THEN Complete(p) ELSE Absent(p)

\* While rc is 0, every name the loop has passed is in the state asked for,
\* and the name now worked on is not one of them.
HonestInv ==
  pc # "idle" /\ rc = 0 =>
    \A k \in 1 .. i - 1 :
      names[k] \in Pkgs \ cut => Done(names[k]) /\ ~AtWork(names[k])

\* Longest path first: a directory that was tried and is still there was not
\* empty, and nothing still to be tried is inside it.
DirsInv ==
  /\ pc = "unlink" => listed[cur] \cap Dirs \subseteq rest
  /\ pc = "rmdir" => \A e \in (listed[cur] \cap Dirs) \ rest :
                       /\ \A d \in rest : Size[d] <= Size[e]
                       /\ e \in present \ stuck => ~Empty(e)
  /\ NoEmptyDirLeft

\* Each name is worked on for the operation of the command.
LEMMA OpStep == TypeOK /\ OpInv /\ [Next]_vars => OpInv'
<1> SUFFICES ASSUME TypeOK, OpInv, [Next]_vars PROVE OpInv'
  OBVIOUS
<1> USE CurType DEF TypeOK, OpInv, disk
<1>1. ASSUME NEW o \in {"install", "remove"}, NEW ns \in Arguments, Command(o, ns)
      PROVE OpInv'
  BY <1>1 DEF Command
<1>2. CASE Exit \/ Kill
  BY <1>2 DEF Exit, Kill, Gone
<1>3. CASE InstallRefused \/ AlreadyInstalled \/ NotInstalled \/ RemoveMeta
  BY <1>3 DEF InstallRefused, AlreadyInstalled, NotInstalled, RemoveMeta, Continue
<1>4. CASE BeginExtract \/ ReadManifest
  BY <1>4 DEF BeginExtract, ReadManifest, Working, is_installed, cur
<1>5. CASE ExtractFails \/ WriteMeta \/ ForgetMeta
  BY <1>5 DEF ExtractFails, WriteMeta, ForgetMeta, Continue
<1>6. CASE Extracted \/ CreateManifest \/ WriteManifest
  BY <1>6 DEF Extracted, CreateManifest, WriteManifest, cur
<1>7. CASE Unlinked \/ Rmdired \/ Forget
  BY <1>7 DEF Unlinked, Rmdired, Forget, cur
<1>8. ASSUME NEW x \in Paths, ExtractMember(x) \/ Unlink(x) \/ Rmdir(x)
      PROVE OpInv'
  BY <1>8 DEF ExtractMember, Unlink, Rmdir, cur
<1>9. CASE UNCHANGED vars
  BY <1>9 DEF vars, cur
<1> QED
  BY <1>1, <1>2, <1>3, <1>4, <1>5, <1>6, <1>7, <1>8, <1>9 DEF Next

\* The loop over the names stays honest: a name it has passed stays in the
\* state asked for whatever is done for the names after it.
LEMMA HonestStep == IInv /\ OpInv /\ HonestInv /\ [Next]_vars => HonestInv'
<1> SUFFICES ASSUME TypeOK, MembersInv, WorkInv, Settled, OpInv, HonestInv, [Next]_vars,
                    (pc # "idle" /\ rc = 0)', NEW k \in 1 .. i' - 1,
                    names'[k] \in Pkgs, names'[k] \notin cut'
             PROVE  Done(names[k])' /\ ~AtWork(names[k])'
  BY DEF IInv, HonestInv
<1> USE CurType DEF TypeOK, disk, Done, AtWork, Absent, Complete, HonestInv
<1>1. ASSUME NEW o \in {"install", "remove"}, NEW ns \in Arguments, Command(o, ns)
      PROVE FALSE
  BY <1>1 DEF Command
<1>2. CASE Exit \/ Kill
  BY <1>2 DEF Exit, Kill, Gone
<1>3. CASE InstallRefused \/ NotInstalled \/ ExtractFails
  BY <1>3 DEF InstallRefused, NotInstalled, ExtractFails, Continue
<1>4. CASE AlreadyInstalled
  <2>1. UNCHANGED <<disk, names, op, cut>> /\ i' = i + 1 /\ pc' = "next" /\ rc = 0
    BY <1>4 DEF AlreadyInstalled, Continue
  <2>2. op = "install" /\ cur \in known /\ cur \in Pkgs /\ pc = "next"
    BY <1>4, ListingAssumption DEF AlreadyInstalled, Working, is_installed
  <2>3. CASE k = i
    <3>1. cur \notin cut /\ names[k] = cur
      BY <2>1, <2>3 DEF cur
    <3>2. Complete(cur)
      BY <2>2, <3>1 DEF Settled
    <3> QED
      BY <2>1, <2>2, <3>1, <3>2 DEF FilesOf
  <2>4. CASE k # i
    BY <2>1, <2>2, <2>4 DEF FilesOf
  <2> QED
    BY <2>3, <2>4
<1>5. CASE BeginExtract \/ ReadManifest
  BY <1>5 DEF BeginExtract, ReadManifest, Working, is_installed, cur, FilesOf
<1>6. CASE Extracted \/ Unlinked \/ Rmdired
  BY <1>6 DEF Extracted, Unlinked, Rmdired, cur, FilesOf
<1>7. CASE CreateManifest \/ WriteManifest \/ Forget
  BY <1>7 DEF CreateManifest, WriteManifest, Forget, cur, FilesOf
<1>8. CASE WriteMeta
  <2>1. /\ op = "install" /\ op' = op /\ names' = names /\ rc = 0 /\ pc' = "next"
        /\ k \in 1 .. i /\ names[k] \in Pkgs
        /\ UNCHANGED <<present, known, listed>>
    BY <1>8 DEF WriteMeta, Continue, OpInv
  <2>2. CASE names[k] = cur
    BY <1>8, <2>1, <2>2 DEF WriteMeta, Settle, WorkInv, FilesOf
  <2>3. CASE names[k] # cur
    <3>1. names[k] \notin cut /\ k \in 1 .. i - 1
      BY <1>8, <2>1, <2>3 DEF WriteMeta, Settle, cur
    <3>2. Done(names[k])
      BY <1>8, <2>1, <3>1 DEF WriteMeta
    <3> QED
      BY <1>8, <2>1, <2>3, <3>2 DEF WriteMeta, FilesOf
  <2> QED
    BY <2>2, <2>3
<1>9. CASE ForgetMeta
  <2>1. /\ op = "remove" /\ op' = op /\ names' = names /\ rc = 0 /\ pc' = "next"
        /\ k \in 1 .. i /\ names[k] \in Pkgs
        /\ UNCHANGED <<present, known, listed>>
    BY <1>9 DEF ForgetMeta, Continue, OpInv
  <2>2. CASE names[k] = cur
    BY <1>9, <2>1, <2>2 DEF ForgetMeta, Settle, WorkInv, FilesOf
  <2>3. CASE names[k] # cur
    <3>1. names[k] \notin cut /\ k \in 1 .. i - 1
      BY <1>9, <2>1, <2>3 DEF ForgetMeta, Settle, cur
    <3>2. Done(names[k])
      BY <1>9, <2>1, <3>1 DEF ForgetMeta
    <3> QED
      BY <1>9, <2>1, <2>3, <3>2 DEF ForgetMeta, FilesOf
  <2> QED
    BY <2>2, <2>3
<1>10. ASSUME NEW x \in Paths, ExtractMember(x) \/ Unlink(x) \/ Rmdir(x)
       PROVE Done(names[k])' /\ ~AtWork(names[k])'
  <2>1. UNCHANGED <<known, listed, meta, pc, op, names, i, rc, cut>>
    BY <1>10 DEF ExtractMember, Unlink, Rmdir
  <2>2. Done(names[k]) /\ ~AtWork(names[k])
    BY <2>1
  <2>3. names[k] \in Pkgs
    BY <2>1
  <2>4. Same(names[k])
    BY <2>2, <2>3, OthersKept
  <2> QED
    BY <2>1, <2>2, <2>4 DEF Same, FilesOf, cur
<1>11. CASE UNCHANGED vars
  BY <1>11 DEF vars, cur, FilesOf
<1>12. CASE RemoveMeta
  <2>1. /\ cur \in MetaNames /\ op = "remove" /\ pc' = "next" /\ i' = i + 1 /\ rc = 0
        /\ UNCHANGED <<present, known, listed, op, names>>
        /\ meta' \subseteq meta /\ cut \subseteq cut' /\ pc = "next"
    BY <1>12 DEF RemoveMeta, Working, Continue
  <2>2. k \in 1 .. i - 1
    BY <2>1, MetaAssumption DEF cur
  <2> QED
    BY <2>1, <2>2 DEF FilesOf
<1> QED
  BY <1>1, <1>2, <1>3, <1>4, <1>5, <1>6, <1>7, <1>8, <1>9, <1>10, <1>11, <1>12 DEF Next

\* Taking the longest directory first keeps DirsInv: what stays in rest is no
\* longer than what was tried, and removing a directory empties only its
\* parent, which is shorter and so still to be tried.
LEMMA DirsStep == IInv /\ DirsInv /\ [Next]_vars => DirsInv'
<1> SUFFICES ASSUME TypeOK, MembersInv, WorkInv, DirsInv, [Next]_vars PROVE DirsInv'
  BY DEF IInv
<1> USE CurType DEF TypeOK, disk, DirsInv, NoEmptyDirLeft
<1>1. ASSUME NEW o \in {"install", "remove"}, NEW ns \in Arguments, Command(o, ns)
      PROVE DirsInv'
  BY <1>1 DEF Command
<1>2. CASE Exit \/ Kill
  BY <1>2 DEF Exit, Kill, Gone
<1>3. CASE InstallRefused \/ AlreadyInstalled \/ NotInstalled \/ ExtractFails
           \/ WriteMeta \/ ForgetMeta \/ RemoveMeta
  BY <1>3 DEF InstallRefused, AlreadyInstalled, NotInstalled, ExtractFails,
              WriteMeta, ForgetMeta, RemoveMeta, Continue
<1>4. CASE BeginExtract \/ Extracted \/ CreateManifest \/ WriteManifest \/ Forget
  BY <1>4 DEF BeginExtract, Extracted, CreateManifest, WriteManifest, Forget
<1>5. CASE ReadManifest
  BY <1>5 DEF ReadManifest, Working, is_installed, cur
<1>6. CASE Unlinked
  BY <1>6 DEF Unlinked, cur
<1>7. CASE Rmdired
  BY <1>7 DEF Rmdired, cur, Empty
<1>8. ASSUME NEW x \in Paths, ExtractMember(x) PROVE DirsInv'
  BY <1>8 DEF ExtractMember
<1>9. ASSUME NEW x \in Paths, Unlink(x) PROVE DirsInv'
  BY <1>9, TreeAssumption DEF Unlink, cur
<1>10. ASSUME NEW x \in Paths, Rmdir(x) PROVE DirsInv'
  <2>1. /\ pc = "rmdir" /\ pc' = pc /\ x \in rest /\ rest' = rest \ {x}
        /\ \A e \in rest : Size[e] <= Size[x]
        /\ \/ Empty(x) /\ present' = present \ {x} /\ stuck' = stuck
           \/ /\ stuck' = IF x \in present /\ Empty(x) THEN stuck \cup {x} ELSE stuck
              /\ present' = present
        /\ listed' = listed /\ cur' = cur
    BY <1>10 DEF Rmdir, TryRmdir, cur
  <2>2. rest \subseteq Dirs /\ x \in Dirs
    BY <2>1 DEF MembersInv
  <2>3. SUFFICES ASSUME NEW e \in (listed[cur] \cap Dirs) \ (rest \ {x})
                 PROVE  /\ \A d \in rest \ {x} : Size[d] <= Size[e]
                        /\ e \in present' \ stuck' => \E y \in present' : Parent[y] = e
    BY <2>1 DEF Empty
  <2>4. \A d \in rest \ {x} : Size[d] <= Size[e]
    BY <2>1, <2>3
  <2>5. ASSUME e \in present' \ stuck', e # x PROVE \E y \in present' : Parent[y] = e
    <3>1. e \notin rest /\ Size[x] <= Size[e] /\ e \in present \ stuck
      BY <2>1, <2>3, <2>5
    <3>2. PICK y \in present : Parent[y] = e
      BY <2>1, <2>3, <3>1 DEF Empty
    <3>3. y # x
      BY <2>2, <2>3, <3>1, <3>2, TreeAssumption
    <3> QED
      BY <2>1, <3>2, <3>3
  <2>6. ASSUME e \in present' \ stuck', e = x PROVE \E y \in present' : Parent[y] = e
    BY <2>1, <2>6 DEF Empty
  <2> QED
    BY <2>4, <2>5, <2>6
<1>11. CASE UNCHANGED vars
  BY <1>11 DEF vars, cur, Empty
<1> QED
  BY <1>1, <1>2, <1>3, <1>4, <1>5, <1>6, <1>7, <1>8, <1>9, <1>10, <1>11 DEF Next

\* The names the loop has passed and the directories it has tried are as
\* HonestInv and DirsInv say in every reachable state.
THEOREM WorkDone == Spec => [](OpInv /\ HonestInv /\ DirsInv)
<1>1. Init => OpInv /\ HonestInv /\ DirsInv
  BY DEF Init, OpInv, HonestInv, DirsInv, NoEmptyDirLeft
<1>2. IInv /\ OpInv /\ HonestInv /\ DirsInv /\ [Next]_vars
        => (OpInv /\ HonestInv /\ DirsInv)'
  BY OpStep, HonestStep, DirsStep DEF IInv
<1> QED
  BY IInvAlways, <1>1, <1>2, PTL DEF Spec

\* An exit code of 0 is true of every name on the command line that no fault
\* has touched, however many names there are and in whatever order.
THEOREM AlwaysExitHonest == Spec => []ExitHonest
<1>1. TypeOK /\ HonestInv => ExitHonest
  BY DEF TypeOK, HonestInv, ExitHonest, Done
<1> QED
  BY <1>1, WorkDone, TypeCorrect, PTL

\* remove leaves no empty directory of the package behind, for any tree in
\* which a directory's path is longer than its parent's.
THEOREM NoEmptyDirEverLeft == Spec => []NoEmptyDirLeft
<1>1. DirsInv => NoEmptyDirLeft
  BY DEF DirsInv
<1> QED
  BY <1>1, WorkDone, PTL
-----------------------------------------------------------------------------
(* Drop implements PackageDB.                                              *)

statusNow == [p \in Pkgs |-> statusOf(p)]
busyNow == IF pc \in {"idle", "next"} THEN <<>> ELSE <<op, cur>>

\* The status of a package is a function of its manifest and its files.
LEMMA StatusKept ==
  ASSUME NEW p \in Pkgs, p \in known' <=> p \in known, listed'[p] = listed[p],
         FilesOf(p) \cap present' = FilesOf(p) \cap present
  PROVE  statusOf(p)' = statusOf(p)
  BY DEF statusOf, FilesOf

\* A step that changes no package's status and keeps or ends what is being
\* done is a stutter or an End of the package database.
LEMMA StutterOrEnd ==
  ASSUME TypeOK, \A q \in Pkgs : statusOf(q)' = statusOf(q),
         busyNow' = busyNow \/ pc' \in {"idle", "next"}
  PROVE  [DB!Next]_<<statusNow, busyNow>>
<1>1. statusNow' = statusNow
  BY DEF statusNow
<1>2. CASE busyNow' = busyNow
  BY <1>1, <1>2
<1>3. CASE busyNow' # busyNow
  <2>1. busyNow # <<>> /\ busyNow' = <<>>
    BY <1>3 DEF busyNow
  <2> QED
    BY <1>1, <2>1 DEF DB!Next, DB!End, statusNow, busyNow
<1> QED
  BY <1>2, <1>3

\* A step that moves the package being worked on, and no other, to the next
\* stage is a Work of the package database.
LEMMA WorkMaps ==
  ASSUME TypeOK, NEW p \in Pkgs, p = cur, pc \notin {"idle", "next"},
         pc' \notin {"idle", "next"}, UNCHANGED <<op, names, i>>,
         \A q \in Pkgs \ {p} : statusOf(q)' = statusOf(q),
         \/ statusOf(p)' = statusOf(p)
         \/ <<statusOf(p), statusOf(p)'>>
              \in (IF op = "install" THEN DB!Forward ELSE DB!Back)
  PROVE  [DB!Next]_<<statusNow, busyNow>>
<1>1. busyNow = <<op, p>> /\ busyNow' = busyNow
  BY DEF busyNow, cur
<1>2. CASE statusOf(p)' = statusOf(p)
  BY <1>1, <1>2, StutterOrEnd
<1>3. CASE <<statusOf(p), statusOf(p)'>>
             \in (IF op = "install" THEN DB!Forward ELSE DB!Back)
  <2>1. statusNow' = [statusNow EXCEPT ![p] = statusOf(p)']
    BY DEF statusNow
  <2>2. statusNow[p] = statusOf(p) /\ statusOf(p)' \in DB!Status
    BY DEF statusNow, statusOf, DB!Status
  <2>3. op \in {"install", "remove"}
    BY DEF TypeOK
  <2>4. DB!Work(op, p)
    BY <1>1, <1>3, <2>1, <2>2 DEF DB!Work, statusNow, busyNow
  <2> QED
    BY <2>3, <2>4 DEF DB!Next
<1> QED
  BY <1>2, <1>3

\* Every step of drop maps to a step of the package database or to a stutter.
LEMMA StepRefines ==
  IInv /\ OpInv /\ [Next]_vars => [DB!Next]_<<statusNow, busyNow>>
<1> SUFFICES ASSUME TypeOK, MembersInv, WorkInv, OpInv, [Next]_vars
             PROVE  [DB!Next]_<<statusNow, busyNow>>
  BY DEF IInv
<1> USE CurType DEF disk
<1>0. ASSUME NEW q \in Pkgs, ~AtWork(q) PROVE statusOf(q)' = statusOf(q)
  BY <1>0, OthersKept, StatusKept DEF Same
<1>1. ASSUME UNCHANGED disk, busyNow' = busyNow \/ pc' \in {"idle", "next"}
      PROVE  [DB!Next]_<<statusNow, busyNow>>
  BY <1>1, StatusKept, StutterOrEnd
<1>2. ASSUME NEW o \in {"install", "remove"}, NEW ns \in Arguments, Command(o, ns)
      PROVE  [DB!Next]_<<statusNow, busyNow>>
  BY <1>1, <1>2 DEF Command
<1>3. CASE Exit \/ Kill
  BY <1>1, <1>3 DEF Exit, Kill, Gone
<1>13. CASE RemoveMeta
  BY <1>13, StatusKept, StutterOrEnd DEF RemoveMeta, Continue
<1>4. CASE InstallRefused \/ AlreadyInstalled \/ NotInstalled \/ ExtractFails
  BY <1>1, <1>4 DEF InstallRefused, AlreadyInstalled, NotInstalled,
                    ExtractFails, Continue
<1>5. CASE Extracted \/ Unlinked \/ Rmdired
  BY <1>1, <1>5 DEF Extracted, Unlinked, Rmdired, busyNow, cur
<1>6. CASE UNCHANGED vars
  BY <1>1, <1>6 DEF vars, busyNow, cur
<1>7. CASE BeginExtract \/ ReadManifest
  <2>1. UNCHANGED <<disk, op, names, i>> /\ pc = "next" /\ i <= Len(names)
    BY <1>7 DEF BeginExtract, ReadManifest, Working
  <2>2. statusNow' = statusNow
    BY <2>1, StatusKept DEF statusNow
  <2>3. busyNow = <<>> /\ busyNow' = <<op, cur>>
    BY <1>7, <2>1 DEF BeginExtract, ReadManifest, busyNow, cur
  <2>4. cur \in Pkgs /\ op \in {"install", "remove"}
    BY <1>7, ListingAssumption DEF TypeOK, BeginExtract, ReadManifest
  <2>5. statusNow[cur] \in (IF op = "install" THEN {"absent", "leftover"}
                            ELSE {"partial", "installed"})
    BY <1>7, <2>4 DEF BeginExtract, ReadManifest, Working, is_installed, statusNow, statusOf
  <2>6. DB!Begin(op, cur)
    BY <2>2, <2>3, <2>5 DEF DB!Begin, statusNow, busyNow
  <2> QED
    BY <2>4, <2>6 DEF DB!Next
<1>8. CASE WriteMeta \/ ForgetMeta
  <2>1. UNCHANGED <<present, known, listed>> /\ pc' = "next"
    BY <1>8 DEF WriteMeta, ForgetMeta, Continue
  <2> QED
    BY <2>1, StatusKept, StutterOrEnd
<1>9. CASE CreateManifest
  <2>1. /\ cur \in Index /\ cur \in Pkgs /\ op = "install" /\ cur \notin known
        /\ FilesOf(cur) \subseteq present /\ FilesOf(cur) # {}
        /\ pc = "record" /\ pc' \in {"write", "meta"}
        /\ UNCHANGED <<present, op, names, i>>
    BY <1>9, ListingAssumption DEF CreateManifest, WorkInv, OpInv, TypeOK, FilesOf
  <2>2. CASE UNCHANGED <<known, listed>>
    BY <2>1, <2>2, StatusKept, StutterOrEnd DEF busyNow, cur
  <2>3. CASE known' = known \cup {cur} /\ listed' = [listed EXCEPT ![cur] = {}]
    <3>1. \A q \in Pkgs \ {cur} : statusOf(q)' = statusOf(q)
      BY <1>0 DEF AtWork
    <3>2. statusOf(cur) = "leftover"
      BY <2>1 DEF statusOf
    <3>3. listed'[cur] # Listing[cur] /\ cur \in known' /\ cur' = cur
      BY <2>1, <2>3 DEF TypeOK, FilesOf, cur
    <3>4. statusOf(cur)' = "partial"
      BY <3>3 DEF statusOf
    <3> QED
      BY <2>1, <3>1, <3>2, <3>3, <3>4, WorkMaps DEF DB!Forward
  <2> QED
    BY <1>9, <2>2, <2>3 DEF CreateManifest
<1>10. CASE WriteManifest
  <2>1. /\ cur \in Index /\ cur \in Pkgs /\ op = "install" /\ cur \in known
        /\ FilesOf(cur) \subseteq present /\ FilesOf(cur) # {} /\ listed[cur] = {}
        /\ pc = "write" /\ pc' = "meta"
        /\ UNCHANGED <<present, known, op, names, i>> /\ cur' = cur
    BY <1>10, ListingAssumption DEF WriteManifest, WorkInv, OpInv, TypeOK, FilesOf, cur
  <2>2. \A q \in Pkgs \ {cur} : statusOf(q)' = statusOf(q)
    BY <1>0 DEF AtWork
  <2>3. statusOf(cur) = "partial"
    BY <2>1 DEF statusOf, FilesOf
  <2>4. statusOf(cur)' \in {"partial", "installed"}
    BY <2>1 DEF statusOf
  <2> QED
    BY <2>1, <2>2, <2>3, <2>4, WorkMaps DEF DB!Forward
<1>11. CASE Forget
  <2>1. /\ cur \in known /\ cur \in Pkgs /\ op = "remove" /\ cur' = cur
        /\ FilesOf(cur) # {}
        /\ pc = "forget" /\ pc' = "forget_meta"
        /\ UNCHANGED <<present, op, names, i>>
    BY <1>11, ListingAssumption DEF Forget, WorkInv, OpInv, TypeOK, FilesOf, cur
  <2>2. \A q \in Pkgs \ {cur} : statusOf(q)' = statusOf(q)
    BY <1>0 DEF AtWork
  <2>3. CASE UNCHANGED <<known, listed>>
    BY <2>1, <2>3, StatusKept, StutterOrEnd DEF busyNow, cur
  <2>4. CASE cur \notin known'
    <3>1. statusOf(cur) \in {"partial", "installed"}
      BY <2>1 DEF statusOf
    <3>2. statusOf(cur)' \in {"absent", "leftover"}
      BY <2>1, <2>4 DEF statusOf
    <3>3. statusOf(cur) = "installed" => statusOf(cur)' = "leftover"
      BY <2>1, <2>4 DEF statusOf, FilesOf
    <3> QED
      BY <2>1, <2>2, <3>1, <3>2, <3>3, WorkMaps DEF DB!Back
  <2> QED
    BY <1>11, <2>3, <2>4 DEF Forget
<1>12. ASSUME NEW x \in Paths, ExtractMember(x) \/ Unlink(x) \/ Rmdir(x)
       PROVE  [DB!Next]_<<statusNow, busyNow>>
  <2>1. /\ pc \notin {"idle", "next"} /\ pc' = pc /\ cur \in Pkgs /\ cur' = cur
        /\ UNCHANGED <<known, listed, op, names, i>>
    BY <1>12 DEF ExtractMember, Unlink, Rmdir, TypeOK, cur
  <2>2. \A q \in Pkgs \ {cur} : statusOf(q)' = statusOf(q)
    BY <1>0 DEF AtWork
  <2>3. CASE ExtractMember(x)
    <3>1. cur \notin known /\ op = "install" /\ present \subseteq present'
      BY <2>3 DEF ExtractMember, WorkInv, OpInv
    <3>2. statusOf(cur) \in {"absent", "leftover"}
          /\ statusOf(cur)' \in {"absent", "leftover"}
      BY <2>1, <3>1 DEF statusOf
    <3>3. statusOf(cur)' = "absent" => statusOf(cur) = "absent"
      BY <2>1, <3>1 DEF statusOf, FilesOf
    <3> QED
      BY <2>1, <2>2, <3>1, <3>2, <3>3, WorkMaps DEF DB!Forward
  <2>4. CASE Unlink(x)
    <3>1. cur \in known /\ op = "remove" /\ present' \subseteq present
      BY <2>4 DEF Unlink, WorkInv, OpInv
    <3>2. statusOf(cur) \in {"partial", "installed"}
          /\ statusOf(cur)' \in {"partial", "installed"}
      BY <2>1, <3>1 DEF statusOf
    <3>3. statusOf(cur)' = "installed" => statusOf(cur) = "installed"
      BY <2>1, <3>1 DEF statusOf, FilesOf
    <3> QED
      BY <2>1, <2>2, <3>1, <3>2, <3>3, WorkMaps DEF DB!Back
  <2>5. CASE Rmdir(x)
    <3>1. FilesOf(cur) \cap present' = FilesOf(cur) \cap present
      BY <2>5, TreeAssumption DEF Rmdir, TryRmdir, MembersInv, FilesOf
    <3> QED
      BY <2>1, <2>2, <3>1, StatusKept, WorkMaps
  <2> QED
    BY <1>12, <2>3, <2>4, <2>5
<1> QED
  BY <1>2, <1>3, <1>4, <1>5, <1>6, <1>7, <1>8, <1>9, <1>10, <1>11, <1>12, <1>13 DEF Next

\* Drop implements the package database: seen through its manifests and
\* files, packages change one at a time, an installation only moves its
\* package forward and a removal only moves it back, for any packages, any
\* command lines, faults and kills.
THEOREM Refines == Spec => ImplementsPackageDB
<1>1. Init => DB!Init
  BY TreeAssumption DEF Init, DB!Init, statusOf, FilesOf
<1>2. IInv /\ OpInv /\ [Next]_vars => [DB!Next]_<<statusNow, busyNow>>
  BY StepRefines
<1> QED
  BY <1>1, <1>2, IInvAlways, WorkDone, PTL
     DEF Spec, ImplementsPackageDB, DB!Spec, statusNow, busyNow
=============================================================================
