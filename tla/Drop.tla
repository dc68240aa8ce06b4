------------------------------- MODULE Drop -------------------------------
(***************************************************************************)
(* The package manager, app/drop/drop.cpp: "drop install a b" and "drop    *)
(* remove a b" over a file tree and the two files drop keeps per package,  *)
(* the manifest /var/drop/installed/NAME and its .meta.                    *)
(*                                                                         *)
(* No step of drop is atomic with the next.  tar may stop half way, a      *)
(* write may come out short, unlink may fail, and the process may be       *)
(* killed anywhere; nothing is rolled back.                                *)
(***************************************************************************)
EXTENDS Naturals, Sequences

CONSTANTS
  Pkgs,      \* names somebody may ask for
  MetaNames, \* names that end in .meta, which somebody may give as well
  MetaFor,   \* the package whose .meta file such a name is
  Index,     \* those the repo's index.txt lists
  Files,     \* paths of files that packages bring
  Dirs,      \* paths of directories
  Root,      \* the directory every path is under
  Parent,    \* the directory a path is in
  Size,      \* length of a directory's path
  Listing,   \* what "tar -tzf" prints for a package
  Base,      \* directories of the system before any package
  MaxNames   \* bound on the names given to one command

Paths == Files \cup Dirs

\* With a path its directories.
Closed(S) == \A x \in S : Parent[x] \in S \cup {Root}

ASSUME TreeAssumption ==
  /\ Files \cap Dirs = {}
  /\ Root \notin Paths
  /\ Parent \in [Paths -> Dirs \cup {Root}]
  /\ Size \in [Dirs -> Nat]
  /\ \A d \in Dirs : Parent[d] \in Dirs => Size[Parent[d]] < Size[d]
  /\ Base \subseteq Dirs
  /\ Closed(Base)

\* "tar -czf out ." of a stage directory lists every directory above a member;
\* build-pkgs.sh gives no file to two packages, and no package is empty.
ASSUME ListingAssumption ==
  /\ Index \subseteq Pkgs
  /\ Listing \in [Pkgs -> SUBSET Paths]
  /\ \A p \in Index : Listing[p] \cap Files # {}
  /\ \A p \in Pkgs : Closed(Listing[p])
  /\ \A p, q \in Pkgs : p # q => Listing[p] \cap Listing[q] \cap Files = {}

\* No package is called like the .meta file of another.
ASSUME MetaAssumption ==
  /\ MetaNames \cap Pkgs = {}
  /\ MetaFor \in [MetaNames -> Pkgs]

ASSUME MaxNamesAssumption == MaxNames \in Nat \ {0}

VARIABLES
  present,   \* paths that exist
  known,     \* packages with a manifest file
  listed,    \* what the manifest of each known package says
  meta,      \* packages with a .meta file
  pc,        \* where drop is
  op,        \* "install" or "remove"
  names,     \* the command's arguments
  i,         \* index of the name being worked on
  rest,      \* members still to be extracted, unlinked or rmdir'ed
  rc,        \* exit code so far
  clean,     \* history: the work on this name has met no fault
  stuck,     \* history: empty directories this removal failed to remove
  cut        \* history: packages a fault, or a removal of their .meta by its own
             \* name, has touched and no clean command since

disk == <<present, known, listed, meta>>
vars == <<disk, pc, op, names, i, rest, rc, clean, stuck, cut>>

cur == names[i]
FilesOf(p) == Listing[p] \cap Files

Pcs == {"idle", "next", "extract", "record", "write", "meta", "unlink",
        "rmdir", "forget", "forget_meta"}

TypeOK ==
  /\ present \subseteq Paths
  /\ known \subseteq Pkgs
  /\ listed \in [Pkgs -> SUBSET Paths]
  /\ meta \subseteq Pkgs
  /\ pc \in Pcs
  /\ op \in {"install", "remove"}
  /\ names \in Seq(Pkgs \cup MetaNames)
  /\ i \in 1 .. Len(names) + 1
  /\ pc \notin {"idle", "next"} => i <= Len(names) /\ cur \in Pkgs
  /\ rest \subseteq Paths
  /\ rc \in 0 .. 1
  /\ clean \in BOOLEAN
  /\ stuck \subseteq Paths
  /\ cut \subseteq Pkgs

Init ==
  /\ present = Base
  /\ known = {}
  /\ listed = [p \in Pkgs |-> {}]
  /\ meta = {}
  /\ pc = "idle"
  /\ op = "install"
  /\ names = <<>>
  /\ i = 1
  /\ rest = {}
  /\ rc = 0
  /\ clean = TRUE
  /\ stuck = {}
  /\ cut = {}

-----------------------------------------------------------------------------
Command(o, ns) ==
  /\ pc = "idle"
  /\ pc' = "next"
  /\ op' = o
  /\ names' = ns
  /\ i' = 1
  /\ rc' = 0
  /\ UNCHANGED <<disk, rest, clean, stuck, cut>>

\* The loop variable moves on; code is what this name does to rc.
Continue_LastCode(code) == /\ pc' = "next"
                           /\ i' = i + 1
                           /\ rc' = code

Continue(code) == /\ pc' = "next"
                  /\ i' = i + 1
                  /\ rc' = IF code = 0 THEN rc ELSE code

\* The process is gone, and what it had in memory with it.
Gone == /\ pc' = "idle"
        /\ op' = "install"
        /\ names' = <<>>
        /\ i' = 1
        /\ rest' = {}
        /\ rc' = 0
        /\ clean' = TRUE
        /\ stuck' = {}

Exit ==
  /\ pc = "next"
  /\ i > Len(names)
  /\ Gone
  /\ UNCHANGED <<disk, cut>>

Working(o, at) == pc = at /\ op = o /\ i <= Len(names)

-----------------------------------------------------------------------------
(* cmd_install.                                                            *)

\* A path test: the .meta of a package counts as a package of its own.
is_installed(n) == IF n \in Pkgs THEN n \in known ELSE MetaFor[n] \in meta

\* Not in the index, no tarball, or tar cannot list it.
InstallRefused ==
  /\ Working("install", "next")
  /\ cur \in Index => ~is_installed(cur)     \* missing or truncated tarball
  /\ Continue(1)
  /\ UNCHANGED <<disk, op, names, rest, clean, stuck, cut>>

AlreadyInstalled ==
  /\ Working("install", "next")
  /\ cur \in Index /\ is_installed(cur)
  /\ Continue(0)
  /\ UNCHANGED <<disk, op, names, rest, clean, stuck, cut>>

BeginExtract_Again ==
  /\ Working("install", "next")
  /\ cur \in Index
  /\ pc' = "extract"
  /\ rest' = Listing[cur]
  /\ clean' = TRUE
  /\ UNCHANGED <<disk, op, names, i, rc, stuck, cut>>

BeginExtract ==
  /\ Working("install", "next")
  /\ cur \in Index /\ ~is_installed(cur)
  /\ pc' = "extract"
  /\ rest' = Listing[cur]
  /\ clean' = TRUE
  /\ UNCHANGED <<disk, op, names, i, rc, stuck, cut>>

\* tar -xzf makes one member, below a directory that exists by now.
ExtractMember(x) ==
  /\ pc = "extract"
  /\ x \in rest
  /\ Parent[x] \in present \cup {Root}
  /\ present' = present \cup {x}
  /\ rest' = rest \ {x}
  /\ UNCHANGED <<known, listed, meta, pc, op, names, i, rc, clean, stuck, cut>>

ExtractFails ==
  /\ pc = "extract"
  /\ Continue(1)
  /\ rest' = {}
  /\ cut' = cut \cup {cur}
  /\ UNCHANGED <<disk, op, names, clean, stuck>>

Extracted ==
  /\ pc = "extract"
  /\ rest = {}
  /\ pc' = "record"
  /\ UNCHANGED <<disk, op, names, i, rest, rc, clean, stuck, cut>>

\* The ofstream of the manifest: opened, which truncates, or not, unnoticed.
CreateManifest ==
  /\ pc = "record"
  /\ \/ /\ pc' = "write"
        /\ known' = known \cup {cur}
        /\ listed' = [listed EXCEPT ![cur] = {}]
        /\ UNCHANGED clean
     \/ /\ pc' = "meta"
        /\ clean' = FALSE
        /\ UNCHANGED <<known, listed>>
  /\ UNCHANGED <<present, meta, op, names, i, rest, rc, stuck, cut>>

\* All lines of it, or as many as the disk took (tar prints a directory before
\* its members); nobody looks at the stream.
WriteManifest ==
  /\ pc = "write"
  /\ pc' = "meta"
  /\ \E S \in SUBSET Listing[cur] :
       /\ Closed(S)
       /\ listed' = [listed EXCEPT ![cur] = S]
       /\ clean' = (S = Listing[cur])
  /\ UNCHANGED <<present, known, meta, op, names, i, rest, rc, stuck, cut>>

\* The end of the work on a name settles whether a fault is left behind.
Settle(ok) == cut' = IF ok THEN cut \ {cur} ELSE cut \cup {cur}

WriteMeta ==
  /\ pc = "meta"
  /\ \/ /\ meta' = meta \cup {cur}
        /\ Settle(clean)
     \/ /\ UNCHANGED meta
        /\ Settle(FALSE)
  /\ Continue(0)
  /\ UNCHANGED <<present, known, listed, op, names, rest, clean, stuck>>

-----------------------------------------------------------------------------
(* cmd_remove.                                                             *)

NotInstalled ==
  /\ Working("remove", "next")
  /\ ~is_installed(cur)
  /\ Continue(1)
  /\ UNCHANGED <<disk, op, names, rest, clean, stuck, cut>>

\* "drop remove vim.meta": the file is there, so a package is; its one line, the
\* version, is no path, and unlinking its "manifest" takes the .meta of vim, or
\* fails unnoticed.
RemoveMeta ==
  /\ Working("remove", "next")
  /\ cur \in MetaNames /\ is_installed(cur)
  /\ \/ /\ meta' = meta \ {MetaFor[cur]}
        /\ cut' = cut \cup {MetaFor[cur]}
     \/ UNCHANGED <<meta, cut>>
  /\ Continue(0)
  /\ UNCHANGED <<present, known, listed, op, names, rest, clean, stuck>>

\* The manifest is read; what it lost is not removed.
ReadManifest ==
  /\ Working("remove", "next")
  /\ cur \in Pkgs /\ is_installed(cur)
  /\ pc' = "unlink"
  /\ rest' = listed[cur]
  /\ clean' = (listed[cur] = Listing[cur])
  /\ UNCHANGED <<disk, op, names, i, rc, stuck, cut>>

\* A failed unlink is reported and the loop goes on.
Unlink(x) ==
  /\ pc = "unlink"
  /\ x \in rest \cap Files
  /\ rest' = rest \ {x}
  /\ \/ present' = present \ {x} /\ UNCHANGED clean
     \/ x \in present /\ clean' = FALSE /\ UNCHANGED present
  /\ UNCHANGED <<known, listed, meta, pc, op, names, i, rc, stuck, cut>>

Unlinked ==
  /\ pc = "unlink"
  /\ rest \cap Files = {}
  /\ pc' = "rmdir"
  /\ UNCHANGED <<disk, op, names, i, rest, rc, clean, stuck, cut>>

Empty(d) == \A x \in present : Parent[x] # d

\* A result nobody looks at: the directory is not empty, or is and stays for
\* another reason (a mount point, an I/O error).
TryRmdir(d) ==
  \/ /\ Empty(d)
     /\ present' = present \ {d}
     /\ UNCHANGED stuck
  \/ /\ stuck' = IF d \in present /\ Empty(d) THEN stuck \cup {d} ELSE stuck
     /\ UNCHANGED present

Rmdir_AnyOrder(d) ==
  /\ pc = "rmdir"
  /\ d \in rest
  /\ rest' = rest \ {d}
  /\ TryRmdir(d)
  /\ UNCHANGED <<known, listed, meta, pc, op, names, i, rc, clean, cut>>

\* Takes what no other manifest lists, with all that is in it.
Rmdir_IfUnlisted(d) ==
  /\ pc = "rmdir"
  /\ d \in rest
  /\ \A e \in rest : Size[e] <= Size[d]
  /\ rest' = rest \ {d}
  /\ present' = IF \E q \in known \ {cur} : d \in listed[q] THEN present
                ELSE UNION {S \in SUBSET present : Closed(S) /\ d \notin S}
  /\ UNCHANGED <<known, listed, meta, pc, op, names, i, rc, clean, stuck, cut>>

\* Longest path first.
Rmdir(d) ==
  /\ pc = "rmdir"
  /\ d \in rest
  /\ \A e \in rest : Size[e] <= Size[d]
  /\ rest' = rest \ {d}
  /\ TryRmdir(d)
  /\ UNCHANGED <<known, listed, meta, pc, op, names, i, rc, clean, cut>>

Rmdired ==
  /\ pc = "rmdir"
  /\ rest = {}
  /\ pc' = "forget"
  /\ UNCHANGED <<disk, op, names, i, rest, rc, clean, stuck, cut>>

\* Two last unlinks, whose results nobody looks at.
Forget ==
  /\ pc = "forget"
  /\ \/ /\ known' = known \ {cur}
        /\ listed' = [listed EXCEPT ![cur] = {}]
        /\ UNCHANGED clean
     \/ /\ clean' = FALSE
        /\ UNCHANGED <<known, listed>>
  /\ pc' = "forget_meta"
  /\ UNCHANGED <<present, meta, op, names, i, rest, rc, stuck, cut>>

ForgetMeta_Kept ==
  /\ pc = "forget_meta"
  /\ Settle(clean)
  /\ Continue(0)
  /\ stuck' = {}
  /\ UNCHANGED <<present, known, listed, meta, op, names, rest, clean>>

ForgetMeta ==
  /\ pc = "forget_meta"
  /\ \/ /\ meta' = meta \ {cur}
        /\ Settle(clean)
     \/ /\ cur \in meta
        /\ Settle(FALSE)
        /\ UNCHANGED meta
  /\ Continue(0)
  /\ stuck' = {}
  /\ UNCHANGED <<present, known, listed, op, names, rest, clean>>

-----------------------------------------------------------------------------
\* Between two system calls the process is gone.
Kill ==
  /\ pc # "idle"
  /\ Gone
  /\ cut' = IF pc = "next" THEN cut ELSE cut \cup {cur}
  /\ UNCHANGED disk

Arguments == UNION {[1 .. n -> Pkgs \cup MetaNames] : n \in 1 .. MaxNames}

Next ==
  \/ \E o \in {"install", "remove"}, ns \in Arguments : Command(o, ns)
  \/ Exit
  \/ InstallRefused \/ AlreadyInstalled \/ BeginExtract \/ ExtractFails
  \/ Extracted \/ CreateManifest \/ WriteManifest \/ WriteMeta
  \/ NotInstalled \/ RemoveMeta \/ ReadManifest \/ Unlinked \/ Rmdired \/ Forget \/ ForgetMeta
  \/ \E x \in Paths : ExtractMember(x) \/ Unlink(x) \/ Rmdir(x)
  \/ Kill

Spec == Init /\ [][Next]_vars

-----------------------------------------------------------------------------
(* Properties.                                                             *)

AtWork(p) == pc \notin {"idle", "next"} /\ cur = p

Absent(p) == p \notin known /\ p \notin meta /\ FilesOf(p) \cap present = {}
Complete(p) == p \in known \cap meta /\ listed[p] = Listing[p]
               /\ FilesOf(p) \subseteq present

\* A package nobody is working on is wholly there or wholly gone, manifest,
\* .meta and files alike, unless a fault has touched it (a kill, a tool, write,
\* unlink that failed, noticed or not) or its .meta was removed by name; and one
\* more install or remove of it that meets no fault puts it right again.
Settled == \A p \in Pkgs \ cut : AtWork(p) \/ Absent(p) \/ Complete(p)

\* Exit code 0 means that every package given is in the state asked for, also
\* when several names were given and an earlier one failed; what a fault has
\* touched is left out, because most results are ignored.
ExitHonest ==
  pc = "next" /\ i > Len(names) /\ rc = 0 =>
    \A k \in 1 .. Len(names) :
      names[k] \in Pkgs \ cut =>
        IF op = "install" THEN Complete(names[k]) ELSE Absent(names[k])

\* remove leaves no empty directory of the package behind, however deep the
\* package's tree is, unless the system call fails on an empty one: children are
\* tried before their parents.
NoEmptyDirLeft ==
  pc = "forget" =>
    \A d \in (listed[cur] \cap Dirs \cap present) \ stuck : ~Empty(d)

-----------------------------------------------------------------------------
(* The abstract package database this implements.                          *)

statusOf(p) ==
  IF p \in known
  THEN IF listed[p] = Listing[p] /\ FilesOf(p) \subseteq present
       THEN "installed" ELSE "partial"
  ELSE IF FilesOf(p) \cap present = {} THEN "absent" ELSE "leftover"

DB == INSTANCE PackageDB WITH
        status <- [p \in Pkgs |-> statusOf(p)],
        busy <- IF pc \in {"idle", "next"} THEN <<>> ELSE <<op, cur>>

\* Every step of drop is a step of the package database: packages change one
\* at a time, forward while installed, back while removed.
ImplementsPackageDB == DB!Spec

-----------------------------------------------------------------------------
(* What drop tells the user.                                               *)

\* "already installed" is said of a package whose files are all there.
AlreadyInstalledIsTrue ==
  [][Working("install", "next") /\ cur \in Index \cap known
       /\ i' = i + 1 /\ rc' = rc => FilesOf(cur) \subseteq present]_vars

\* "removed" is said when no file of the package is left, and no manifest.
RemovedIsGone ==
  [][pc = "forget_meta" /\ pc' = "next" =>
       cur \notin known /\ FilesOf(cur) \cap present = {}]_vars

\* "installed" is said of a package whose files the manifest lists, or remove
\* will not find them.
InstalledIsListed ==
  [][pc = "meta" /\ pc' = "next" => cur \in known /\ listed[cur] = Listing[cur]]_vars

\* The version goes with its package only.
MetaGoesWithPackage ==
  [][\A p \in meta : p \in meta' \/ AtWork(p)]_vars
=============================================================================
