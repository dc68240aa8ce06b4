------------------------- MODULE ShInstallerProofs -------------------------
(***************************************************************************)
(* Proofs about ShInstaller, for any set of disks and any earlier          *)
(* contents.  The invariant follows the script: which disk has been        *)
(* confirmed and is the one mounted last, which mounts the flags speak     *)
(* for, and how much of the system has arrived.                            *)
(***************************************************************************)
EXTENDS ShInstaller, SequenceTheorems, TLAPS

Chosen == {"confirm", "name", "network"} \cup Hidden
Unmounted == {"fdisk", "partitions", "mkfs", "mount"}
Flagged == {"copy", "marker", "config", "grubcfg", "grub", "removable", "check",
            "sync", "summary"}
Mounted == {"flag_root", "mkfs_esp", "mount_esp", "flag_esp"} \cup Flagged

\* The disk chosen is free until it is mounted, confirmed before anything is
\* written, and the one mounted last from then on.
TargetInv ==
  /\ pc \in {"welcome", "disk", "confirm"} => touched = {}
  /\ pc \in Chosen \cup Unmounted => disk \in Disks /\ ~InUse(disk)
  /\ pc \in (Chosen \ {"confirm"}) \cup Unmounted \cup Mounted => confirmed = {disk}
  /\ pc \in Mounted => disk \in Disks /\ Len(mounts) # 0 /\ top.disk = disk
  /\ OnlyConfirmed

\* What this script mounted, and that its flags say so.
Covered == Len(mounts) = before + 1 /\ "root" \in flags /\ (top.esp => "esp" \in flags)

MountInv ==
  /\ pc \in Questions \cup Unmounted => Len(mounts) = before /\ excused = {} /\ flags = {}
  /\ pc = "flag_root" => Len(mounts) = before + 1 /\ excused = {} /\ ~top.esp /\ flags = {}
  /\ pc \in {"mkfs_esp", "mount_esp"} => Covered /\ excused = {} /\ ~top.esp
  /\ pc = "flag_esp" => Len(mounts) = before + 1 /\ excused = {} /\ "root" \in flags
  /\ pc \in Flagged => Covered /\ excused = {}
  /\ excused = {} =>
       /\ pc \in {"fail_esp", "exit_esp"} => Len(mounts) <= before \/ Covered
       /\ pc \in {"fail_root", "exit_root"} => Len(mounts) <= before \/ (Covered /\ ~top.esp)
       /\ pc = "shell" => Len(mounts) <= before
  /\ pc = "menu" => Len(mounts) = 0

\* How far the system has arrived on the disk.
ArrivedInv ==
  /\ pc \in {"mount", "flag_root", "mkfs_esp", "mount_esp", "flag_esp", "copy", "marker",
             "config", "grubcfg"} => "grubcfg" \notin content[disk]
  /\ pc \in Flagged \ {"copy", "summary"} => "system" \in content[disk]
  /\ pc \in Flagged \ {"copy", "marker", "summary"} => "marker" \in content[disk]
  /\ pc \in {"grubcfg", "grub", "removable", "check", "sync"} => "config" \in content[disk]
  /\ pc \in {"grub", "removable", "check", "sync"} =>
       {"grubcfg", "menuentry"} \subseteq content[disk]
  /\ pc \in {"check", "sync"} => "loader" \in content[disk]
  /\ pc = "summary" => Items \subseteq durable[disk]

\* Nothing is said of success before it is there, nor after it is gone.
SaidInv ==
  /\ said = "installed" => pc \in {"exit_esp", "exit_root", "shell"}
  /\ InstalledIsWhole

\* A disk the boot menu would take for installed has what the last check looks for.
WholeInv == \A d \in Disks \ cut : OffersInstalled(d) => Checked \subseteq content[d]

IInv == TypeOK /\ TargetInv /\ MountInv /\ ArrivedInv /\ SaidInv /\ WholeInv

-----------------------------------------------------------------------------
\* The initial states satisfy the invariant.
LEMMA InitIInv == Init => IInv
<1> SUFFICES ASSUME Init PROVE IInv
  OBVIOUS
<1>1. TypeOK
  <2>1. /\ content \in [Disks -> SUBSET Items] /\ durable = content
        /\ pc = "menu" /\ disk = None /\ efi \in BOOLEAN /\ flags = {} /\ echo = TRUE
        /\ said = "nothing" /\ live = None /\ before = 0
        /\ confirmed = {} /\ touched = {} /\ excused = {} /\ cut = {}
    BY DEF Init
  <2>2. mounts \in Seq(Segment)
    BY DEF Init
  <2> QED
    BY <2>1, <2>2 DEF TypeOK, Machine
<1>2. TargetInv /\ MountInv /\ ArrivedInv /\ SaidInv
  BY DEF Init, TargetInv, MountInv, ArrivedInv, SaidInv, OnlyConfirmed, InstalledIsWhole,
         Chosen, Hidden, Questions, Unmounted, Mounted, Flagged
<1>3. WholeInv
  BY DEF Init, WholeInv, OffersInstalled, Checked, Items
<1> QED
  BY <1>1, <1>2, <1>3 DEF IInv

-----------------------------------------------------------------------------
\* What mount, umount and writing below the mount point do to the stack.
LEMMA Pushed ==
  ASSUME TypeOK, NEW s \in Segment, mounts' = Append(mounts, s)
  PROVE  /\ mounts' \in Seq(Segment)
         /\ Len(mounts') = Len(mounts) + 1
         /\ top' = s
BY AppendProperties DEF TypeOK, top

LEMMA EspChanged ==
  ASSUME TypeOK, Len(mounts) # 0, NEW b \in BOOLEAN,
         mounts' = [mounts EXCEPT ![Len(mounts)].esp = b]
  PROVE  /\ mounts' \in Seq(Segment)
         /\ Len(mounts') = Len(mounts)
         /\ top' = [top EXCEPT !.esp = b]
<1>1. /\ Len(mounts) \in 1 .. Len(mounts) /\ mounts \in Seq(Segment)
      /\ top \in Segment
  BY DEF TypeOK, top
<1> DEFINE t == [top EXCEPT !.esp = b]
<1>2. t \in Segment /\ mounts' = [mounts EXCEPT ![Len(mounts)] = t]
  BY <1>1 DEF Segment, top
<1> HIDE DEF t
<1>3. Len(mounts') = Len(mounts) /\ mounts' \in Seq(Segment) /\ mounts'[Len(mounts)] = t
  BY <1>1, <1>2
<1> QED
  BY <1>3 DEF top, t

LEMMA Popped ==
  ASSUME TypeOK, Len(mounts) # 0, mounts' = SubSeq(mounts, 1, Len(mounts) - 1)
  PROVE  mounts' \in Seq(Segment) /\ Len(mounts') = Len(mounts) - 1
<1> DEFINE n == Len(mounts) - 1
<1>1. /\ n \in Nat /\ mounts' = SubSeq(mounts, 1, n) /\ mounts \in Seq(Segment)
      /\ Len(mounts) \in Nat /\ \A k \in 1 .. n : mounts[k] \in Segment
  BY DEF TypeOK
<1> HIDE DEF n
<1>2. mounts' \in Seq(Segment) /\ Len(mounts') = IF 1 <= n THEN n - 1 + 1 ELSE 0
  BY <1>1, SubSeqProperties
<1>3. Len(mounts') = n
  BY <1>1, <1>2
<1> QED
  BY <1>1, <1>2, <1>3 DEF n
-----------------------------------------------------------------------------
\* Erasing and writing concern one disk only.
LEMMA EraseEffect ==
  ASSUME TypeOK, NEW d \in Disks, Erase(d)
  PROVE  /\ content'[d] = {} /\ durable'[d] = {}
         /\ \A e \in Disks \ {d} : content'[e] = content[e] /\ (e \in cut' <=> e \in cut)
         /\ touched' = touched \cup {d}
         /\ content' \in [Disks -> SUBSET Items] /\ durable' \in [Disks -> SUBSET Items]
         /\ cut' \subseteq Disks /\ touched' \subseteq Disks
BY DEF Erase, TypeOK

LEMMA WriteEffect ==
  ASSUME TypeOK, top.disk \in Disks, NEW S \in SUBSET Items, Write(S)
  PROVE  /\ content'[top.disk] = content[top.disk] \cup S
         /\ \A e \in Disks \ {top.disk} : content'[e] = content[e]
         /\ touched' = touched \cup {top.disk}
         /\ content' \in [Disks -> SUBSET Items]
         /\ touched' \subseteq Disks
         /\ UNCHANGED <<disk, efi, flags, echo, mounts, live, durable, confirmed,
                        before, excused, cut>>
BY DEF Write, TypeOK

\* The three steps that write, and how each ends.
LEMMA StepEffect ==
  ASSUME TypeOK, top.disk \in Disks, NEW here, NEW item \in Items, NEW next, Step(here, item, next)
  PROVE  /\ pc = here
         /\ \/ pc' = next /\ said' = said
               /\ content'[top.disk] = content[top.disk] \cup {item}
            \/ pc' \in {"fail_esp", "exit_esp"} /\ (said' = said \/ said' = "failed")
               /\ content'[top.disk] = content[top.disk]
         /\ \A e \in Disks \ {top.disk} : content'[e] = content[e]
         /\ touched' = touched \cup {top.disk}
         /\ content' \in [Disks -> SUBSET Items]
         /\ touched' \subseteq Disks
         /\ UNCHANGED <<disk, efi, flags, echo, mounts, live, durable, confirmed,
                        before, excused, cut>>
<1>1. CASE Goto(next) /\ Write({item})
  <2>1. {item} \in SUBSET Items
    OBVIOUS
  <2>2. pc = here /\ pc' = next /\ said' = said /\ Write({item})
    BY <1>1 DEF Step, Goto
  <2> QED
    BY <2>1, <2>2, WriteEffect
<1>2. CASE (Fail \/ Errexit) /\ Write({})
  <2>1. /\ pc = here /\ Write({})
        /\ pc' \in {"fail_esp", "exit_esp"} /\ (said' = said \/ said' = "failed")
    BY <1>2 DEF Step, Goto, Fail, Errexit
  <2>2. {} \in SUBSET Items
    OBVIOUS
  <2>3. content[top.disk] \cup {} = content[top.disk]
    OBVIOUS
  <2> QED
    BY <2>1, <2>2, <2>3, WriteEffect
<1> QED
  BY <1>1, <1>2 DEF Step

\* What a signal leaves of the command it kills.
LEMMA CutOffEffect ==
  ASSUME TypeOK, TargetInv, CutOff
  PROVE  \/ content' = content /\ touched' = touched
         \/ /\ pc = "grubcfg" /\ top.disk = disk /\ disk \in Disks /\ confirmed = {disk}
            /\ content'[disk] = content[disk] \cup {"grubcfg"}
            /\ \A e \in Disks \ {disk} : content'[e] = content[e]
            /\ touched' = touched \cup {disk}
BY DEF CutOff, TargetInv, Mounted, Flagged, TypeOK

\* The steps that write below the mount point, all of them after mounting.
LEMMA Writers ==
  ASSUME copy_rootfs \/ write_config \/ write_grub_cfg \/ install_bootloader
           \/ post_install_check
  PROVE  /\ pc \in Mounted /\ pc' \in Steps \cup Cleanups /\ said' \in {said, "failed"}
         /\ pc' \in Mounted \cup {"fail_esp", "exit_esp"}
         /\ pc \in Flagged /\ pc' \in Flagged \cup {"fail_esp", "exit_esp"}
         /\ \E S \in SUBSET Items : Write(S)
<1> DEFINE Wrote == \E S \in SUBSET Items : Write(S)
<1>1. ASSUME NEW S \in SUBSET Items, Write(S) PROVE Wrote
  BY <1>1
<1>2. ASSUME NEW item \in Items, NEW here, NEW next, Step(here, item, next)
      PROVE  /\ pc = here /\ pc' \in {next, "fail_esp", "exit_esp"}
             /\ said' \in {said, "failed"} /\ Wrote
  <2>1. {} \in SUBSET Items /\ {item} \in SUBSET Items
    OBVIOUS
  <2>2. pc = here /\ (Write({item}) \/ Write({}))
    BY <1>2 DEF Step
  <2>3. pc' \in {next, "fail_esp", "exit_esp"} /\ said' \in {said, "failed"}
    BY <1>2 DEF Step, Goto, Fail, Errexit
  <2> QED
    BY <2>1, <2>2, <2>3, <1>1
<1> HIDE DEF Wrote
<1>3. /\ {} \in SUBSET Items /\ {"system", "marker", "config", "loader"} \subseteq Items
      /\ {"grubcfg", "menuentry"} \in SUBSET Items /\ SUBSET {"grubcfg"} \subseteq SUBSET Items
  BY DEF Items
<1> USE DEF Mounted, Flagged, Steps, Cleanups
<1>4. CASE copy_rootfs
  BY <1>4, <1>2, <1>3 DEF copy_rootfs, Wrote
<1>5. CASE write_config
  BY <1>5, <1>2, <1>3 DEF write_config, Wrote
<1>8. CASE write_grub_cfg
  <2>1. Wrote
    BY <1>8, <1>1, <1>3 DEF write_grub_cfg
  <2> QED
    BY <1>8, <2>1 DEF write_grub_cfg, Goto, Fail, Errexit, Wrote
<1>6. CASE install_bootloader
  <2>1. CASE pc = "grub" /\ Goto("removable") /\ Write({})
    BY <2>1, <1>1, <1>3 DEF Goto, Wrote
  <2> QED
    BY <1>6, <2>1, <1>2, <1>3 DEF install_bootloader, Wrote
<1>7. CASE post_install_check
  <2>1. Wrote
    BY <1>7, <1>1, <1>3 DEF post_install_check
  <2> QED
    BY <1>7, <2>1 DEF post_install_check, Goto, Fail, Wrote
<1> QED
  BY <1>4, <1>5, <1>6, <1>7, <1>8

-----------------------------------------------------------------------------
\* Types are kept.
LEMMA TypeStep == IInv /\ [Next]_vars => TypeOK'
<1> SUFFICES ASSUME IInv, [Next]_vars PROVE TypeOK'
  OBVIOUS
<1>0. /\ TypeOK
      /\ pc \in Chosen \cup Unmounted \cup Mounted => disk \in Disks
      /\ pc \in Mounted => Len(mounts) # 0 /\ top.disk \in Disks
  BY DEF IInv, TargetInv
<1> USE <1>0 DEF Questions, Hidden, Steps, Cleanups, Machine, Chosen, Unmounted, Mounted,
             Flagged, Goto, Fail, Errexit, fs, history
<1>1. CASE Start
  BY <1>1 DEF Start, TypeOK
<1>2. CASE Welcome \/ show_disks \/ confirm_danger
  BY <1>2 DEF Welcome, show_disks, confirm_danger, TypeOK
<1>3. CASE AskName \/ choose_network \/ WifiPassword
  BY <1>3 DEF AskName, choose_network, WifiPassword, TypeOK
<1>4. CASE ask_password_hash
  BY <1>4 DEF ask_password_hash, AskTwice, TypeOK
<1>5. CASE partition_disk \/ mkfs
  <2>1. /\ pc' \in Steps \cup Cleanups /\ said' \in {said, "failed"} /\ disk \in Disks
        /\ UNCHANGED <<disk, efi, flags, echo, mounts, live, confirmed, before, excused>>
        /\ \/ Erase(disk)
           \/ UNCHANGED <<content, durable, cut>> /\ touched' \in {touched, touched \cup {disk}}
    BY <1>5 DEF partition_disk, mkfs
  <2>2. /\ content' \in [Disks -> SUBSET Items] /\ durable' \in [Disks -> SUBSET Items]
        /\ cut' \subseteq Disks /\ touched' \subseteq Disks
    BY <2>1, EraseEffect DEF TypeOK
  <2> QED
    BY <2>1, <2>2 DEF TypeOK
<1>6. CASE wait_for_partitions \/ SetFlag
  BY <1>6 DEF wait_for_partitions, SetFlag, TypeOK
<1>7. CASE mount_root
  <2>1. [disk |-> disk, esp |-> FALSE] \in Segment
    BY <1>7 DEF mount_root, Segment
  <2>2. mounts' \in Seq(Segment)
    BY <1>7, <2>1, Pushed DEF mount_root, TypeOK
  <2> QED
    BY <1>7, <2>2 DEF mount_root, TypeOK
<1>8. CASE mount_esp
  <2>1. mounts' \in Seq(Segment)
    BY <1>8, EspChanged DEF mount_esp, TypeOK
  <2> QED
    BY <1>8, <2>1 DEF mount_esp, TypeOK
<1>9. CASE copy_rootfs \/ write_config \/ write_grub_cfg \/ install_bootloader
           \/ post_install_check
  <2>1. /\ pc \in Mounted /\ pc' \in Steps \cup Cleanups /\ said' \in {said, "failed"}
        /\ \E S \in SUBSET Items : Write(S)
    BY <1>9, Writers
  <2>2. /\ content' \in [Disks -> SUBSET Items] /\ touched' \subseteq Disks
        /\ UNCHANGED <<disk, efi, flags, echo, mounts, live, durable, confirmed,
                       before, excused, cut>>
    BY <2>1, WriteEffect
  <2> QED
    BY <2>1, <2>2 DEF TypeOK
<1>11. CASE Sync \/ summary
  BY <1>11 DEF Sync, summary, TypeOK
<1>12. CASE Interrupt \/ Quit
  <2>1. content' \in [Disks -> SUBSET Items] /\ touched' \subseteq Disks
    <3>1. CASE UNCHANGED <<content, touched>>
      BY <3>1 DEF TypeOK
    <3>2. CASE pc = "grubcfg" /\ touched' = touched \cup {top.disk}
               /\ content' = [content EXCEPT ![top.disk] = @ \cup {"grubcfg"}]
      BY <3>2 DEF TypeOK, Items
    <3> QED
      BY <1>12, <3>1, <3>2 DEF Interrupt, Quit, CutOff
  <2> QED
    BY <1>12, <2>1 DEF Interrupt, Quit, TypeOK
<1>13. CASE cleanup
  <2>1. /\ pc' \in Cleanups \cup Machine
        /\ UNCHANGED <<said, disk, efi, flags, echo, live, fs, confirmed, touched, before, cut>>
        /\ excused' \subseteq {"window", "busy", "quit"}
    BY <1>13 DEF cleanup, UmountEsp, UmountRoot, TypeOK
  <2>2. \/ UNCHANGED mounts
        \/ mounts # <<>> /\ mounts' = [mounts EXCEPT ![Len(mounts)].esp = FALSE]
        \/ mounts # <<>> /\ mounts' = SubSeq(mounts, 1, Len(mounts) - 1)
    BY <1>13 DEF cleanup, UmountEsp, UmountRoot
  <2>3. mounts # <<>> => Len(mounts) # 0
    BY EmptySeq DEF TypeOK
  <2>4. mounts' \in Seq(Segment)
    BY <2>2, <2>3, EspChanged, Popped DEF TypeOK
  <2> QED
    BY <2>1, <2>4 DEF TypeOK
<1>10. CASE ShellUnmounts
  <2>1. mounts' \in Seq(Segment)
    BY <1>10 DEF ShellUnmounts
  <2> QED
    BY <1>10, <2>1 DEF ShellUnmounts, TypeOK
<1>14. CASE Boot
  BY <1>14 DEF Boot, TypeOK
<1>15. CASE Reboot \/ PowerCut
  <2>1. Off
    BY <1>15 DEF Reboot, PowerCut
  <2>2. mounts' \in Seq(Segment)
    BY <2>1 DEF Off
  <2>3. /\ content' \in [Disks -> SUBSET Items] /\ durable' \in [Disks -> SUBSET Items]
        /\ cut' \subseteq Disks
    BY <1>15 DEF Reboot, PowerCut, TypeOK
  <2> QED
    BY <2>1, <2>2, <2>3 DEF Off, TypeOK
<1>16. CASE UNCHANGED vars
  BY <1>16 DEF vars, TypeOK
<1> QED
  BY <1>1, <1>2, <1>3, <1>4, <1>5, <1>6, <1>7, <1>8, <1>9, <1>10, <1>11, <1>12, <1>13,
     <1>14, <1>15, <1>16 DEF Next
-----------------------------------------------------------------------------
\* The chosen disk is the confirmed one, and below the mount point.
LEMMA TargetStep == TypeOK /\ TargetInv /\ [Next]_vars => TargetInv'
<1> SUFFICES ASSUME TypeOK, TargetInv, [Next]_vars PROVE TargetInv'
  OBVIOUS
<1> USE DEF TargetInv, OnlyConfirmed, Chosen, Hidden, Unmounted, Mounted, Flagged, Goto,
            Fail, Errexit, fs, history
<1>1. CASE Start \/ Welcome
  BY <1>1 DEF Start, Welcome
<1>2. CASE show_disks \/ confirm_danger
  <2>1. CASE confirm_danger
    <3>1. UNCHANGED <<disk, mounts, live, touched>> /\ pc = "confirm"
          /\ \/ pc' \in {"fail_esp", "exit_esp"} /\ UNCHANGED confirmed
             \/ pc' = "name" /\ confirmed' = {disk}
      BY <2>1 DEF confirm_danger
    <3>2. InUse(disk)' <=> InUse(disk)
      BY <3>1 DEF InUse
    <3> QED
      BY <3>1, <3>2
  <2>2. CASE show_disks
    <3>1. /\ UNCHANGED <<mounts, live, confirmed, touched>> /\ pc = "disk"
          /\ \/ pc' \in {"fail_esp", "exit_esp"}
             \/ pc' = "confirm" /\ disk' \in Disks /\ ~InUse(disk')
      BY <2>2 DEF show_disks
    <3>2. ~InUse(disk') => ~InUse(disk)'
      BY <3>1 DEF InUse
    <3> QED
      BY <3>1, <3>2
  <2> QED
    BY <1>2, <2>1, <2>2
<1>3. CASE AskName \/ ask_password_hash \/ choose_network \/ WifiPassword
  BY <1>3 DEF AskName, ask_password_hash, AskTwice, choose_network, WifiPassword, InUse
<1>4. CASE partition_disk \/ wait_for_partitions \/ mkfs
  <2>1. /\ UNCHANGED <<disk, mounts, live, confirmed>>
        /\ touched' \in {touched, touched \cup {disk}}
        /\ \/ pc \in Unmounted /\ pc' \in Unmounted \cup {"fail_esp", "exit_esp"}
           \/ pc \in Mounted /\ pc' \in Mounted \cup {"fail_esp", "exit_esp"}
    BY <1>4 DEF partition_disk, wait_for_partitions, mkfs, Erase
  <2>2. (InUse(disk)' <=> InUse(disk)) /\ top' = top
    BY <2>1 DEF InUse, top
  <2>3. disk \in Disks /\ confirmed = {disk} /\ pc \in Unmounted \cup Mounted
    BY <2>1
  <2> QED
    BY <2>1, <2>2, <2>3
<1>5. CASE mount_root
  <2>1. CASE pc' = "flag_root"
    <3>1. /\ [disk |-> disk, esp |-> FALSE] \in Segment
          /\ mounts' = Append(mounts, [disk |-> disk, esp |-> FALSE])
          /\ UNCHANGED <<disk, confirmed, touched>> /\ disk \in Disks /\ confirmed = {disk}
      BY <1>5, <2>1 DEF mount_root, Segment
    <3>2. Len(mounts') = Len(mounts) + 1 /\ top'.disk = disk /\ Len(mounts) \in Nat
      BY <3>1, Pushed DEF TypeOK
    <3> QED
      BY <2>1, <3>1, <3>2
  <2> QED
    BY <1>5, <2>1 DEF mount_root
<1>6. CASE mount_esp
  <2>1. CASE UNCHANGED mounts
    BY <1>6, <2>1 DEF mount_esp, top
  <2>2. CASE mounts' = [mounts EXCEPT ![Len(mounts)].esp = TRUE]
    <3>1. Len(mounts') = Len(mounts) /\ top' = [top EXCEPT !.esp = TRUE] /\ top \in Segment
      <4>1. Len(mounts) # 0 /\ Len(mounts) \in 1 .. Len(mounts) /\ mounts \in Seq(Segment)
        BY <1>6 DEF mount_esp, TypeOK
      <4>2. top \in Segment
        BY <4>1 DEF top
      <4> QED
        BY <4>1, <4>2, <2>2, EspChanged
    <3>2. top'.disk = top.disk
      BY <3>1 DEF Segment
    <3> QED
      BY <1>6, <3>1, <3>2 DEF mount_esp
  <2> QED
    BY <1>6, <2>1, <2>2 DEF mount_esp
<1>7. CASE SetFlag
  BY <1>7 DEF SetFlag, top
<1>8. CASE copy_rootfs \/ write_config \/ write_grub_cfg \/ install_bootloader
           \/ post_install_check
  <2>1. /\ pc \in Mounted /\ pc' \in Mounted \cup {"fail_esp", "exit_esp"}
        /\ touched' = touched \cup {disk} /\ UNCHANGED <<disk, mounts, confirmed>>
    BY <1>8, Writers, WriteEffect
  <2> QED
    BY <2>1 DEF top
<1>9. CASE Sync \/ summary
  BY <1>9 DEF Sync, summary, top
<1>14. CASE Interrupt \/ Quit
  <2>1. CutOff /\ pc' \in {"fail_esp", "shell"} /\ confirmed' = confirmed
    BY <1>14 DEF Interrupt, Quit
  <2>2. touched' \subseteq confirmed
    BY <2>1, CutOffEffect
  <2> QED
    BY <2>1, <2>2
<1>10. CASE cleanup
  BY <1>10 DEF cleanup, UmountEsp, UmountRoot
<1>11. CASE ShellUnmounts \/ Boot
  BY <1>11 DEF ShellUnmounts, Boot
<1>12. CASE Reboot \/ PowerCut
  BY <1>12 DEF Reboot, PowerCut, Off
<1>13. CASE UNCHANGED vars
  BY <1>13 DEF vars, InUse, top
<1> QED
  BY <1>1, <1>2, <1>3, <1>4, <1>5, <1>6, <1>7, <1>8, <1>9, <1>10, <1>11, <1>12, <1>13, <1>14
     DEF Next

-----------------------------------------------------------------------------
\* The flags account for what is mounted.
LEMMA MountStep == TypeOK /\ TargetInv /\ MountInv /\ [Next]_vars => MountInv'
<1> SUFFICES ASSUME TypeOK, TargetInv, MountInv, [Next]_vars PROVE MountInv'
  OBVIOUS
<1>0. Len(mounts) \in Nat /\ before \in Nat /\ mounts \in Seq(Segment)
      /\ (mounts # <<>> <=> Len(mounts) # 0)
  BY EmptySeq DEF TypeOK
<1> USE <1>0 DEF MountInv, Covered, Questions, Hidden, Unmounted, Mounted, Flagged, Goto,
            Fail, Errexit, fs, history
<1>1. CASE Start \/ Welcome \/ show_disks \/ confirm_danger
  BY <1>1 DEF Start, Welcome, show_disks, confirm_danger
<1>2. CASE AskName \/ ask_password_hash \/ choose_network \/ WifiPassword
  BY <1>2 DEF AskName, ask_password_hash, AskTwice, choose_network, WifiPassword
<1>3. CASE partition_disk \/ wait_for_partitions
  BY <1>3 DEF partition_disk, wait_for_partitions
<1>4. CASE mkfs
  BY <1>4 DEF mkfs, top
<1>5. CASE mount_root
  <2>1. CASE pc' = "flag_root"
    <3>1. /\ [disk |-> disk, esp |-> FALSE] \in Segment
          /\ mounts' = Append(mounts, [disk |-> disk, esp |-> FALSE])
          /\ UNCHANGED <<flags, excused, before>>
      BY <1>5, <2>1 DEF mount_root, Segment, TargetInv
    <3>2. Len(mounts') = Len(mounts) + 1 /\ top' = [disk |-> disk, esp |-> FALSE]
      BY <3>1, Pushed
    <3> QED
      BY <1>5, <2>1, <3>1, <3>2 DEF mount_root
  <2>2. CASE pc' = "fail_esp"
    BY <1>5, <2>2 DEF mount_root
  <2> QED
    BY <1>5, <2>1, <2>2 DEF mount_root
<1>6. CASE mount_esp
  <2>1. CASE Fail /\ UNCHANGED mounts
    BY <1>6, <2>1 DEF mount_esp, top
  <2>2. CASE Goto("flag_esp") /\ mounts' = [mounts EXCEPT ![Len(mounts)].esp = TRUE]
    <3>1. Len(mounts') = Len(mounts)
      BY <1>6, <2>2, EspChanged DEF mount_esp, TargetInv
    <3> QED
      BY <1>6, <2>2, <3>1 DEF mount_esp
  <2> QED
    BY <1>6, <2>1, <2>2 DEF mount_esp
<1>7. CASE SetFlag
  BY <1>7 DEF SetFlag, top
<1>8. CASE copy_rootfs \/ write_config \/ write_grub_cfg \/ install_bootloader
           \/ post_install_check
  <2>1. /\ pc \in Flagged /\ pc' \in Flagged \cup {"fail_esp", "exit_esp"}
        /\ \E S \in SUBSET Items : Write(S)
    BY <1>8, Writers
  <2>2. UNCHANGED <<flags, mounts, before, excused>>
    BY <2>1 DEF Write
  <2> QED
    BY <2>1, <2>2 DEF top
<1>9. CASE Sync \/ summary
  BY <1>9 DEF Sync, summary, top
<1>10. CASE Interrupt \/ Quit
  <2>1. CASE Quit
    <3>1. pc' = "shell" /\ excused' # {}
      BY <2>1 DEF Quit
    <3> QED
      BY <3>1
  <2>2. CASE Interrupt
    <3>1. /\ pc \in Questions \cup Unmounted \cup Mounted /\ pc' = "fail_esp"
          /\ UNCHANGED <<mounts, before, flags>> /\ top' = top
          /\ excused' = IF pc \in {"flag_root", "flag_esp"} THEN excused \cup {"window"}
                       ELSE excused
      BY <2>2 DEF Interrupt, Steps, top
    <3>2. CASE pc \in {"flag_root", "flag_esp"}
      <4>1. excused' # {}
        BY <3>1, <3>2
      <4> QED
        BY <3>1, <4>1
    <3>3. CASE pc \notin {"flag_root", "flag_esp"}
      <4>1. Len(mounts) <= before \/ Covered
        BY <3>1, <3>3
      <4>2. (Len(mounts) <= before)' \/ Covered'
        BY <3>1, <4>1
      <4> QED
        BY <3>1, <4>2
    <3> QED
      BY <3>2, <3>3
  <2> QED
    BY <1>10, <2>1, <2>2
<1>11. ASSUME NEW next \in {"fail_root", "exit_root"}, pc \in {"fail_esp", "exit_esp"},
              UmountEsp(next), UNCHANGED <<flags, before>>
       PROVE  MountInv'
  <2>1. CASE ~("esp" \in flags /\ mounts # <<>> /\ top.esp) /\ UNCHANGED <<mounts, excused>>
    BY <1>11, <2>1 DEF UmountEsp, top
  <2>2. CASE excused' = excused \cup {"busy"} /\ UNCHANGED mounts
    BY <1>11, <2>2 DEF UmountEsp
  <2>3. CASE /\ mounts # <<>> /\ UNCHANGED excused
             /\ mounts' = [mounts EXCEPT ![Len(mounts)].esp = FALSE]
    <3>1. Len(mounts') = Len(mounts) /\ top' = [top EXCEPT !.esp = FALSE] /\ top \in Segment
      <4>1. Len(mounts) # 0 /\ Len(mounts) \in 1 .. Len(mounts)
        BY <2>3
      <4>2. top \in Segment
        BY <4>1 DEF top
      <4> QED
        BY <4>1, <4>2, <2>3, EspChanged
    <3>2. ~top'.esp
      BY <3>1 DEF Segment
    <3> QED
      BY <1>11, <2>3, <3>1, <3>2 DEF UmountEsp
  <2> QED
    BY <1>11, <2>1, <2>2, <2>3 DEF UmountEsp
<1>12. ASSUME NEW next \in {"exit_esp", "shell"}, pc \in {"fail_root", "exit_root"},
              UmountRoot(next), UNCHANGED <<flags, before>>
       PROVE  MountInv'
  <2>1. CASE mounts # <<>> /\ mounts' = SubSeq(mounts, 1, Len(mounts) - 1) /\ UNCHANGED excused
    <3>1. Len(mounts') = Len(mounts) - 1
      BY <2>1, Popped
    <3> QED
      BY <1>12, <2>1, <3>1 DEF UmountRoot
  <2>2. CASE /\ excused' = IF top.esp THEN excused ELSE excused \cup {"busy"}
             /\ UNCHANGED mounts
    BY <1>12, <2>2 DEF UmountRoot
  <2>3. CASE UNCHANGED <<mounts, excused>> /\ ("root" \notin flags \/ mounts = <<>>)
    <3>1. mounts = <<>> => Len(mounts) = 0
      OBVIOUS
    <3> QED
      BY <1>12, <2>3, <3>1 DEF UmountRoot
  <2> QED
    BY <1>12, <2>1, <2>2, <2>3 DEF UmountRoot
<1>13. CASE cleanup
  BY <1>11, <1>12, <1>13 DEF cleanup
<1>14. CASE ShellUnmounts
  <2>1. Len(mounts') = 0
    BY <1>14 DEF ShellUnmounts
  <2> QED
    BY <1>14, <2>1 DEF ShellUnmounts
<1>15. CASE Boot \/ Reboot \/ PowerCut
  <2>1. CASE Boot
    BY <2>1 DEF Boot
  <2>2. CASE Reboot \/ PowerCut
    BY <2>2 DEF Reboot, PowerCut, Off
  <2> QED
    BY <1>15, <2>1, <2>2
<1>16. CASE UNCHANGED vars
  BY <1>16 DEF vars, top
<1> QED
  BY <1>1, <1>2, <1>3, <1>4, <1>5, <1>6, <1>7, <1>8, <1>9, <1>10, <1>13, <1>14, <1>15, <1>16
     DEF Next

-----------------------------------------------------------------------------
\* The parts of the system arrive on the disk in order, and none is lost.
LEMMA ArrivedStep == TypeOK /\ TargetInv /\ ArrivedInv /\ [Next]_vars => ArrivedInv'
<1> SUFFICES ASSUME TypeOK, TargetInv, ArrivedInv, [Next]_vars PROVE ArrivedInv'
  OBVIOUS
<1>0. /\ pc \in Unmounted \cup Mounted => disk \in Disks
      /\ pc \in Mounted => top.disk = disk
      /\ content \in [Disks -> SUBSET Items]
  BY DEF TypeOK, TargetInv
<1> USE <1>0 DEF ArrivedInv, Flagged, Unmounted, Mounted, Goto, Fail, Errexit, fs, history
<1>1. CASE Start \/ Welcome \/ show_disks \/ confirm_danger
  BY <1>1 DEF Start, Welcome, show_disks, confirm_danger
<1>2. CASE AskName \/ ask_password_hash \/ choose_network \/ WifiPassword
  BY <1>2 DEF AskName, ask_password_hash, AskTwice, choose_network, WifiPassword
<1>3. CASE partition_disk \/ wait_for_partitions
  BY <1>3 DEF partition_disk, wait_for_partitions
<1>4. CASE mkfs
  <2>1. CASE pc = "mkfs"
    <3>1. content'[disk] = {} /\ disk' = disk
      BY <1>4, <2>1, EraseEffect DEF mkfs
    <3> QED
      BY <1>4, <2>1, <3>1 DEF mkfs
  <2>2. CASE pc = "mkfs_esp"
    BY <1>4, <2>2 DEF mkfs
  <2> QED
    BY <1>4, <2>1, <2>2 DEF mkfs
<1>5. CASE mount_root \/ mount_esp \/ SetFlag
  BY <1>5 DEF mount_root, mount_esp, SetFlag
<1>6. ASSUME NEW here \in Flagged, NEW item \in Items, NEW next, Step(here, item, next)
      PROVE  /\ pc = here /\ disk' = disk /\ durable' = durable
             /\ \/ pc' = next /\ content'[disk] = content[disk] \cup {item}
                \/ pc' \in {"fail_esp", "exit_esp"}
  <2>1. pc = here
    BY <1>6 DEF Step
  <2>2. top.disk = disk /\ top.disk \in Disks
    BY <2>1
  <2> QED
    BY <1>6, <2>1, <2>2, StepEffect
<1>7. {"system", "marker", "config", "loader"} \subseteq Items
  BY DEF Items
<1>8. CASE copy_rootfs
  BY <1>8, <1>6, <1>7 DEF copy_rootfs
<1>9. CASE write_config
  BY <1>9, <1>6, <1>7 DEF write_config
<1>10. CASE write_grub_cfg
  <2>1. CASE Goto("grub") /\ Write({"grubcfg", "menuentry"})
    <3>1. pc = "grubcfg" /\ top.disk = disk /\ disk \in Disks
      BY <1>10 DEF write_grub_cfg
    <3>2. {"grubcfg", "menuentry"} \in SUBSET Items
      BY DEF Items
    <3>3. content'[disk] = content[disk] \cup {"grubcfg", "menuentry"} /\ disk' = disk
      BY <2>1, <3>1, <3>2, WriteEffect
    <3> QED
      BY <2>1, <3>1, <3>3
  <2>2. CASE pc' \in {"fail_esp", "exit_esp"}
    BY <2>2
  <2> QED
    BY <1>10, <2>1, <2>2 DEF write_grub_cfg
<1>11. CASE install_bootloader
  <2>1. CASE efi /\ pc = "grub" /\ Goto("removable") /\ Write({})
    <3>1. content'[disk] = content[disk] /\ disk' = disk /\ pc = "grub" /\ pc' = "removable"
      <4>1. /\ {} \in SUBSET Items /\ pc = "grub" /\ pc' = "removable"
            /\ top.disk = disk /\ top.disk \in Disks /\ Write({})
        BY <2>1
      <4>2. content[disk] \cup {} = content[disk]
        OBVIOUS
      <4> QED
        BY <4>1, <4>2, WriteEffect
    <3> QED
      BY <3>1
  <2>2. CASE Step("grub", "loader", "check")
    BY <2>2, <1>6, <1>7
  <2>3. CASE Step("removable", "loader", "check")
    BY <2>3, <1>6, <1>7
  <2> QED
    BY <1>11, <2>1, <2>2, <2>3 DEF install_bootloader
<1>12. CASE post_install_check
  <2>1. /\ content'[disk] = content[disk] /\ disk' = disk /\ pc = "check"
        /\ pc' \in {"sync", "fail_esp"}
    BY <1>12, WriteEffect DEF post_install_check
  <2> QED
    BY <2>1
<1>13. CASE Sync
  BY <1>13 DEF Sync, Items
<1>14. CASE summary \/ Interrupt \/ Quit \/ cleanup
  BY <1>14 DEF summary, Interrupt, Quit, cleanup, UmountEsp, UmountRoot
<1>15. CASE ShellUnmounts \/ Boot \/ Reboot \/ PowerCut
  BY <1>15 DEF ShellUnmounts, Boot, Reboot, PowerCut, Off
<1>16. CASE UNCHANGED vars
  BY <1>16 DEF vars
<1> QED
  BY <1>1, <1>2, <1>3, <1>4, <1>5, <1>8, <1>9, <1>10, <1>11, <1>12, <1>13, <1>14, <1>15,
     <1>16 DEF Next

-----------------------------------------------------------------------------
\* Success is said when all is there, and is still there until the script is
\* started again.
LEMMA SaidStep == TypeOK /\ ArrivedInv /\ SaidInv /\ [Next]_vars => SaidInv'
<1> SUFFICES ASSUME TypeOK, ArrivedInv, SaidInv, [Next]_vars PROVE SaidInv'
  OBVIOUS
<1> USE DEF SaidInv, InstalledIsWhole, Goto, Fail, Errexit, fs, history
<1>1. CASE Start \/ Welcome \/ show_disks \/ confirm_danger
  BY <1>1 DEF Start, Welcome, show_disks, confirm_danger
<1>2. CASE AskName \/ ask_password_hash \/ choose_network \/ WifiPassword
  BY <1>2 DEF AskName, ask_password_hash, AskTwice, choose_network, WifiPassword, Hidden
<1>3. CASE partition_disk \/ wait_for_partitions \/ mkfs
  BY <1>3 DEF partition_disk, wait_for_partitions, mkfs
<1>4. CASE mount_root \/ mount_esp \/ SetFlag
  BY <1>4 DEF mount_root, mount_esp, SetFlag
<1>5. CASE copy_rootfs \/ write_config \/ write_grub_cfg \/ install_bootloader
           \/ post_install_check
  <2>1. pc \in Flagged /\ said' \in {said, "failed"}
    BY <1>5, Writers
  <2>2. said # "installed"
    BY <2>1 DEF Flagged
  <2> QED
    BY <2>1, <2>2
<1>6. CASE Sync \/ Interrupt \/ Quit
  BY <1>6 DEF Sync, Interrupt, Quit, Questions, Hidden, Steps, Machine
<1>7. CASE summary
  BY <1>7 DEF summary, ArrivedInv
<1>8. CASE cleanup
  BY <1>8 DEF cleanup, UmountEsp, UmountRoot
<1>9. CASE ShellUnmounts \/ Boot \/ Reboot \/ PowerCut
  BY <1>9 DEF ShellUnmounts, Boot, Reboot, PowerCut, Off
<1>10. CASE UNCHANGED vars
  BY <1>10 DEF vars
<1> QED
  BY <1>1, <1>2, <1>3, <1>4, <1>5, <1>6, <1>7, <1>8, <1>9, <1>10 DEF Next

-----------------------------------------------------------------------------
\* What the boot menu offers has the system: grub.cfg, even an empty one, comes
\* after the system, the marker and the configuration, and a power cut is the
\* only thing that takes some of it and leaves the rest.
LEMMA WholeStep ==
  TypeOK /\ TargetInv /\ ArrivedInv /\ WholeInv /\ [Next]_vars => WholeInv'
<1> SUFFICES ASSUME TypeOK, TargetInv, ArrivedInv, WholeInv, [Next]_vars PROVE WholeInv'
  OBVIOUS
<1>0. /\ content \in [Disks -> SUBSET Items]
      /\ pc \in Unmounted \cup Mounted => disk \in Disks
      /\ pc \in Mounted => top.disk = disk
  BY DEF TypeOK, TargetInv
<1> DEFINE Whole(S) == {"marker", "grubcfg"} \subseteq S => Checked \subseteq S
<1>1. WholeInv <=> \A d \in Disks \ cut : Whole(content[d])
  BY DEF WholeInv, OffersInstalled
<1>2. WholeInv' <=> \A d \in Disks \ cut' : Whole(content'[d])
  BY DEF WholeInv, OffersInstalled
<1>3. ASSUME UNCHANGED <<content, cut>> PROVE WholeInv'
  BY <1>1, <1>2, <1>3
<1>4. ASSUME NEW d \in Disks, Whole(content'[d]), cut' \subseteq cut,
             \A e \in Disks \ {d} : content'[e] = content[e] /\ (e \in cut' <=> e \in cut)
      PROVE  WholeInv'
  BY <1>1, <1>2, <1>4
<1>5. Whole({})
  OBVIOUS
<1>6. /\ Checked = {"system", "marker", "config", "grubcfg"}
      /\ Items = Checked \cup {"menuentry", "loader"}
  BY DEF Checked, Items
<1> HIDE DEF Whole
<1>7. CASE partition_disk \/ mkfs
  <2>1. CASE Erase(disk)
    <3>1. disk \in Disks
      BY <1>0, <1>7 DEF partition_disk, mkfs, Unmounted, Mounted, Flagged
    <3>2. cut' \subseteq cut
      BY <2>1 DEF Erase
    <3> QED
      BY <3>1, <3>2, <2>1, EraseEffect, <1>4, <1>5
  <2> QED
    BY <1>7, <2>1, <1>3 DEF partition_disk, mkfs, fs
<1>8. pc \in {"copy", "marker", "config", "grubcfg"} => "grubcfg" \notin content[disk]
  BY DEF ArrivedInv
<1>9. pc \in {"grub", "removable", "check"} => Checked \subseteq content[disk]
  BY <1>6 DEF ArrivedInv, Flagged
<1>10. pc \in {"grubcfg", "grub", "removable"} =>
         {"system", "marker", "config"} \subseteq content[disk]
  BY DEF ArrivedInv, Flagged
<1>11. ASSUME NEW S, "grubcfg" \notin S \/ Checked \subseteq S PROVE Whole(S)
  BY <1>11 DEF Whole
<1>20. ASSUME NEW S, NEW R, {"system", "marker", "config"} \subseteq R PROVE Whole(R \cup S)
  BY <1>20, <1>6 DEF Whole
<1>12. ASSUME NEW here \in Flagged \ {"check", "sync", "summary"}, NEW item \in Items, NEW next,
              Step(here, item, next), here \in {"copy", "marker", "config"} => item # "grubcfg"
       PROVE  WholeInv'
  <2>1. pc = here
    BY <1>12 DEF Step
  <2>2. top.disk = disk /\ disk \in Disks
    BY <1>0, <2>1 DEF Mounted
  <2>3. /\ cut' = cut
        /\ \A e \in Disks \ {disk} : content'[e] = content[e]
        /\ content'[disk] = content[disk] \/ content'[disk] = content[disk] \cup {item}
    BY <1>12, <2>2, StepEffect
  <2>4. Whole(content[disk]) /\ Whole(content[disk] \cup {item})
    <3>1. CASE pc \in {"copy", "marker", "config"}
      BY <3>1, <2>1, <1>8, <1>11, <1>12
    <3>2. CASE pc = "grubcfg"
      <4>1. item = "grubcfg" => Checked \subseteq content[disk] \cup {item}
        BY <3>2, <1>6, <1>10
      <4> QED
        BY <4>1, <3>2, <1>8, <1>11
    <3>3. CASE pc \in {"grub", "removable"}
      BY <3>3, <1>9, <1>11
    <3> QED
      BY <2>1, <3>1, <3>2, <3>3 DEF Flagged
  <2> QED
    BY <2>2, <2>3, <2>4, <1>4
<1>13. CASE copy_rootfs \/ write_config
  BY <1>13, <1>12, <1>6 DEF copy_rootfs, write_config, Flagged
<1>14. CASE write_grub_cfg \/ install_bootloader \/ post_install_check
  <2>1. CASE write_grub_cfg
    <3>1. pc = "grubcfg" /\ top.disk = disk /\ disk \in Disks
      BY <1>0, <2>1 DEF write_grub_cfg, Mounted, Flagged
    <3>2. PICK S \in SUBSET Items : Write(S)
      BY <2>1, Writers
    <3>3. /\ cut' = cut /\ content'[disk] = content[disk] \cup S
          /\ \A e \in Disks \ {disk} : content'[e] = content[e]
      BY <3>1, <3>2, WriteEffect
    <3>4. {"system", "marker", "config"} \subseteq content[disk]
      BY <3>1, <1>10
    <3>5. Whole(content'[disk])
      BY <3>3, <3>4, <1>20
    <3> QED
      BY <3>1, <3>3, <3>5, <1>4
  <2>2. CASE Step("grub", "loader", "check") \/ Step("removable", "loader", "check")
    BY <2>2, <1>12, <1>6 DEF Flagged
  <2>3. ASSUME Write({}), pc \in {"grub", "check"} PROVE WholeInv'
    <3>1. top.disk = disk /\ disk \in Disks /\ {} \in SUBSET Items
      BY <1>0, <2>3 DEF Mounted, Flagged
    <3>2. /\ cut' = cut /\ content'[disk] = content[disk] \cup {}
          /\ \A e \in Disks \ {disk} : content'[e] = content[e]
      BY <2>3, <3>1, WriteEffect
    <3>3. content'[disk] = content[disk]
      BY <3>2
    <3>4. Whole(content'[disk])
      BY <3>3, <2>3, <1>9, <1>11
    <3> QED
      BY <3>1, <3>2, <3>4, <1>4
  <2> QED
    BY <1>14, <2>1, <2>2, <2>3 DEF install_bootloader, post_install_check
<1>15. CASE PowerCut
  <2>1. \A d \in Disks \ cut' : content'[d] = content[d] /\ d \notin cut
    <3>1. PICK lost \in SUBSET Unsynced :
            content' = [d \in Disks |-> content[d] \ {x \in Items : <<d, x>> \in lost}]
      BY <1>15 DEF PowerCut
    <3>2. cut' = cut \cup {d \in Disks : content[d] # durable[d]}
      BY <1>15 DEF PowerCut
    <3> SUFFICES ASSUME NEW d \in Disks \ cut' PROVE content'[d] = content[d] /\ d \notin cut
      OBVIOUS
    <3>3. d \notin cut /\ content[d] = durable[d]
      BY <3>2
    <3>4. \A x \in Items : <<d, x>> \notin lost
      BY <3>3 DEF Unsynced
    <3> QED
      BY <3>1, <3>3, <3>4
  <2> QED
    BY <2>1, <1>1, <1>2
<1>16. UNCHANGED <<content, cut>> => WholeInv'
  BY <1>3
<1>17. CASE Start \/ Welcome \/ show_disks \/ confirm_danger \/ AskName \/ ask_password_hash
              \/ choose_network \/ WifiPassword
  BY <1>16, <1>17 DEF Start, Welcome, show_disks, confirm_danger, AskName, ask_password_hash,
                      choose_network, WifiPassword, fs, history
<1>18. CASE wait_for_partitions \/ mount_root \/ mount_esp \/ SetFlag \/ Sync \/ summary
  BY <1>16, <1>18 DEF wait_for_partitions, mount_root, mount_esp, SetFlag, Sync, summary,
                      fs, history
<1>19. CASE cleanup \/ ShellUnmounts \/ Reboot \/ Boot \/ UNCHANGED vars
  BY <1>16, <1>19 DEF cleanup, ShellUnmounts, Reboot, Boot, vars, fs, history
<1>21. CASE Interrupt \/ Quit
  <2>1. CutOff /\ cut' = cut
    BY <1>21 DEF Interrupt, Quit
  <2>2. CASE content' = content
    BY <2>1, <2>2, <1>3
  <2>3. CASE /\ pc = "grubcfg" /\ disk \in Disks
             /\ content'[disk] = content[disk] \cup {"grubcfg"}
             /\ \A e \in Disks \ {disk} : content'[e] = content[e]
    <3>1. {"system", "marker", "config"} \subseteq content[disk]
      BY <2>3, <1>10
    <3>2. Whole(content'[disk])
      BY <2>3, <3>1, <1>20
    <3> QED
      BY <2>1, <2>3, <3>2, <1>4
  <2> QED
    BY <2>1, <2>2, <2>3, CutOffEffect
<1> QED
  BY <1>7, <1>13, <1>14, <1>15, <1>17, <1>18, <1>19, <1>21 DEF Next

-----------------------------------------------------------------------------
\* The invariant holds in every reachable state.
LEMMA Invariant == Spec => []IInv
<1>1. IInv /\ [Next]_vars => IInv'
  BY TypeStep, TargetStep, MountStep, ArrivedStep, SaidStep, WholeStep DEF IInv
<1> QED
  BY <1>1, InitIInv, PTL DEF Spec

\* Every variable keeps its type, for any number of disks and of scripts.
THEOREM TypeCorrect == Spec => []TypeOK
<1>1. IInv => TypeOK
  BY DEF IInv
<1> QED
  BY <1>1, Invariant, PTL

\* No script writes to a disk that was not confirmed, whatever was left mounted.
THEOREM Confirmed == Spec => []OnlyConfirmed
<1>1. IInv => OnlyConfirmed
  BY DEF IInv, TargetInv
<1> QED
  BY <1>1, Invariant, PTL

\* What is called installed is whole and would survive a power cut.
THEOREM WholeWhenInstalled == Spec => []InstalledIsWhole
<1>1. IInv => InstalledIsWhole
  BY DEF IInv, SaidInv
<1> QED
  BY <1>1, Invariant, PTL

\* A disk the boot menu offers has the system and its configuration, however
\* the installation ended; it may lack the boot loader.
THEOREM SystemWhenOffered == Spec => []OfferedHasSystem
<1>1. IInv => OfferedHasSystem
  BY DEF IInv, WholeInv, OfferedHasSystem
<1> QED
  BY <1>1, Invariant, PTL

\* A script that ends leaves no more mounted than it found, but for three excuses.
THEOREM Unmounts == Spec => []NothingLeftMounted
<1>1. IInv => NothingLeftMounted
  BY DEF IInv, MountInv, NothingLeftMounted
<1> QED
  BY <1>1, Invariant, PTL

\* No script erases a disk in use.
THEOREM ErasesOnlyFree == Spec => NeverEraseMounted
<1> DEFINE Erased(d) == content'[d] = {} /\ content[d] # {}
<1>1. IInv /\ [Next]_vars =>
        (pc' # "menu" => \A d \in Disks : content'[d] = {} /\ content[d] # {} => ~InUse(d))
  <2> SUFFICES ASSUME IInv, [Next]_vars, pc' # "menu", NEW d \in Disks, Erased(d)
               PROVE  ~InUse(d)
    OBVIOUS
  <2>0. /\ TypeOK
        /\ pc \in Unmounted => disk \in Disks /\ ~InUse(disk)
        /\ pc \in Mounted => top.disk \in Disks
    BY DEF IInv, TargetInv
  <2>1. CASE partition_disk \/ mkfs
    <3>1. content' # content => pc \in Unmounted /\ Erase(disk)
      BY <2>1 DEF partition_disk, mkfs, Unmounted, fs
    <3>2. d = disk
      BY <2>0, <3>1, EraseEffect
    <3> QED
      BY <2>0, <3>1, <3>2
  <2>2. CASE copy_rootfs \/ write_config \/ write_grub_cfg \/ install_bootloader
               \/ post_install_check
    <3>1. PICK S \in SUBSET Items : Write(S)
      BY <2>2, Writers
    <3>2. pc \in Mounted
      BY <2>2, Writers
    <3>3. content[d] \subseteq content'[d]
      BY <2>0, <3>1, <3>2, WriteEffect
    <3> QED
      BY <3>3
  <2>3. content' = content => FALSE
    OBVIOUS
  <2>4. CASE Start \/ Welcome \/ show_disks \/ confirm_danger \/ AskName \/ ask_password_hash
               \/ choose_network \/ WifiPassword
    BY <2>3, <2>4 DEF Start, Welcome, show_disks, confirm_danger, AskName, ask_password_hash,
                      choose_network, WifiPassword, fs, history
  <2>5. CASE wait_for_partitions \/ mount_root \/ mount_esp \/ SetFlag \/ Sync \/ summary
    BY <2>3, <2>5 DEF wait_for_partitions, mount_root, mount_esp, SetFlag, Sync, summary,
                      fs, history
  <2>6. CASE cleanup \/ ShellUnmounts \/ Reboot \/ Boot \/ UNCHANGED vars
    BY <2>3, <2>6 DEF cleanup, ShellUnmounts, Reboot, Boot, vars, fs, history
  <2>8. CASE Interrupt \/ Quit
    <3>1. CutOff /\ TargetInv
      BY <2>8 DEF Interrupt, Quit, IInv
    <3>2. content[d] \subseteq content'[d]
      BY <2>0, <3>1, CutOffEffect
    <3> QED
      BY <3>2
  <2>7. CASE PowerCut
    BY <2>7 DEF PowerCut, Off
  <2> QED
    BY <2>1, <2>2, <2>4, <2>5, <2>6, <2>7, <2>8 DEF Next
<1> QED
  BY <1>1, Invariant, PTL DEF Spec, NeverEraseMounted
=============================================================================
