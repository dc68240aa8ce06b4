-------------------------- MODULE InstallerProofs --------------------------
(***************************************************************************)
(* Proofs about Installer, for any set of disks and any earlier contents.  *)
(* What the properties say of "done" and of the boot menu is settled many  *)
(* steps before; the invariant carries it along: which disk is under       *)
(* /mnt/target, and how much of the system has arrived there.              *)
(***************************************************************************)
EXTENDS Installer, SequenceTheorems, TLAPS

Blank == {"mkfs_esp", "mkfs_root", "mount_root"}       \* no file system yet
Mounted == {"mount_esp", "copy", "system_files", "grub", "grub_bios", "grub_cfg",
            "boot_files", "unmount"}

\* The chosen disk, and that it is the one below /mnt/target, and only there.
TargetInv ==
  /\ pc \in {"user", "confirm", "done"} \cup Steps => disk \in Disks
  /\ pc \in Steps => disk \in confirmed
  /\ pc \in Blank => ~InUse(disk)
  /\ pc = "done" /\ disk \notin hurt => ~InUse(disk)
  /\ pc \in Mounted => /\ Len(mounts) # 0
                       /\ top.disk = disk
                       /\ \A k \in 1 .. Len(mounts) - 1 : mounts[k].disk # disk

TermInv ==
  /\ ~raw => tty = saved
  /\ pc \in {"shell", "failed_shell", "done_shell", "exit", "menu", "booted"} => ~raw

\* How far the system has arrived on the disk, unless an ignored error hit it.
ArrivedInv ==
  /\ pc \in Blank => content[disk] = {}
  /\ pc \in Blank \cup Mounted => durable[disk] = {}
  /\ pc \in Blank \cup (Mounted \ {"boot_files", "unmount"}) =>
       "grubcfg" \notin content[disk]
  /\ disk \notin hurt =>
       /\ pc \in {"grub", "grub_bios", "grub_cfg", "boot_files", "unmount"} =>
            {"rootfs", "marker"} \subseteq content[disk]
       /\ pc \in {"grub_cfg", "boot_files", "unmount"} => "loader" \in content[disk]
       /\ pc \in {"boot_files", "unmount"} => "grubcfg" \in content[disk]
       /\ pc = "unmount" => MediaBoot \subseteq content[disk]
       /\ pc = "done" => System \subseteq durable[disk]

\* A disk the boot menu would take for installed is whole, or being worked on.
WholeInv ==
  \A d \in Disks \ hurt :
    OffersInstalled(d) => \/ System \subseteq content[d]
                          \/ d = disk /\ pc \in {"boot_files", "unmount"}

Early == {"welcome", "shell", "pick", "user", "confirm", "exit", "killed", "menu", "booted"}

\* Before INSTALL is typed nothing has been written.
ConfirmedInv == OnlyConfirmed /\ (pc \in Early => touched = {})

IInv == TypeOK /\ TargetInv /\ TermInv /\ ArrivedInv /\ WholeInv /\ ConfirmedInv

-----------------------------------------------------------------------------
\* The initial states satisfy the invariant.
LEMMA InitIInv == Init => IInv
<1> SUFFICES ASSUME Init PROVE IInv
  OBVIOUS
<1> USE DisksAssumption DEF Init
<1>1. TypeOK
  <2>1. System \in SUBSET Items
    BY DEF System, Items, Base
  <2>2. content \in [Disks -> SUBSET Items]
    BY <2>1
  <2>3. mounts \in Seq(Segment)
    OBVIOUS
  <2>4. durable \in [Disks -> SUBSET Items]
    BY <2>2
  <2> HIDE DEF Init
  <2>5. /\ pc = "menu" /\ disk = None /\ raw = FALSE
        /\ tty = "cooked" /\ saved = "cooked"
        /\ confirmed = {} /\ touched = {} /\ hurt = {}
    BY DEF Init
  <2> QED
    BY <2>2, <2>3, <2>4, <2>5 DEF TypeOK, Machine
<1>2. TargetInv /\ TermInv /\ ArrivedInv /\ ConfirmedInv
  BY DEF TargetInv, TermInv, ArrivedInv, Blank, Mounted, Steps, ConfirmedInv, OnlyConfirmed
<1>3. WholeInv
  BY DEF WholeInv, OffersInstalled
<1> QED
  BY <1>1, <1>2, <1>3 DEF IInv

\* The last file system mounted, when there is one, is a segment.
LEMMA TopType ==
  ASSUME TypeOK, Len(mounts) # 0
  PROVE  /\ top \in Segment
         /\ \A S \in SUBSET Below : SetBelow(S) =>
              /\ mounts' \in Seq(Segment)
              /\ Len(mounts') = Len(mounts)
              /\ \A k \in 1 .. Len(mounts) : mounts'[k].disk = mounts[k].disk
<1>1. top \in Segment /\ Len(mounts) \in 1 .. Len(mounts)
  BY DEF TypeOK, top
<1> SUFFICES ASSUME NEW S \in SUBSET Below, SetBelow(S)
             PROVE  /\ mounts' \in Seq(Segment)
                    /\ Len(mounts') = Len(mounts)
                    /\ \A k \in 1 .. Len(mounts) : mounts'[k].disk = mounts[k].disk
  BY <1>1
<1> DEFINE t == [top EXCEPT !.below = S]
<1>2. t \in Segment /\ t.disk = top.disk
  BY <1>1 DEF Segment
<1>3. mounts' = [mounts EXCEPT ![Len(mounts)] = t]
  BY DEF SetBelow, top
<1> QED
  BY <1>1, <1>2, <1>3 DEF TypeOK, top

-----------------------------------------------------------------------------
\* Types are kept.
LEMMA TypeStep == IInv /\ [Next]_vars => TypeOK'
<1> SUFFICES ASSUME IInv, [Next]_vars PROVE TypeOK'
  OBVIOUS
<1>0. TypeOK /\ (pc \in {"user", "confirm", "done"} \cup Steps => disk \in Disks)
      /\ (pc \in Mounted => Len(mounts) # 0)
  BY DEF IInv, TargetInv
<1> USE <1>0 DEF TypeOK, Screens, Steps, Machine, Mounted, Goto, Ends, term, fs
<1>1. CASE Start \/ Leave \/ screen_welcome \/ ShellEnds \/ screen_pick_disk
           \/ screen_user \/ screen_confirm \/ InstallFailed \/ screen_done
  <2>1. CASE Start \/ screen_pick_disk \/ screen_user \/ screen_confirm
    BY <2>1 DEF Start, screen_pick_disk, screen_user, screen_confirm
  <2>2. CASE screen_welcome \/ ShellEnds
    BY <2>2 DEF screen_welcome, ShellEnds, enable_raw, disable_raw
  <2>3. CASE Leave \/ InstallFailed \/ screen_done
    BY <2>3 DEF Leave, InstallFailed, screen_done, disable_raw
  <2> QED
    BY <1>1, <2>1, <2>2, <2>3
<1>2. CASE ShellUnmounts
  BY <1>2 DEF ShellUnmounts
<1>3. CASE wipefs \/ sfdisk \/ format_partitions
  <2>1. disk \in Disks /\ UNCHANGED <<term, mounts>>
    BY <1>3 DEF wipefs, sfdisk, format_partitions
  <2>2. CASE pc' = "killed"
    BY <1>3, <2>1, <2>2 DEF wipefs, sfdisk, format_partitions
  <2>3. CASE pc' # "killed"
    <3>1. /\ pc' \in {"sfdisk", "failed"} \cup Blank
          /\ UNCHANGED <<disk, confirmed>>
          /\ Erased(disk) \/ UNCHANGED fs
      BY <1>3, <2>3 DEF wipefs, sfdisk, format_partitions, Blank
    <3>2. CASE Erased(disk)
      BY <2>1, <3>1, <3>2 DEF Erased, Blank
    <3>3. CASE UNCHANGED fs
      BY <2>1, <3>1, <3>3 DEF Blank
    <3> QED
      BY <3>1, <3>2, <3>3
  <2> QED
    BY <2>2, <2>3
<1>4. CASE mount_root
  <2>1. disk \in Disks /\ pc' \in {"mount_esp", "failed"}
        /\ UNCHANGED <<disk, term, fs, confirmed>>
    BY <1>4 DEF mount_root
  <2>2. [disk |-> disk, below |-> {}] \in Segment
    BY <2>1 DEF Segment
  <2>3. mounts' \in Seq(Segment)
    BY <1>4, <2>2, AppendProperties DEF mount_root
  <2> QED
    BY <2>1, <2>3
<1>5. CASE mount_esp
  BY <1>5, TopType DEF mount_esp, Segment, Below
<1>6. ASSUME NEW wanted, NEW got \in SUBSET Items, Write(wanted, got), Len(mounts) # 0
      PROVE  /\ content' \in [Disks -> SUBSET Items]
             /\ durable' \in [Disks -> SUBSET Items]
             /\ touched' \subseteq Disks
             /\ hurt' \subseteq Disks
  BY <1>6, TopType DEF Write, Segment
<1>7. CASE copy_rootfs
  <2>1. \E wanted : Write(wanted, {})
    BY <1>7 DEF copy_rootfs
  <2> QED
    BY <1>7, <2>1, <1>6 DEF copy_rootfs
<1>8. CASE write_system_files
  BY <1>8, <1>6 DEF write_system_files, Items, Base
<1>9. CASE grub_efi
  <2>1. /\ pc' \in {"grub_cfg", "grub_bios"}
        /\ UNCHANGED <<disk, term, mounts, confirmed>>
    BY <1>9 DEF grub_efi
  <2>2. mounts' \in Seq(Segment)
    BY <2>1
  <2>3. Write({"loader"}, {"loader"}) \/ UNCHANGED fs
    BY <1>9 DEF grub_efi
  <2>4. Len(mounts) # 0
    BY <1>9 DEF grub_efi
  <2> QED
    BY <2>1, <2>2, <2>3, <2>4, <1>6 DEF Items, Base
<1>10. CASE grub_bios
  BY <1>10, <1>6 DEF grub_bios, Items, Base
<1>11. CASE grub_cfg
  BY <1>11, <1>6 DEF grub_cfg, Items, Base
<1>12. CASE boot_files
  BY <1>12, <1>6, DisksAssumption DEF boot_files, Items, Base
<1>13. CASE unmount_all
  <2>1. mounts' \in Seq(Segment)
    <3>1. CASE mounts' = SubSeq(mounts, 1, Len(mounts) - 1)
      BY <3>1
    <3>2. CASE \E S \in SUBSET top.below : SetBelow(S)
      BY <1>13, <3>2, TopType DEF unmount_all, Segment
    <3> QED
      BY <1>13, <3>1, <3>2 DEF unmount_all
  <2> QED
    BY <1>13, <2>1 DEF unmount_all
<1>17. CASE Abort
  <2>1. /\ pc' = "killed" /\ disk' = None /\ confirmed' = {} /\ touched' = {}
        /\ UNCHANGED term
    BY <1>17 DEF Abort
  <2>2. CASE UNCHANGED <<mounts, content, durable, hurt>>
    BY <2>1, <2>2
  <2>3. CASE /\ pc \in DOMAIN Begun
             /\ \E got \in Begun[pc] :
                  content' = [content EXCEPT ![top.disk] = @ \cup got]
             /\ hurt' = IF pc = "system_files" THEN hurt ELSE hurt \cup {top.disk}
             /\ UNCHANGED <<mounts, durable>>
    <3>1. top \in Segment /\ \A got \in Begun[pc] : got \in SUBSET Items
      BY <2>3, TopType, DisksAssumption DEF Begun, Items, Base
    <3> QED
      BY <2>1, <2>3, <3>1 DEF Segment
  <2>4. CASE /\ pc = "unmount"
             /\ durable' = content
             /\ \E S \in SUBSET top.below : SetBelow(S)
             /\ UNCHANGED <<content, hurt>>
    <3>1. mounts' \in Seq(Segment)
      BY <2>4, TopType DEF Segment
    <3> QED
      BY <2>1, <2>4, <3>1
  <2> QED
    BY <1>17, <2>2, <2>3, <2>4 DEF Abort
<1>14. CASE Reboot \/ PowerCut
  <2>1. Off => /\ pc' = "menu" /\ disk' = None /\ mounts' \in Seq(Segment)
               /\ raw' = FALSE /\ tty' = "cooked" /\ saved' = "cooked"
               /\ confirmed' = {} /\ touched' = {}
    BY DEF Off
  <2>2. CASE Reboot
    BY <2>1, <2>2 DEF Reboot
  <2>3. CASE PowerCut
    <3>1. /\ content' \in [Disks -> SUBSET Items]
          /\ durable' \in [Disks -> SUBSET Items]
          /\ hurt' \subseteq Disks
      BY <2>3 DEF PowerCut
    <3> QED
      BY <2>1, <2>3, <3>1 DEF PowerCut
  <2> QED
    BY <1>14, <2>2, <2>3
<1>15. CASE MenuLive \/ MenuInstalled
  BY <1>15 DEF MenuLive, MenuInstalled
<1>16. CASE UNCHANGED vars
  BY <1>16 DEF vars
<1> QED
  BY <1>1, <1>2, <1>3, <1>4, <1>5, <1>7, <1>8, <1>9, <1>10, <1>11, <1>12, <1>13,
     <1>14, <1>15, <1>16, <1>17 DEF Next

-----------------------------------------------------------------------------
\* The steps of the installation proper, as opposed to screens and machine.
LEMMA WriteEffect ==
  ASSUME TypeOK, top \in Segment, NEW wanted, NEW got \in SUBSET Items,
         Write(wanted, got)
  PROVE  /\ content'[top.disk] = content[top.disk] \cup got
         /\ \A d \in Disks \ {top.disk} : content'[d] = content[d]
         /\ UNCHANGED durable
         /\ touched' = touched \cup {top.disk}
         /\ hurt \subseteq hurt'
         /\ got = wanted \/ top.disk \in hurt'
         /\ hurt' \subseteq hurt \cup {top.disk}
  BY DEF Write, TypeOK, Segment

\* Erasing a disk concerns that disk only.
LEMMA ErasedEffect ==
  ASSUME TypeOK, NEW d \in Disks, Erased(d)
  PROVE  /\ content'[d] = {} /\ durable'[d] = {}
         /\ \A e \in Disks \ {d} : content'[e] = content[e] /\ (e \in hurt' <=> e \in hurt)
         /\ touched' = touched \cup {d}
  BY DEF Erased, TypeOK

\* The terminal is raw, or as it was found.
LEMMA TermStep == TermInv /\ [Next]_vars => TermInv'
<1> SUFFICES ASSUME TermInv, [Next]_vars PROVE TermInv'
  OBVIOUS
<1> USE DEF TermInv, Goto, Ends, term
<1>1. CASE Start \/ Leave \/ screen_welcome \/ ShellEnds \/ InstallFailed \/ screen_done
  BY <1>1 DEF Start, Leave, screen_welcome, ShellEnds, InstallFailed, screen_done,
              enable_raw, disable_raw
<1>2. CASE ShellUnmounts
  BY <1>2 DEF ShellUnmounts
<1>3. CASE screen_pick_disk \/ screen_user \/ screen_confirm
  BY <1>3 DEF screen_pick_disk, screen_user, screen_confirm
<1>4. CASE wipefs \/ sfdisk \/ format_partitions
  BY <1>4 DEF wipefs, sfdisk, format_partitions
<1>5. CASE mount_root \/ mount_esp \/ copy_rootfs \/ write_system_files
  BY <1>5 DEF mount_root, mount_esp, copy_rootfs, write_system_files
<1>6. CASE grub_efi \/ grub_bios \/ grub_cfg \/ boot_files \/ unmount_all
  BY <1>6 DEF grub_efi, grub_bios, grub_cfg, boot_files, unmount_all
<1>7. CASE Abort \/ Reboot \/ PowerCut
  BY <1>7 DEF Abort, Reboot, PowerCut, Off
<1>8. CASE MenuLive \/ MenuInstalled
  BY <1>8 DEF MenuLive, MenuInstalled
<1>9. CASE UNCHANGED vars
  BY <1>9 DEF vars
<1> QED
  BY <1>1, <1>2, <1>3, <1>4, <1>5, <1>6, <1>7, <1>8, <1>9 DEF Next

\* The chosen disk stays the one below /mnt/target.
LEMMA TargetStep == TypeOK /\ TargetInv /\ [Next]_vars => TargetInv'
<1> SUFFICES ASSUME TypeOK, TargetInv, [Next]_vars PROVE TargetInv'
  OBVIOUS
<1> USE DEF TargetInv, Goto, Ends, Steps, Blank, Mounted
<1>1. CASE Start \/ Leave \/ screen_welcome \/ ShellEnds \/ InstallFailed \/ screen_done
  BY <1>1 DEF Start, Leave, screen_welcome, ShellEnds, InstallFailed, screen_done
<1>2. CASE ShellUnmounts
  BY <1>2 DEF ShellUnmounts
<1>3. CASE screen_pick_disk \/ screen_user \/ screen_confirm
  BY <1>3 DEF screen_pick_disk, screen_user, screen_confirm
<1>4. CASE wipefs \/ sfdisk \/ format_partitions
  BY <1>4 DEF wipefs, sfdisk, format_partitions, InUse
<1>5. CASE mount_root
  <2>1. CASE pc' = "failed"
    BY <1>5, <2>1 DEF mount_root
  <2>2. CASE pc' = "mount_esp"
    <3>1. /\ mounts' = Append(mounts, [disk |-> disk, below |-> {}])
          /\ UNCHANGED <<disk, confirmed>> /\ disk \in Disks /\ disk \in confirmed
      BY <1>5, <2>2 DEF mount_root
    <3>2. \A k \in 1 .. Len(mounts) : mounts[k].disk # disk
      BY <1>5 DEF mount_root, InUse
    <3>3. /\ Len(mounts') = Len(mounts) + 1 /\ Len(mounts) \in Nat
          /\ top'.disk = disk
          /\ \A k \in 1 .. Len(mounts) : mounts'[k] = mounts[k]
      BY <3>1 DEF TypeOK, top
    <3> QED
      BY <2>2, <3>1, <3>2, <3>3
  <2> QED
    BY <1>5, <2>1, <2>2 DEF mount_root
<1>6. ASSUME pc \in Mounted, NEW S \in SUBSET Below, SetBelow(S) \/ UNCHANGED mounts,
             pc' \in Mounted, UNCHANGED <<disk, confirmed>>
      PROVE  TargetInv'
  <2>1. /\ Len(mounts') = Len(mounts) /\ Len(mounts) \in Nat \ {0}
        /\ \A k \in 1 .. Len(mounts) : mounts'[k].disk = mounts[k].disk
    BY <1>6, TopType DEF TypeOK
  <2> QED
    BY <1>6, <2>1 DEF top
<1>7. CASE mount_esp
  <2>1. top.below \cup {"esp"} \in SUBSET Below
    BY <1>7, TopType DEF mount_esp, Segment, Below
  <2> QED
    BY <1>6, <1>7, <2>1 DEF mount_esp
<1>8. CASE grub_efi
  BY <1>8 DEF grub_efi, top
<1>9. CASE copy_rootfs \/ write_system_files
  BY <1>9 DEF copy_rootfs, write_system_files, top
<1>10. CASE grub_bios \/ grub_cfg \/ boot_files
  BY <1>10 DEF grub_bios, grub_cfg, boot_files, top
<1>11. CASE unmount_all
  <2> SUFFICES ASSUME disk' \notin hurt' PROVE ~InUse(disk)'
    BY <1>11 DEF unmount_all
  <2>1. /\ Len(mounts) \in Nat \ {0} /\ pc' = "done" /\ UNCHANGED disk /\ disk \in Disks
        /\ mounts' = SubSeq(mounts, 1, Len(mounts) - 1)
        /\ \A k \in 1 .. Len(mounts) - 1 : mounts[k].disk # disk
    BY <1>11 DEF unmount_all, TypeOK
  <2>2. /\ Len(mounts') = Len(mounts) - 1
        /\ \A k \in 1 .. Len(mounts) - 1 : mounts'[k] = mounts[k]
    <3> DEFINE n == Len(mounts) - 1
    <3>1. /\ n \in Nat /\ mounts' = SubSeq(mounts, 1, n)
          /\ \A k \in 1 .. n : mounts[k] \in Segment
      BY <2>1 DEF TypeOK
    <3> HIDE DEF n
    <3>2. /\ Len(mounts') = IF 1 <= n THEN n - 1 + 1 ELSE 0
          /\ \A k \in 1 .. n - 1 + 1 : mounts'[k] = mounts[1 + k - 1]
      BY <3>1, SubSeqProperties
    <3>3. Len(mounts') = n /\ \A k \in 1 .. n : mounts'[k] = mounts[k]
      BY <3>1, <3>2
    <3> QED
      BY <3>3 DEF n
  <2> QED
    BY <2>1, <2>2 DEF InUse
<1>12. CASE Reboot \/ PowerCut \/ MenuLive \/ MenuInstalled
  BY <1>12 DEF Reboot, PowerCut, Off, MenuLive, MenuInstalled
<1>14. CASE Abort
  <2>1. pc' = "killed"
    BY <1>14 DEF Abort
  <2> QED
    BY <2>1
<1>13. CASE UNCHANGED vars
  BY <1>13 DEF vars, fs, InUse, top
<1> QED
  BY <1>1, <1>2, <1>3, <1>4, <1>5, <1>7, <1>8, <1>9, <1>10, <1>11, <1>12, <1>13,
     <1>14 DEF Next

\* While the target is mounted, what is written arrives on the chosen disk.
LEMMA WriteToDisk ==
  ASSUME TypeOK, TargetInv, pc \in Mounted, UNCHANGED disk,
         NEW wanted, NEW got \in SUBSET Items, Write(wanted, got)
  PROVE  /\ disk \in Disks
         /\ content'[disk] = content[disk] \cup got
         /\ \A d \in Disks \ {disk} : content'[d] = content[d]
         /\ durable' = durable
         /\ touched' = touched \cup {disk}
         /\ disk \notin hurt' => disk \notin hurt /\ got = wanted
         /\ \A d \in Disks \ {disk} : d \in hurt' <=> d \in hurt
<1>1. top \in Segment /\ top.disk = disk /\ disk \in Disks
  BY TopType DEF TargetInv, Steps, Mounted
<1> QED
  BY <1>1, WriteEffect

\* The steps that write below /mnt/target, and what they write.
LEMMA WriteSteps ==
  ASSUME TypeOK, TargetInv,
         copy_rootfs \/ write_system_files \/ grub_efi \/ grub_bios \/ grub_cfg
           \/ boot_files
  PROVE  /\ pc \in Mounted /\ UNCHANGED disk
         /\ \/ UNCHANGED fs /\ pc \in {"grub", "grub_bios"} /\ pc' \in {"grub_bios", "failed"}
            \/ \E wanted, got \in SUBSET Items :
                 /\ Write(wanted, got)
                 /\ <<pc, pc', wanted>> \in
                      {<<"copy", "system_files", {"rootfs"}>>,
                       <<"copy", "system_files", {}>>, <<"copy", "failed", {}>>,
                       <<"system_files", "grub", {"rootfs", "marker"}>>,
                       <<"grub", "grub_cfg", {"loader"}>>,
                       <<"grub_bios", "grub_cfg", {"loader"}>>,
                       <<"grub_cfg", "boot_files", {"grubcfg"}>>,
                       <<"grub_cfg", "boot_files", {}>>,
                       <<"boot_files", "unmount", MediaBoot>>}
                 /\ pc # "grub_cfg" => got \subseteq wanted
                 /\ pc = "grub_cfg" => got \subseteq {"grubcfg"}
                 /\ pc = "grub_cfg" /\ wanted = {} => got # {}
                 /\ pc \in {"grub", "grub_bios"} => got = wanted
<1> USE DEF Mounted, Goto
<1>1. CASE copy_rootfs
  BY <1>1 DEF copy_rootfs, Items, Base
<1>2. CASE write_system_files
  BY <1>2 DEF write_system_files, Items, Base
<1>3. CASE grub_efi
  BY <1>3 DEF grub_efi, Items, Base
<1>4. CASE grub_bios
  BY <1>4 DEF grub_bios, Items, Base
<1>5. CASE grub_cfg
  BY <1>5 DEF grub_cfg, Items, Base
<1>6. CASE boot_files
  BY <1>6, DisksAssumption DEF boot_files, Items, Base
<1> QED
  BY <1>1, <1>2, <1>3, <1>4, <1>5, <1>6

Writing == copy_rootfs \/ write_system_files \/ grub_efi \/ grub_bios \/ grub_cfg
           \/ boot_files
Erasing == wipefs \/ (sfdisk /\ pc' # "killed") \/ format_partitions
OtherSteps == \/ Start \/ Leave \/ screen_welcome \/ ShellEnds \/ ShellUnmounts
              \/ (sfdisk /\ pc' = "killed") \/ screen_pick_disk \/ screen_user \/ screen_confirm
              \/ InstallFailed \/ screen_done \/ mount_root \/ mount_esp
              \/ MenuLive \/ MenuInstalled

\* Erasing steps erase the chosen disk, when nothing of it is mounted, or nothing.
LEMMA EraseSteps ==
  ASSUME TypeOK, TargetInv, Erasing
  PROVE  /\ disk \in Disks /\ UNCHANGED disk
         /\ \/ Erased(disk) /\ pc' \in {"sfdisk", "failed"} \cup Blank
            \/ UNCHANGED fs /\ pc' \in {"sfdisk", "failed"}
  BY DEF TargetInv, Steps, Erasing, wipefs, sfdisk, format_partitions, Blank, Goto, Ends

\* No other step changes what is on the disks, except aborts and power cuts.
LEMMA OtherEffect ==
  ASSUME OtherSteps
  PROVE  /\ UNCHANGED <<content, hurt>>
         /\ durable' = durable \/ pc' \notin Blank \cup Mounted \cup {"done"}
         /\ \/ pc' \notin Blank \cup Mounted \cup {"done"}
            \/ pc = "mount_root" /\ pc' = "mount_esp" /\ UNCHANGED disk
            \/ pc = "mount_esp" /\ pc' = "copy" /\ UNCHANGED disk
            \/ UNCHANGED <<pc, disk>>
         /\ pc \in Mounted => pc = "mount_esp"
         /\ \/ UNCHANGED <<confirmed, touched>> /\ (pc' \in Early => pc \in Early)
            \/ UNCHANGED touched /\ pc = "confirm"
            \/ touched' = {}
<1> USE DEF Blank, Mounted, Early, Goto, Ends, Screens, fs
<1>1. CASE Start \/ Leave \/ screen_welcome \/ ShellEnds
  BY <1>1 DEF Start, Leave, screen_welcome, ShellEnds
<1>2. CASE ShellUnmounts
  BY <1>2 DEF ShellUnmounts
<1>8. CASE sfdisk /\ pc' = "killed"
  <2>1. pc = "sfdisk" /\ UNCHANGED <<content, durable, hurt>>
    BY <1>8 DEF sfdisk, Erased
  <2>2. touched' = {}
    BY <1>8 DEF sfdisk
  <2> QED
    BY <1>8, <2>1, <2>2
<1>3. CASE screen_pick_disk
  BY <1>3 DEF screen_pick_disk
<1>4. CASE screen_user \/ screen_confirm
  BY <1>4 DEF screen_user, screen_confirm
<1>5. CASE InstallFailed \/ screen_done \/ MenuLive \/ MenuInstalled
  BY <1>5 DEF InstallFailed, screen_done, MenuLive, MenuInstalled
<1>6. CASE mount_root
  BY <1>6 DEF mount_root
<1>7. CASE mount_esp
  BY <1>7 DEF mount_esp
<1> QED
  BY <1>1, <1>2, <1>3, <1>4, <1>5, <1>6, <1>7, <1>8 DEF OtherSteps

\* The system arrives piece by piece.
LEMMA ArrivedStep == TypeOK /\ TargetInv /\ ArrivedInv /\ [Next]_vars => ArrivedInv'
<1> SUFFICES ASSUME TypeOK, TargetInv, ArrivedInv, [Next]_vars PROVE ArrivedInv'
  OBVIOUS
<1> USE DEF ArrivedInv, Blank, Mounted
<1>1. CASE OtherSteps
  BY <1>1, OtherEffect DEF fs
<1>2. CASE Erasing
  BY <1>2, EraseSteps, ErasedEffect DEF fs
<1>3. CASE Writing
  <2>1. pc \in Mounted /\ UNCHANGED disk
    BY <1>3, WriteSteps DEF Writing
  <2>2. CASE UNCHANGED fs /\ pc \in {"grub", "grub_bios"} /\ pc' \in {"grub_bios", "failed"}
    BY <2>1, <2>2 DEF fs
  <2>3. ASSUME NEW wanted \in SUBSET Items, NEW got \in SUBSET Items, Write(wanted, got),
               <<pc, pc', wanted>> \in
                 {<<"copy", "system_files", {"rootfs"}>>,
                  <<"copy", "system_files", {}>>, <<"copy", "failed", {}>>,
                  <<"system_files", "grub", {"rootfs", "marker"}>>,
                  <<"grub", "grub_cfg", {"loader"}>>,
                  <<"grub_bios", "grub_cfg", {"loader"}>>,
                  <<"grub_cfg", "boot_files", {"grubcfg"}>>,
                  <<"grub_cfg", "boot_files", {}>>,
                  <<"boot_files", "unmount", MediaBoot>>},
               pc # "grub_cfg" => got \subseteq wanted,
               pc = "grub_cfg" => got \subseteq {"grubcfg"},
               pc = "grub_cfg" /\ wanted = {} => got # {},
               pc \in {"grub", "grub_bios"} => got = wanted
        PROVE  ArrivedInv'
    <3>1. /\ content'[disk] = content[disk] \cup got
          /\ durable' = durable
          /\ disk \notin hurt' => disk \notin hurt /\ got = wanted
      BY <2>1, <2>3, WriteToDisk
    <3> QED
      BY <2>1, <2>3, <3>1, DisksAssumption DEF BootFiles
  <2> QED
    BY <1>3, <2>2, <2>3, WriteSteps DEF Writing
<1>4. CASE unmount_all
  BY <1>4 DEF unmount_all, System, Base, Goto
<1>5. CASE Abort \/ Reboot \/ PowerCut
  BY <1>5 DEF Abort, Reboot, PowerCut, Off, Ends
<1>6. CASE UNCHANGED vars
  BY <1>6 DEF vars, fs
<1> QED
  BY <1>1, <1>2, <1>3, <1>4, <1>5, <1>6 DEF Next, OtherSteps, Erasing, Writing

\* No disk passes for an installed one before the system on it is whole.
LEMMA WholeStep ==
  TypeOK /\ TargetInv /\ ArrivedInv /\ WholeInv /\ [Next]_vars => WholeInv'
<1> SUFFICES ASSUME TypeOK, TargetInv, ArrivedInv, WholeInv, [Next]_vars,
                    NEW d \in Disks, d \notin hurt', OffersInstalled(d)'
             PROVE  \/ System \subseteq content'[d]
                    \/ d = disk' /\ pc' \in {"boot_files", "unmount"}
  BY DEF WholeInv
<1> USE DEF WholeInv, OffersInstalled, Blank, Mounted
<1>1. CASE OtherSteps
  BY <1>1, OtherEffect DEF fs
<1>2. CASE Erasing
  <2>1. CASE d = disk /\ Erased(disk)
    BY <1>2, <2>1, EraseSteps, ErasedEffect
  <2>2. CASE d # disk /\ Erased(disk)
    BY <1>2, <2>2, EraseSteps, ErasedEffect
  <2>3. CASE UNCHANGED fs
    BY <1>2, <2>3 DEF fs, Erasing, wipefs, sfdisk, format_partitions
  <2> QED
    BY <1>2, <2>1, <2>2, <2>3, EraseSteps
<1>3. CASE Writing
  <2>1. pc \in Mounted /\ UNCHANGED disk
    BY <1>3, WriteSteps DEF Writing
  <2>2. CASE UNCHANGED fs /\ pc \in {"grub", "grub_bios"} /\ pc' \in {"grub_bios", "failed"}
    BY <2>1, <2>2 DEF fs
  <2>3. ASSUME NEW wanted \in SUBSET Items, NEW got \in SUBSET Items, Write(wanted, got),
               <<pc, pc', wanted>> \in
                 {<<"copy", "system_files", {"rootfs"}>>,
                  <<"copy", "system_files", {}>>, <<"copy", "failed", {}>>,
                  <<"system_files", "grub", {"rootfs", "marker"}>>,
                  <<"grub", "grub_cfg", {"loader"}>>,
                  <<"grub_bios", "grub_cfg", {"loader"}>>,
                  <<"grub_cfg", "boot_files", {"grubcfg"}>>,
                  <<"grub_cfg", "boot_files", {}>>,
                  <<"boot_files", "unmount", MediaBoot>>},
               pc # "grub_cfg" => got \subseteq wanted,
               pc = "grub_cfg" => got \subseteq {"grubcfg"},
               pc = "grub_cfg" /\ wanted = {} => got # {}
        PROVE  \/ System \subseteq content'[d]
               \/ d = disk' /\ pc' \in {"boot_files", "unmount"}
    <3>1. /\ content'[disk] = content[disk] \cup got
          /\ \A e \in Disks \ {disk} : content'[e] = content[e]
          /\ \A e \in Disks \ {disk} : e \in hurt' <=> e \in hurt
      BY <2>1, <2>3, WriteToDisk
    <3>2. CASE d # disk
      BY <2>1, <3>1, <3>2
    <3>3. CASE d = disk
      BY <2>1, <2>3, <3>1, <3>3, DisksAssumption DEF BootFiles, ArrivedInv
    <3> QED
      BY <3>2, <3>3
  <2> QED
    BY <1>3, <2>2, <2>3, WriteSteps DEF Writing
<1>4. CASE unmount_all
  BY <1>4 DEF unmount_all, System, Base, Goto, ArrivedInv
<1>8. CASE Abort
  <2>1. CASE UNCHANGED content
    <3>1. d \notin hurt /\ ~(d = disk /\ pc = "boot_files")
      BY <1>8, <2>1, TopType DEF Abort, Begun, TargetInv
    <3> QED
      BY <2>1, <3>1 DEF System, Base, ArrivedInv
  <2>2. CASE /\ pc \in DOMAIN Begun
             /\ \E got \in Begun[pc] :
                  content' = [content EXCEPT ![top.disk] = @ \cup got]
             /\ hurt' = IF pc = "system_files" THEN hurt ELSE hurt \cup {top.disk}
    <3>1. top.disk = disk /\ disk \in Disks /\ pc \in {"system_files", "grub_cfg", "boot_files"}
      BY <2>2 DEF Begun, TargetInv, Steps
    <3>2. CASE d # disk
      BY <2>2, <3>1, <3>2 DEF TypeOK
    <3>3. CASE d = disk
      <4>1. pc = "system_files" /\ d \notin hurt
        BY <2>2, <3>1, <3>3
      <4>2. "grubcfg" \notin content[d]
        BY <3>3, <4>1 DEF ArrivedInv
      <4>3. "grubcfg" \notin content'[d]
        BY <2>2, <3>1, <3>3, <4>1, <4>2 DEF TypeOK, Begun
      <4> QED
        BY <4>3
    <3> QED
      BY <3>2, <3>3
  <2> QED
    BY <1>8, <2>1, <2>2 DEF Abort
<1>5. CASE Reboot
  BY <1>5 DEF Reboot, Screens
<1>6. CASE PowerCut
  <2>1. d \notin hurt /\ content[d] = durable[d]
    BY <1>6 DEF PowerCut
  <2>2. content'[d] \subseteq content[d]
    BY <1>6 DEF PowerCut, TypeOK
  <2>3. ~(d = disk /\ pc \in {"boot_files", "unmount"})
    BY <2>1 DEF ArrivedInv
  <2>4. System \subseteq content[d]
    BY <2>1, <2>2, <2>3
  <2>5. content'[d] = content[d]
    BY <1>6, <2>1 DEF PowerCut, TypeOK, Unsynced
  <2> QED
    BY <2>4, <2>5
<1>7. CASE UNCHANGED vars
  BY <1>7 DEF vars, fs
<1> QED
  BY <1>1, <1>2, <1>3, <1>4, <1>5, <1>6, <1>7, <1>8
     DEF Next, OtherSteps, Erasing, Writing

\* Nothing reaches a disk that was not confirmed.
LEMMA ConfirmedStep ==
  TypeOK /\ TargetInv /\ ConfirmedInv /\ [Next]_vars => ConfirmedInv'
<1> SUFFICES ASSUME TypeOK, TargetInv, ConfirmedInv, [Next]_vars PROVE ConfirmedInv'
  OBVIOUS
<1> USE DEF ConfirmedInv, OnlyConfirmed, Early
<1>1. CASE OtherSteps
  BY <1>1, OtherEffect DEF fs
<1>2. CASE Erasing
  <2>1. disk \in confirmed /\ UNCHANGED confirmed
    BY <1>2 DEF Erasing, wipefs, sfdisk, format_partitions, TargetInv, Steps, Ends
  <2> QED
    BY <1>2, <2>1, EraseSteps, ErasedEffect DEF fs, Blank
<1>3. CASE Writing
  <2>1. disk \in confirmed /\ UNCHANGED confirmed
    BY <1>3 DEF Writing, copy_rootfs, write_system_files, grub_efi, grub_bios, grub_cfg,
                boot_files, TargetInv, Steps
  <2>4. pc' \notin Early
    BY <1>3 DEF Writing, copy_rootfs, write_system_files, grub_efi, grub_bios, grub_cfg,
                boot_files, Goto
  <2>2. CASE UNCHANGED fs
    BY <2>1, <2>2, <2>4 DEF fs
  <2>3. CASE \E wanted, got \in SUBSET Items : Write(wanted, got)
    <3>1. touched' = touched \cup {disk}
      BY <1>3, <2>3, WriteSteps, WriteToDisk DEF Writing
    <3> QED
      BY <2>1, <2>4, <3>1
  <2> QED
    BY <1>3, <2>2, <2>3, WriteSteps DEF Writing
<1>4. CASE unmount_all
  BY <1>4 DEF unmount_all, Goto
<1>5. CASE Abort \/ Reboot \/ PowerCut
  BY <1>5 DEF Abort, Reboot, PowerCut, Off, Ends
<1>6. CASE UNCHANGED vars
  BY <1>6 DEF vars, fs
<1> QED
  BY <1>1, <1>2, <1>3, <1>4, <1>5, <1>6 DEF Next, OtherSteps, Erasing, Writing

-----------------------------------------------------------------------------
\* The invariant holds in every reachable state.
THEOREM IInvAlways == Spec => []IInv
<1>1. IInv /\ [Next]_vars => IInv'
  BY TypeStep, TargetStep, TermStep, ArrivedStep, WholeStep, ConfirmedStep DEF IInv
<1> QED
  BY InitIInv, <1>1, PTL DEF Spec

\* Installer, mounts, disks and boot menu stay in their types.
THEOREM TypeCorrect == Spec => []TypeOK
<1>1. IInv => TypeOK
  BY DEF IInv
<1> QED
  BY <1>1, IInvAlways, PTL

\* Whatever path through the screens, whatever fails, whatever an earlier
\* attempt left mounted: only disks that INSTALL was typed for are written to.
THEOREM WritesOnlyConfirmed == Spec => []OnlyConfirmed
<1>1. IInv => OnlyConfirmed
  BY DEF IInv, ConfirmedInv
<1> QED
  BY <1>1, IInvAlways, PTL

\* "Done" promises a whole, synced and unmounted system.
THEOREM DoneMeansDurable == Spec => []DoneIsDurable
<1>1. IInv => DoneIsDurable
  BY DEF IInv, ArrivedInv, TargetInv, DoneIsDurable
<1> QED
  BY <1>1, IInvAlways, PTL

\* An installation that failed and said so, or was aborted before grub.cfg is
\* begun or after the last copy, does not hide the installer behind a boot entry
\* for a system that is not whole.
THEOREM FailureNeverOffered == Spec => []FailureNotOffered
<1>1. IInv => FailureNotOffered
  BY DEF IInv, WholeInv, FailureNotOffered
<1> QED
  BY <1>1, IInvAlways, PTL

\* Shells, and the program that started the installer, find the terminal as
\* the installer found it.
THEOREM TerminalGivenBack == Spec => []GivesBackTerminal
<1>1. IInv => GivesBackTerminal
  BY DEF IInv, TermInv, GivesBackTerminal
<1> QED
  BY <1>1, IInvAlways, PTL

\* No file system that is mounted is erased.
THEOREM MountedNeverErased == Spec => NeverEraseMounted
<1> DEFINE Step == pc' # "menu" =>
             \A d \in Disks : content'[d] = {} /\ content[d] # {} => ~InUse(d)
<1>1. IInv /\ [Next]_vars => [Step]_vars
  <2> SUFFICES ASSUME IInv, Next, pc' # "menu", NEW d \in Disks,
                      content'[d] = {}, content[d] # {}
               PROVE  ~InUse(d)
    OBVIOUS
  <2> USE DEF IInv
  <2>1. CASE OtherSteps
    BY <2>1, OtherEffect DEF fs
  <2>2. CASE Erasing
    <3>1. CASE d # disk
      BY <2>2, <3>1, EraseSteps, ErasedEffect DEF fs
    <3>2. CASE d = disk
      BY <2>2, <3>2 DEF Erasing, wipefs, sfdisk, format_partitions, fs, TargetInv, Blank
    <3> QED
      BY <3>1, <3>2
  <2>3. CASE Writing
    <3>1. content[d] \subseteq content'[d]
      <4>1. CASE UNCHANGED fs
        BY <4>1 DEF fs
      <4>2. CASE \E wanted, got \in SUBSET Items : Write(wanted, got)
        BY <2>3, <4>2, WriteSteps, WriteToDisk DEF Writing
      <4> QED
        BY <2>3, <4>1, <4>2, WriteSteps DEF Writing
    <3> QED
      BY <3>1
  <2>4. CASE unmount_all \/ Reboot \/ PowerCut
    BY <2>4 DEF unmount_all, Reboot, PowerCut, Off, Ends
  <2>5. CASE Abort
    <3>1. CASE UNCHANGED content
      BY <3>1
    <3>2. CASE \E got : content' = [content EXCEPT ![top.disk] = @ \cup got]
      BY <3>2 DEF TypeOK
    <3> QED
      BY <2>5, <3>1, <3>2 DEF Abort
  <2> QED
    BY <2>1, <2>2, <2>3, <2>4, <2>5 DEF Next, OtherSteps, Erasing, Writing
<1> QED
  BY <1>1, IInvAlways, PTL DEF Spec, NeverEraseMounted
=============================================================================
