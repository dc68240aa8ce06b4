----------------------------- MODULE Installer -----------------------------
(***************************************************************************)
(* The installer app/installer/dew-install.cpp, its screens and its run    *)
(* over the chosen disk, together with what outlives it: the mounts of the *)
(* live session, the disks, and the boot menu of the installation medium   *)
(* (config/grub.cfg), which decides what a machine is offered after a      *)
(* reboot.                                                                 *)
(*                                                                         *)
(* Each tool the installer runs may fail.  The exit status of some decides *)
(* whether the installation goes on, that of others is ignored.  Ctrl-C,   *)
(* which every screen offers, may end the installer at any moment and the  *)
(* tool it waits for with it; power may fail, and what had not been synced *)
(* is then there or not.                                                   *)
(***************************************************************************)
EXTENDS Naturals, Sequences

CONSTANTS
  Disks,       \* disks list_disks may show
  Numbered,    \* those whose name ends in a digit
  MediaBoot,   \* boot files the live system has under /boot
  None         \* no disk chosen yet

BootFiles == {"kernel", "initramfs"}

ASSUME DisksAssumption == /\ Numbered \subseteq Disks
                          /\ MediaBoot \subseteq BootFiles
                          /\ None \notin Disks

VARIABLES
  pc,          \* screen or step the installer is at, or where the machine is
  disk,        \* cfg.disk
  raw,         \* term.raw_active
  tty,         \* line settings of the console
  saved,       \* term.saved
  mounts,      \* file systems stacked on /mnt/target, oldest first
  content,     \* what each disk's root file system holds
  durable,     \* what of it would survive a power cut
  confirmed,   \* history: the disk this installer was told to INSTALL on
  touched,     \* history: disks it has written to
  hurt         \* history: disks an ignored error, a power cut, or an abort
               \*   while grub.cfg and the boot files are written left short

term == <<raw, tty, saved>>
fs == <<content, durable, touched, hurt>>
vars == <<pc, disk, term, mounts, fs, confirmed>>

\* "rootfs" is the copied tree with host name and accounts written into it,
\* "grubcfg" the file; where either may have gaps, the disk is in hurt.
Base == {"rootfs", "marker", "loader", "grubcfg"}
Items == Base \cup BootFiles
System == Base \cup MediaBoot

\* One file system mounted on /mnt/target, perhaps with the EFI partition inside
\* it; /dev, /proc and /sys, bound for grub-install, decide nothing later.
Below == {"esp"}
Segment == [disk : Disks, below : SUBSET Below]

Screens == {"welcome", "shell", "pick", "user", "confirm", "failed",
            "failed_shell", "done", "done_shell"}
Steps == {"wipefs", "sfdisk", "mkfs_esp", "mkfs_root", "mount_root", "mount_esp",
          "copy", "system_files", "grub", "grub_bios", "grub_cfg", "boot_files",
          "unmount"}
Machine == {"exit", "killed", "menu", "booted"}

TypeOK ==
  /\ pc \in Screens \cup Steps \cup Machine
  /\ disk \in Disks \cup {None}
  /\ raw \in BOOLEAN
  /\ tty \in {"cooked", "raw"}
  /\ saved \in {"cooked", "raw"}
  /\ mounts \in Seq(Segment)
  /\ content \in [Disks -> SUBSET Items]
  /\ durable \in [Disks -> SUBSET Items]
  /\ confirmed \subseteq Disks
  /\ touched \subseteq Disks
  /\ hurt \subseteq Disks

Init ==
  /\ pc = "menu"
  /\ disk = None
  /\ raw = FALSE
  /\ tty = "cooked"
  /\ saved = "cooked"
  /\ mounts = <<>>
  /\ content \in [Disks -> {{}, System}]     \* an earlier installation or none
  /\ durable = content
  /\ confirmed = {}
  /\ touched = {}
  /\ hurt = {}

-----------------------------------------------------------------------------
(* The terminal.                                                           *)

enable_raw == /\ raw' = TRUE
              /\ tty' = "raw"
              /\ saved' = IF raw THEN saved ELSE tty

disable_raw_FlagOnly == /\ raw' = FALSE
                        /\ UNCHANGED <<tty, saved>>

\* Settings are put back only when this object changed them.
disable_raw == /\ raw' = FALSE
               /\ tty' = IF raw THEN saved ELSE tty
               /\ UNCHANGED saved

Goto(p) == pc' = p

\* The installer is gone, and what it was told with it.
Ends(p) == /\ pc' = p
           /\ disk' = None
           /\ confirmed' = {}
           /\ touched' = {}

-----------------------------------------------------------------------------
(* The screens.                                                            *)

\* Somebody runs "install", perhaps after an installer that was killed and
\* left the console raw.
Start ==
  /\ pc \in {"exit", "killed"}
  /\ Goto("welcome")
  /\ raw' = TRUE
  /\ tty' = "raw"
  /\ saved' = tty
  /\ UNCHANGED <<disk, mounts, fs, confirmed>>

\* The tail of main, also after a Reboot or Power off that had no effect.
Leave ==
  /\ pc \in {"welcome", "done", "done_shell", "failed_shell"}
  /\ Ends("exit")
  /\ disable_raw
  /\ UNCHANGED <<mounts, content, durable, hurt>>

screen_welcome ==
  /\ pc = "welcome"
  /\ \/ Goto("pick") /\ UNCHANGED term
     \/ Goto("shell") /\ disable_raw
  /\ UNCHANGED <<disk, mounts, fs, confirmed>>

ShellEnds ==
  /\ pc = "shell"
  /\ Goto("welcome")
  /\ enable_raw
  /\ UNCHANGED <<disk, mounts, fs, confirmed>>

\* Somebody cleans up by hand; umount writes out what is outstanding.
ShellUnmounts ==
  /\ pc \in {"shell", "failed_shell", "done_shell", "exit"}
  /\ mounts # <<>>
  /\ mounts' = <<>>
  /\ durable' = content
  /\ UNCHANGED <<pc, disk, term, content, touched, hurt, confirmed>>

screen_pick_disk ==
  /\ pc = "pick"
  /\ \/ Goto("welcome") /\ UNCHANGED disk         \* no disks, Cancel, ESC
     \/ \E d \in Disks : disk' = d /\ Goto("user")
  /\ UNCHANGED <<term, mounts, fs, confirmed>>

\* Host name, account and password, each asked until it is acceptable.
screen_user ==
  /\ pc = "user"
  /\ pc' \in {"pick", "confirm"}
  /\ UNCHANGED <<disk, term, mounts, fs, confirmed>>

screen_confirm ==
  /\ pc = "confirm"
  /\ \/ Goto("pick") /\ UNCHANGED confirmed
     \/ Goto("wipefs") /\ confirmed' = {disk}
  /\ UNCHANGED <<disk, term, mounts, fs>>

\* main after screen_install returned false.
InstallFailed ==
  /\ pc = "failed"
  /\ Goto("failed_shell")
  /\ disable_raw
  /\ UNCHANGED <<disk, mounts, fs, confirmed>>

screen_done ==
  /\ pc = "done"
  /\ Goto("done_shell")
  /\ disable_raw
  /\ UNCHANGED <<disk, mounts, fs, confirmed>>

-----------------------------------------------------------------------------
(* partition_disk.                                                         *)

InUse(d) == \E k \in 1 .. Len(mounts) : mounts[k].disk = d

\* The old contents can no longer be found; the tool has synced that.
Erased(d) == /\ content' = [content EXCEPT ![d] = {}]
             /\ durable' = [durable EXCEPT ![d] = {}]
             /\ touched' = touched \cup {d}
             /\ hurt' = hurt \ {d}

wipefs_Force ==
  /\ pc = "wipefs"
  /\ Goto("sfdisk")
  /\ Erased(disk) \/ UNCHANGED fs
  /\ UNCHANGED <<disk, term, mounts, confirmed>>

wipefs ==
  /\ pc = "wipefs"
  /\ Goto("sfdisk")
  /\ \/ ~InUse(disk) /\ Erased(disk)
     \/ UNCHANGED fs
  /\ UNCHANGED <<disk, term, mounts, confirmed>>

\* sfdisk refuses a disk in use.  When it ends before the script has been
\* written to its pipe, the write kills the installer (SIGPIPE).
sfdisk ==
  /\ pc = "sfdisk"
  /\ \/ Goto("mkfs_esp") /\ ~InUse(disk) /\ Erased(disk) /\ UNCHANGED <<disk, confirmed>>
     \/ Goto("failed") /\ UNCHANGED <<disk, fs, confirmed>>
     \/ Ends("killed") /\ UNCHANGED <<content, durable, hurt>>
  /\ UNCHANGED <<term, mounts>>

format_partitions ==
  /\ \/ pc = "mkfs_esp" /\ pc' \in {"mkfs_root", "failed"}
     \/ pc = "mkfs_root" /\ pc' \in {"mount_root", "failed"}
  /\ Erased(disk)
  /\ UNCHANGED <<disk, term, mounts, confirmed>>

-----------------------------------------------------------------------------
(* mount_target.                                                           *)

top == mounts[Len(mounts)]
SetBelow(S) == mounts' = [mounts EXCEPT ![Len(mounts)].below = S]

mount_root_Ignored ==
  /\ pc = "mount_root"
  /\ Goto("mount_esp")
  /\ \/ mounts' = Append(mounts, [disk |-> disk, below |-> {}])
     \/ mounts # <<>> /\ UNCHANGED mounts
  /\ UNCHANGED <<disk, term, fs, confirmed>>

mount_root ==
  /\ pc = "mount_root"
  /\ \/ Goto("mount_esp") /\ mounts' = Append(mounts, [disk |-> disk, below |-> {}])
     \/ Goto("failed") /\ UNCHANGED mounts
  /\ UNCHANGED <<disk, term, fs, confirmed>>

\* "continuing in BIOS mode"
mount_esp ==
  /\ pc = "mount_esp"
  /\ Goto("copy")
  /\ SetBelow(top.below \cup {"esp"}) \/ UNCHANGED mounts
  /\ UNCHANGED <<disk, term, fs, confirmed>>

-----------------------------------------------------------------------------
(* Writing below /mnt/target goes to the file system mounted last.         *)

\* Of the items wanted, got arrive; nobody looks when they are not all.
Write(wanted, got) ==
  /\ content' = [content EXCEPT ![top.disk] = @ \cup got]
  /\ touched' = touched \cup {top.disk}
  /\ hurt' = IF got = wanted THEN hurt ELSE hurt \cup {top.disk}
  /\ UNCHANGED durable

\* The status of "find | cpio" is that of cpio: where find fails, something is missing.
copy_rootfs ==
  /\ pc = "copy"
  /\ \/ Goto("system_files") /\ \E missing \in SUBSET {"rootfs"} : Write(missing, {})
     \/ Goto("failed") /\ Write({}, {})
  /\ UNCHANGED <<disk, term, mounts, confirmed>>

\* Host name and accounts, then the marker, through streams nobody checks.
write_system_files ==
  /\ pc = "system_files"
  /\ Goto("grub")
  /\ \E got \in SUBSET {"rootfs", "marker"} : Write({"rootfs", "marker"}, got)
  /\ UNCHANGED <<disk, term, mounts, confirmed>>

(* install_grub.                                                           *)

\* On a machine that has /sys/firmware/efi: binds, then grub-install, with BIOS
\* to fall back on.
grub_efi ==
  /\ pc = "grub"
  /\ \/ Goto("grub_cfg") /\ "esp" \in top.below /\ Write({"loader"}, {"loader"})
     \/ Goto("grub_bios") /\ UNCHANGED fs
  /\ UNCHANGED <<disk, term, mounts, confirmed>>

\* On others, or then.  The boot sector goes to cfg.disk, the modules below
\* /mnt/target.
grub_bios_CfgFirst ==
  /\ pc \in {"grub", "grub_bios"}
  /\ \/ Goto("grub_cfg") /\ Write({"loader"}, {"loader"})
     \/ Goto("failed") /\ Write({"grubcfg"}, {"grubcfg"})
  /\ UNCHANGED <<disk, term, mounts, confirmed>>

grub_bios ==
  /\ pc \in {"grub", "grub_bios"}
  /\ \/ Goto("grub_cfg") /\ Write({"loader"}, {"loader"})
     \/ Goto("failed") /\ UNCHANGED fs
  /\ UNCHANGED <<disk, term, mounts, confirmed>>

grub_cfg ==
  /\ pc = "grub_cfg"
  /\ Goto("boot_files")
  /\ \/ \E got \in SUBSET {"grubcfg"} : Write({"grubcfg"}, got)
     \/ Write({}, {"grubcfg"})                      \* the file, not its text
  /\ UNCHANGED <<disk, term, mounts, confirmed>>

\* cp of what the live system has under /boot.
boot_files ==
  /\ pc = "boot_files"
  /\ Goto("unmount")
  /\ \E got \in SUBSET MediaBoot : Write(MediaBoot, got)
  /\ UNCHANGED <<disk, term, mounts, confirmed>>

\* umount -l, which detaches at once, and no sync before it.
unmount_all_Lazy ==
  /\ pc = "unmount"
  /\ Goto("done")
  /\ mounts' = SubSeq(mounts, 1, Len(mounts) - 1)
  /\ UNCHANGED <<disk, term, fs, confirmed>>

\* sync, then umount of everything that was mounted, innermost first; any of
\* them may fail, and nobody looks.
unmount_all ==
  /\ pc = "unmount"
  /\ Goto("done")
  /\ \/ /\ durable' = content
        /\ mounts' = SubSeq(mounts, 1, Len(mounts) - 1)
        /\ UNCHANGED hurt
     \/ /\ durable' \in {durable, content}
        /\ \/ mounts' = SubSeq(mounts, 1, Len(mounts) - 1)
           \/ \E S \in SUBSET top.below : SetBelow(S)
        /\ hurt' = hurt \cup {disk}
  /\ UNCHANGED <<disk, term, content, touched, confirmed>>

-----------------------------------------------------------------------------
(* Ctrl-C, or any other signal: the terminal stays raw, the mounts stay.   *)

\* What the steps that write several things may have written by then.
Begun == [system_files |-> {{"rootfs"}, {"rootfs", "marker"}},
          grub_cfg |-> {{"grubcfg"}},
          boot_files |-> SUBSET MediaBoot]

Abort ==
  /\ pc \in Screens \cup Steps
  /\ Ends("killed")
  /\ \/ pc # "boot_files" /\ UNCHANGED <<mounts, content, durable, hurt>>
     \/ /\ pc \in DOMAIN Begun
        /\ \E got \in Begun[pc] :
             content' = [content EXCEPT ![top.disk] = @ \cup got]
        /\ hurt' = IF pc = "system_files" THEN hurt ELSE hurt \cup {top.disk}
        /\ UNCHANGED <<mounts, durable>>
     \/ /\ pc = "unmount"
        /\ durable' = content
        /\ \E S \in SUBSET top.below : SetBelow(S)
        /\ UNCHANGED <<content, hurt>>
  /\ UNCHANGED term

-----------------------------------------------------------------------------
(* The machine.                                                            *)

Off == /\ Ends("menu")
       /\ raw' = FALSE
       /\ tty' = "cooked"
       /\ saved' = "cooked"
       /\ mounts' = <<>>

\* reboot or poweroff, from a screen, a shell or the running system.
Reboot ==
  /\ pc \in Screens \cup {"exit", "killed", "booted"}
  /\ Off
  /\ durable' = content
  /\ UNCHANGED <<content, hurt>>

Unsynced == {u \in Disks \X Items : u[2] \in content[u[1]] \ durable[u[1]]}

\* Every write that was not synced reached the disk or did not.
PowerCut ==
  /\ pc # "menu"
  /\ Off
  /\ \E lost \in SUBSET Unsynced :
       /\ content' = [d \in Disks |-> content[d] \ {x \in Items : <<d, x>> \in lost}]
       /\ durable' = content'
  /\ hurt' = hurt \cup {d \in Disks : content[d] # durable[d]}

\* config/grub.cfg: the first disk that has the marker is asked for its own
\* grub.cfg; the live entries are offered only without one.
OffersInstalled(d) == {"marker", "grubcfg"} \subseteq content[d]

MenuLive ==
  /\ pc = "menu"
  /\ \/ \A d \in Disks : "marker" \notin content[d]
     \/ \E d \in Disks : "marker" \in content[d] /\ ~OffersInstalled(d)
  /\ Goto("exit")
  /\ UNCHANGED <<disk, term, mounts, fs, confirmed>>

MenuInstalled ==
  /\ pc = "menu"
  /\ \E d \in Disks : OffersInstalled(d)
  /\ Goto("booted")
  /\ UNCHANGED <<disk, term, mounts, fs, confirmed>>

-----------------------------------------------------------------------------
Next ==
  \/ Start \/ Leave \/ screen_welcome \/ ShellEnds \/ ShellUnmounts
  \/ screen_pick_disk \/ screen_user \/ screen_confirm
  \/ InstallFailed \/ screen_done
  \/ wipefs \/ sfdisk \/ format_partitions \/ mount_root \/ mount_esp
  \/ copy_rootfs \/ write_system_files
  \/ grub_efi \/ grub_bios \/ grub_cfg \/ boot_files \/ unmount_all
  \/ Abort \/ Reboot \/ PowerCut \/ MenuLive \/ MenuInstalled

Spec == Init /\ [][Next]_vars

-----------------------------------------------------------------------------
(* Properties.                                                             *)

\* However the screens are gone back and forth through, and whatever earlier
\* failed attempts left mounted on /mnt/target, an attempt writes to no disk but
\* the one its summary named when INSTALL was typed.
OnlyConfirmed == touched \subseteq confirmed

\* "Done" is shown when the system on the chosen disk is whole, would survive a
\* power cut, and the disk is no longer mounted; unless an error that the code
\* ignores hit a write.
DoneIsDurable ==
  pc = "done" /\ disk \notin hurt => System \subseteq durable[disk] /\ ~InUse(disk)

\* An attempt that ends in "Install failed", or that Ctrl-C aborts before
\* grub.cfg is begun or after the last copy, leaves no disk that the boot menu
\* takes for an installed one without the whole system being there.
FailureNotOffered ==
  pc = "menu" => \A d \in Disks \ hurt : OffersInstalled(d) => System \subseteq content[d]

\* Every shell the installer opens, and whatever runs after it, has the
\* terminal as the installer found it, which is cooked unless an earlier
\* installer was killed.
GivesBackTerminal ==
  pc \in {"shell", "failed_shell", "done_shell", "exit"} => tty = saved

\* A file system in use is never erased, so a retry in the same session does
\* not destroy what is mounted.
NeverEraseMounted ==
  [][pc' # "menu" =>
       \A d \in Disks : content'[d] = {} /\ content[d] # {} => ~InUse(d)]_vars

-----------------------------------------------------------------------------
(* What the code and its messages say, and does not hold.                  *)

\* "DewOS is installed." means that every boot file grub.cfg names is there.
InstalledHasBootFiles ==
  pc = "done" /\ disk \notin hurt => BootFiles \subseteq content[disk]

\* part_names, and the root= that install_grub writes.
part_names(d) == <<d, IF d \in Numbered THEN "p2" ELSE "2">>
grub_root(d) == <<d, "2">>

\* "DewOS is installed." means that the grub.cfg written names the partition
\* that was formatted as root.
GrubNamesRoot == pc = "done" => grub_root(disk) = part_names(disk)

\* "DewOS" in the boot menu means that the system is there.  It is not after
\* Ctrl-C, which the status line offers, or a power cut between grub.cfg and the
\* boot files or the sync, nor after an error of a copy, which is ignored.
OfferedIsWhole ==
  pc = "menu" => \A d \in Disks : OffersInstalled(d) => System \subseteq content[d]

\* A failing sfdisk ends in "Install failed", not in the end of the installer.
FailureIsReported == [][sfdisk => pc' # "killed"]_vars
=============================================================================
