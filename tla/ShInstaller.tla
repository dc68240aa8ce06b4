---------------------------- MODULE ShInstaller ----------------------------
(***************************************************************************)
(* The shell installer app/installer/dew-install: a script under "set -e"  *)
(* whose traps clean up, its run over the chosen disk, and the mounts and  *)
(* disks that outlive it.                                                  *)
(*                                                                         *)
(* A command that fails ends the script in one of two ways: through fail,  *)
(* which says so and cleans up, or through set -e, which only runs the     *)
(* EXIT trap.  Ctrl-C may come at any moment.                              *)
(***************************************************************************)
EXTENDS Naturals, Sequences

CONSTANTS
  Disks,       \* whole disks of at least 8 GiB
  None         \* no disk

ASSUME DisksAssumption == None \notin Disks

VARIABLES
  pc,          \* the command the script is at, or where the machine is
  disk,        \* TARGET_DISK
  efi,         \* BOOT_MODE = "uefi"
  flags,       \* those of "root" and "esp" whose MOUNTED_ variable is 1
  echo,        \* does the console echo what is typed?
  said,        \* how the script told the user it ended
  mounts,      \* file systems stacked on DEW_TARGET_MOUNT, oldest first
  live,        \* the disk the running system has as its root, or None
  content,     \* what each disk's root file system holds
  durable,     \* what of it would survive a power cut
  confirmed,   \* history: the disk typed a second time, once ERASE was typed
  touched,     \* history: disks written to by this script
  before,      \* history: how many mounts this script found
  excused,     \* history: why a mount may be left behind
  cut          \* history: disks a power cut left short

history == <<confirmed, touched, before, excused, cut>>
fs == <<content, durable>>
vars == <<pc, disk, efi, flags, echo, said, mounts, live, fs, history>>

\* "grubcfg" is the file, which is there as soon as it has been opened for
\* writing, "menuentry" what is written into it.
Items == {"system", "marker", "config", "grubcfg", "menuentry", "loader"}

\* What post_install_check looks for.
Checked == {"system", "marker", "config", "grubcfg"}

Segment == [disk : Disks, esp : BOOLEAN]

Hidden == {"user_password", "user_again", "root_password", "root_again", "wifi_password"}
Questions == {"welcome", "disk", "confirm", "name", "network"} \cup Hidden
Steps == {"fdisk", "partitions", "mkfs", "mount", "flag_root", "mkfs_esp", "mount_esp",
          "flag_esp", "copy", "marker", "config", "grubcfg", "grub", "removable",
          "check", "sync", "summary"}
Cleanups == {"fail_esp", "fail_root", "exit_esp", "exit_root"}
Machine == {"shell", "menu"}

TypeOK ==
  /\ pc \in Questions \cup Steps \cup Cleanups \cup Machine
  /\ disk \in Disks \cup {None}
  /\ efi \in BOOLEAN
  /\ flags \subseteq {"root", "esp"}
  /\ echo \in BOOLEAN
  /\ said \in {"nothing", "failed", "installed"}
  /\ mounts \in Seq(Segment)
  /\ live \in Disks \cup {None}
  /\ content \in [Disks -> SUBSET Items]
  /\ durable \in [Disks -> SUBSET Items]
  /\ confirmed \subseteq Disks
  /\ touched \subseteq Disks
  /\ before \in Nat
  /\ excused \subseteq {"window", "busy", "quit"}
  /\ cut \subseteq Disks

Init ==
  /\ pc = "menu"
  /\ disk = None
  /\ efi \in BOOLEAN
  /\ flags = {}
  /\ echo = TRUE
  /\ said = "nothing"
  /\ mounts = <<>>
  /\ live = None
  /\ content \in [Disks -> {{}, Items}]      \* an earlier installation or none
  /\ durable = content
  /\ confirmed = {}
  /\ touched = {}
  /\ before = 0
  /\ excused = {}
  /\ cut = {}

InUse(d) == d = live \/ \E k \in 1 .. Len(mounts) : mounts[k].disk = d
top == mounts[Len(mounts)]

-----------------------------------------------------------------------------
(* How a command ends.                                                     *)

Goto(p) == pc' = p /\ UNCHANGED said

\* fail prints its message, cleans up and exits.
Fail == pc' = "fail_esp" /\ said' = "failed"

\* set -e: nothing is printed and the EXIT trap cleans up.
Errexit == Goto("exit_esp")

Start ==
  /\ pc = "shell"
  /\ pc' = "welcome"
  /\ said' = "nothing"
  /\ disk' = None
  /\ flags' = {}
  /\ confirmed' = {}
  /\ touched' = {}
  /\ before' = Len(mounts)
  /\ excused' = {}
  /\ UNCHANGED <<efi, echo, mounts, live, fs, cut>>

-----------------------------------------------------------------------------
(* The questions.                                                          *)

\* need_root, the greeting and check_tools.
Welcome ==
  /\ pc = "welcome"
  /\ Goto("disk") \/ Fail
  /\ UNCHANGED <<disk, efi, flags, echo, mounts, live, fs, history>>

\* Whoever names a disk in use, or its partition, is refused.
show_disks ==
  /\ pc = "disk"
  /\ \/ Errexit /\ UNCHANGED disk                  \* end of file
     \/ /\ disk' \in Disks
        /\ Fail \/ (~InUse(disk') /\ Goto("confirm"))
  /\ UNCHANGED <<efi, flags, echo, mounts, live, fs, history>>

confirm_danger ==
  /\ pc = "confirm"
  /\ \/ (Fail \/ Errexit) /\ UNCHANGED confirmed
     \/ Goto("name") /\ confirmed' = {disk}
  /\ UNCHANGED <<disk, efi, flags, echo, mounts, live, fs, touched, before, excused, cut>>

\* ask_identity: the user name is asked first, host name and time zone last.
AskName ==
  /\ pc = "name"
  /\ \/ Goto("user_password") /\ echo' = FALSE
     \/ (Fail \/ Errexit) /\ UNCHANGED echo
  /\ UNCHANGED <<disk, efi, flags, mounts, live, fs, history>>

\* ask_password_hash for the user, then for root.  It runs in a $(...): what
\* fail prints there becomes the value of USER_HASH, and set -e ends the script.
AskTwice(first, second, next) ==
  \/ pc = first /\ Goto(second) /\ UNCHANGED echo
  \/ pc = second /\ Goto(next) /\ echo' = (next \notin Hidden)
  \/ pc = second /\ Errexit /\ echo' = TRUE                     \* no match, empty
  \/ pc \in {first, second} /\ Errexit /\ UNCHANGED echo        \* end of file

ask_password_hash ==
  /\ \/ AskTwice("user_password", "user_again", "root_password")
     \/ AskTwice("root_password", "root_again", "network")
  /\ UNCHANGED <<disk, efi, flags, mounts, live, fs, history>>

\* Host name, time zone and network are refused through fail.
choose_network ==
  /\ pc = "network"
  /\ \/ Goto("fdisk") /\ UNCHANGED echo
     \/ Goto("wifi_password") /\ echo' = FALSE
     \/ (Fail \/ Errexit) /\ UNCHANGED echo
  /\ UNCHANGED <<disk, efi, flags, mounts, live, fs, history>>

WifiPassword ==
  /\ pc = "wifi_password"
  /\ \/ Goto("fdisk") /\ echo' = TRUE
     \/ Errexit /\ UNCHANGED echo
  /\ UNCHANGED <<disk, efi, flags, mounts, live, fs, history>>

-----------------------------------------------------------------------------
(* The steps.                                                              *)

\* What was on the disk can no longer be found; the tool has synced that.
Erase(d) == /\ content' = [content EXCEPT ![d] = {}]
            /\ durable' = [durable EXCEPT ![d] = {}]
            /\ touched' = touched \cup {d}
            /\ cut' = cut \ {d}

\* swapoff and wipefs are tried, fdisk has to succeed.
partition_disk ==
  /\ pc = "fdisk"
  /\ Goto("partitions") \/ Fail
  /\ Erase(disk) \/ (UNCHANGED <<fs, cut>> /\ touched' = touched \cup {disk})
  /\ UNCHANGED <<disk, efi, flags, echo, mounts, live, confirmed, before, excused>>

\* The partitions have to show up as block devices.
wait_for_partitions ==
  /\ pc = "partitions"
  /\ Goto("mkfs") \/ Fail
  /\ UNCHANGED <<disk, efi, flags, echo, mounts, live, fs, history>>

\* And mkdir of the mount point, which only set -e looks at.
mkfs ==
  /\ \/ pc = "mkfs" /\ Goto("mount")
     \/ pc = "mkfs_esp" /\ Goto("mount_esp")
     \/ pc \in {"mkfs", "mkfs_esp"} /\ (Fail \/ Errexit)
  /\ IF pc = "mkfs" THEN Erase(disk) ELSE UNCHANGED <<fs, touched, cut>>
  /\ UNCHANGED <<disk, efi, flags, echo, mounts, live, confirmed, before, excused>>

mount_root_Tried ==
  /\ pc = "mount"
  /\ Goto("flag_root")
  /\ \/ mounts' = Append(mounts, [disk |-> disk, esp |-> FALSE])
     \/ mounts # <<>> /\ UNCHANGED mounts
  /\ UNCHANGED <<disk, efi, flags, echo, live, fs, history>>

mount_root ==
  /\ pc = "mount"
  /\ \/ Goto("flag_root") /\ mounts' = Append(mounts, [disk |-> disk, esp |-> FALSE])
     \/ Fail /\ UNCHANGED mounts
  /\ UNCHANGED <<disk, efi, flags, echo, live, fs, history>>

mount_esp ==
  /\ pc = "mount_esp"
  /\ \/ Goto("flag_esp") /\ mounts' = [mounts EXCEPT ![Len(mounts)].esp = TRUE]
     \/ Fail /\ UNCHANGED mounts
  /\ UNCHANGED <<disk, efi, flags, echo, live, fs, history>>

\* MOUNTED_ROOT=1 and MOUNTED_ESP=1, commands of their own after mount.
SetFlag ==
  /\ \/ pc = "flag_root" /\ flags' = flags \cup {"root"} /\ Goto(IF efi THEN "mkfs_esp" ELSE "copy")
     \/ pc = "flag_esp" /\ flags' = flags \cup {"esp"} /\ Goto("copy")
  /\ UNCHANGED <<disk, efi, echo, mounts, live, fs, history>>

-----------------------------------------------------------------------------
(* Writing below DEW_TARGET_MOUNT goes to the file system mounted last.    *)

Write(S) == /\ content' = [content EXCEPT ![top.disk] = @ \cup S]
            /\ touched' = touched \cup {top.disk}
            /\ UNCHANGED <<disk, efi, flags, echo, mounts, live, durable,
                           confirmed, before, excused, cut>>

\* Every command of the step counts: when one fails, the script ends.
Step(here, item, next) ==
  /\ pc = here
  /\ \/ Goto(next) /\ Write({item})
     \/ (Fail \/ Errexit) /\ Write({})

\* The kernel is looked for in three places; /etc/dewos-installed comes last.
copy_rootfs == Step("copy", "system", "marker") \/ Step("marker", "marker", "config")

write_config_CfgFirst ==
  /\ pc = "config"
  /\ \/ Goto("grubcfg") /\ Write({"config", "grubcfg"})
     \/ (Fail \/ Errexit) /\ Write({"grubcfg"})

\* write_basic_config, create_users, write_network_scripts and write_issue: one
\* file after the other, and a whole set only when none of them failed.
write_config == Step("config", "config", "grubcfg")

\* Without UUIDs there is no configuration.  "cat > grub.cfg" creates the file
\* before it writes it, and may fail in between.
write_grub_cfg ==
  /\ pc = "grubcfg"
  /\ \/ Goto("grub") /\ Write({"grubcfg", "menuentry"})
     \/ Fail /\ Write({})
     \/ Errexit /\ \E S \in SUBSET {"grubcfg"} : Write(S)

\* On UEFI a failed grub-install is tried again with --removable.
install_bootloader ==
  \/ Step("grub", "loader", "check")
  \/ efi /\ pc = "grub" /\ Goto("removable") /\ Write({})
  \/ Step("removable", "loader", "check")

\* copy_install_log, whose failure only this check notices, and every other path
\* it looks for.  The log is copied once more after it.
post_install_check ==
  /\ pc = "check"
  /\ \/ Checked \subseteq content[top.disk] /\ Goto("sync")
     \/ Fail
  /\ Write({})

Sync_Forgotten ==
  /\ pc = "sync"
  /\ Goto("summary")
  /\ UNCHANGED <<disk, efi, flags, echo, mounts, live, fs, history>>

Sync ==
  /\ pc = "sync"
  /\ Goto("summary")
  /\ durable' = content
  /\ UNCHANGED <<disk, efi, flags, echo, mounts, live, content, history>>

\* "DewOS installed successfully."  The script ends and the EXIT trap runs.
summary ==
  /\ pc = "summary"
  /\ pc' = "exit_esp"
  /\ said' = "installed"
  /\ UNCHANGED <<disk, efi, flags, echo, mounts, live, fs, history>>

-----------------------------------------------------------------------------
(* Ends.                                                                   *)

\* The command that a signal kills may leave an empty grub.cfg; of any other
\* what it leaves is not enough for an item.
CutOff ==
  \/ UNCHANGED <<content, touched>>
  \/ /\ pc = "grubcfg"
     /\ content' = [content EXCEPT ![top.disk] = @ \cup {"grubcfg"}]
     /\ touched' = touched \cup {top.disk}

\* The trap of INT and TERM, between two commands or after the one they kill.
Interrupt ==
  /\ pc \in Questions \cup Steps
  /\ Fail
  /\ CutOff
  /\ excused' = IF pc \in {"flag_root", "flag_esp"} THEN excused \cup {"window"} ELSE excused
  /\ UNCHANGED <<disk, efi, flags, echo, mounts, live, durable, confirmed, before, cut>>

\* Ctrl-\ ends the script without a trap.
Quit ==
  /\ pc \notin Machine
  /\ Goto("shell")
  /\ CutOff
  /\ excused' = excused \cup {"quit"}
  /\ UNCHANGED <<disk, efi, flags, echo, mounts, live, durable, confirmed, before, cut>>

\* umount refuses a file system with another one inside it, or in use.
UmountEsp(next) ==
  /\ Goto(next)
  /\ IF "esp" \in flags /\ mounts # <<>> /\ top.esp
     THEN \/ mounts' = [mounts EXCEPT ![Len(mounts)].esp = FALSE] /\ UNCHANGED excused
          \/ excused' = excused \cup {"busy"} /\ UNCHANGED mounts
     ELSE UNCHANGED <<mounts, excused>>

UmountRoot(next) ==
  /\ Goto(next)
  /\ IF "root" \in flags /\ mounts # <<>>
     THEN \/ /\ ~top.esp
             /\ mounts' = SubSeq(mounts, 1, Len(mounts) - 1)
             /\ UNCHANGED excused
          \/ /\ excused' = IF top.esp THEN excused ELSE excused \cup {"busy"}
             /\ UNCHANGED mounts
     ELSE UNCHANGED <<mounts, excused>>

cleanup_RootFirst ==
  /\ \/ pc = "fail_esp" /\ UmountRoot("fail_root")
     \/ pc = "fail_root" /\ UmountEsp("shell")
     \/ pc = "exit_esp" /\ UmountRoot("exit_root")
     \/ pc = "exit_root" /\ UmountEsp("shell")
  /\ UNCHANGED <<disk, efi, flags, echo, live, fs, confirmed, touched, before, cut>>

\* fail cleans up itself, and its exit runs the EXIT trap, which does so again.
cleanup ==
  /\ \/ pc = "fail_esp" /\ UmountEsp("fail_root")
     \/ pc = "fail_root" /\ UmountRoot("exit_esp")
     \/ pc = "exit_esp" /\ UmountEsp("exit_root")
     \/ pc = "exit_root" /\ UmountRoot("shell")
  /\ UNCHANGED <<disk, efi, flags, echo, live, fs, confirmed, touched, before, cut>>

-----------------------------------------------------------------------------
(* The machine.                                                            *)

\* Somebody unmounts by hand what an earlier script left.
ShellUnmounts ==
  /\ pc = "shell"
  /\ mounts # <<>>
  /\ mounts' = <<>>
  /\ UNCHANGED <<pc, disk, efi, flags, echo, said, live, fs, history>>

Off == /\ pc' = "menu"
       /\ said' = "nothing"
       /\ disk' = None
       /\ flags' = {}
       /\ echo' = TRUE
       /\ mounts' = <<>>
       /\ live' = None
       /\ confirmed' = {}
       /\ touched' = {}
       /\ before' = 0
       /\ excused' = {}
       /\ UNCHANGED efi

Reboot ==
  /\ pc = "shell"
  /\ Off
  /\ durable' = content
  /\ UNCHANGED <<content, cut>>

Unsynced == {u \in Disks \X Items : u[2] \in content[u[1]] \ durable[u[1]]}

\* Every write that was not synced reached the disk or did not.
PowerCut ==
  /\ pc # "menu"
  /\ Off
  /\ \E lost \in SUBSET Unsynced :
       /\ content' = [d \in Disks |-> content[d] \ {x \in Items : <<d, x>> \in lost}]
       /\ durable' = content'
  /\ cut' = cut \cup {d \in Disks : content[d] # durable[d]}

\* config/grub.cfg wants the marker and a grub.cfg on the same disk.
OffersInstalled(d) == {"marker", "grubcfg"} \subseteq content[d]

\* The live system, or an installed one, which has the installer too.
Boot ==
  /\ pc = "menu"
  /\ Goto("shell")
  /\ \/ live' = None
     \/ \E d \in Disks : OffersInstalled(d) /\ live' = d
  /\ UNCHANGED <<disk, efi, flags, echo, mounts, fs, history>>

-----------------------------------------------------------------------------
Next ==
  \/ Start \/ Welcome \/ show_disks \/ confirm_danger \/ AskName \/ ask_password_hash
  \/ choose_network \/ WifiPassword
  \/ partition_disk \/ wait_for_partitions \/ mkfs \/ mount_root \/ mount_esp \/ SetFlag
  \/ copy_rootfs \/ write_config \/ write_grub_cfg \/ install_bootloader \/ post_install_check
  \/ Sync \/ summary
  \/ Interrupt \/ Quit \/ cleanup
  \/ ShellUnmounts \/ Reboot \/ PowerCut \/ Boot

Spec == Init /\ [][Next]_vars

-----------------------------------------------------------------------------
(* Properties.                                                             *)

\* Whatever earlier scripts left mounted on the same directory, a script writes
\* to no disk but the one whose path was typed twice, with ERASE after it.
OnlyConfirmed == touched \subseteq confirmed

\* "DewOS installed successfully" is printed only when the whole system is on
\* the disk and would survive a power cut.  No error of a command that writes a
\* part of it is ignored, so unlike the other installer there is no exception.
InstalledIsWhole == said = "installed" => Items \subseteq durable[disk]

\* Whenever an installation fails or is interrupted, a disk that the boot menu
\* takes for an installed one has the system and its configuration; what it may
\* lack is the text of grub.cfg and the boot loader.  Power cuts with writes
\* outstanding excepted.
OfferedHasSystem ==
  pc = "menu" => \A d \in Disks \ cut : OffersInstalled(d) => Checked \subseteq content[d]

\* Wherever the script ends, its traps unmount what it mounted.  Exceptions: a
\* signal right after mount(8), a file system in use, and Ctrl-\.
NothingLeftMounted == pc = "shell" /\ excused = {} => Len(mounts) <= before

\* A disk in use, the live root or one left mounted by an earlier script, is
\* never erased.
NeverEraseMounted ==
  [][pc' # "menu" =>
       \A d \in Disks : content'[d] = {} /\ content[d] # {} => ~InUse(d)]_vars

-----------------------------------------------------------------------------
(* What the code says, and does not hold.                                  *)

\* "DewOS" in the boot menu means that an installation was completed.  It is
\* there as soon as grub.cfg has been opened, before the boot loader.
OfferedIsWhole ==
  pc = "menu" => \A d \in Disks \ cut : OffersInstalled(d) => Items \subseteq content[d]

\* trap 'fail "Interrupted."' INT TERM: an interrupted script unmounts.
InterruptUnmounts == pc = "shell" /\ excused \cap {"quit", "busy"} = {} => Len(mounts) <= before

\* stty -echo is followed by stty echo, and the traps end an interrupted script:
\* the console is not left mute.
EchoGivenBack == pc = "shell" /\ "quit" \notin excused => echo

\* fail "Passwords do not match.": who types a password wrongly is told so.
RefusalIsSaid ==
  [][echo' /\ pc \in {"user_again", "root_again"} /\ pc' = "exit_esp" => said' = "failed"]_vars
=============================================================================
