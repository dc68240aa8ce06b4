# DewOS in TLA+

TLA+ models of the parts of DewOS that keep state, TLC configurations that check
them on small instances, and TLAPS proofs of what matters most for every instance.
Source paths are relative to the repository's root.

## The system

DewOS is a small Linux distribution: a C++ `/init` that is boot script, login and
shell in one process (PID 1), a package manager, an installer, and the scripts that
build them into an initramfs and an ISO image. An installed system boots from its own
disk; the live medium runs the same `/init` from the initramfs.

| Part | Source | State it keeps | Operations |
| --- | --- | --- | --- |
| PID 1 | `app/init/init.cpp`, `system.cpp`, `shell.cpp` | `original_termios`, `current_*`, `rootfs_ready`, `history`, the console, `std::cin` | boot in one of three modes, login, `su`, commands that fork |
| Line editor | `shell.cpp` 567-752 | line, cursor, history index | keys |
| Network commands | `app/init/network.cpp` | none; pipes to children | detect, scan, connect-debug, dhcp, test |
| `drop` | `app/drop/drop.cpp` | files under `/`, `/var/drop/installed/<name>` and `.meta` | install, remove, list, search, update |
| Installer (C++) | `app/installer/dew-install.cpp` | screens, `Config`, terminal, mounts on `/mnt/target`, the target disk | screens, partition, format, mount, copy, write, GRUB, unmount |
| Installer (sh) | `app/installer/dew-install` | the same, and it writes `netup`, `wifi-up` | the same steps with `set -e` and traps |
| Network start | `netup`, `wifi-up` as written by the sh installer 757-906; `shell.cpp` 806-877 | `/run/dew-network.lock` | start, DHCP tries, exit |
| DHCP event script | the sh installer 856-891, `installer/initramfs-files` | addresses, default route, `/etc/resolv.conf` | deconfig, bound |
| Boot splash | `init.cpp` 95-410 | the framebuffer | logo, ring, spinner |
| Boot menu | `config/grub.cfg` | none; reads the marker on the disks | offer installed system or live entries |
| Build scripts | `scripts/*.sh` | stage directories, archives, `index.txt` | build, pack, fetch, run |

They interact through the console (its line settings are shared by PID 1 and the one
child it waits for), through `waitpid` (PID 1 waits for the pid it forked and for no
other), and through files: `/etc/dewos-installed` makes a disk count as installed for
`grub.cfg`, `detect_rootfs` and the network start; `/etc/passwd` and `/etc/shadow` decide
logins; `/var/drop` is the package database; `/run/dew-network.lock` keeps netups apart.

What is hard here: programs that die with the console raw; a single global that
remembers the cooked settings; writes and tools whose results are ignored; several
attempts to install in one session with the mounts of earlier ones still there; power
cuts; a lock that is a directory on the root disk; end of file on `std::cin`; signals between any two commands
of a script; pipes that outlive the tool they were made for; two DHCP clients at once; keys whose bytes arrive one by
one; integer geometry on screens of any size.
The list with lines and the properties for each is `hazards` in `PROJECT.json`.

## Modules

| Module | What it is | Runs | Proofs |
| --- | --- | --- | --- |
| `DewInit` | PID 1 as the owner of the console | `DewInit` | `DewInitProofs` |
| `Drop` | the package manager, system call by system call | `Drop` | `DropProofs` |
| `PackageDB` | what `drop` promises; `Drop` implements it | (property of `Drop`) | `DropProofs` |
| `Installer` | the C++ installer, disks, mounts, boot menu | `Installer` | `InstallerProofs` |
| `NetUp` | concurrent netups and their lock | `NetUp` | `NetworkProofs`, 1 |
| `LineEditor` | keys, history and the screen row of the prompt | `LineEditor` | `InputProofs`, 2 |
| `LineBuffer` | what the prompt promises; `LineEditor` implements it | (property of `LineEditor`) | `InputProofs`, 2 |
| `ShInstaller` | the shell installer with `set -e`, traps and `cleanup` | `ShInstaller` | `ShInstallerProofs` |
| `Capture` | `run_command` and `run_capture`: a tool, its pipe, who else holds it | `Capture` | `NetworkProofs`, 2 |
| `Splash` | the boot splash: geometry, line drawing, its end | `Splash` | `SplashProofs` |
| `Lease` | two DHCP event scripts at once, `network test`, `netlog` | `Lease` | `NetworkProofs`, 3 |
| `Dialogs` | `read_key`, menus, prompts and screens of the C++ installer | `Dialogs` | `InputProofs`, 3 |
| `Scan` | `network scan`: the parser and the table | `Scan` | `InputProofs`, 4 |
| `DropPair` | two `Drop`s over one disk | `DropPair` | `DropPairProofs` |
| `MC*` | the constants of each for TLC | | |

Every module has the operators of the source's name where TLA+ allows it. Operators named
`X_Something` next to an `X` are variants of it: `X` with a plausible mistake in it.
No specification uses them; each makes one property fail, which shows that the
property depends on that line of the code. Modules whose proofs share a module have names of their own for
`Init`, `Next`, `Spec` and `TypeOK` (`LeaseSpec`, `ScanTypeOK`) and for the place the program is at (`at` in `Capture`,
`doing` in `Lease`, `dialog` in `Dialogs`, `stage` in `Scan`, `pc` elsewhere).

### DewInit

`pc` is the place PID 1 is at: boot, a prompt of login, the shell prompt, waiting for a
child, asking a question. `tty` is what `tcgetattr` would return, three flags of it;
`original` is `original_termios`; `saved` and `held` are `old_termios` of `read_password` or the
copy a child keeps. Each command that forks is one `Spawn`, one `SpawnFails` and one
`Reaped`: `install`, `sh`, `mount`, `umount`, `drop`, `rm -r` have the same shape; `kilo` does
not leave raw mode and has its own. A child may make the console raw (the installer,
kilo), put it back, be killed before it does, or, through `stty`, leave anything. `dirty`
records that a child left other settings than it found. Names fall in three classes: in
both files and well-formed (`Good`), with an id `std::stoi` throws on (`BadId`), and the rest.

Checked: the line editor always has a raw console (`RawAtPrompt`), children and questions
have a cooked one while nobody else broke it (`CookedPreserved`), a session changes user
only at a password prompt for an account in the files (`IdentityFromFiles`; the code
accepts every password, as `verify_password` says), and a user who keeps trying gets in
(`LoginCompletes`). `LoginServed` drops the escape for end of file and is false: see Disagreements.

### Drop and PackageDB

One process, one action per system call that changes something: each extracted member,
opening and writing the manifest, `.meta`, each `unlink` and `rmdir`, forgetting manifest and
`.meta`. `tar` may fail after any member, a stream may take part of what is written, an
`unlink` may fail, a `rmdir` too for another reason than a directory that is not empty (`stuck`), and `Kill` is possible
between any two steps. The last two `unlink`s, of manifest and `.meta`, are the ones whose results nobody looks at (359-360).
`is_installed` is a test of a path, so that the `.meta` of a package counts as a package of its own: `MetaNames`
are such names, and `RemoveMeta` is what `remove` does with one. Names with a slash in them are left out.
`cut` records the packages a fault has touched, noticed or not, or whose `.meta` was removed by its name; a command that runs
through cleanly takes them out again.
`ListingAssumption` states what `build-pkgs.sh` makes of a stage directory: an archive lists the
directories above each member, and no file is in two packages. `.` and `PKGINFO` are left out: the
first is the root, which no `rmdir` removes, the second is not extracted.

`PackageDB` knows a status per package and which one is being worked on. `Drop` implements
it under the mapping `statusOf` (property `ImplementsPackageDB`): packages change one at a
time, forward while installed, back while removed.

Checked besides: untouched packages are wholly there or
wholly gone and a clean command repairs touched ones (`Settled`), exit code 0 speaks for every
untouched name (`ExitHonest`), no directory of a package stays that could have been removed (`NoEmptyDirLeft`).
What `drop` says when a fault has touched the package is false in more than one way: see Disagreements.

### Installer

`pc` runs over the screens, the steps of `screen_install` and the states of the machine around
them: `menu` (the boot menu of the medium), `exit` (a shell of the live system), `killed`,
`booted`. `Abort` is Ctrl-C, which the status line offers and no handler catches, at every screen and step: it ends the
installer and the tool it waits for, leaves console and mounts as they are, and of a step that writes several things any
part. The same signal to a tool alone is that tool failing. `mounts` is the stack of file systems on `/mnt/target`: a failed attempt leaves its own, nothing
unmounts it, and the next mounts on top. `content` is what a disk's root file system holds
(root files, accounts, marker, boot loader, `grub.cfg`, boot files), `durable` what of it
has been synced; `PowerCut` keeps any part of the rest. Errors whose status the code
ignores (of `find` before `cpio`, of streams, copies, `sync` and `umount`), power cuts, and a Ctrl-C between opening
`grub.cfg` and the last copy add the disk to `hurt`; errors it looks at lead to `failed`.
Which way `grub_efi` or `grub_bios` is taken is open in the model: a machine has `/sys/firmware/efi` or has not.
`MenuLive` and `MenuInstalled` are `config/grub.cfg`.

Checked: an attempt writes only the disk INSTALL was typed for, whatever is still mounted (`OnlyConfirmed`), Done means whole, synced
and unmounted (`DoneIsDurable`) but for ignored errors, an attempt that reports its failure or is aborted outside the window above
leaves nothing in the boot menu that is not whole (`FailureNotOffered`), each shell and the program after the installer get the
terminal as it was found (`GivesBackTerminal`; being killed is not such a way out and leaves it raw), a mounted disk
is never erased (`NeverEraseMounted`). That the menu offers whole systems only, whatever happened, is false (`OfferedIsWhole`).

### NetUp

Any number of invocations, each a process: PID 1's at boot and those users start, as
`netup` or as `wifi-up`, which ends in `netup`. `lock` is the directory; `holder` is a history
variable that names who made it. A signal (`Kill`) ends an invocation without its EXIT
trap; `Reboot` ends all and leaves the directory, because `/run` of an installed system
is on its root disk: `mount_basic_fs` mounts `/proc`, `/sys` and `/dev` only. The
shell's `network dhcp` and `connect-debug` use the DHCP client without the lock (`ShellDhcp`).

Checked: at most one invocation configures the interface (`MutualExclusion`), and who is not killed gives the
lock back (`LockReleased`). Proved besides: it holds the lock (`LockHeld`).

### LineEditor and LineBuffer

`read_line`, byte by byte: `pc` is where the next byte is read, at a key or as the second or third byte
after ESC, where no `select` guards the read and any byte is taken. `history_index` is global and outlives a line.
`shown` is what `redraw_line` drew last, `enters` a history variable that counts dropped Enters.
A `read` that returns 0 or an error at a key changes nothing (the loop goes round), so it is no action.

`LineBuffer` says the same without a counter: a line cut in two at the cursor, and a history cut in two at the line
recalled. `LineEditor` implements it with the cuts at `cursor` and `history_index` (`ImplementsLineBuffer`), so no
insertion, erasure or recall may touch another place than the right one. What Down does past the newest line, dropping
what had been typed, is what the code does and part of `LineBuffer`.

Checked besides: cursor and index in bounds (in `TypeOK`; the code indexes unchecked), the screen is current whenever a
byte is waited for (`ShownIsCurrent`), and a lone ESC swallows at most two Enters (`TwoEntersAtMost`).

### ShInstaller

The script `app/installer/dew-install`, which does what the C++ installer does and ends at the first command that fails.
`pc` runs over its functions in the order of `main`; `flags` holds `MOUNTED_ROOT` and `MOUNTED_ESP`, which `cleanup` goes by, `said` what the user has been told; a signal may come
between any two commands or kill the one at work (`Interrupt`), also between `mount` and the assignment that remembers it, and SIGQUIT ends the
script without a trap (`Quit`). `cat > grub.cfg` makes the file (`grubcfg`) before it writes it (`menuentry`); a failure or a signal in
between leaves it empty (`CutOff`), and the boot menu only tests that it is there. `fail` says why the script ends; `set -e` ends it silently. Disks, content, mounts left
by earlier scripts, power cuts and boot menu are as in `Installer`.

Checked: only confirmed disks are written (`OnlyConfirmed`), "installed" is
said of whole and synced systems (`InstalledIsWhole`), a disk that the boot menu offers has the system and its configuration
(`OfferedHasSystem`), though not always the text of `grub.cfg` and a boot loader (`OfferedIsWhole` is false), and a
script that ends leaves nothing mounted (`NothingLeftMounted`) but for the window above, a busy file system, and SIGQUIT.
Of the commands that write a part of the system none is allowed to fail; `chown` of the user's directory (714-715) is, and is not modelled. Proved besides: no
disk in use is erased (`NeverEraseMounted`).

### Capture

`run_command` of PID 1 and `run_capture` of the installer are one protocol: a pipe, a child, read to end of file,
`waitpid`. `holders` are the processes that have the write end open; end of file is when there is none. A tool may leave programs in the
background (`Leave`, as `wpa_supplicant -B`), which write on and let go of their output later (`LetGo`), or die. `Netup`
is PID 1's other child, which nobody waits for and which may die at any time. Callers differ in what they make of a signal (`CodeOf`).

Checked: the output is all that was written (`WholeOutput`), the code is the tool's own (`CodeIsTools`), and the call returns (`Returns`).
Proved besides: nobody gets SIGPIPE (`NeverBroken`).

### Splash

`show_boot_splash` as a machine: rows of the logo, then frames of eleven segments, each drawn by the error-term loop of
`draw_loader_segment`, one pixel a step; or the text spinner. The geometry is translated with C's division, and where
sizes of the image are multiplied, with C's `int` (`CInt`): the image may have any size, `load_ppm` has no limit. `MaxInt` is INT_MAX, in the run a
small one, so that a logo of 7 by 4000 overflows it.
`DrawRow` stands for a row of `draw_image`, `InImage` looks at every pixel of it. `put_pixel` drops what is off the
screen, so that nothing else can be written outside.

Checked: what a frame draws is inside what the next erases (`InsideErased`), below the logo (`LogoKept`), scaling reads
only the image as long as its products with the screen fit an `int` (`InImage`, `Fits`), and the boot goes on (`Boots`).
Proved besides: what is drawn is on its line (`OnSegment`).

### Lease

Two clients: `netup`'s (its lock lets one run at a time, see `NetUp`) and the one `network dhcp` starts in PID 1's shell
without the lock. Each runs the event script one command at a time: flush, add the address, delete the default route, add
it, truncate `resolv.conf`, append to it. The kernel's part is in `Flush` and `AddRoute`: without an address no route,
and no second default route. The shell may run `network test` instead, for one interface or without one (then the loopback interface's address counts as well), which
reads address, route and servers one by one and then tries; `once` records whether all three were there at one moment of the test, `others`
how many clients of `netup` were at work during it. `files` are the two logs.

Checked, with one DHCP server in each network: when both scripts are done the last leases are in force (`Converges`), their
servers are in `resolv.conf` (`ServersKept`; lines of the other lease may be there too), and when "ok" is said with one client at work
meanwhile, address, route and servers were there together (`OkOfOneMoment`): it holds because of the order in which the script and the test
go through the three, and with two clients it does not (`OkIsOfOneMoment`).

### Dialogs

A key is the bytes a terminal sends for it (`BytesOf`); they wait in `wire` and arrive in `typed` one by one, while
`read_key` takes them from there and blocks in the middle of a sequence (`seq`). `menu`, `prompt` and `screen_confirm` are one action each per key;
`Choose` and `Accept` are the edges between the screens. What the installation does is in
`Installer`, which takes the answers as given; `Dialogs` checks that they are. `pressed` and `keyed` are history
variables: the keys not answered yet, and those answered since the prompt was shown. An answer takes the first key off
`pressed`, and `mistaken` records whether it was another than the one answered. Keys are typed ahead, but not after the installer has left.

There are keys of one byte, printable and not (`Unprintable`: a prompt ignores them), four arrows, of which the screens ignore two, and
keys that `read_key` does not know: ESC alone, of which it reads two bytes more, and
sequences of four bytes, of which it leaves one. From such a key on, until all that was typed is read, nothing is said of
what is answered (`Astray`).

Checked: each key answered is the one pressed, and the bytes left are those of the keys after it (`NothingMistaken`); each is answered, or thrown away
with what was typed ahead of a shell (TCSAFLUSH), when the user stops typing (`KeysAnswered`); both but for `Astray`. A prompt goes
by what was typed (`LineIsTyped`): the line is compared with those of the printable keys since the prompt was shown that no Backspace took back,
which is found from the whole sequence and not key by key; and accounts are complete (`AccountGiven`), whatever is pressed.

### Scan

`iw`'s output is a sequence of lines, of which only the beginning matters; `seen` records what it was made of. One action per line
read, one per row printed. `Pad` is a `size_t`, here of 16 bits. `TableRight` compares the table with `seen`: each named network has
its row, its signal and, if it does not tell its load, its security; none that asks for a key is shown as open.
`PaddingFits` is about the two columns.

### DropPair

Two instances of `Drop`, each with its own variables, over one disk: every action and every fault of `Drop`, interleaved. Besides them,
`RemakeA` and `RemakeB`: `tar` finds a directory gone that it had made, because the other drop removed it. `met` records packages
both were at work on at once. Checked (`PairSettled`): every other package no fault has touched is as `Drop` leaves it, also
while one drop fills a directory that the other is about to remove.

## Runs and bounds

| Configuration | Instance | Distinct states | Result |
| --- | --- | --- | --- |
| `DewInit.cfg` | two accounts, one with an id that is no number, an unknown name | 55,166 | holds |
| `Drop.cfg` | two packages sharing `/usr/bin`, one with a directory of its own, one unknown name, one `.meta` given as a name; up to two names per command | 316,459 | holds |
| `Installer.cfg` | two disks (symmetric); kernel but no initramfs on the medium | 644,722 | holds |
| `NetUp.cfg` | three invocations, three tries | 20,440 | holds |
| `LineEditor.cfg` | two bytes to type (one of them also ends an arrow), lines up to 2 bytes, history up to 3 lines | 238,545 | holds |
| `ShInstaller.cfg` | two disks (symmetric), on BIOS and UEFI machines | 1,450,088 | holds |
| `Capture.cfg` | two programs left behind, a pipe of one, two writes of each | 177,380 | holds |
| `Splash.cfg` | seven screens, four logos, one of which overflows an `int` of 21 bits | 249,344 | holds |
| `Lease.cfg` | two interfaces, one server in each network, which may give no router | 5,116,476 | holds |
| `Dialogs.cfg` | two arrows, Enter, Backspace, Tab, ESC, Delete, a letter; two keys ahead, two in a line, one disk | 863,754 | holds |
| `Scan.cfg` | up to two networks, with and without BSS Load | 80,153 | holds |
| `DropPair.cfg` | two packages, one name per command, one `.meta` given as a name, one package touched | 1,733,836 | holds |

What each run shows, in a sentence, is in `PROJECT.json`. A property that is stated in a module and is in no configuration is either proved (`TypeOK` of
every module and those called "proved besides"), or a disagreement (below).

Three classes of names are all the code distinguishes; two accounts are the least for a session to change hands. Two packages are enough for one
to hold what the other's removal must not take; the third directory makes the
order of `rmdir` matter. Two disks are the least for a retry on another disk with the first
one still mounted, and mounts stack at most as high as there are disks, because a disk in use is
not formatted. With three netups one can be at work, one be refused and one be
killed. Three lines of
history are the least with a line on each side of the one recalled, two bytes the least with an insert in the middle.
A pipe of one and two writes are the least that block a writer, two programs left behind the least of which one may be
gone and the other not. Screens reach from smaller than the ring to where its size no longer grows. Two keys ahead
are enough for the bytes of an arrow to be followed by another key; a third may be pressed while `read_key` waits, so that it gets all that a
lone ESC takes with it. A `~` that Delete leaves is the invalid letter of a user name.

The bounds: `MaxNames` in `Drop`, `Tries` in `NetUp` (the script's own), `MaxLen` and `MaxLines` in `LineEditor`, `MaxWritten` in
`Capture`, `MaxAhead`, `MaxLine` and `MaxDisks` in `Dialogs`, `MaxSeen` in `Scan`, and
`MaxTouched` in `DropPair`, which lets faults and disputes touch one of the two packages while the other is looked at.

`Installer` and `ShInstaller` treat all disks alike and `Disks` is symmetric in their runs; the disks whose name ends in a digit (`Numbered`) decide
only `GrubNamesRoot`, which no run checks, and there are none in `MCInstaller`.

`DewInit` may stop (halted, panicked, switched off) and `Splash` ends, so their runs do not look for
deadlocks. All others do.

## Fairness

`DewInit`: `WF` of `LoginPassword` (PID 1 is always scheduled and somebody presses Enter), `SF`
of typing a good name: the user comes back to the prompt after every failed attempt and
the property is about users who keep trying. `NetUp`: `WF` of each invocation's own steps: a process that
is not killed runs on, and `udhcpc -n` gives up by itself. Starting one is
not fair, nor are kills and reboots. `Capture`: `WF` of the caller's steps, of the tool's writing and ending (it is called with options that
make it end: `-c 1`, `-W`, `-T`, `-n`), and of what goes to the background writing and letting go of its output; signals are not fair. `Splash`:
`WF` of its only process. `Dialogs`: `WF` of the bytes arriving and of the installer's steps; nobody has to press a key or to run the installer again.
The other specifications state safety only.

## Proofs

All are of the form `Spec => []P` or `Spec => [][A]_vars` (for the refinements, `Spec` implies the abstract
specification), for every value of the constants that meets the named assumptions of the module. Every invariant and
every action property that a run checks is proved but `LineIsTyped`; what the runs have besides is liveness.

### What is assumed

| Module | Assumption | Why the code justifies it |
| --- | --- | --- |
| `DewInit` | `NamesAssumption` | no name is both well-formed and with an unusable id; root has an account |
| `Drop` | `TreeAssumption`, `ListingAssumption` | a path is longer than that of the directory it is in; `build-pkgs.sh` lists the directories above each member, no file twice, and some file of each package |
| `Drop` | `MetaAssumption`, `MaxNamesAssumption` | no package is called like the `.meta` of another (`build-pkgs.sh` packs none such); a command has a name |
| `DropPair` | `PairAssumption` | those of `Drop` |
| `Installer`, `ShInstaller` | `DisksAssumption` | no disk is called like none; the medium has kernel and initramfs at most |
| `Capture` | `NamesAssumption`, `NumbersAssumption`, `SigpipeAssumption` | the processes are different ones; a pipe takes at least one write; exit codes are bytes, SIGPIPE is a signal |
| `NetUp` | `RunsAssumption` | the invocation at boot is one of them |
| `Lease` | `OffersAssumption`, `NothingAssumption` | an offer is an address, a router and a list of servers; the script has servers of its own to fall back on; "no route" is no route |
| `Lease`, for `Converges` only | `OneNetwork` | a hypothesis of the theorem, not of the module: the leases of one network go together. `MCLease` with `Many = TRUE` breaks it, and with it `Converges` (below) |
| `LineEditor` | `BytesAssumption` | the bytes of a sequence differ from each other; Enter, ESC and erase are no others |
| `Dialogs` | `KeyboardAssumption` | the byte escape is not a key: pressing ESC is the key `Esc`, which sends it |
| `Dialogs` | `NumbersAssumption`, `UnprintableAssumption` | one key at least may be pressed; keys of one unprintable byte are none of those with a meaning |
| `Scan` | `BssesAssumption`, `LengthAssumption` | a network is a name, a signal, a bit and a list of elements; a name that is printed has a length |
| `Splash` | `ModesAssumption`, `LogosAssumption` | a screen and a logo have at least a pixel each way, and their sizes are `int`s |
| `Splash` | `IntAssumption` | INT_MAX is a number; nothing else is assumed of it |

`MaxNames`, `Tries` and `MaxAhead` are any positive numbers, the other bounds (`MaxLen`, `MaxLine`, `MaxSeen` and the like) any natural numbers.

### How they go

* `DewInitProofs`: the invariant follows `tty`, `original` and `saved` through every place: who is
  at the prompt left raw settings; in every other place the cooked ones are in exactly one known
  variable while `dirty` is false (`RawInv`, `CookedInv`), and what has been settled about the account
  before a password is asked (`AccountInv`). Needed because the property speaks of `tty` at
  one place while the settings come from another, several steps earlier.
* `DropProofs`: for the package at work `WorkInv` says at each step which of its files
  are on disk and what is still to do; for every other package, `Settled`. A last unlink that fails, or a
  manifest that came out short, ends `clean`, and with it what is claimed. Exit code 0 (`ExitHonest`) speaks at the end of names that were done with long before: `HonestInv` says,
  while the loop runs, that every name it has passed is still in the state asked for, which holds because a step only
  touches the package at work, and a name that comes a second time is found done or refused. `NoEmptyDirLeft` needs the order in which directories are
  tried (`DirsInv`): one that was tried and is still there was not empty, and all that is left to try is no longer than it, so
  nothing still to be tried can empty it. That `Drop` implements `PackageDB` (`Refines`) goes over the status of one package at a
  time: a step either leaves every status and what is being worked on (a stutter), or begins, moves or ends the work on the
  current name, and `WorkInv` says which status it is moved to.
* `DropPairProofs`: the lemmas of `DropProofs` are used twice, once for each drop (`PA`, `PB`: the same module with other
  variables). What is added is that a step of one keeps the `WorkInv` of the other as long as they are at different packages:
  no file is in two packages, and a directory the other needs is never empty, or `tar` makes it again (`RemakeA`, `RemakeB`).
  Packages both were at are in `met` for good, and of them nothing is claimed.
* `InstallerProofs`: the invariant relates step, mounts, content and confirmation: during an installation the chosen
  disk is the confirmed one, its file system is the top of the stack of mounts and in it only once; what a step is past
  is on that disk unless it is in `hurt`; a marker with a `grub.cfg` means a whole system up to the files that are
  still being copied, and a Ctrl-C while they are puts the disk into `hurt` (`FailureNeverOffered`). `SequenceTheorems` gives
  the facts about the stack.
* `ShInstallerProofs`: as for `Installer`, plus what `cleanup` knows: the file systems on the target are those of earlier scripts
  and on top of them what the two variables say, except in the step between `mount` and its assignment.
  `WholeInv` (`SystemWhenOffered`) rests on the order of the steps: marker and configuration are there when `grub.cfg` is opened.
* `NetworkProofs`, `NetUp`: `LockHeld` is the strengthening of `MutualExclusion`; `TriesLeft` makes the bound on the
  counter inductive.
* `NetworkProofs`, `Capture`: what was written is what was read and what is in the pipe; whoever may still write holds the write end; and once the caller
  is past end of file there is no such process. The code follows from nobody but `Wait` taking the tool's status.
* `NetworkProofs`, `Lease`: addresses, route and servers are right only when both scripts have ended, so each invariant says of what is
  missing meanwhile that one of the clients is still going to put it there: `AddrInv` of an address, `RouteInv` of the
  route, `ServersInv` of each server of the last lease. `DevInv` (a route is over an interface with an address) is what makes
  `ip route del` and `add` of the two scripts commute well enough; `OneNetwork` is used where one script adds its route by
  the address the other has left. `MomentInv`, for `OkOfOneMoment`: as long as the three were not there together, what the test has found can only be
  what `netup`'s one client is still to take further (`Pending`): the route is not there yet, or the servers are being written.
* `InputProofs`, sequences: `FlattenSeq` of the community modules is a recursive function; that it has a value, only one, and what
  it is for one member more behind or one less in front is proved by induction over the length (`RecursionExists`,
  `RecursionUnique`, `FlattenProperties`). The library's induction theorems cannot be used, because they take an operator; for one set of
  numbers at a time the same follows from the well-foundedness of < (`SetInduction`, by `WFMin`).
* `InputProofs`, `LineEditor`: `TypeOK` and `ShownIsCurrent` are inductive; `EntersInv` says how many Enters may have been
  swallowed at each place of an escape sequence. The refinement is proved action by action from lemmas on a sequence
  with a gap (`Parts`, `Gap`, `GapBack`, `GapOn`, `InsertParts`, `RemoveParts`).
* `InputProofs`, `Dialogs`: `FirstKeyRead` is the core: while only keys `read_key` knows are pressed, the one or three bytes it
  has taken are those of the first key, since the first byte tells how many its key sends; so what is left is what the others
  sent, and what is answered is that key (`BytesOfKey`: `Decode` undoes `BytesOf`). From an unknown key on nothing is kept, and when nothing is left the
  invariant is whole again. `AccountInv` says for each screen what the prompts before it have settled.
* `InputProofs`, `Scan`: `ReadInv` says where in the output the parser is: between two networks or n lines into one, and what the table
  and `current` are there. After "BSS Load:" the row is in the table already and the rest goes into a network without a name,
  which `flush_current` drops; that is why its security may be wrong and its name and signal are not.
* `SplashProofs`: the invariant of the error-term loop says that `err` is `dx - dy` plus `dx` for each step in y minus `dy` for each in x, and
  that the point is in the rectangle of its segment; from it both the distance to the line and the square.
  The screen's size enters through lemmas on integer division, so the theorems hold for every resolution. `ImageSafe` needs besides that a
  product that fits an `int` is left as it is (`IntFits`), and holds for every `MaxInt`.

Only model-checked: `LineIsTyped`, whose reference is made of cardinalities of sets of positions, with lines of two keys; and `LoginCompletes`, `LockReleased`, `Returns`, `Boots` and `KeysAnswered`, which are liveness under fairness, which the prover
does not do. They hold on the instances of their runs.

## Disagreements

Where the code does not do what it, its messages or its documents say. Each is stated as a property of the module named; put it into that
module's configuration as INVARIANT or PROPERTY, and TLC shows how it fails. The checked properties name what they exclude because of it
(`cinBad`, `hurt`, `cut`, `excused`, `Astray`, `others`, `met`). Paths are below `app/`.

| Property | Module | What happens |
| --- | --- | --- |
| `LoginServed` | `DewInit` | One end of file at `login: ` (Ctrl-D) puts `std::cin` in a failed state nothing clears; `login_loop` spins without ever reading again (`init/system.cpp` 23-39). (Under `FairSpec`.) |
| `RemovedIsGone` | `Drop` | After a failed `unlink`, `remove` says "removed" and deletes the manifest (`drop/drop.cpp` 344-362); the manifest itself may be what stays, with exit code 0 (359). |
| `InstalledIsListed` | `Drop` | "installed" is said of a package whose manifest is short or absent, since nobody looks at the stream (285-294); a later `remove` leaves what it lost. |
| `MetaGoesWithPackage` | `Drop` | `drop remove vim.meta` is taken for a package, by a test of its path (162-164, 307), and removes the description of `vim` with exit code 0. |
| `AlreadyInstalledIsTrue` | `Drop` | After an interrupted `remove`, `install` says "already installed" and restores nothing (232-236). |
| `InstalledIsThere` | `DropPair` | Nothing locks `/var/drop`; "installed" is said of a package another `drop` has just removed (285-293). |
| `InstalledHasBootFiles` | `Installer` | `grub.cfg` names `/boot/initramfs.cpio.gz`, which the live image does not have there (`scripts/build-initramfs.sh` 167-169), and the copy silently skips it (`installer/dew-install.cpp` 730, 738). |
| `OfferedIsWhole` | `Installer` | Ctrl-C, a power cut or an ignored error between `grub.cfg` and the last copy leaves a disk the boot menu offers without its kernel (731, 735-740, 228). |
| `GrubNamesRoot` | `Installer`, with a disk in `Numbered` | `root=` is the disk's name and `2`, without the `p` of `part_names` (729, 561-568). |
| `FailureIsReported` | `Installer` | An `sfdisk` that exits before reading its script kills the installer with SIGPIPE, console raw (543). |
| `AlwaysAnswered` | `Dialogs` | ESC alone is never answered and takes the next two keys with it (175-184), though the status line says "ESC back" (228). |
| `AlreadyStartingIsTrue` | `NetUp` | A killed `netup` leaves its lock on the root disk; no later one, after a reboot either, gets past it (`installer/dew-install` 777-782). |
| `OfferedIsWhole` | `ShInstaller` | The boot menu offers a disk as soon as `grub.cfg` is opened (931), before its text and before the boot loader (967-989); a failure or Ctrl-C in between leaves it so, though the marker is meant for installed systems. |
| `InterruptUnmounts` | `ShInstaller` | A signal between `mount` and the assignment of `MOUNTED_ROOT` or `MOUNTED_ESP` leaves the target mounted (583-584, 591-592), in spite of the trap (56). |
| `EchoGivenBack` | `ShInstaller` | Ctrl-C at a password question leaves the console without echo (346-349, 38-46). |
| `RefusalIsSaid` | `ShInstaller` | `fail` inside `$(ask_password_hash)` prints into the variable; the script ends without a word (357, 371). |
| `OkIsOfOneMoment` | `Lease` | With two clients at work during one `network test`, "ok" may be said of an address, a route and servers that never were there together (`init/network.cpp` 400-402, 416-428). |
| `Converges` | `Lease`, `Many = TRUE` | With two servers in one network, two clients given leases end with no default route (871-874). |
| `NetlogShowsStartup` | `Lease` | `netlog` prints `/tmp/netup.log`; the start is logged to `/var/log/dew-network.log` (`init/shell.cpp` 857, 882). |
| `SecurityShown` | `Scan` | "BSS Load:" is taken for the beginning of a network; what follows it is lost (`init/network.cpp` 486). |

## Not modelled, and why

* File and information commands, `ps`, `dewfetch`, list and search of `drop`: one system call and output each.
* The colours and pixel formats of the splash, the characters of the PPM header, the drawing of the installer's screens.
* `network detect`, `status` and `up`, and the file `connect-debug` writes: output of tools, and data.
* `app/sbin/dew-install`: an older copy nothing builds.
* Netmasks, passwords' contents, the wording of what tools print: data no property tells apart.
* Host scripts: straight lines. `build-pkgs.sh` run again after an interruption takes a piece of an archive for packed, and its second run describes the
  shim of vim as the editor (`scripts/build-pkgs.sh` 20, 32, 73, 94); it is read, not modelled.
* The zombies of orphans PID 1 adopts, which it never waits for; an end of file on the console; keys typed ahead of the screen "Done", which it takes as answers.
* `kill_wpa_supplicant` and `killall` under a lease: the address stays, the link is the kernel's; nothing promises more.
* The compiler, `tar`, `sfdisk`, `mkfs`, `mount`, GRUB, `udhcpc`: by what they do to the state when they succeed and fail.

## Plan

Done: the modules above, and a proof of every safety property a run checks, refinements included, but for `LineIsTyped`.

Left: `LineIsTyped` for lines of any length (the positions that stay, as one key is added); action properties on what a step may never do where the invariants leave it open (a manifest is only ever lost by
the command that removes it; `resolv.conf` is never empty once a lease was written but for the moment between truncating and
writing); the strengthened invariants as invariants of small runs; `Lease` with a lease that is renewed; `build-pkgs.sh` and `fetch-src.sh`, interrupted
and repeated; pure algorithms against reference definitions (`parse_command`, `to_int`), for which `SetInduction` is there.
