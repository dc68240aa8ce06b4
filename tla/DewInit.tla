------------------------------ MODULE DewInit ------------------------------
(***************************************************************************)
(* PID 1 of DewOS: boot (init.cpp), the login flow (system.cpp) and the    *)
(* command loop of the built-in shell (shell.cpp), seen as the owner of    *)
(* one shared object, the line settings of the console.                    *)
(*                                                                         *)
(* The shell reads keys in raw mode and must hand a cooked terminal to     *)
(* whatever it starts or asks; enable_raw_mode remembers the settings to   *)
(* go back to in ONE global, original_termios, overwritten on every call.  *)
(* Children run on the same console and may leave it in any state.         *)
(***************************************************************************)
EXTENDS Naturals

CONSTANTS
  Names,   \* what can be typed at a "login: " prompt or given to su
  Good,    \* names with a well-formed passwd line and a shadow line
  BadId    \* names whose passwd line has a uid or gid std::stoi throws on

ASSUME NamesAssumption == /\ Good \subseteq Names
                          /\ BadId \subseteq Names
                          /\ Good \cap BadId = {}
                          /\ "root" \in Names

VARIABLES
  pc,            \* where PID 1 is
  job,           \* the foreground child, or what the current question is for
  tty,           \* line settings of the console
  original,      \* the global original_termios
  saved,         \* settings the current reader of the console will put back
  held,          \* is saved in use?
  dirty,         \* history: a child exited or died leaving other settings
  cinBad,        \* std::cin has met end of file; nothing ever clears it
  asked,         \* the name being authenticated
  user,          \* current_user
  rootfs_ready,  \* the global of that name
  marker,        \* does /etc/dewos-installed exist?
  installer      \* does /proc/cmdline say dew.mode=installer?

vars == <<pc, job, tty, original, saved, held, dirty, cinBad, asked, user,
          rootfs_ready, marker, installer>>
ttyVars == <<tty, original, saved, held>>

-----------------------------------------------------------------------------
(* Line settings: ICANON, ECHO and output post-processing.                 *)

Settings == [canon : BOOLEAN, echo : BOOLEAN, opost : BOOLEAN]
Cooked == [canon |-> TRUE, echo |-> TRUE, opost |-> TRUE]
Zeroed == [canon |-> FALSE, echo |-> FALSE, opost |-> FALSE]

Raw(t) == [t EXCEPT !.canon = FALSE, !.echo = FALSE]
KiloRaw(t) == [Raw(t) EXCEPT !.opost = FALSE]
NoEcho(t) == [t EXCEPT !.echo = FALSE]

\* enable_raw_mode when the console has settings t: remember them, go raw.
enable_raw_mode(t) == /\ original' = t
                      /\ tty' = Raw(t)

Jobs == {"install", "sh", "mount", "umount", "drop", "rm", "kilo"}
Pcs == {"setup", "boot", "halted", "panic", "off", "login", "password",
        "prompt", "child", "su_password", "ask", "ask_password"}

TypeOK ==
  /\ pc \in Pcs
  /\ job \in Jobs \cup {"none", "boot_install"}
  /\ tty \in Settings
  /\ original \in Settings
  /\ saved \in Settings
  /\ held \in BOOLEAN
  /\ dirty \in BOOLEAN
  /\ cinBad \in BOOLEAN
  /\ asked \in Names
  /\ user \in Names
  /\ rootfs_ready \in BOOLEAN
  /\ marker \in BOOLEAN
  /\ installer \in BOOLEAN

Init ==
  /\ pc = "setup"
  /\ job = "none"
  /\ tty = Cooked
  /\ original = Zeroed
  /\ saved = Zeroed
  /\ held = FALSE
  /\ dirty = FALSE
  /\ cinBad = FALSE
  /\ asked = "root"
  /\ user = "root"
  /\ rootfs_ready = FALSE
  /\ marker \in BOOLEAN
  /\ installer \in BOOLEAN

-----------------------------------------------------------------------------
(* Boot.                                                                   *)

\* setup_console and mount_basic_fs: a node that cannot be made or a console
\* that cannot be opened ends in critical_error, which never returns; a
\* failed mount is only reported.
setup_console ==
  /\ pc = "setup"
  /\ pc' \in {"boot", "halted"}
  /\ UNCHANGED <<job, ttyVars, dirty, cinBad, asked, user, rootfs_ready,
                 marker, installer>>

\* main on an installed system: network in the background, then login_loop.
BootInstalled ==
  /\ pc = "boot"
  /\ marker
  /\ rootfs_ready' = TRUE
  /\ pc' = "login"
  /\ UNCHANGED <<job, ttyVars, dirty, cinBad, asked, user, marker, installer>>

\* main on the installer medium: fork the installer; a failed fork falls
\* through to the shell at once.
BootInstaller ==
  /\ pc = "boot"
  /\ ~marker
  /\ installer
  /\ rootfs_ready' = FALSE
  /\ \/ pc' = "child" /\ job' = "boot_install" /\ UNCHANGED ttyVars
     \/ pc' = "prompt" /\ enable_raw_mode(tty) /\ UNCHANGED <<job, saved, held>>
  /\ UNCHANGED <<dirty, cinBad, asked, user, marker, installer>>

\* main without a root file system: a root shell, no login.
BootLive ==
  /\ pc = "boot"
  /\ ~marker
  /\ ~installer
  /\ rootfs_ready' = FALSE
  /\ user' = "root"
  /\ enable_raw_mode(tty)
  /\ pc' = "prompt"
  /\ UNCHANGED <<job, saved, held, dirty, cinBad, asked, marker, installer>>

-----------------------------------------------------------------------------
(* Reading from std::cin.                                                  *)

\* read_password switches ECHO off and remembers the settings it found.
HideInput(t) == /\ saved' = t
                /\ held' = TRUE
                /\ tty' = NoEcho(t)

\* A getline on std::cin may meet end of file, and every later one then
\* fails at once.
ReadCin == cinBad' \in {cinBad, TRUE}

(* Login: login_once inside login_loop.                                    *)

\* A name is typed and read_password starts.  (An empty line changes nothing:
\* login_once returns false and login_loop calls it again.)
TypeName(n) ==
  /\ pc = "login"
  /\ ~cinBad
  /\ asked' = n
  /\ HideInput(tty)
  /\ pc' = "password"
  /\ UNCHANGED <<job, original, dirty, cinBad, user, rootfs_ready, marker,
                 installer>>

\* End of file instead of a name: an empty name for ever after.
LoginEof ==
  /\ pc = "login"
  /\ ~cinBad
  /\ cinBad' = TRUE
  /\ UNCHANGED <<pc, job, ttyVars, dirty, asked, user, rootfs_ready, marker,
                 installer>>

\* The password line: settings restored, the user looked up, and either the
\* next attempt, the shell, or an exception nobody catches in PID 1.
\* verify_password accepts every password.
LoginPassword_NextAttempt ==
  /\ pc = "password"
  /\ ReadCin
  /\ held' = FALSE
  /\ tty' = saved
  /\ pc' = IF asked \in BadId THEN "panic" ELSE "login"
  /\ UNCHANGED <<job, original, saved, dirty, asked, user, rootfs_ready, marker,
                 installer>>

LoginPassword ==
  /\ pc = "password"
  /\ ReadCin
  /\ held' = FALSE
  /\ \/ /\ asked \in Good
        /\ user' = asked
        /\ enable_raw_mode(saved)
        /\ pc' = "prompt"
     \/ /\ asked \notin Good
        /\ tty' = saved
        /\ pc' = IF asked \in BadId THEN "panic" ELSE "login"
        /\ UNCHANGED <<user, original>>
  /\ UNCHANGED <<job, saved, dirty, asked, rootfs_ready, marker, installer>>

-----------------------------------------------------------------------------
(* Commands of the shell that hand the console to somebody else.           *)

HandsOver == Jobs \ {"kilo"}

\* disable_raw_mode, fork, execv, waitpid.
Spawn_StillRaw(p) ==
  /\ pc = "prompt"
  /\ pc' = "child"
  /\ job' = p
  /\ held' = FALSE
  /\ UNCHANGED <<tty, original, saved, dirty, cinBad, asked, user,
                 rootfs_ready, marker, installer>>

Spawn(p) ==
  /\ pc = "prompt"
  /\ pc' = "child"
  /\ job' = p
  /\ tty' = original
  /\ held' = FALSE
  /\ UNCHANGED <<original, saved, dirty, cinBad, asked, user, rootfs_ready,
                 marker, installer>>

\* fork fails: raw mode is switched on again before returning.
SpawnFails_LeavesCooked(p) ==
  /\ pc = "prompt"
  /\ tty' = original
  /\ UNCHANGED <<pc, job, original, saved, held, dirty, cinBad, asked, user,
                 rootfs_ready, marker, installer>>

SpawnFails(p) ==
  /\ pc = "prompt"
  /\ enable_raw_mode(original)
  /\ UNCHANGED <<pc, job, saved, held, dirty, cinBad, asked, user,
                 rootfs_ready, marker, installer>>

\* kilo_editor forks without leaving raw mode.
SpawnKilo ==
  /\ pc = "prompt"
  /\ pc' = "child"
  /\ job' = "kilo"
  /\ held' = FALSE
  /\ UNCHANGED <<tty, original, saved, dirty, cinBad, asked, user,
                 rootfs_ready, marker, installer>>

\* cmd_su: refused without a root file system; load_user_from_files comes
\* before the password; a bad id throws here too.
Su_NotReady(n) ==
  /\ pc = "prompt"
  /\ \/ /\ n \in Good
        /\ asked' = n
        /\ HideInput(original)
        /\ pc' = "su_password"
     \/ /\ n \in BadId
        /\ pc' = "panic"
        /\ UNCHANGED <<asked, tty, saved, held>>
  /\ UNCHANGED <<job, original, dirty, cinBad, user, rootfs_ready, marker,
                 installer>>

Su(n) ==
  /\ pc = "prompt"
  /\ rootfs_ready
  /\ \/ /\ n \in Good
        /\ asked' = n
        /\ HideInput(original)
        /\ pc' = "su_password"
     \/ /\ n \in BadId
        /\ pc' = "panic"
        /\ UNCHANGED <<asked, tty, saved, held>>
  /\ UNCHANGED <<job, original, dirty, cinBad, user, rootfs_ready, marker,
                 installer>>

SuPassword ==
  /\ pc = "su_password"
  /\ ReadCin
  /\ held' = FALSE
  /\ enable_raw_mode(saved)
  /\ user' = asked
  /\ pc' = "prompt"
  /\ UNCHANGED <<job, saved, dirty, asked, rootfs_ready, marker, installer>>

\* cmd_wifi_connect_debug without an SSID: two getlines, then read_password.
AskWifi ==
  /\ pc = "prompt"
  /\ tty' = original
  /\ pc' = "ask"
  /\ UNCHANGED <<job, original, saved, held, dirty, cinBad, asked, user,
                 rootfs_ready, marker, installer>>

AnswerWifi ==
  /\ pc = "ask"
  /\ ReadCin
  /\ \/ /\ ~cinBad
        /\ HideInput(tty)
        /\ pc' = "ask_password"
        /\ UNCHANGED original
     \/ /\ enable_raw_mode(tty)          \* no SSID
        /\ pc' = "prompt"
        /\ UNCHANGED <<saved, held>>
  /\ UNCHANGED <<job, dirty, asked, user, rootfs_ready, marker, installer>>

WifiPassword ==
  /\ pc = "ask_password"
  /\ ReadCin
  /\ held' = FALSE
  /\ enable_raw_mode(saved)
  /\ pc' = "prompt"
  /\ UNCHANGED <<job, saved, dirty, asked, user, rootfs_ready, marker,
                 installer>>

\* touch and rm of the marker, from the prompt or inside a child.
EditMarker ==
  /\ \/ pc = "prompt"
     \/ pc = "child" /\ job \in {"sh", "rm", "boot_install", "install"}
  /\ marker' = ~marker
  /\ UNCHANGED <<pc, job, ttyVars, dirty, cinBad, asked, user, rootfs_ready,
                 installer>>

\* sys_poweroff, sys_reboot.
Power ==
  /\ pc = "prompt"
  /\ pc' = "off"
  /\ UNCHANGED <<job, ttyVars, dirty, cinBad, asked, user, rootfs_ready,
                 marker, installer>>

-----------------------------------------------------------------------------
(* The foreground child, as the console sees it.                           *)

Installers == {"install", "boot_install"}

\* Term::enable_raw of the installer; the raw mode of the external kilo.
ChildRaw ==
  /\ pc = "child"
  /\ job \in Installers \cup {"kilo"}
  /\ ~held
  /\ held' = TRUE
  /\ saved' = tty
  /\ tty' = IF job = "kilo" THEN KiloRaw(tty) ELSE Raw(tty)
  /\ UNCHANGED <<pc, job, original, dirty, cinBad, asked, user, rootfs_ready,
                 marker, installer>>

\* Term::disable_raw, before the installer opens a shell or returns from main.
ChildCooked ==
  /\ pc = "child"
  /\ held
  /\ held' = FALSE
  /\ tty' = saved
  /\ UNCHANGED <<pc, job, original, saved, dirty, cinBad, asked, user,
                 rootfs_ready, marker, installer>>

\* Somebody types stty in /bin/sh, ours or the installer's.
ChildStty(t) ==
  /\ pc = "child"
  /\ job \in Installers \cup {"sh"}
  /\ ~held
  /\ tty' = t
  /\ dirty' = TRUE
  /\ UNCHANGED <<pc, job, original, saved, held, cinBad, asked, user,
                 rootfs_ready, marker, installer>>

\* waitpid returns.  A child that had the terminal raw and died (held) leaves
\* it so.  Every command but kilo then calls enable_raw_mode; cmd_install
\* looks for the marker again, main does not.
Reaped ==
  /\ pc = "child"
  /\ pc' = "prompt"
  /\ job' = "none"
  /\ held' = FALSE
  /\ dirty' = (dirty \/ held)
  /\ IF job = "kilo" THEN UNCHANGED <<tty, original>> ELSE enable_raw_mode(tty)
  /\ rootfs_ready' = IF job = "install" THEN marker ELSE rootfs_ready
  /\ UNCHANGED <<saved, cinBad, asked, user, marker, installer>>

-----------------------------------------------------------------------------
Next ==
  \/ setup_console \/ BootInstalled \/ BootInstaller \/ BootLive
  \/ \E n \in Names : TypeName(n) \/ Su(n)
  \/ LoginEof \/ LoginPassword \/ SuPassword
  \/ \E p \in HandsOver : Spawn(p) \/ SpawnFails(p)
  \/ SpawnKilo \/ AskWifi \/ AnswerWifi \/ WifiPassword
  \/ EditMarker \/ Power
  \/ ChildRaw \/ ChildCooked \/ Reaped
  \/ \E t \in Settings : ChildStty(t)

Spec == Init /\ [][Next]_vars

\* PID 1 runs whenever it can, and a person in front of "login: " keeps trying
\* until a valid name has been typed.
FairSpec ==
  /\ Spec
  /\ WF_vars(LoginPassword)
  /\ SF_vars(\E n \in Good : TypeName(n))

-----------------------------------------------------------------------------
(* Properties.                                                             *)

\* read_line always finds the console raw and silent, however the last child
\* ended and whether or not the command put raw mode back itself (kilo_editor
\* relies on kilo to do so).
RawAtPrompt == pc = "prompt" => ~tty.canon /\ ~tty.echo

\* Init never loses the cooked settings by itself: as long as every child
\* restored what it changed, each program it starts and each question it asks
\* gets a line-buffered terminal.  A second enable_raw_mode without
\* disable_raw_mode in between would save the raw settings as the original.
CookedPreserved ==
  ~dirty =>
    /\ pc = "child" /\ job # "kilo" /\ ~held => tty = Cooked
    /\ pc = "ask" => tty = Cooked
    /\ pc \in {"password", "su_password", "ask_password"} =>
         tty = NoEcho(Cooked) /\ saved = Cooked

\* The session changes hands only through a password prompt for an account
\* load_user_from_files accepted, and only when rootfs_ready held.
IdentityFromFiles ==
  [][user' # user => /\ pc \in {"password", "su_password"}
                     /\ user' = asked /\ user' \in Good
                     /\ rootfs_ready]_vars

\* A user who keeps trying gets a shell, unless std::cin has met end of file
\* or an unreadable passwd line has killed PID 1.
LoginCompletes == pc = "login" ~> pc \in {"prompt", "panic"} \/ cinBad

\* The same without the end-of-file escape: the login flow the README lists as
\* working serves whoever types a valid name.
LoginServed == pc = "login" ~> pc \in {"prompt", "panic"}
=============================================================================
