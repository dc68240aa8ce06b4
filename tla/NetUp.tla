------------------------------- MODULE NetUp -------------------------------
(***************************************************************************)
(* Bringing up the network of an installed DewOS: PID 1 starts netup, or   *)
(* wifi-up which ends in netup, at boot and never waits for it; users      *)
(* start more of them.  The scripts are those app/installer/dew-install    *)
(* writes to /sbin; the lock that keeps them apart is a directory under    *)
(* /run, which on an installed system is a directory of the root disk.     *)
(*                                                                         *)
(* The shell's own "network dhcp" runs the DHCP client without the lock.   *)
(***************************************************************************)
EXTENDS Naturals, FiniteSets

CONSTANTS
  Runs,    \* invocations of netup that may be alive at once
  Boot,    \* the one PID 1 starts
  None,    \* no invocation
  Tries    \* how often netup asks for a lease

ASSUME RunsAssumption == Boot \in Runs /\ None \notin Runs
ASSUME TriesAssumption == Tries \in Nat \ {0}

VARIABLES
  pc,          \* of each invocation
  try,         \* failed attempts of each
  lock,        \* does /run/dew-network.lock exist?
  holder,      \* history: the invocation that made it, None when it is gone
  supplicant,  \* is a wpa_supplicant running?
  client,      \* is the shell's own DHCP client at work?
  lease,       \* is the interface configured?
  installed    \* rootfs_ready and a network that is not "skip"

vars == <<pc, try, lock, holder, supplicant, client, lease, installed>>
world == <<supplicant, client, lease, installed>>

Pcs == {"off", "kill", "supplicant", "lock", "link", "dhcp", "sleep", "unlock"}
Critical == {"link", "dhcp", "sleep", "unlock"}

TypeOK ==
  /\ pc \in [Runs -> Pcs]
  /\ try \in [Runs -> 0 .. Tries]
  /\ lock \in BOOLEAN
  /\ holder \in Runs \cup {None}
  /\ supplicant \in BOOLEAN
  /\ client \in BOOLEAN
  /\ lease \in BOOLEAN
  /\ installed \in BOOLEAN

Init ==
  /\ pc = [p \in Runs |-> "off"]
  /\ try = [p \in Runs |-> 0]
  /\ lock = FALSE
  /\ holder = None
  /\ supplicant = FALSE
  /\ client = FALSE
  /\ lease = FALSE
  /\ installed \in BOOLEAN

Goto(p, s) == pc' = [pc EXCEPT ![p] = s]

-----------------------------------------------------------------------------
\* start_network_if_installed, or somebody in a shell; wifi-up or netup.
Start(p) ==
  /\ pc[p] = "off"
  /\ p = Boot => installed
  /\ \E s \in {"kill", "lock"} : Goto(p, s)
  /\ try' = [try EXCEPT ![p] = 0]
  /\ UNCHANGED <<lock, holder, world>>

\* wifi-up: killall wpa_supplicant, whoever started it.
KillSupplicant(p) ==
  /\ pc[p] = "kill"
  /\ Goto(p, "supplicant")
  /\ supplicant' = FALSE
  /\ UNCHANGED <<try, lock, holder, client, lease, installed>>

\* wpa_supplicant -B, which fails while another one runs; then "exit 1".
StartSupplicant(p) ==
  /\ pc[p] = "supplicant"
  /\ \/ ~supplicant /\ supplicant' = TRUE /\ Goto(p, "lock")
     \/ Goto(p, "off") /\ UNCHANGED supplicant
  /\ UNCHANGED <<try, lock, holder, client, lease, installed>>

\* Variant of TakeLock: mkdir -p, which always succeeds.
TakeLock_MkdirP(p) ==
  /\ pc[p] = "lock"
  /\ Goto(p, "link") /\ lock' = TRUE /\ holder' = p
  /\ UNCHANGED <<try, world>>

\* mkdir of the lock, which succeeds for one only; the others exit 0.
TakeLock(p) ==
  /\ pc[p] = "lock"
  /\ IF lock THEN Goto(p, "off") /\ UNCHANGED <<lock, holder>>
     ELSE Goto(p, "link") /\ lock' = TRUE /\ holder' = p
  /\ UNCHANGED <<try, world>>

\* ip link set up; neither ip nor ifconfig can do it, or udhcpc is missing:
\* exit 1, through the trap.
SetLink(p) ==
  /\ pc[p] = "link"
  /\ \E s \in {"dhcp", "unlock"} : Goto(p, s)
  /\ UNCHANGED <<try, lock, holder, world>>

\* udhcpc -n: a lease, and default.script configures the interface; or none.
Dhcp(p) ==
  /\ pc[p] = "dhcp"
  /\ \/ /\ Goto(p, "unlock")
        /\ lease' = TRUE
        /\ UNCHANGED try
     \/ /\ try' = [try EXCEPT ![p] = @ + 1]
        /\ lease' = FALSE                  \* "deconfig" flushes the address
        /\ Goto(p, "sleep")
  /\ UNCHANGED <<lock, holder, supplicant, client, installed>>

\* sleep 2, then the next try if there is one.
Sleep(p) ==
  /\ pc[p] = "sleep"
  /\ Goto(p, IF try[p] < Tries THEN "dhcp" ELSE "unlock")
  /\ UNCHANGED <<try, lock, holder, world>>

\* Variant of Unlock: only the successful exit removes the lock.
Unlock_NotOnError(p) ==
  /\ pc[p] = "unlock"
  /\ Goto(p, "off")
  /\ IF try[p] = Tries THEN UNCHANGED <<lock, holder>>
     ELSE lock' = FALSE /\ holder' = None
  /\ UNCHANGED <<try, world>>

\* trap ... EXIT
Unlock(p) ==
  /\ pc[p] = "unlock"
  /\ Goto(p, "off")
  /\ lock' = FALSE
  /\ holder' = None
  /\ UNCHANGED <<try, world>>

\* A signal: the shell runs no EXIT trap, the directory stays.
Kill(p) ==
  /\ pc[p] # "off"
  /\ Goto(p, "off")
  /\ holder' = IF holder = p THEN None ELSE holder
  /\ UNCHANGED <<try, lock, world>>

-----------------------------------------------------------------------------
\* "network dhcp" and connect-debug in the shell: kill_wpa_supplicant and a new
\* one, or neither, then udhcpc, all without the lock.
ShellDhcp ==
  /\ ~client
  /\ client' = TRUE
  /\ supplicant' \in {supplicant, TRUE}
  /\ UNCHANGED <<pc, try, lock, holder, lease, installed>>

ShellDhcpEnds ==
  /\ client
  /\ client' = FALSE
  /\ lease' \in BOOLEAN
  /\ UNCHANGED <<pc, try, lock, holder, supplicant, installed>>

\* The machine goes down, orderly (sys_reboot, which stops nobody) or not, and
\* comes up again: processes and addresses are gone, directories are not.
Reboot ==
  /\ pc' = [p \in Runs |-> "off"]
  /\ try' = [p \in Runs |-> 0]
  /\ holder' = None
  /\ supplicant' = FALSE
  /\ client' = FALSE
  /\ lease' = FALSE
  /\ UNCHANGED <<lock, installed>>

-----------------------------------------------------------------------------
Step(p) == \/ KillSupplicant(p) \/ StartSupplicant(p) \/ TakeLock(p)
           \/ SetLink(p) \/ Dhcp(p) \/ Sleep(p) \/ Unlock(p)

Next == \/ \E p \in Runs : Start(p) \/ Step(p) \/ Kill(p)
        \/ ShellDhcp \/ ShellDhcpEnds \/ Reboot

Spec == Init /\ [][Next]_vars

\* Processes that are not killed go on running, and udhcpc -n ends.
FairSpec == Spec /\ \A p \in Runs : WF_vars(Step(p))

-----------------------------------------------------------------------------
(* Properties.                                                             *)

\* Two netups never configure the interface at the same time, however many are
\* started, killed, or fail.
MutualExclusion ==
  \A p, q \in Runs : pc[p] \in Critical /\ pc[q] \in Critical => p = q

\* Whoever configures the interface holds the lock, so that nobody else's exit
\* can have removed it.
LockHeld == \A p \in Runs : pc[p] \in Critical => lock /\ holder = p

\* Every netup that is not killed gives the lock back, also when there is no
\* DHCP server.
LockReleased == \A p \in Runs : holder = p ~> holder # p

-----------------------------------------------------------------------------
\* "network already starting" is logged only while some netup is starting it.
AlreadyStartingIsTrue ==
  [][\A p \in Runs : pc[p] = "lock" /\ pc'[p] = "off" /\ lock /\ UNCHANGED holder
       => \E q \in Runs \ {p} : pc[q] \in Critical]_vars
=============================================================================
