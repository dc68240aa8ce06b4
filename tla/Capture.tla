------------------------------ MODULE Capture ------------------------------
(***************************************************************************)
(* How PID 1 and the installer run a tool and take its output: run_command *)
(* of app/init/network.cpp and run_capture of the installer.  A pipe, a    *)
(* child whose output and errors go into it, read until end of file, then  *)
(* waitpid for that child alone.                                           *)
(*                                                                         *)
(* End of file is when NOBODY holds the write end any more: not the caller *)
(* itself, and none of the programs the tool may leave in the background,  *)
(* as wpa_supplicant -B does.                                              *)
(***************************************************************************)
EXTENDS Integers

CONSTANTS
  Daemons,     \* programs a tool may leave running
  Tool,        \* the child
  Netup,       \* PID 1's other child, which brings up the network
  Capacity,    \* what the pipe holds
  MaxWritten,  \* how much a process writes at most
  Exits,       \* exit codes
  Signals      \* signals that end a process

ASSUME NamesAssumption ==
  Tool \notin Daemons /\ Netup \notin Daemons \cup {Tool} /\ "caller" \notin Daemons \cup {Tool}
ASSUME NumbersAssumption ==
  Capacity \in Nat \ {0} /\ MaxWritten \in Nat /\ Exits \subseteq 0 .. 255 /\ Signals \subseteq 1 .. 64

SIGPIPE == 13
ASSUME SigpipeAssumption == SIGPIPE \in Signals

VARIABLES
  at,       \* where the caller is
  caller,   \* "run_command" in PID 1 or "run_capture" in the installer
  state,    \* of each process: not there, running, or dead and not waited for
  status,   \* how each process ended last
  todo,     \* how much each process still wants to write
  holders,  \* who holds the write end: processes, and "caller"
  pipe,     \* how much is in the pipe
  written,  \* history: how much the processes of this call have written
  output,   \* how much result.output holds
  code,     \* result.code
  forked,   \* history: did the last call get as far as a child?
  broken    \* history: did a process ever write into a pipe nobody reads?

data == <<todo, pipe, written, output>>
captureVars == <<at, caller, state, status, data, holders, code, forked, broken>>

Writers == Daemons \cup {Tool}
Processes == Writers \cup {Netup}
Statuses == [kind : {"exit"}, n : Exits] \cup [kind : {"signal"}, n : Signals]

CaptureTypeOK ==
  /\ at \in {"idle", "forked", "read", "wait"}
  /\ caller \in {"run_command", "run_capture"}
  /\ state \in [Processes -> {"none", "running", "zombie"}]
  /\ status \in [Processes -> Statuses]
  /\ todo \in [Writers -> 0 .. MaxWritten]
  /\ holders \subseteq Writers \cup {"caller"}
  /\ pipe \in 0 .. Capacity
  /\ written \in Nat
  /\ output \in 0 .. written
  /\ code \in -1 .. 255
  /\ forked \in BOOLEAN
  /\ broken \in BOOLEAN

\* What the caller makes of a status; run_capture does not look at signals.
CodeOf(st) ==
  IF st.kind = "exit" THEN st.n
  ELSE IF caller = "run_command" THEN 128 + st.n ELSE -1

\* RunResult and ExecResult before anything has happened.
NoCode == IF caller = "run_command" THEN 127 ELSE -1

CaptureInit ==
  /\ at = "idle"
  /\ caller \in {"run_command", "run_capture"}
  /\ state = [p \in Processes |-> "none"]
  /\ status = [p \in Processes |-> [kind |-> "signal", n |-> SIGPIPE]]
  /\ todo = [p \in Writers |-> 0]
  /\ holders = {}
  /\ pipe = 0
  /\ written = 0
  /\ output = 0
  /\ code = NoCode
  /\ forked = FALSE
  /\ broken = FALSE

-----------------------------------------------------------------------------
(* The caller.                                                             *)

\* No such command, no pipe or no process.
CallFails ==
  /\ at = "idle"
  /\ code' = NoCode
  /\ forked' = FALSE
  /\ UNCHANGED <<at, caller, state, status, data, holders, broken>>

Call ==
  /\ at = "idle"
  /\ state[Tool] = "none"
  /\ at' = "forked"
  /\ state' = [state EXCEPT ![Tool] = "running"]
  /\ \E k \in 0 .. MaxWritten : todo' = [todo EXCEPT ![Tool] = k]
  /\ holders' = {"caller", Tool}
  /\ pipe' = 0
  /\ written' = 0
  /\ output' = 0
  /\ code' = NoCode
  /\ forked' = TRUE
  /\ UNCHANGED <<caller, status, broken>>

CloseWriteEnd ==
  /\ at = "forked"
  /\ at' = "read"
  /\ holders' = holders \ {"caller"}
  /\ UNCHANGED <<caller, state, status, data, code, forked, broken>>

\* read takes some of what is there.
Read_Last ==
  /\ at = "read"
  /\ pipe > 0
  /\ \E n \in 1 .. pipe : pipe' = pipe - n /\ output' = n
  /\ UNCHANGED <<at, caller, state, status, todo, written, holders, code, forked, broken>>

Read_AfterTool ==
  /\ at = "read"
  /\ pipe > 0
  /\ state[Tool] = "zombie"
  /\ \E n \in 1 .. pipe : pipe' = pipe - n /\ output' = output + n
  /\ UNCHANGED <<at, caller, state, status, todo, written, holders, code, forked, broken>>

Read ==
  /\ at = "read"
  /\ pipe > 0
  /\ \E n \in 1 .. pipe : pipe' = pipe - n /\ output' = output + n
  /\ UNCHANGED <<at, caller, state, status, todo, written, holders, code, forked, broken>>

\* read returns 0 and the read end is closed.
EndOfFile ==
  /\ at = "read"
  /\ pipe = 0
  /\ holders = {}
  /\ at' = "wait"
  /\ UNCHANGED <<caller, state, status, data, holders, code, forked, broken>>

Wait_AnyChild ==
  /\ at = "wait"
  /\ \E p \in {Tool, Netup} :
       /\ state[p] = "zombie"
       /\ state' = [state EXCEPT ![p] = "none"]
       /\ code' = CodeOf(status[p])
  /\ at' = "idle"
  /\ UNCHANGED <<caller, status, data, holders, forked, broken>>

\* waitpid for this child alone.
Wait ==
  /\ at = "wait"
  /\ state[Tool] = "zombie"
  /\ state' = [state EXCEPT ![Tool] = "none"]
  /\ code' = CodeOf(status[Tool])
  /\ at' = "idle"
  /\ UNCHANGED <<caller, status, data, holders, forked, broken>>

-----------------------------------------------------------------------------
(* The others.                                                             *)

Ends(p, st) ==
  /\ state[p] = "running"
  /\ state' = [state EXCEPT ![p] = "zombie"]
  /\ status' = [status EXCEPT ![p] = st]
  /\ holders' = holders \ {p}
  /\ UNCHANGED <<at, caller, data, code, forked>>

\* A full pipe blocks the writer, one without a reader ends it.
Write(p) ==
  /\ p \in holders
  /\ todo[p] > 0
  /\ IF at \in {"forked", "read"}
     THEN /\ pipe < Capacity
          /\ pipe' = pipe + 1
          /\ written' = written + 1
          /\ todo' = [todo EXCEPT ![p] = @ - 1]
          /\ UNCHANGED <<at, caller, state, status, output, holders, code, forked, broken>>
     ELSE Ends(p, [kind |-> "signal", n |-> SIGPIPE]) /\ broken' = TRUE

Exit(p) ==
  /\ p \in Writers => todo[p] = 0
  /\ \E n \in Exits : Ends(p, [kind |-> "exit", n |-> n])
  /\ UNCHANGED broken

\* kill_wpa_supplicant, or any other signal.
Signal(p) ==
  /\ \E n \in Signals : Ends(p, [kind |-> "signal", n |-> n])
  /\ UNCHANGED broken

\* The tool leaves a program in the background, its output still this pipe.
Leave(d) ==
  /\ state[Tool] = "running"
  /\ state[d] = "none"
  /\ state' = [state EXCEPT ![d] = "running"]
  /\ \E k \in 0 .. MaxWritten : todo' = [todo EXCEPT ![d] = k]
  /\ holders' = holders \cup {d}
  /\ UNCHANGED <<at, caller, status, pipe, written, output, code, forked, broken>>

\* daemon(3) lets go of the standard output.
LetGo(d) ==
  /\ d \in holders
  /\ todo[d] = 0
  /\ holders' = holders \ {d}
  /\ UNCHANGED <<at, caller, state, status, data, code, forked, broken>>

\* PID 1 starts netup once, between two commands, and never waits for it.
start_network ==
  /\ at = "idle"
  /\ state[Netup] = "none"
  /\ state' = [state EXCEPT ![Netup] = "running"]
  /\ UNCHANGED <<at, caller, status, data, holders, code, forked, broken>>

-----------------------------------------------------------------------------
Caller == CloseWriteEnd \/ Read \/ EndOfFile \/ Wait

CaptureNext ==
  \/ CallFails \/ Call \/ Caller \/ start_network
  \/ \E p \in Processes : Exit(p) \/ Signal(p)
  \/ \E p \in Writers : Write(p)
  \/ \E d \in Daemons : Leave(d) \/ LetGo(d)

CaptureSpec == CaptureInit /\ [][CaptureNext]_captureVars

\* The caller is scheduled; the tools are run with options that make them end
\* (-c 1, -W, -T, -n, -q), and what goes to the background lets go of its output.
CaptureFairSpec ==
  /\ CaptureSpec
  /\ WF_captureVars(Caller)
  /\ WF_captureVars(Write(Tool) \/ Exit(Tool))
  /\ \A d \in Daemons : WF_captureVars(Write(d) \/ LetGo(d))

-----------------------------------------------------------------------------
(* Properties.                                                             *)

\* The output the caller goes on with is all that was ever written, by the tool
\* and by what it left behind, although the pipe holds less.
WholeOutput == at \in {"wait", "idle"} => output = written

\* No program is killed because its output is no longer read, however long it
\* outlives the tool.
NeverBroken == ~broken

\* The code is the tool's own, not that of netup or of a program left behind
\* that died in the meantime, and the tool does not stay as a zombie.
CodeIsTools ==
  at = "idle" /\ forked => code = CodeOf(status[Tool]) /\ state[Tool] = "none"

\* Every call returns: the caller never waits for a tool that waits for it.
Returns == at = "forked" ~> at = "idle"
=============================================================================
