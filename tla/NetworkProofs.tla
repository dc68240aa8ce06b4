---------------------------- MODULE NetworkProofs ----------------------------
(***************************************************************************)
(* Proofs about the network of a running DewOS: NetUp, Capture and Lease,  *)
(* one part each.  The three share no variable and no definition.          *)
(***************************************************************************)
EXTENDS NetUp, Capture, Lease, SequenceTheorems, TLAPS

(***************************************************************************)
(* NetUp.  That two netups exclude each other rests on who made the        *)
(* directory: LockHeld is the inductive strengthening, because only with   *)
(* the holder named does one netup's exit leave the others' claim alone.   *)
(***************************************************************************)

\* The counter that ends the tries: zero until the first, and short of Tries
\* whenever another one is due.
Before == {"kill", "supplicant", "lock", "link"}
TriesLeft == \A p \in Runs : /\ pc[p] \in Before => try[p] = 0
                             /\ pc[p] = "dhcp" => try[p] < Tries

IInv == TypeOK /\ LockHeld /\ TriesLeft

\* Nobody is at work and nobody holds the lock at first.
LEMMA InitIInv == Init => IInv
<1> SUFFICES ASSUME Init PROVE IInv
  OBVIOUS
<1>1. TypeOK
  <2>1. 0 \in 0 .. Tries /\ "off" \in Pcs
    BY TriesAssumption DEF Pcs
  <2>2. pc \in [Runs -> Pcs] /\ try \in [Runs -> 0 .. Tries]
    BY <2>1 DEF Init
  <2> QED
    BY <2>2 DEF Init, TypeOK
<1>2. LockHeld /\ TriesLeft
  BY DEF Init, LockHeld, TriesLeft, Critical, Before
<1> QED
  BY <1>1, <1>2 DEF IInv

\* An invocation that goes from one place to another, but into the critical
\* ones only from inside, keeps the invariant when its counter fits the place.
LEMMA MoveIInv ==
  ASSUME IInv, NEW p \in Runs, NEW s \in Pcs, NEW t \in 0 .. Tries,
         pc' = [pc EXCEPT ![p] = s],
         s \in Critical => pc[p] \in Critical,
         try' = [try EXCEPT ![p] = t],
         s \in Before => t = 0,
         s = "dhcp" => t < Tries,
         supplicant' \in BOOLEAN, client' \in BOOLEAN, lease' \in BOOLEAN,
         UNCHANGED <<lock, holder, installed>>
  PROVE  IInv'
<1>1. TypeOK'
  BY DEF IInv, TypeOK
<1>2. LockHeld'
  <2> SUFFICES ASSUME NEW q \in Runs, pc'[q] \in Critical
               PROVE  lock' /\ holder' = q
    BY DEF LockHeld
  <2>1. pc[q] \in Critical
    BY DEF IInv, TypeOK
  <2> QED
    BY <2>1 DEF IInv, LockHeld
<1>3. TriesLeft'
  BY DEF IInv, TypeOK, TriesLeft
<1> QED
  BY <1>1, <1>2, <1>3 DEF IInv

\* Every step keeps the invariant, one case per action.
LEMMA NextIInv == IInv /\ [Next]_vars => IInv'
<1> SUFFICES ASSUME IInv, [Next]_vars PROVE IInv'
  OBVIOUS
<1> USE RunsAssumption, TriesAssumption
<1> USE DEF world, Goto
<1>0. ASSUME NEW p \in Runs
      PROVE  /\ try[p] \in 0 .. Tries
             /\ try = [try EXCEPT ![p] = try[p]]
  BY DEF IInv, TypeOK
<1>1. ASSUME NEW p \in Runs, Start(p) PROVE IInv'
  <2>1. PICK s \in {"kill", "lock"} : pc' = [pc EXCEPT ![p] = s]
    BY <1>1 DEF Start
  <2>2. s \in Pcs /\ s \notin Critical /\ s # "dhcp"
    BY DEF Pcs, Critical
  <2>3. /\ try' = [try EXCEPT ![p] = 0] /\ 0 \in 0 .. Tries
        /\ UNCHANGED <<lock, holder, installed, supplicant, client, lease>>
    BY <1>1 DEF Start
  <2> QED
    BY <2>1, <2>2, <2>3, MoveIInv DEF IInv, TypeOK
<1>2. ASSUME NEW p \in Runs, KillSupplicant(p) PROVE IInv'
  <2>1. "supplicant" \in Pcs /\ "supplicant" \notin Critical
    BY DEF Pcs, Critical
  <2>2. try[p] = 0
    BY <1>2 DEF KillSupplicant, IInv, TriesLeft, Before
  <2> QED
    BY <1>0, <1>2, <2>1, <2>2, MoveIInv DEF KillSupplicant, IInv, TypeOK
<1>3. ASSUME NEW p \in Runs, StartSupplicant(p) PROVE IInv'
  <2>1. {"lock", "off"} \subseteq Pcs \ Critical
    BY DEF Pcs, Critical
  <2>2. PICK s \in {"lock", "off"} : pc' = [pc EXCEPT ![p] = s]
    BY <1>3 DEF StartSupplicant
  <2>3. supplicant' \in BOOLEAN
    BY <1>3 DEF StartSupplicant, IInv, TypeOK
  <2>4. UNCHANGED <<try, lock, holder, client, lease, installed>>
    BY <1>3 DEF StartSupplicant
  <2>5. try[p] = 0
    BY <1>3 DEF StartSupplicant, IInv, TriesLeft, Before
  <2> QED
    BY <1>0, <2>1, <2>2, <2>3, <2>4, <2>5, MoveIInv DEF IInv, TypeOK
<1>4. ASSUME NEW p \in Runs, TakeLock(p) PROVE IInv'
  <2>1. TypeOK'
    BY <1>4 DEF TakeLock, IInv, TypeOK, Pcs
  <2>2. TriesLeft'
    BY <1>4 DEF TakeLock, IInv, TypeOK, TriesLeft, Before
  <2>3. LockHeld'
    <3>1. CASE lock
      BY <1>4, <3>1 DEF TakeLock, IInv, TypeOK, LockHeld, Critical
    <3>2. CASE ~lock
      <4>1. \A q \in Runs : pc[q] \notin Critical
        BY <3>2 DEF IInv, LockHeld
      <4> QED
        BY <1>4, <3>2, <4>1 DEF TakeLock, IInv, TypeOK, LockHeld
    <3> QED
      BY <3>1, <3>2
  <2> QED
    BY <2>1, <2>2, <2>3 DEF IInv
<1>5. ASSUME NEW p \in Runs, SetLink(p) PROVE IInv'
  <2>1. PICK s \in {"dhcp", "unlock"} : pc' = [pc EXCEPT ![p] = s]
    BY <1>5 DEF SetLink
  <2>2. s \in Pcs /\ s \notin Before /\ pc[p] \in Critical
    BY <1>5 DEF SetLink, Pcs, Critical, Before
  <2>3. try[p] = 0
    BY <1>5 DEF SetLink, IInv, TriesLeft, Before
  <2>4. /\ UNCHANGED <<try, lock, holder, installed>>
        /\ supplicant' \in BOOLEAN /\ client' \in BOOLEAN /\ lease' \in BOOLEAN
    BY <1>5 DEF SetLink, IInv, TypeOK
  <2>5. 0 < Tries /\ try[p] \in 0 .. Tries /\ try' = [try EXCEPT ![p] = try[p]]
    BY <1>0, <2>4
  <2> QED
    BY <2>1, <2>2, <2>3, <2>4, <2>5, MoveIInv
<1>6. ASSUME NEW p \in Runs, Dhcp(p) PROVE IInv'
  <2>1. {"unlock", "sleep"} \subseteq Pcs \ Before /\ pc[p] \in Critical
    BY <1>6 DEF Dhcp, Pcs, Critical, Before
  <2>2. try[p] < Tries
    BY <1>6 DEF Dhcp, IInv, TriesLeft
  <2>3. CASE pc' = [pc EXCEPT ![p] = "unlock"] /\ UNCHANGED try /\ lease' = TRUE
    BY <1>0, <1>6, <2>1, <2>3, MoveIInv DEF Dhcp, IInv, TypeOK
  <2>4. CASE /\ pc' = [pc EXCEPT ![p] = "sleep"]
             /\ try' = [try EXCEPT ![p] = @ + 1]
             /\ lease' = FALSE
    <3>1. try[p] + 1 \in 0 .. Tries
      BY <1>0, <2>2
    <3>2. try' = [try EXCEPT ![p] = try[p] + 1]
      BY <2>4
    <3> QED
      BY <1>6, <2>1, <2>4, <3>1, <3>2, MoveIInv DEF Dhcp, IInv, TypeOK
  <2> QED
    BY <1>6, <2>3, <2>4 DEF Dhcp
<1>7. ASSUME NEW p \in Runs, Sleep(p) PROVE IInv'
  <2>1. PICK s \in {"dhcp", "unlock"} : /\ pc' = [pc EXCEPT ![p] = s]
                                        /\ s = "dhcp" => try[p] < Tries
    BY <1>7 DEF Sleep
  <2>2. s \in Pcs /\ s \notin Before /\ pc[p] \in Critical
    BY <1>7 DEF Sleep, Pcs, Critical, Before
  <2>3. /\ UNCHANGED <<try, lock, holder, installed>>
        /\ supplicant' \in BOOLEAN /\ client' \in BOOLEAN /\ lease' \in BOOLEAN
    BY <1>7 DEF Sleep, IInv, TypeOK
  <2>4. try[p] \in 0 .. Tries /\ try' = [try EXCEPT ![p] = try[p]]
    BY <1>0, <2>3
  <2> QED
    BY <2>1, <2>2, <2>3, <2>4, MoveIInv
<1>8. ASSUME NEW p \in Runs, Unlock(p) PROVE IInv'
  <2>1. TypeOK'
    BY <1>8 DEF Unlock, IInv, TypeOK, Pcs
  <2>2. \A q \in Runs : pc[q] \in Critical => q = p
    BY <1>8 DEF Unlock, IInv, LockHeld, Critical
  <2>3. LockHeld'
    BY <1>8, <2>2 DEF Unlock, IInv, TypeOK, LockHeld, Critical
  <2>4. TriesLeft'
    BY <1>8 DEF Unlock, IInv, TypeOK, TriesLeft, Before
  <2> QED
    BY <2>1, <2>3, <2>4 DEF IInv
<1>9. ASSUME NEW p \in Runs, Kill(p) PROVE IInv'
  <2>1. TypeOK'
    BY <1>9 DEF Kill, IInv, TypeOK, Pcs
  <2>2. LockHeld'
    BY <1>9 DEF Kill, IInv, TypeOK, LockHeld, Critical
  <2>3. TriesLeft'
    BY <1>9 DEF Kill, IInv, TypeOK, TriesLeft, Before
  <2> QED
    BY <2>1, <2>2, <2>3 DEF IInv
<1>10. CASE ShellDhcp \/ ShellDhcpEnds
  <2>1. UNCHANGED <<pc, try, lock, holder>>
    BY <1>10 DEF ShellDhcp, ShellDhcpEnds
  <2>2. TypeOK'
    BY <1>10 DEF ShellDhcp, ShellDhcpEnds, IInv, TypeOK
  <2> QED
    BY <2>1, <2>2 DEF IInv, LockHeld, TriesLeft
<1>11. CASE Reboot
  <2>1. 0 \in 0 .. Tries /\ "off" \in Pcs
    BY DEF Pcs
  <2>2. pc' \in [Runs -> Pcs] /\ try' \in [Runs -> 0 .. Tries]
    BY <1>11, <2>1 DEF Reboot
  <2>3. TypeOK'
    BY <1>11, <2>2 DEF Reboot, IInv, TypeOK
  <2>4. \A p \in Runs : pc'[p] = "off"
    BY <1>11 DEF Reboot
  <2>5. LockHeld' /\ TriesLeft'
    BY <2>4 DEF LockHeld, TriesLeft, Critical, Before
  <2> QED
    BY <2>3, <2>5 DEF IInv
<1>12. CASE UNCHANGED vars
  BY <1>12 DEF vars, IInv, TypeOK, LockHeld, TriesLeft
<1> QED
  BY <1>1, <1>2, <1>3, <1>4, <1>5, <1>6, <1>7, <1>8, <1>9, <1>10, <1>11, <1>12
  DEF Next, Step

\* The invariant holds in every reachable state.
LEMMA IInvAlways == Spec => []IInv
<1>1. Init => IInv
  BY InitIInv
<1>2. IInv /\ [Next]_vars => IInv'
  BY NextIInv
<1> QED
  BY <1>1, <1>2, PTL DEF Spec

\* The variables keep their types for any number of invocations and tries; in
\* particular no netup asks for a lease more often than the script says.
THEOREM TypeCorrect == Spec => []TypeOK
  BY IInvAlways, PTL DEF IInv

\* Whoever configures the interface holds the lock, for any number of
\* invocations, kills and reboots.
THEOREM LockIsHeld == Spec => []LockHeld
  BY IInvAlways, PTL DEF IInv

\* Two netups never configure the interface at once, for any number of them.
THEOREM NetupsExclude == Spec => []MutualExclusion
<1>1. IInv => MutualExclusion
  BY DEF IInv, LockHeld, MutualExclusion
<1> QED
  BY <1>1, IInvAlways, PTL

(***************************************************************************)
(* Capture, for any programs left behind, any capacity of the pipe and any *)
(* amount written.                                                         *)
(***************************************************************************)

\* Nothing is lost in the pipe, and nobody writes once the caller has stopped
\* reading.
PipeInv ==
  /\ written = output + pipe
  /\ at \in {"idle", "wait"} => holders = {} /\ pipe = 0
  /\ state[Tool] = "running" => Tool \in holders
  /\ ~broken

\* The tool is there from fork to wait, and its status is kept afterwards.
ToolInv ==
  /\ at = "idle" => state[Tool] = "none"
  /\ at = "idle" /\ forked => code = CodeOf(status[Tool])

CaptureInv == CaptureTypeOK /\ PipeInv /\ ToolInv

-----------------------------------------------------------------------------
\* What a process may do to the caller's variables.
LEMMA EndsEffect ==
  ASSUME CaptureTypeOK, NEW p \in Processes, NEW st \in Statuses, Ends(p, st)
  PROVE  /\ state[p] = "running"
         /\ state' \in [Processes -> {"none", "running", "zombie"}]
         /\ status' \in [Processes -> Statuses]
         /\ holders' = holders \ {p} /\ state'[p] = "zombie"
         /\ \A q \in Processes \ {p} : state'[q] = state[q] /\ status'[q] = status[q]
         /\ UNCHANGED <<at, caller, data, code, forked>>
BY DEF Ends, CaptureTypeOK

\* Every code fits in result.code.
LEMMA CodeType == ASSUME CaptureTypeOK, NEW st \in Statuses PROVE CodeOf(st) \in -1 .. 255
<1>1. CASE st.kind = "exit"
  <2>1. st.n \in 0 .. 255
    BY <1>1, NumbersAssumption DEF Statuses
  <2>2. CodeOf(st) = st.n
    BY <1>1 DEF CodeOf
  <2> QED
    BY <2>1, <2>2
<1>2. CASE st.kind # "exit"
  <2>1. st.n \in 1 .. 64
    BY <1>2, NumbersAssumption DEF Statuses
  <2>2. CodeOf(st) = 128 + st.n \/ CodeOf(st) = -1
    BY <1>2 DEF CodeOf
  <2> QED
    BY <2>1, <2>2
<1> QED
  BY <1>1, <1>2

LEMMA NoCodeType == NoCode \in -1 .. 255
<1>1. NoCode = 127 \/ NoCode = -1
  BY DEF NoCode
<1> QED
  BY <1>1

\* The initial states satisfy the invariant.
LEMMA CaptureInitInv == CaptureInit => CaptureInv
<1> SUFFICES ASSUME CaptureInit PROVE CaptureInv
  OBVIOUS
<1>1. [kind |-> "signal", n |-> SIGPIPE] \in Statuses
  BY SigpipeAssumption DEF Statuses
<1>2. CaptureTypeOK
  <2>1. /\ state \in [Processes -> {"none", "running", "zombie"}]
        /\ status \in [Processes -> Statuses]
    BY <1>1 DEF CaptureInit
  <2>2. todo \in [Writers -> 0 .. MaxWritten]
    BY NumbersAssumption DEF CaptureInit
  <2>3. pipe \in 0 .. Capacity /\ written \in Nat /\ output \in 0 .. written /\ code \in -1 .. 255
    BY NoCodeType, NumbersAssumption DEF CaptureInit
  <2> QED
    BY <2>1, <2>2, <2>3 DEF CaptureInit, CaptureTypeOK
<1>3. PipeInv /\ ToolInv
  BY DEF CaptureInit, PipeInv, ToolInv, Processes, Writers
<1> QED
  BY <1>2, <1>3 DEF CaptureInv

-----------------------------------------------------------------------------
\* Every step keeps the invariant.
LEMMA CaptureStep == CaptureInv /\ [CaptureNext]_captureVars => CaptureInv'
<1> SUFFICES ASSUME CaptureInv, [CaptureNext]_captureVars PROVE CaptureInv'
  OBVIOUS
<1>0. CaptureTypeOK /\ PipeInv /\ ToolInv /\ Tool \in Processes /\ Netup \in Processes /\ Netup # Tool
      /\ Writers \subseteq Processes /\ Tool \in Writers
  BY NamesAssumption DEF CaptureInv, Processes, Writers
<1> USE <1>0 DEF data
<1>1. CASE CallFails
  BY <1>1, NoCodeType DEF CallFails, CaptureInv, CaptureTypeOK, PipeInv, ToolInv
<1>2. CASE Call
  <2>1. /\ state' \in [Processes -> {"none", "running", "zombie"}]
        /\ todo' \in [Writers -> 0 .. MaxWritten]
        /\ holders' \subseteq Writers \cup {"caller"}
    BY <1>2 DEF Call, CaptureTypeOK
  <2>2. /\ pipe' \in 0 .. Capacity /\ written' \in Nat /\ output' \in 0 .. written'
        /\ code' \in -1 .. 255 /\ written' = output' + pipe'
    BY <1>2, NoCodeType, NumbersAssumption DEF Call
  <2>3. CaptureTypeOK'
    BY <1>2, <2>1, <2>2 DEF Call, CaptureTypeOK
  <2>4. PipeInv' /\ ToolInv'
    BY <1>2, <2>2 DEF Call, PipeInv, ToolInv
  <2> QED
    BY <2>3, <2>4 DEF CaptureInv
<1>3. CASE CloseWriteEnd
  BY <1>3, NamesAssumption DEF CloseWriteEnd, CaptureInv, CaptureTypeOK, PipeInv, ToolInv
<1>4. CASE Read
  <2>1. PICK n \in 1 .. pipe : pipe' = pipe - n /\ output' = output + n
    BY <1>4 DEF Read
  <2>2. pipe' \in 0 .. Capacity /\ output' \in 0 .. written' /\ written' = output' + pipe'
        /\ written' = written
    BY <1>4, <2>1, NumbersAssumption DEF Read, CaptureTypeOK, PipeInv
  <2> QED
    BY <1>4, <2>2 DEF Read, CaptureInv, CaptureTypeOK, PipeInv, ToolInv
<1>5. CASE EndOfFile
  BY <1>5 DEF EndOfFile, CaptureInv, CaptureTypeOK, PipeInv, ToolInv
<1>6. CASE Wait
  <2>1. status[Tool] \in Statuses
    BY DEF CaptureTypeOK
  <2>2. CodeOf(status[Tool]) \in -1 .. 255 /\ CodeOf(status[Tool])' = CodeOf(status[Tool])
    BY <1>6, <2>1, CodeType DEF Wait, CodeOf
  <2> QED
    BY <1>6, <2>2 DEF Wait, CaptureInv, CaptureTypeOK, PipeInv, ToolInv
<1>7. ASSUME NEW p \in Processes, NEW st \in Statuses, Ends(p, st), UNCHANGED broken
      PROVE  CaptureInv'
  <2>1. /\ state[p] = "running"
        /\ state' \in [Processes -> {"none", "running", "zombie"}]
        /\ status' \in [Processes -> Statuses]
        /\ holders' = holders \ {p} /\ state'[p] = "zombie"
        /\ \A q \in Processes \ {p} : state'[q] = state[q] /\ status'[q] = status[q]
        /\ UNCHANGED <<at, caller, data, code, forked>>
    BY <1>7, EndsEffect
  <2>2. CaptureTypeOK' /\ PipeInv'
    BY <1>7, <2>1 DEF CaptureTypeOK, PipeInv
  <2>3. at = "idle" => p # Tool
    BY <2>1 DEF ToolInv
  <2>4. at = "idle" => state'[Tool] = "none" /\ status'[Tool] = status[Tool]
    BY <2>1, <2>3 DEF ToolInv
  <2>5. at = "idle" => CodeOf(status[Tool])' = CodeOf(status[Tool])
    BY <2>1, <2>4 DEF CodeOf
  <2> QED
    BY <2>1, <2>2, <2>4, <2>5 DEF CaptureInv, ToolInv
<1>8. ASSUME NEW p \in Processes, Exit(p) PROVE CaptureInv'
  BY <1>7, <1>8 DEF Exit, Statuses
<1>9. ASSUME NEW p \in Processes, Signal(p) PROVE CaptureInv'
  BY <1>7, <1>9 DEF Signal, Statuses
<1>10. ASSUME NEW p \in Writers, Write(p) PROVE CaptureInv'
  <2>1. at \in {"forked", "read"}
    BY <1>10 DEF Write, CaptureTypeOK, PipeInv
  <2>2. /\ pipe < Capacity /\ pipe' = pipe + 1 /\ written' = written + 1 /\ todo[p] > 0
        /\ todo' = [todo EXCEPT ![p] = @ - 1]
        /\ UNCHANGED <<at, caller, state, status, output, holders, code, forked, broken>>
    BY <1>10, <2>1 DEF Write
  <2>3. todo' \in [Writers -> 0 .. MaxWritten]
    BY <2>2, NumbersAssumption DEF CaptureTypeOK
  <2>4. pipe' \in 0 .. Capacity /\ written' \in Nat /\ output' \in 0 .. written'
        /\ written' = output' + pipe'
    BY <2>2, NumbersAssumption DEF CaptureTypeOK, PipeInv
  <2> QED
    BY <2>1, <2>2, <2>3, <2>4 DEF CaptureInv, CaptureTypeOK, PipeInv, ToolInv
<1>11. ASSUME NEW d \in Daemons, Leave(d) PROVE CaptureInv'
  <2>1. d \in Writers /\ d # Tool /\ at \notin {"idle", "wait"}
    BY <1>11, NamesAssumption DEF Leave, PipeInv, ToolInv, Writers
  <2>2. /\ state' \in [Processes -> {"none", "running", "zombie"}] /\ state'[Tool] = state[Tool]
        /\ todo' \in [Writers -> 0 .. MaxWritten]
        /\ holders' \subseteq Writers \cup {"caller"} /\ holders \subseteq holders'
        /\ UNCHANGED <<at, caller, status, pipe, written, output, code, forked, broken>>
    BY <1>11, <2>1 DEF Leave, CaptureTypeOK
  <2> QED
    BY <2>1, <2>2 DEF CaptureInv, CaptureTypeOK, PipeInv, ToolInv
<1>12. ASSUME NEW d \in Daemons, LetGo(d) PROVE CaptureInv'
  <2>1. d # Tool
    BY NamesAssumption
  <2> QED
    BY <1>12, <2>1 DEF LetGo, CaptureInv, CaptureTypeOK, PipeInv, ToolInv, CodeOf
<1>13. CASE start_network
  BY <1>13 DEF start_network, CaptureInv, CaptureTypeOK, PipeInv, ToolInv, CodeOf
<1>14. CASE UNCHANGED captureVars
  BY <1>14 DEF captureVars, CaptureInv, CaptureTypeOK, PipeInv, ToolInv, CodeOf
<1> QED
  BY <1>1, <1>2, <1>3, <1>4, <1>5, <1>6, <1>8, <1>9, <1>10, <1>11, <1>12, <1>13, <1>14
     DEF CaptureNext, Caller

\* The invariant holds in every reachable state.
LEMMA CaptureInvariant == CaptureSpec => []CaptureInv
BY CaptureInitInv, CaptureStep, PTL DEF CaptureSpec

-----------------------------------------------------------------------------
\* Every variable keeps its type; the codes fit.
THEOREM CaptureTypeCorrect == CaptureSpec => []CaptureTypeOK
<1>1. CaptureInv => CaptureTypeOK
  BY DEF CaptureInv
<1> QED
  BY <1>1, CaptureInvariant, PTL

\* The caller gets all the output, for a pipe of any capacity.
THEOREM OutputIsWhole == CaptureSpec => []WholeOutput
<1>1. CaptureInv => WholeOutput
  BY DEF CaptureInv, CaptureTypeOK, PipeInv, WholeOutput
<1> QED
  BY <1>1, CaptureInvariant, PTL

\* No program left behind ever writes into a pipe that nobody reads.
THEOREM PipeNeverBreaks == CaptureSpec => []NeverBroken
<1>1. CaptureInv => NeverBroken
  BY DEF CaptureInv, PipeInv, NeverBroken
<1> QED
  BY <1>1, CaptureInvariant, PTL

\* The code is the tool's, whoever else dies.
THEOREM CodeIsItsOwn == CaptureSpec => []CodeIsTools
<1>1. CaptureInv => CodeIsTools
  BY DEF CaptureInv, ToolInv, CodeIsTools
<1> QED
  BY <1>1, CaptureInvariant, PTL

(***************************************************************************)
(* Lease, for any interfaces, leases and name servers.  What two scripts   *)
(* do to addresses, route and file is only right once both have ended, so  *)
(* each invariant says what is true meanwhile: the thing that is missing   *)
(* is still going to be put there by one of them.                          *)
(***************************************************************************)

\* What is still to be written, and what has been, are lists of name servers.
SeqInv == /\ unwritten \in [Clients -> Seq(Servers)]
          /\ resolv \in Seq(Servers)
          /\ bound \in Seq(Servers)

\* An address, and an offer that a client works on, are of its interface.
OfferInv ==
  /\ \A i \in Ifaces : addr[i] \subseteq {o.ip : o \in Offers[i]}
  /\ \A c \in Clients :
       /\ doing[c] \in {"flush", "addr", "del_route", "add_route", "truncate"} =>
            offer[c] \in Offers[iface[c]]
       /\ doing[c] \in {"del_route", "add_route"} => offer[c].router # Nothing

\* An address was only taken away by a client that will give another one, or
\* whose interface counts as lost.
WillAddress(c) == \/ doing[c] \in {"ask", "flush"}
                  \/ doing[c] = "addr" /\ offer[c].router # Nothing
AddrInv == \A i \in Ifaces \ lost :
             addr[i] # {} \/ \E c \in Clients : iface[c] = i /\ WillAddress(c)

\* So was the default route, by a client that will add one.
WillRoute(c) == WillAddress(c) \/ doing[c] \in {"del_route", "add_route"}
RouteInv == lost = {} /\ route = Nothing => \E c \in Clients : WillRoute(c)

\* A route is over an interface with an address.
DevInv == route # Nothing => addr[route.dev] # {}

\* The name servers of the last lease are written, or about to be.
ServersInv ==
  /\ \A e \in Range(bound) :
       e \in Range(resolv) \/ \E c \in Clients : doing[c] = "dns" /\ e \in Range(unwritten[c])
  /\ bound # <<>>

\* A test that began well and has not yet met the three at one moment still lacks
\* the route, or the name servers that netup's client is about to write.  The
\* address it has found may be gone only from the interface that client is on.
Found == asked = Nothing \/ addr[asked] # {}
NoRoute == route = Nothing /\ (Found \/ (others = 1 /\ iface["netup"] = asked))
NoServers == Found /\ route # Nothing /\ resolv = <<>> /\ doing["netup"] = "dns"

Pending ==
  /\ doing["shell"] = "route" /\ "ipv4" \in saw => NoRoute \/ NoServers
  /\ doing["shell"] = "resolv" /\ {"ipv4", "route"} \subseteq saw => NoServers
  /\ doing["shell"] \in {"ping", "wget", "off"} => ~({"ipv4", "route", "resolv"} \subseteq saw)

MomentInv ==
  /\ doing["netup"] \notin Test
  /\ doing["shell"] \in Script \cup {"ipv4"} => saw = {}
  /\ doing["shell"] = "route" => saw \subseteq {"ipv4"}
  /\ doing["shell"] = "resolv" => saw \subseteq {"ipv4", "route"}
  /\ Configured => once
  /\ doing["shell"] \in Test /\ others = 0 => doing["netup"] = "off"
  /\ others < 2 /\ ~once => Pending

\* A list is one of whatever its elements are in.
LEMMA SeqMono == ASSUME NEW S, NEW T, NEW s \in Seq(S), Range(s) \subseteq T PROVE s \in Seq(T)
<1>1. Len(s) \in Nat /\ DOMAIN s = 1 .. Len(s) /\ \A k \in 1 .. Len(s) : s[k] \in T
  BY DEF Range
<1>2. s = [k \in 1 .. Len(s) |-> s[k]]
  BY <1>1
<1> QED
  BY <1>1, <1>2, IsASeq

\* What is in an offer.
LEMMA OfferTypes ==
  ASSUME NEW i \in Ifaces, NEW o \in Offers[i]
  PROVE  o \in AllOffers /\ o.ip \in Ips /\ Range(o.dns) \subseteq Servers /\ o.dns \in Seq(Servers)
         /\ \A j \in Ifaces : [via |-> o.router, dev |-> j] \in Routes
<1>1. o \in AllOffers
  BY DEF AllOffers
<1>2. o.dns \in Seq(Range(o.dns)) /\ Range(o.dns) \subseteq Servers
  BY <1>1, OffersAssumption, NothingAssumption DEF Servers
<1>3. o.ip \in Ips
  BY <1>1 DEF Ips
<1>4. o.dns \in Seq(Servers)
  BY <1>2, SeqMono
<1>5. ASSUME NEW j \in Ifaces PROVE [via |-> o.router, dev |-> j] \in Routes
  BY <1>1 DEF Routes
<1> QED
  BY <1>1, <1>2, <1>3, <1>4, <1>5

\* The script's own name servers.
LEMMA PublicType == Public \in Seq(Servers) /\ Range(Public) \subseteq Servers
<1>1. Range(Public) \subseteq Servers
  BY DEF Servers
<1> QED
  BY <1>1, OffersAssumption, NothingAssumption, SeqMono

\* The elements of a list, and of the lists made from it.
LEMMA RangeParts ==
  ASSUME NEW S, NEW s \in Seq(S)
  PROVE  /\ Range(s) \subseteq S
         /\ s # <<>> => /\ Head(s) \in S /\ Tail(s) \in Seq(S)
                        /\ Range(s) = {Head(s)} \cup Range(Tail(s))
         /\ \A e \in S : Append(s, e) \in Seq(S) /\ Range(Append(s, e)) = Range(s) \cup {e}
         /\ s = <<>> => Range(s) = {}
<1>1. Range(s) \subseteq S
  BY DEF Range
<1>2. ASSUME s # <<>> PROVE /\ Head(s) \in S /\ Tail(s) \in Seq(S)
                            /\ Range(s) = {Head(s)} \cup Range(Tail(s))
  <2>1. Head(s) \in S /\ Tail(s) \in Seq(S) /\ Len(s) \in Nat \ {0}
    BY <1>2
  <2>2. /\ Head(s) = s[1] /\ Len(Tail(s)) = Len(s) - 1
        /\ \A k \in 1 .. Len(s) - 1 : Tail(s)[k] = s[k + 1]
    BY <1>2
  <2>3. ASSUME NEW k \in 1 .. Len(s) PROVE s[k] \in {Head(s)} \cup Range(Tail(s))
    <3>1. CASE k = 1
      <4>1. s[k] = Head(s)
        BY <2>2, <3>1
      <4> QED
        BY <4>1
    <3>2. CASE k # 1
      <4>1. k - 1 \in 1 .. Len(s) - 1 /\ s[k] = Tail(s)[k - 1]
        BY <2>1, <2>2, <3>2
      <4>2. DOMAIN Tail(s) = 1 .. Len(s) - 1
        BY <2>1, <2>2
      <4>3. Tail(s)[k - 1] \in Range(Tail(s))
        BY <4>1, <4>2 DEF Range
      <4> QED
        BY <4>1, <4>3
    <3> QED
      BY <3>1, <3>2
  <2>4. ASSUME NEW k \in 1 .. Len(s) - 1 PROVE Tail(s)[k] \in Range(s)
    BY <2>1, <2>2 DEF Range
  <2> QED
    BY <2>1, <2>2, <2>3, <2>4 DEF Range
<1>3. ASSUME NEW e \in S
      PROVE  Append(s, e) \in Seq(S) /\ Range(Append(s, e)) = Range(s) \cup {e}
  <2>1. /\ Append(s, e) \in Seq(S) /\ Len(Append(s, e)) = Len(s) + 1 /\ Len(s) \in Nat
        /\ \A k \in 1 .. Len(s) : Append(s, e)[k] = s[k]
        /\ Append(s, e)[Len(s) + 1] = e
    OBVIOUS
  <2>2. DOMAIN Append(s, e) = 1 .. Len(s) + 1 /\ DOMAIN s = 1 .. Len(s)
    BY <2>1
  <2>3. ASSUME NEW k \in 1 .. Len(s) + 1 PROVE Append(s, e)[k] \in Range(s) \cup {e}
    BY <2>1, <2>2 DEF Range
  <2>4. ASSUME NEW k \in 1 .. Len(s) PROVE s[k] \in Range(Append(s, e))
    BY <2>1, <2>2 DEF Range
  <2>5. e \in Range(Append(s, e))
    BY <2>1, <2>2 DEF Range
  <2> QED
    BY <2>1, <2>2, <2>3, <2>4, <2>5 DEF Range
<1>4. s = <<>> => Range(s) = {}
  BY DEF Range
<1> QED
  BY <1>1, <1>2, <1>3, <1>4

-----------------------------------------------------------------------------
\* Nobody is at work at first, and the file is the installer's.
LEMMA LeaseInitInv ==
  LeaseInit => /\ LeaseTypeOK /\ SeqInv /\ OfferInv /\ AddrInv /\ RouteInv
               /\ DevInv /\ ServersInv /\ MomentInv
<1> SUFFICES ASSUME LeaseInit
             PROVE  /\ LeaseTypeOK /\ SeqInv /\ OfferInv /\ AddrInv /\ RouteInv
                    /\ DevInv /\ ServersInv /\ MomentInv
  OBVIOUS
<1>1. <<>> \in Seq(Servers) /\ Range(<<>>) \subseteq Servers
  BY DEF Range
<1>2. SeqInv
  BY <1>1, PublicType DEF LeaseInit, SeqInv
<1>3. LeaseTypeOK
  <2>1. others = 0 /\ once = FALSE /\ asked = Nothing /\ saw = {}
    BY DEF LeaseInit
  <2>2. others \in 0 .. 2 /\ asked \in Ifaces \cup {Nothing} /\ saw \subseteq Test
    BY <2>1
  <2>6. once \in BOOLEAN
    BY <2>1
  <2>3. /\ lost = Ifaces /\ route = Nothing /\ bound = Public /\ resolv = Public
        /\ addr \in [Ifaces -> SUBSET Ips] /\ iface \in [Clients -> Ifaces]
        /\ offer \in [Clients -> AllOffers \cup {Nothing}]
        /\ doing \in [Clients -> {"off"} \cup Script \cup Test]
    BY DEF LeaseInit
  <2>4. files \in [{"/tmp/netup.log", "/var/log/dew-network.log"} -> {"absent", "empty", "startup"}]
    BY DEF LeaseInit
  <2>5. \A c \in Clients : Range(unwritten[c]) \subseteq Servers
    BY <1>1 DEF LeaseInit
  <2> QED
    BY <2>2, <2>3, <2>4, <2>5, <2>6, PublicType DEF LeaseTypeOK
<1>4. OfferInv
  BY DEF LeaseInit, OfferInv
<1>5. AddrInv /\ RouteInv /\ DevInv
  <2>1. "netup" \in Clients
    BY DEF Clients
  <2>2. Ifaces # {}
    BY <2>1 DEF LeaseInit
  <2> QED
    BY <2>2 DEF LeaseInit, AddrInv, RouteInv, DevInv
<1>6. ServersInv
  BY OffersAssumption, NothingAssumption DEF LeaseInit, ServersInv
<1>7. MomentInv
  BY DEF LeaseInit, MomentInv, Pending, Configured, Clients, Script, Test
<1> QED
  BY <1>2, <1>3, <1>4, <1>5, <1>6, <1>7

\* A client's name servers.
LEMMA ServersOfType ==
  ASSUME OfferInv, NEW c \in Clients, doing[c] \in {"flush", "addr", "del_route", "add_route", "truncate"},
         LeaseTypeOK
  PROVE  ServersOf(c) \in Seq(Servers) /\ ServersOf(c) # <<>>
<1>1. offer[c] \in Offers[iface[c]] /\ iface[c] \in Ifaces
  BY DEF OfferInv, LeaseTypeOK
<1>2. offer[c].dns \in Seq(Servers)
  BY <1>1, OfferTypes
<1> QED
  BY <1>2, PublicType, OffersAssumption, NothingAssumption DEF ServersOf

\* The types, and the lists, after a step.
LEMMA LeaseTypeStep ==
  LeaseTypeOK /\ SeqInv /\ OfferInv /\ [LeaseNext]_leaseVars => LeaseTypeOK' /\ SeqInv'
<1> SUFFICES ASSUME LeaseTypeOK, SeqInv, OfferInv, [LeaseNext]_leaseVars
             PROVE  LeaseTypeOK' /\ SeqInv'
  OBVIOUS
<1>0. once' \in BOOLEAN
  BY DEF LeaseTypeOK, LeaseNext, Watch, leaseVars
<1> USE <1>0 DEF LeaseTypeOK, SeqInv, Script, Test
<1>1. CASE UNCHANGED leaseVars
  BY <1>1 DEF leaseVars, net, test
<1>2. CASE StartTest
  BY <1>2 DEF StartTest, Go, net, Clients
<1>3. CASE run_network_test
  BY <1>3 DEF run_network_test, has_ipv4, has_default_route, has_dns, Try, Find, Go, net, Clients
<1>4. ASSUME NEW c \in Clients, StartClient(c) PROVE LeaseTypeOK' /\ SeqInv'
  <2>1. others' \in 0 .. 2
    BY <1>4 DEF StartClient
  <2> QED
    BY <1>4, <2>1 DEF StartClient, Go, net, Logged
<1>5. ASSUME NEW c \in Clients, Deconfig(c) PROVE LeaseTypeOK' /\ SeqInv'
  BY <1>5 DEF Deconfig, Flush, Go, test
<1>6. ASSUME NEW c \in Clients, NoLease(c) PROVE LeaseTypeOK' /\ SeqInv'
  BY <1>6 DEF NoLease, Go, net, test
<1>7. ASSUME NEW c \in Clients, Lease(c) PROVE LeaseTypeOK' /\ SeqInv'
  <2>1. PICK o \in Offers[iface[c]] : offer' = [offer EXCEPT ![c] = o]
    BY <1>7 DEF Lease
  <2>2. o \in AllOffers
    BY <2>1, OfferTypes
  <2> QED
    BY <1>7, <2>1, <2>2 DEF Lease, Go, net, test
<1>8. ASSUME NEW c \in Clients, Bound(c) PROVE LeaseTypeOK' /\ SeqInv'
  BY <1>8 DEF Bound, Flush, Go, test
<1>9. ASSUME NEW c \in Clients, AddAddress(c) PROVE LeaseTypeOK' /\ SeqInv'
  <2>1. offer[c] \in Offers[iface[c]] /\ iface[c] \in Ifaces
    BY <1>9 DEF AddAddress, OfferInv
  <2>2. offer[c].ip \in Ips
    BY <2>1, OfferTypes
  <2> QED
    BY <1>9, <2>1, <2>2 DEF AddAddress, Go, test
<1>10. ASSUME NEW c \in Clients, DelRoute(c) PROVE LeaseTypeOK' /\ SeqInv'
  BY <1>10 DEF DelRoute, Go, test
<1>11. ASSUME NEW c \in Clients, AddRoute(c) PROVE LeaseTypeOK' /\ SeqInv'
  <2>1. offer[c] \in Offers[iface[c]] /\ iface[c] \in Ifaces
    BY <1>11 DEF AddRoute, OfferInv
  <2>2. [via |-> offer[c].router, dev |-> iface[c]] \in Routes
    BY <2>1, OfferTypes
  <2> QED
    BY <1>11, <2>1, <2>2 DEF AddRoute, Go, test
<1>12. ASSUME NEW c \in Clients, Truncate(c) PROVE LeaseTypeOK' /\ SeqInv'
  <2>1. ServersOf(c) \in Seq(Servers)
    BY <1>12, ServersOfType DEF Truncate
  <2>2. Range(ServersOf(c)) \subseteq Servers /\ <<>> \in Seq(Servers) /\ Range(<<>>) \subseteq Servers
    BY <2>1, RangeParts DEF Range
  <2> QED
    BY <1>12, <2>1, <2>2 DEF Truncate, Go, test
<1>13. ASSUME NEW c \in Clients, WriteDns(c) PROVE LeaseTypeOK' /\ SeqInv'
  <2>1. CASE unwritten[c] = <<>>
    BY <1>13, <2>1 DEF WriteDns, Go, test
  <2>2. CASE unwritten[c] # <<>>
    <3>1. Head(unwritten[c]) \in Servers /\ Tail(unwritten[c]) \in Seq(Servers)
      BY <2>2, RangeParts
    <3>2. /\ Append(resolv, Head(unwritten[c])) \in Seq(Servers)
          /\ Range(Append(resolv, Head(unwritten[c]))) \subseteq Servers
          /\ Range(Tail(unwritten[c])) \subseteq Servers
      BY <3>1, RangeParts
    <3> QED
      BY <1>13, <2>2, <3>1, <3>2 DEF WriteDns, test
  <2> QED
    BY <2>1, <2>2
<1> QED
  BY <1>1, <1>2, <1>3, <1>4, <1>5, <1>6, <1>7, <1>8, <1>9, <1>10, <1>11, <1>12, <1>13
     DEF LeaseNext, ScriptStep

\* An offer is accepted for the interface it was made on, and its address is added
\* to that interface alone.
LEMMA OfferStep == LeaseTypeOK /\ OfferInv /\ [LeaseNext]_leaseVars => OfferInv'
<1> SUFFICES ASSUME LeaseTypeOK, OfferInv, [LeaseNext]_leaseVars
             PROVE  OfferInv'
  OBVIOUS
<1> USE DEF LeaseTypeOK, OfferInv, Script, Test
<1>1. CASE UNCHANGED leaseVars
  BY <1>1 DEF leaseVars, net, test
<1>2. CASE StartTest
  BY <1>2 DEF StartTest, Go, net, Clients
<1>3. CASE run_network_test
  BY <1>3 DEF run_network_test, has_ipv4, has_default_route, has_dns, Try, Find, Go, net, Clients
<1>4. ASSUME NEW c \in Clients, StartClient(c) PROVE OfferInv'
  BY <1>4 DEF StartClient, Go, net
<1>5. ASSUME NEW c \in Clients, Deconfig(c) PROVE OfferInv'
  BY <1>5 DEF Deconfig, Flush, Go, test
<1>6. ASSUME NEW c \in Clients, NoLease(c) PROVE OfferInv'
  BY <1>6 DEF NoLease, Go, net, test
<1>7. ASSUME NEW c \in Clients, Lease(c) PROVE OfferInv'
  BY <1>7 DEF Lease, Go, net, test
<1>8. ASSUME NEW c \in Clients, Bound(c) PROVE OfferInv'
  BY <1>8 DEF Bound, Flush, Go, test
<1>9. ASSUME NEW c \in Clients, AddAddress(c) PROVE OfferInv'
  BY <1>9 DEF AddAddress, Go, test
<1>10. ASSUME NEW c \in Clients, DelRoute(c) PROVE OfferInv'
  BY <1>10 DEF DelRoute, Go, test
<1>11. ASSUME NEW c \in Clients, AddRoute(c) PROVE OfferInv'
  BY <1>11 DEF AddRoute, Go, test
<1>12. ASSUME NEW c \in Clients, Truncate(c) PROVE OfferInv'
  BY <1>12 DEF Truncate, Go, test
<1>13. ASSUME NEW c \in Clients, WriteDns(c) PROVE OfferInv'
  BY <1>13 DEF WriteDns, Go, test
<1> QED
  BY <1>1, <1>2, <1>3, <1>4, <1>5, <1>6, <1>7, <1>8, <1>9, <1>10, <1>11, <1>12, <1>13
     DEF LeaseNext, ScriptStep

\* Whoever flushes an interface is still going to add an address, or the interface
\* counts as lost.
LEMMA AddrStep == LeaseTypeOK /\ AddrInv /\ [LeaseNext]_leaseVars => AddrInv'
<1> SUFFICES ASSUME LeaseTypeOK, AddrInv, [LeaseNext]_leaseVars
             PROVE  AddrInv'
  OBVIOUS
<1> USE DEF LeaseTypeOK, AddrInv, WillAddress, Script, Test
<1>1. CASE UNCHANGED leaseVars
  BY <1>1 DEF leaseVars, net, test
<1>2. CASE StartTest
  BY <1>2 DEF StartTest, Go, net, Clients
<1>3. CASE run_network_test
  BY <1>3 DEF run_network_test, has_ipv4, has_default_route, has_dns, Try, Find, Go, net, Clients
<1>4. ASSUME NEW c \in Clients, StartClient(c) PROVE AddrInv'
  BY <1>4 DEF StartClient, Go, net
<1>5. ASSUME NEW c \in Clients, Deconfig(c) PROVE AddrInv'
  BY <1>5 DEF Deconfig, Flush, Go, test
<1>6. ASSUME NEW c \in Clients, NoLease(c) PROVE AddrInv'
  BY <1>6 DEF NoLease, Go, net, test
<1>7. ASSUME NEW c \in Clients, Lease(c) PROVE AddrInv'
  BY <1>7 DEF Lease, Go, net, test
<1>8. ASSUME NEW c \in Clients, Bound(c) PROVE AddrInv'
  BY <1>8 DEF Bound, Flush, Go, test
<1>9. ASSUME NEW c \in Clients, AddAddress(c) PROVE AddrInv'
  <2> SUFFICES ASSUME NEW i \in Ifaces \ lost, addr[i] = {}, i # iface[c]
               PROVE  \E d \in Clients : iface[d] = i /\ WillAddress(d)'
    BY <1>9 DEF AddAddress, Go, test
  <2>1. PICK d \in Clients : iface[d] = i /\ WillAddress(d)
    OBVIOUS
  <2> QED
    BY <1>9, <2>1 DEF AddAddress, Go
<1>10. ASSUME NEW c \in Clients, DelRoute(c) PROVE AddrInv'
  BY <1>10 DEF DelRoute, Go, test
<1>11. ASSUME NEW c \in Clients, AddRoute(c) PROVE AddrInv'
  BY <1>11 DEF AddRoute, Go, test
<1>12. ASSUME NEW c \in Clients, Truncate(c) PROVE AddrInv'
  BY <1>12 DEF Truncate, Go, test
<1>13. ASSUME NEW c \in Clients, WriteDns(c) PROVE AddrInv'
  BY <1>13 DEF WriteDns, Go, test
<1> QED
  BY <1>1, <1>2, <1>3, <1>4, <1>5, <1>6, <1>7, <1>8, <1>9, <1>10, <1>11, <1>12, <1>13
     DEF LeaseNext, ScriptStep

\* A flush takes the route of the interface with it, and a route is only added over
\* an interface with an address.
LEMMA DevStep == LeaseTypeOK /\ DevInv /\ [LeaseNext]_leaseVars => DevInv'
<1> SUFFICES ASSUME LeaseTypeOK, DevInv, [LeaseNext]_leaseVars
             PROVE  DevInv'
  OBVIOUS
<1> USE DEF LeaseTypeOK, DevInv
<1>1. CASE UNCHANGED leaseVars
  BY <1>1 DEF leaseVars, net, test
<1>2. CASE StartTest
  BY <1>2 DEF StartTest, Go, net, Clients
<1>3. CASE run_network_test
  BY <1>3 DEF run_network_test, has_ipv4, has_default_route, has_dns, Try, Find, Go, net, Clients
<1>4. ASSUME NEW c \in Clients, StartClient(c) PROVE DevInv'
  BY <1>4 DEF StartClient, Go, net
<1>5. ASSUME NEW c \in Clients, Deconfig(c) PROVE DevInv'
  BY <1>5 DEF Deconfig, Flush, Go, test
<1>6. ASSUME NEW c \in Clients, NoLease(c) PROVE DevInv'
  BY <1>6 DEF NoLease, Go, net, test
<1>7. ASSUME NEW c \in Clients, Lease(c) PROVE DevInv'
  BY <1>7 DEF Lease, Go, net, test
<1>8. ASSUME NEW c \in Clients, Bound(c) PROVE DevInv'
  BY <1>8 DEF Bound, Flush, Go, test
<1>9. ASSUME NEW c \in Clients, AddAddress(c) PROVE DevInv'
  BY <1>9 DEF AddAddress, Go, test
<1>10. ASSUME NEW c \in Clients, DelRoute(c) PROVE DevInv'
  BY <1>10 DEF DelRoute, Go, test
<1>11. ASSUME NEW c \in Clients, AddRoute(c) PROVE DevInv'
  BY <1>11 DEF AddRoute, Go, test
<1>12. ASSUME NEW c \in Clients, Truncate(c) PROVE DevInv'
  BY <1>12 DEF Truncate, Go, test
<1>13. ASSUME NEW c \in Clients, WriteDns(c) PROVE DevInv'
  BY <1>13 DEF WriteDns, Go, test
<1> QED
  BY <1>1, <1>2, <1>3, <1>4, <1>5, <1>6, <1>7, <1>8, <1>9, <1>10, <1>11, <1>12, <1>13
     DEF LeaseNext, ScriptStep

\* Whoever takes the route away is still going to add one.  The kernel may refuse
\* it when the other client has flushed the interface in between; then that client
\* adds it.
LEMMA RouteStep == LeaseTypeOK /\ OfferInv /\ AddrInv /\ RouteInv /\ OneNetwork /\ [LeaseNext]_leaseVars => RouteInv'
<1> SUFFICES ASSUME LeaseTypeOK, OfferInv, AddrInv, RouteInv, OneNetwork, [LeaseNext]_leaseVars
             PROVE  RouteInv'
  OBVIOUS
<1> USE DEF LeaseTypeOK, RouteInv, WillRoute, WillAddress, Script, Test
<1>1. CASE UNCHANGED leaseVars
  BY <1>1 DEF leaseVars, net, test
<1>2. CASE StartTest
  BY <1>2 DEF StartTest, Go, net, Clients
<1>3. CASE run_network_test
  BY <1>3 DEF run_network_test, has_ipv4, has_default_route, has_dns, Try, Find, Go, net, Clients
<1>4. ASSUME NEW c \in Clients, StartClient(c) PROVE RouteInv'
  BY <1>4 DEF StartClient, Go, net
<1>5. ASSUME NEW c \in Clients, Deconfig(c) PROVE RouteInv'
  BY <1>5 DEF Deconfig, Flush, Go, test
<1>6. ASSUME NEW c \in Clients, NoLease(c) PROVE RouteInv'
  BY <1>6 DEF NoLease, Go, net, test
<1>7. ASSUME NEW c \in Clients, Lease(c) PROVE RouteInv'
  BY <1>7 DEF Lease, Go, net, test
<1>8. ASSUME NEW c \in Clients, Bound(c) PROVE RouteInv'
  BY <1>8 DEF Bound, Flush, Go, test
<1>9. ASSUME NEW c \in Clients, AddAddress(c) PROVE RouteInv'
  BY <1>9 DEF AddAddress, Go, test
<1>10. ASSUME NEW c \in Clients, DelRoute(c) PROVE RouteInv'
  BY <1>10 DEF DelRoute, Go, test
<1>11. ASSUME NEW c \in Clients, AddRoute(c) PROVE RouteInv'
  <2> SUFFICES ASSUME lost = {}, route' = Nothing
               PROVE  \E d \in Clients : WillRoute(d)'
    BY <1>11 DEF AddRoute
  <2> DEFINE i == iface[c]
             r == offer[c].router
  <2>1. /\ i \in Ifaces /\ offer[c] \in Offers[i] /\ r # Nothing
        /\ addr[i] \subseteq {o.ip : o \in Offers[i]}
    BY <1>11 DEF AddRoute, OfferInv
  <2>2. ~ \E o \in Offers[i] : o.ip \in addr[i] /\ o.router = r
    \* or the kernel takes the route
    <3>1. [via |-> r, dev |-> i] \in Routes
      BY <2>1, OfferTypes
    <3> QED
      BY <1>11, <3>1, OffersAssumption, NothingAssumption DEF AddRoute
  <2>3. addr[i] = {}
    \* or one of the addresses reaches the router
    <3> SUFFICES ASSUME NEW a \in addr[i] PROVE FALSE
      OBVIOUS
    <3>1. PICK o \in Offers[i] : o.ip = a
      BY <2>1
    <3>2. \A p \in Offers[i] :
            p.router # Nothing => \E q \in Offers[i] : q.ip = o.ip /\ q.router = p.router
      BY <2>1 DEF OneNetwork
    <3>3. \E q \in Offers[i] : q.ip = o.ip /\ q.router = r
      BY <2>1, <3>2
    <3> QED
      BY <2>2, <3>1, <3>3
  <2>4. PICK d \in Clients : iface[d] = i /\ WillAddress(d)
    BY <2>1, <2>3 DEF AddrInv
  <2> QED
    BY <1>11, <2>4 DEF AddRoute, Go
<1>12. ASSUME NEW c \in Clients, Truncate(c) PROVE RouteInv'
  BY <1>12 DEF Truncate, Go, test
<1>13. ASSUME NEW c \in Clients, WriteDns(c) PROVE RouteInv'
  BY <1>13 DEF WriteDns, Go, test
<1> QED
  BY <1>1, <1>2, <1>3, <1>4, <1>5, <1>6, <1>7, <1>8, <1>9, <1>10, <1>11, <1>12, <1>13
     DEF LeaseNext, ScriptStep

\* The client that last emptied the file appends all of its name servers, and so
\* does another one still at it.
LEMMA ServersStep == LeaseTypeOK /\ SeqInv /\ OfferInv /\ ServersInv /\ [LeaseNext]_leaseVars => ServersInv'
<1> SUFFICES ASSUME LeaseTypeOK, SeqInv, OfferInv, ServersInv, [LeaseNext]_leaseVars
             PROVE  ServersInv'
  OBVIOUS
<1> USE DEF LeaseTypeOK, ServersInv, Script, Test
<1>1. CASE UNCHANGED leaseVars
  BY <1>1 DEF leaseVars, net, test
<1>2. CASE StartTest
  BY <1>2 DEF StartTest, Go, net, Clients
<1>3. CASE run_network_test
  BY <1>3 DEF run_network_test, has_ipv4, has_default_route, has_dns, Try, Find, Go, net, Clients
<1>4. ASSUME NEW c \in Clients, StartClient(c) PROVE ServersInv'
  BY <1>4 DEF StartClient, Go, net
<1>5. ASSUME NEW c \in Clients, Deconfig(c) PROVE ServersInv'
  BY <1>5 DEF Deconfig, Flush, Go, test
<1>6. ASSUME NEW c \in Clients, NoLease(c) PROVE ServersInv'
  BY <1>6 DEF NoLease, Go, net, test
<1>7. ASSUME NEW c \in Clients, Lease(c) PROVE ServersInv'
  BY <1>7 DEF Lease, Go, net, test
<1>8. ASSUME NEW c \in Clients, Bound(c) PROVE ServersInv'
  BY <1>8 DEF Bound, Flush, Go, test
<1>9. ASSUME NEW c \in Clients, AddAddress(c) PROVE ServersInv'
  BY <1>9 DEF AddAddress, Go, test
<1>10. ASSUME NEW c \in Clients, DelRoute(c) PROVE ServersInv'
  BY <1>10 DEF DelRoute, Go, test
<1>11. ASSUME NEW c \in Clients, AddRoute(c) PROVE ServersInv'
  BY <1>11 DEF AddRoute, Go, test
<1>12. ASSUME NEW c \in Clients, Truncate(c) PROVE ServersInv'
  BY <1>12, ServersOfType DEF Truncate, Go, SeqInv
<1>13. ASSUME NEW c \in Clients, WriteDns(c) PROVE ServersInv'
  <2>1. CASE unwritten[c] = <<>>
    <3>1. Range(unwritten[c]) = {}
      BY <2>1 DEF Range
    <3> QED
      BY <1>13, <2>1, <3>1 DEF WriteDns, Go, test
  <2>2. CASE unwritten[c] # <<>>
    <3> DEFINE h == Head(unwritten[c])
    <3>1. h \in Servers /\ Range(unwritten[c]) = {h} \cup Range(Tail(unwritten[c]))
      BY <2>2, RangeParts DEF SeqInv
    <3>2. Range(Append(resolv, h)) = Range(resolv) \cup {h}
      BY <3>1, RangeParts DEF SeqInv
    <3>3. /\ resolv' = Append(resolv, h) /\ UNCHANGED <<doing, bound>>
          /\ unwritten' = [unwritten EXCEPT ![c] = Tail(unwritten[c])]
      BY <1>13, <2>2 DEF WriteDns
    <3>4. ASSUME NEW e \in Range(bound), e \notin Range(resolv'), e \in Range(bound')
          PROVE  \E d \in Clients : doing'[d] = "dns" /\ e \in Range(unwritten'[d])
      <4>1. PICK d \in Clients : doing[d] = "dns" /\ e \in Range(unwritten[d])
        BY <3>2, <3>3, <3>4
      <4>2. e \in Range(unwritten'[d])
        BY <3>1, <3>2, <3>3, <3>4, <4>1 DEF SeqInv
      <4> QED
        BY <3>3, <4>1, <4>2
    <3> QED
      BY <3>3, <3>4
  <2> QED
    BY <2>1, <2>2
<1> QED
  BY <1>1, <1>2, <1>3, <1>4, <1>5, <1>6, <1>7, <1>8, <1>9, <1>10, <1>11, <1>12, <1>13
     DEF LeaseNext, ScriptStep

\* Name servers are only missing while a client writes them.
LEMMA ResolvFilled ==
  ASSUME NEW B \in Seq(Servers), B # <<>>, NEW R, Range(B) \subseteq Range(R)
  PROVE  R # <<>>
<1>1. Head(B) \in Range(B)
  BY RangeParts
<1> QED
  BY <1>1 DEF Range

\* What the test lacks, it goes on lacking until it meets all three at once.
LEMMA MomentStep ==
  /\ LeaseTypeOK /\ SeqInv /\ DevInv /\ ServersInv /\ MomentInv
  /\ LeaseTypeOK' /\ SeqInv' /\ DevInv' /\ ServersInv'
  /\ [LeaseNext]_leaseVars
  => MomentInv'
<1> SUFFICES ASSUME LeaseTypeOK, SeqInv, DevInv, ServersInv, MomentInv,
                    LeaseTypeOK', SeqInv', DevInv', ServersInv', LeaseNext
             PROVE  MomentInv'
  BY DEF leaseVars, net, test, MomentInv, Pending, Found, NoRoute, NoServers, Configured
<1>1. once' = (Configured' \/ (once /\ doing'["shell"] # "ipv4"))
  BY DEF LeaseNext, Watch
<1>2. /\ doing \in [Clients -> {"off"} \cup Script \cup Test]
      /\ doing' \in [Clients -> {"off"} \cup Script \cup Test]
      /\ Clients = {"netup", "shell"} /\ others \in 0 .. 2
      /\ iface \in [Clients -> Ifaces]
  BY DEF LeaseTypeOK, Clients
<1>3. /\ doing["netup"] \notin Test
      /\ doing["shell"] \in Script \cup {"ipv4"} => saw = {}
      /\ doing["shell"] = "route" => saw \subseteq {"ipv4"}
      /\ doing["shell"] = "resolv" => saw \subseteq {"ipv4", "route"}
  BY DEF MomentInv
<1>4. doing["shell"] # "dns" /\ doing["netup"] # "dns" => resolv # <<>>
  <2> SUFFICES ASSUME doing["shell"] # "dns", doing["netup"] # "dns" PROVE resolv # <<>>
    OBVIOUS
  <2>1. bound \in Seq(Servers) /\ bound # <<>> /\ Range(bound) \subseteq Range(resolv)
    BY <1>2 DEF SeqInv, ServersInv
  <2> QED
    BY <2>1, ResolvFilled
<1>5. doing'["shell"] # "dns" /\ doing'["netup"] # "dns" => resolv' # <<>>
  <2> SUFFICES ASSUME doing'["shell"] # "dns", doing'["netup"] # "dns" PROVE resolv' # <<>>
    OBVIOUS
  <2>1. bound' \in Seq(Servers) /\ bound' # <<>> /\ Range(bound') \subseteq Range(resolv')
    BY <1>2 DEF SeqInv, ServersInv
  <2> QED
    BY <2>1, ResolvFilled
<1>6. Found' /\ route' # Nothing /\ resolv' # <<>> => once'
  <2> SUFFICES ASSUME Found', route' # Nothing, resolv' # <<>> PROVE once'
    OBVIOUS
  <2>1. route' \in Routes /\ addr'[route'.dev] # {}
    BY DEF LeaseTypeOK, DevInv
  <2>2. route'.dev \in Ifaces
    BY <2>1 DEF Routes
  <2>3. Configured'
    BY <2>1, <2>2 DEF Found, Configured
  <2> QED
    BY <2>3, <1>1
<1>7. Configured' => once'
  BY <1>1
<1>8. once /\ doing'["shell"] # "ipv4" => once'
  BY <1>1
<1> DEFINE Three == {"ipv4", "route", "resolv"}
<1>9. others < 2 /\ ~once => Pending
  BY DEF MomentInv
<1>10. doing["shell"] \in Test /\ others = 0 => doing["netup"] = "off"
  BY DEF MomentInv
<1>11. ASSUME /\ doing'["netup"] \notin Test
              /\ doing'["shell"] \in Script \cup {"ipv4"} => saw' = {}
              /\ doing'["shell"] = "route" => saw' \subseteq {"ipv4"}
              /\ doing'["shell"] = "resolv" => saw' \subseteq {"ipv4", "route"}
              /\ doing'["shell"] \in Test /\ others' = 0 => doing'["netup"] = "off"
              /\ others' < 2 /\ ~once' => Pending'
       PROVE  MomentInv'
  BY <1>7, <1>11 DEF MomentInv
<1> USE <1>2, <1>3 DEF Script, Test, Pending
\* The test.
<1>12. CASE StartTest
  <2>1. /\ doing' = [doing EXCEPT !["shell"] = "ipv4"] /\ saw' = {}
        /\ others' = IF doing["netup"] \in Script THEN 1 ELSE 0
    BY <1>12 DEF StartTest, Go
  <2>2. doing'["shell"] = "ipv4" /\ doing'["netup"] = doing["netup"]
    BY <2>1
  <2> QED
    BY <1>11, <2>1, <2>2
<1>13. ASSUME run_network_test
       PROVE  /\ doing["shell"] \in Test /\ doing'["shell"] \in (Test \ {"ipv4"}) \cup {"off"}
              /\ doing'["netup"] = doing["netup"]
              /\ saw' \in {saw, saw \cup {doing["shell"]}}
              /\ doing'["shell"] = "route" => doing["shell"] = "ipv4"
              /\ doing'["shell"] = "resolv" => doing["shell"] = "route"
              /\ UNCHANGED <<iface, addr, route, resolv, asked, others>>
  BY <1>13 DEF run_network_test, has_ipv4, has_default_route, has_dns, Try, Find, Go, net
<1>14. ASSUME run_network_test, others' < 2 /\ ~once' => Pending' PROVE MomentInv'
  BY <1>10, <1>11, <1>13, <1>14
<1>15. CASE has_ipv4
  <2>1. run_network_test
    BY <1>15 DEF run_network_test
  <2>2. doing["shell"] = "ipv4" /\ saw = {} /\ doing'["shell"] = "route"
    BY <1>15 DEF has_ipv4, Find, Go
  <2>3. "ipv4" \in saw' => Found
    BY <1>15, <2>2 DEF has_ipv4, Find, Found
  <2>4. ASSUME "ipv4" \in saw', ~once' PROVE NoRoute' \/ NoServers'
    <3>1. Found'
      BY <1>13, <2>1, <2>3, <2>4 DEF Found
    <3>2. route' = Nothing \/ resolv' = <<>>
      BY <1>6, <2>4, <3>1
    <3>3. resolv' = <<>> => doing'["netup"] = "dns"
      BY <1>5, <2>2
    <3> QED
      BY <3>1, <3>2, <3>3 DEF NoRoute, NoServers
  <2> QED
    BY <1>14, <2>1, <2>2, <2>4
<1>16. CASE has_default_route
  <2>1. run_network_test
    BY <1>16 DEF run_network_test
  <2>2. doing["shell"] = "route" /\ doing'["shell"] = "resolv"
    BY <1>16 DEF has_default_route, Find, Go
  <2>3. "route" \in saw' /\ "route" \notin saw => route # Nothing
    BY <1>16 DEF has_default_route, Find
  <2>4. "ipv4" \in saw' => "ipv4" \in saw
    BY <1>13, <2>1, <2>2
  <2>5. ASSUME {"ipv4", "route"} \subseteq saw', others' < 2, ~once' PROVE NoServers'
    <3>1. others < 2 /\ ~once /\ "ipv4" \in saw
      BY <1>8, <1>13, <2>1, <2>2, <2>4, <2>5
    <3>2. NoRoute \/ NoServers
      BY <1>9, <2>2, <3>1
    <3>3. route # Nothing
      BY <1>3, <2>2, <2>3, <2>5
    <3>4. NoServers
      BY <3>2, <3>3 DEF NoRoute
    <3> QED
      BY <1>13, <2>1, <3>4 DEF NoServers, Found
  <2> QED
    BY <1>14, <2>1, <2>2, <2>5
<1>17. CASE has_dns
  <2>1. run_network_test
    BY <1>17 DEF run_network_test
  <2>2. doing["shell"] = "resolv" /\ doing'["shell"] = "ping"
    BY <1>17 DEF has_dns, Find, Go
  <2>3. "resolv" \in saw' => resolv # <<>>
    BY <1>17, <2>2 DEF has_dns, Find
  <2>4. {"ipv4", "route"} \subseteq saw' => {"ipv4", "route"} \subseteq saw
    BY <1>13, <2>1, <2>2
  <2>5. ASSUME Three \subseteq saw', others' < 2, ~once' PROVE FALSE
    <3>1. others < 2 /\ ~once /\ {"ipv4", "route"} \subseteq saw
      BY <1>8, <1>13, <2>1, <2>2, <2>4, <2>5
    <3>2. NoServers
      BY <1>9, <2>2, <3>1
    <3> QED
      BY <2>3, <2>5, <3>2 DEF NoServers
  <2> QED
    BY <1>14, <2>1, <2>2, <2>5
<1>18. CASE Try
  <2>1. run_network_test
    BY <1>18 DEF run_network_test
  <2>2. doing["shell"] \in {"ping", "wget"} /\ doing'["shell"] \in {"wget", "off"}
    BY <1>18 DEF Try, Find, Go
  <2>3. Three \subseteq saw' => Three \subseteq saw
    BY <1>13, <2>1, <2>2
  <2>4. ASSUME Three \subseteq saw', others' < 2, ~once' PROVE FALSE
    BY <1>8, <1>9, <1>13, <2>1, <2>2, <2>3, <2>4
  <2> QED
    BY <1>14, <2>1, <2>2, <2>4
\* The clients.  One more than one, and nothing is promised.
<1>19. CASE StartClient("shell")
  <2>1. doing'["shell"] = "deconfig" /\ doing'["netup"] = doing["netup"] /\ saw' = {}
    BY <1>19 DEF StartClient, Go
  <2> QED
    BY <1>11, <2>1
<1>20. CASE StartClient("netup")
  <2>1. /\ doing["netup"] = "off" /\ doing'["netup"] = "deconfig" /\ doing'["shell"] = doing["shell"]
        /\ saw' = saw /\ UNCHANGED <<addr, route, resolv, asked>>
        /\ others' = IF others < 2 THEN others + 1 ELSE others
    BY <1>20 DEF StartClient, Go, net
  <2>2. ASSUME others' < 2, ~once' PROVE Pending'
    <3>1. others = 0 /\ others' = 1
      BY <2>1, <2>2
    <3>2. doing["shell"] # "ipv4" => Pending
      BY <1>8, <1>9, <2>1, <2>2, <3>1
    <3>3. ~NoServers /\ (NoRoute => Found /\ route = Nothing)
      BY <2>1, <3>1 DEF NoServers, NoRoute
    <3>4. NoRoute => NoRoute'
      BY <2>1, <3>3 DEF NoRoute, Found
    <3> QED
      BY <2>1, <3>2, <3>3, <3>4
  <2> QED
    BY <1>11, <2>1, <2>2
<1>21. CASE ScriptStep("shell")
  <2>1. /\ doing["shell"] \in Script /\ doing'["shell"] \in Script \cup {"off"}
        /\ doing'["netup"] = doing["netup"] /\ saw' = saw
    BY <1>21 DEF ScriptStep, Deconfig, NoLease, Lease, Bound, AddAddress, DelRoute, AddRoute,
                 Truncate, WriteDns, Go, test
  <2> QED
    BY <1>11, <2>1
<1>22. ASSUME ScriptStep("netup")
       PROVE  /\ doing["netup"] \in Script /\ doing'["netup"] \in Script \cup {"off"}
              /\ doing'["shell"] = doing["shell"] /\ UNCHANGED <<asked, saw, others, iface>>
              /\ doing["netup"] \notin {"truncate", "dns"} => doing'["netup"] # "dns"
  BY <1>22 DEF ScriptStep, Deconfig, NoLease, Lease, Bound, AddAddress, DelRoute, AddRoute,
               Truncate, WriteDns, Go, test
<1>23. ASSUME ScriptStep("netup"),
              others' < 2 /\ ~once' /\ doing["shell"] \in {"route", "resolv"} =>
                (NoRoute => NoRoute') /\ (NoServers => NoServers')
       PROVE  MomentInv'
  <2>1. ASSUME others' < 2, ~once' PROVE Pending'
    <3>1. others < 2
      BY <1>22, <1>23, <2>1
    <3>2. doing["shell"] # "ipv4" => Pending
      BY <1>8, <1>9, <1>22, <1>23, <2>1, <3>1
    <3> QED
      BY <1>22, <1>23, <2>1, <3>2
  <2> QED
    BY <1>10, <1>11, <1>22, <1>23, <2>1
<1>24. ASSUME ScriptStep("netup"), doing["shell"] \in {"route", "resolv"}
       PROVE  /\ others < 2 => others = 1
              /\ doing["netup"] # "dns" => ~NoServers
              /\ doing'["netup"] # "dns" => resolv' # <<>>
              /\ asked \in Ifaces \cup {Nothing} /\ iface["netup"] \in Ifaces
  <2>1. others # 0
    BY <1>10, <1>22, <1>24
  <2>2. asked \in Ifaces \cup {Nothing}
    BY DEF LeaseTypeOK
  <2> QED
    BY <1>5, <1>22, <1>24, <2>1, <2>2 DEF NoRoute, NoServers
<1> DEFINE Kept == /\ NoRoute => NoRoute' \/ once'
                   /\ NoServers => NoServers' \/ once'
<1> DEFINE At == ScriptStep("netup") /\ doing["shell"] \in {"route", "resolv"} /\ others < 2
<1>25. CASE Deconfig("netup") \/ Bound("netup")
  <2>1. ASSUME At PROVE Kept
    <3>1. /\ doing["netup"] # "dns" /\ addr' = [addr EXCEPT ![iface["netup"]] = {}]
          /\ route = Nothing => route' = Nothing
      BY <1>25 DEF Deconfig, Bound, Flush
    <3>2. NoRoute => NoRoute'
      BY <1>22, <1>24, <2>1, <3>1 DEF NoRoute, Found, LeaseTypeOK
    <3> QED
      BY <1>24, <2>1, <3>1, <3>2
  <2> QED
    BY <1>22, <1>23, <1>25, <2>1 DEF ScriptStep
<1>26. CASE NoLease("netup") \/ Lease("netup") \/ DelRoute("netup") \/ Truncate("netup")
  <2>1. ASSUME At PROVE Kept
    <3>1. /\ doing["netup"] # "dns" /\ addr' = addr
          /\ route = Nothing => route' = Nothing
      BY <1>26 DEF NoLease, Lease, DelRoute, Truncate, net
    <3>2. NoRoute => NoRoute'
      BY <1>22, <1>24, <2>1, <3>1 DEF NoRoute, Found
    <3> QED
      BY <1>24, <2>1, <3>1, <3>2
  <2> QED
    BY <1>22, <1>23, <1>26, <2>1 DEF ScriptStep
<1>27. CASE AddAddress("netup")
  <2>1. ASSUME At PROVE Kept
    <3>1. /\ doing["netup"] # "dns" /\ route' = route
          /\ addr' = [addr EXCEPT ![iface["netup"]] = @ \cup {offer["netup"].ip}]
      BY <1>27 DEF AddAddress
    <3>2. \A i \in Ifaces : addr[i] # {} => addr'[i] # {}
      BY <3>1 DEF LeaseTypeOK
    <3>3. NoRoute => NoRoute'
      BY <1>22, <1>24, <2>1, <3>1, <3>2 DEF NoRoute, Found
    <3> QED
      BY <1>24, <2>1, <3>1, <3>3
  <2> QED
    BY <1>22, <1>23, <1>27, <2>1 DEF ScriptStep
<1>28. CASE AddRoute("netup")
  <2>1. ASSUME At PROVE Kept
    <3>1. /\ doing["netup"] # "dns" /\ doing'["netup"] = "truncate" /\ addr' = addr
          /\ route' # Nothing /\ route = Nothing => addr[iface["netup"]] # {}
      BY <1>28 DEF AddRoute, Go
    <3>2. NoRoute /\ route' = Nothing => NoRoute'
      BY <1>22, <1>24, <2>1, <3>1 DEF NoRoute, Found
    <3>3. NoRoute /\ route' # Nothing => Found'
      BY <1>22, <1>24, <2>1, <3>1 DEF NoRoute, Found
    <3>4. NoRoute /\ route' # Nothing => once'
      BY <1>6, <1>24, <2>1, <3>1, <3>3
    <3> QED
      BY <1>24, <2>1, <3>1, <3>2, <3>4
  <2> QED
    BY <1>22, <1>23, <1>28, <2>1 DEF ScriptStep
<1>29. CASE WriteDns("netup")
  <2>1. ASSUME At PROVE Kept
    <3>1. addr' = addr /\ route' = route /\ doing["netup"] = "dns"
      BY <1>29 DEF WriteDns
    <3>2. NoRoute => NoRoute'
      BY <1>22, <2>1, <3>1 DEF NoRoute, Found
    <3>3. \/ doing'["netup"] = "off"
          \/ resolv' = Append(resolv, Head(unwritten["netup"]))
      BY <1>29 DEF WriteDns, Go
    <3>4. resolv' # <<>>
      <4>1. CASE doing'["netup"] = "off"
        BY <1>24, <2>1, <4>1
      <4>2. CASE resolv' = Append(resolv, Head(unwritten["netup"]))
        <5>1. resolv \in Seq(Servers)
          BY DEF SeqInv
        <5> DEFINE h == Head(unwritten["netup"])
        <5> HIDE DEF h
        <5>2. Len(Append(resolv, h)) = Len(resolv) + 1 /\ Len(resolv) \in Nat
          BY <5>1
        <5> QED
          BY <4>2, <5>2 DEF h
      <4> QED
        BY <3>3, <4>1, <4>2
    <3>5. NoServers => once'
      BY <1>6, <1>22, <2>1, <3>1, <3>4 DEF NoServers, Found
    <3> QED
      BY <3>2, <3>5
  <2> QED
    BY <1>22, <1>23, <1>29, <2>1 DEF ScriptStep
<1> QED
  BY <1>12, <1>15, <1>16, <1>17, <1>18, <1>19, <1>20, <1>21, <1>25, <1>26, <1>27, <1>28, <1>29
     DEF LeaseNext, ScriptStep, run_network_test

\* All but RouteInv, which needs OneNetwork.
LEMMA LeaseInvariant ==
  LeaseSpec => [](/\ LeaseTypeOK /\ SeqInv /\ OfferInv /\ AddrInv /\ DevInv
                  /\ ServersInv /\ MomentInv)
BY LeaseInitInv, LeaseTypeStep, OfferStep, AddrStep, DevStep, ServersStep, MomentStep, PTL
   DEF LeaseSpec

\* The variables of the machine's network keep their types, for any interfaces,
\* any leases and any name servers.
THEOREM LeaseTypeCorrect == LeaseSpec => []LeaseTypeOK
BY LeaseInvariant, PTL

\* However the two scripts interleave, the name servers of the lease that was
\* last to write them are all there when both are done, in whatever number.
THEOREM ServersAreKept == LeaseSpec => []ServersKept
<1>1. ServersInv => ServersKept
  BY DEF ServersInv, ServersKept, Quiet, Script
<1> QED
  BY <1>1, LeaseInvariant, PTL

\* When "Network result: ok" comes of a test during which at most one client was
\* at work, address, route and name servers were there at one moment.
THEOREM OkWasOneMoment == LeaseSpec => []OkOfOneMoment
<1>1. MomentInv => OkOfOneMoment
  BY DEF MomentInv, Pending, OkOfOneMoment, Ok
<1> QED
  BY <1>1, LeaseInvariant, PTL

\* If the leases offered in each network go together, both scripts leave an
\* address on every interface and a default route when they are done, however
\* their steps interleave and whichever interfaces they are on.
THEOREM Converge == ASSUME OneNetwork PROVE LeaseSpec => []Converges
<1>1. LeaseTypeOK /\ OfferInv /\ AddrInv /\ DevInv /\ RouteInv => Converges
  BY DEF AddrInv, DevInv, RouteInv, WillRoute, WillAddress, Converges, Reachable, Quiet, Script
<1>2. LeaseTypeOK /\ OfferInv /\ AddrInv /\ RouteInv /\ [LeaseNext]_leaseVars => RouteInv'
  BY RouteStep
<1> QED
  BY <1>1, <1>2, LeaseInitInv, LeaseInvariant, PTL DEF LeaseSpec
=============================================================================
