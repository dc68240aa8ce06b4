--------------------------- MODULE DewInitProofs ---------------------------
(***************************************************************************)
(* Proofs about DewInit.  The settings of the console at a prompt depend   *)
(* on what every earlier owner left in tty, original and saved, so the     *)
(* safety properties are proved from one inductive invariant that follows  *)
(* the three of them through every place PID 1 can be in.                  *)
(***************************************************************************)
EXTENDS DewInit, TLAPS

IsRaw(t) == ~t.canon /\ ~t.echo

\* Whoever hands the console back without enable_raw_mode found it raw.
RawInv ==
  /\ pc \in {"setup", "boot"} => ~held
  /\ pc = "prompt" => IsRaw(tty)
  /\ pc = "child" /\ job = "kilo" => IsRaw(tty) /\ (held => IsRaw(saved))

\* Where the cooked settings are kept while nobody has changed them.
CookedInv ==
  ~dirty =>
    /\ pc \in {"setup", "boot", "login", "ask"} => tty = Cooked
    /\ pc \in {"password", "su_password", "ask_password"} =>
         saved = Cooked /\ tty = NoEcho(Cooked)
    /\ pc = "prompt" => original = Cooked /\ tty = Raw(Cooked)
    /\ pc = "child" /\ job # "kilo" =>
         IF held THEN saved = Cooked ELSE tty = Cooked
    /\ pc = "child" /\ job = "kilo" =>
         original = Cooked /\ (IF held THEN saved ELSE tty) = Raw(Cooked)

\* What has been settled about the account by the time a password is asked.
AccountInv ==
  /\ pc \in {"setup", "boot"} => user = "root"
  /\ pc \in {"login", "password", "su_password"} => rootfs_ready
  /\ pc = "su_password" => asked \in Good

IInv == TypeOK /\ RawInv /\ CookedInv /\ AccountInv

-----------------------------------------------------------------------------
(* The operators on line settings.                                         *)

\* Every change the code makes to line settings yields line settings, and
\* the two raw modes are raw.
LEMMA SettingsClosed ==
  /\ Cooked \in Settings /\ Zeroed \in Settings
  /\ \A t \in Settings :
       /\ Raw(t) \in Settings /\ IsRaw(Raw(t))
       /\ KiloRaw(t) \in Settings /\ IsRaw(KiloRaw(t))
       /\ NoEcho(t) \in Settings
  BY DEF Settings, Cooked, Zeroed, Raw, KiloRaw, NoEcho, IsRaw

\* The initial states satisfy the invariant.
LEMMA InitIInv == Init => IInv
  BY SettingsClosed, NamesAssumption
  DEF Init, IInv, TypeOK, Pcs, RawInv, CookedInv, AccountInv

\* Every step keeps the invariant, one case per action.
LEMMA NextIInv == IInv /\ [Next]_vars => IInv'
<1> SUFFICES ASSUME IInv, [Next]_vars PROVE IInv'
  OBVIOUS
<1> USE SettingsClosed, NamesAssumption
<1> USE DEF IInv, TypeOK, Pcs, RawInv, CookedInv, AccountInv, ttyVars, enable_raw_mode,
            HideInput, ReadCin
<1>1. CASE setup_console
  BY <1>1 DEF setup_console
<1>2. CASE BootInstalled
  BY <1>2 DEF BootInstalled
<1>3. CASE BootInstaller
  <2>1. CASE pc' = "child"
    <3>1. /\ job' = "boot_install"
          /\ rootfs_ready' = FALSE
          /\ UNCHANGED <<ttyVars, dirty, cinBad, asked, user, marker, installer>>
      BY <1>3, <2>1 DEF BootInstaller
    <3>2. TypeOK'
      BY <2>1, <3>1
    <3>3. RawInv' /\ CookedInv' /\ AccountInv'
      BY <1>3, <2>1, <3>1 DEF BootInstaller
    <3> QED
      BY <3>2, <3>3
  <2>2. CASE pc' = "prompt"
    BY <1>3, <2>2 DEF BootInstaller
  <2> QED
    BY <1>3, <2>1, <2>2 DEF BootInstaller
<1>4. CASE BootLive
  BY <1>4 DEF BootLive
<1>5. ASSUME NEW n \in Names, TypeName(n) PROVE IInv'
  BY <1>5 DEF TypeName
<1>6. ASSUME NEW n \in Names, Su(n) PROVE IInv'
  BY <1>6 DEF Su
<1>7. CASE LoginEof
  BY <1>7 DEF LoginEof
<1>8. CASE LoginPassword
  BY <1>8 DEF LoginPassword
<1>9. CASE SuPassword
  BY <1>9 DEF SuPassword
<1>10. ASSUME NEW p \in HandsOver, Spawn(p) PROVE IInv'
  BY <1>10 DEF Spawn, HandsOver, Jobs
<1>11. ASSUME NEW p \in HandsOver, SpawnFails(p) PROVE IInv'
  BY <1>11 DEF SpawnFails
<1>12. CASE SpawnKilo
  BY <1>12 DEF SpawnKilo, Jobs
<1>13. CASE AskWifi
  BY <1>13 DEF AskWifi
<1>14. CASE AnswerWifi
  BY <1>14 DEF AnswerWifi
<1>15. CASE WifiPassword
  BY <1>15 DEF WifiPassword
<1>16. CASE EditMarker
  BY <1>16 DEF EditMarker
<1>17. CASE Power
  BY <1>17 DEF Power
<1>18. CASE ChildRaw
  BY <1>18 DEF ChildRaw, Installers
<1>19. CASE ChildCooked
  BY <1>19 DEF ChildCooked
<1>20. CASE Reaped
  BY <1>20 DEF Reaped
<1>21. ASSUME NEW t \in Settings, ChildStty(t) PROVE IInv'
  BY <1>21 DEF ChildStty, Installers
<1>22. CASE UNCHANGED vars
  BY <1>22 DEF vars
<1> QED
  BY <1>1, <1>2, <1>3, <1>4, <1>5, <1>6, <1>7, <1>8, <1>9, <1>10, <1>11,
     <1>12, <1>13, <1>14, <1>15, <1>16, <1>17, <1>18, <1>19, <1>20, <1>21,
     <1>22 DEF Next

\* The invariant holds in every reachable state.
THEOREM IInvAlways == Spec => []IInv
  BY InitIInv, NextIInv, PTL DEF Spec

-----------------------------------------------------------------------------
\* The variables of PID 1 stay in their types.
THEOREM TypeCorrect == Spec => []TypeOK
<1>1. IInv => TypeOK
  BY DEF IInv
<1> QED
  BY <1>1, IInvAlways, PTL

\* read_line finds the console raw and silent at every prompt, whatever the
\* children did to the line settings and however they ended.
THEOREM RawAtEveryPrompt == Spec => []RawAtPrompt
<1>1. IInv => RawAtPrompt
  BY DEF IInv, RawInv, IsRaw, RawAtPrompt
<1> QED
  BY <1>1, IInvAlways, PTL

\* As long as children restore what they changed, every program started from
\* the shell and every question asked finds a cooked terminal: original_termios
\* is never overwritten with the raw settings.
THEOREM CookedIsPreserved == Spec => []CookedPreserved
<1>1. IInv => CookedPreserved
  BY DEF IInv, CookedInv, CookedPreserved
<1> QED
  BY <1>1, IInvAlways, PTL

-----------------------------------------------------------------------------
\* Nobody becomes another user except through a password prompt for an account
\* that load_user_from_files accepted while a root file system was in use.
THEOREM IdentityIsFromFiles == Spec => IdentityFromFiles
<1> DEFINE Step == user' # user => /\ pc \in {"password", "su_password"}
                                   /\ user' = asked /\ user' \in Good
                                   /\ rootfs_ready
<1>1. IInv /\ [Next]_vars => [Step]_vars
  <2> SUFFICES ASSUME IInv, Next, user' # user PROVE Step
    OBVIOUS
  <2>1. \/ BootLive \/ LoginPassword \/ SuPassword
    BY DEF Next, setup_console, BootInstalled, BootInstaller, TypeName, Su,
           LoginEof, Spawn, SpawnFails, SpawnKilo, AskWifi, AnswerWifi,
           WifiPassword, EditMarker, Power, ChildRaw, ChildCooked, ChildStty,
           Reaped
  <2>2. CASE BootLive
    BY <2>2 DEF BootLive, IInv, AccountInv
  <2>3. CASE LoginPassword
    BY <2>3 DEF LoginPassword, IInv, AccountInv
  <2>4. CASE SuPassword
    BY <2>4 DEF SuPassword, IInv, AccountInv
  <2> QED
    BY <2>1, <2>2, <2>3, <2>4
<1> QED
  BY <1>1, IInvAlways, PTL DEF Spec, IdentityFromFiles
=============================================================================
