------------------------ MODULE SpsConnectionProofs ------------------------
(***************************************************************************)
(* What SpsConnection promises of session, watchdog, diagnosis and status  *)
(* for any endpoints and any number of changes and lost servers.  None of  *)
(* the properties is inductive: they follow from where in its loop the SPS *)
(* thread has a session, a watchdog, and a finding to show.                *)
(***************************************************************************)
EXTENDS SpsConnection, TLAPS

InSession == Operating \cup {"join", "disconnect"}
Watched   == Operating \cup {"join"}

\* Places of the SPS thread in which there is no session.
Without == {"apply", "capture", "enabled", "probe", "connect", "wait", "clear", "exit"}

Places ==
  /\ pc \in Without \cup InSession \cup {"setup", "close"}
  /\ active \in Endpoints /\ cfg \in Endpoints
  /\ up \in [Endpoints -> BOOLEAN]

\* There is a session exactly between connecting and disconnecting, and it is
\* the one to the active endpoint; the watchdog lives inside it.
SessionPlace ==
  /\ pc \in Without => session = None
  /\ pc \notin Without => session = active
  /\ wd # "none" => pc \in Watched

\* Where the status may be TRUE, and which finding a failed setup leaves.
ShownPlace ==
  /\ global => pc \in InSession \cup {"setup", "clear"}
  /\ pc = "close" => failed
  /\ diag => pc \notin Without \/ failed \/ pc = "clear"

IInv == Places /\ SessionPlace /\ ShownPlace

----------------------------------------------------------------------------
LEMMA InitEstablishes == Init => IInv
BY DEF Init, IInv, Places, SessionPlace, ShownPlace, Without, InSession, Watched, Operating

\* From the head of the loop body to a session.
LEMMA ConnectPreserves ==
  ASSUME IInv, Apply \/ Capture \/ CheckEnabled \/ Probe \/ Connect \/ Wait
  PROVE  IInv'
<1> USE DEF IInv, Places, SessionPlace, ShownPlace, Without, InSession, Watched, Operating,
            At, SetStatus, store, server, app
<1>1. CASE Apply
  BY <1>1 DEF Apply
<1>2. CASE Capture
  BY <1>2 DEF Capture
<1>3. CASE CheckEnabled
  BY <1>3 DEF CheckEnabled
<1>4. CASE Probe
  BY <1>4 DEF Probe
<1>5. CASE Connect
  BY <1>5 DEF Connect
<1>6. CASE Wait
  BY <1>6 DEF Wait
<1> QED BY <1>1, <1>2, <1>3, <1>4, <1>5, <1>6

\* The setup: it fails and closes the session, or starts the watchdog.
LEMMA SetupPreserves ==
  ASSUME IInv, SetupFails \/ Setup
  PROVE  IInv'
<1> USE DEF IInv, Places, SessionPlace, ShownPlace, Without, InSession, Watched, Operating,
            At, SetStatus, store, server, app
<1>1. CASE SetupFails
  BY <1>1 DEF SetupFails
<1>2. CASE Setup
  BY <1>2 DEF Setup
<1> QED BY <1>1, <1>2

\* The operating loop stays inside the session.
LEMMA OperatePreserves ==
  ASSUME IInv,
         \/ CheckRev \/ CheckLink \/ CheckSwitch \/ Heartbeat \/ NotDue \/ Triggers
         \/ KeepAlive \/ TransferEnds \/ StopWatchdog
  PROVE  IInv' 
<1> USE DEF IInv, Places, SessionPlace, ShownPlace, Without, InSession, Watched, Operating,
            At, SetStatus, store, server, app
<1>1. CASE CheckRev
  BY <1>1 DEF CheckRev
<1>2. CASE CheckLink
  BY <1>2 DEF CheckLink
<1>3. CASE CheckSwitch
  BY <1>3 DEF CheckSwitch
<1>4. CASE Heartbeat
  BY <1>4 DEF Heartbeat
<1>5. CASE NotDue
  BY <1>5 DEF NotDue
<1>6. CASE Triggers
  BY <1>6 DEF Triggers
<1>7. CASE KeepAlive
  BY <1>7 DEF KeepAlive
<1>8. CASE TransferEnds
  BY <1>8 DEF TransferEnds
<1>9. CASE StopWatchdog
  BY <1>9 DEF StopWatchdog
<1> QED BY <1>1, <1>2, <1>3, <1>4, <1>5, <1>6, <1>7, <1>8, <1>9

\* The watchdog is joined before the session is closed.
LEMMA ClosePreserves ==
  ASSUME IInv, Join \/ Disconnect
  PROVE  IInv'
<1> USE DEF IInv, Places, SessionPlace, ShownPlace, Without, InSession, Watched, Operating,
            At, SetStatus, store, server, app
<1>1. CASE Join
  BY <1>1 DEF Join
<1>2. CASE Disconnect
  BY <1>2 DEF Disconnect
<1> QED BY <1>1, <1>2

\* The watchdog only ever takes status and diagnosis back.
LEMMA WatchdogPreserves ==
  ASSUME IInv, Watchdog
  PROVE  IInv'
BY DEF IInv, Places, SessionPlace, ShownPlace, Watchdog, WdProbe, WdReport, WdSleep, WdAt,
       SetStatus, store, server, sps, app

\* Settings, network, shutdown and the preview worker's copy leave the place alone.
LEMMA OthersPreserve ==
  ASSUME IInv, Store \/ CopyStatus \/ Shutdown \/ \E e \in Endpoints : Flip(e)
  PROVE  IInv'
<1> USE DEF IInv, Places, SessionPlace, ShownPlace, store, server, sps, app
<1>1. CASE Store
  BY <1>1 DEF Store, ChangeEndpoint, BumpBootRev, ToggleOpc
<1>2. CASE CopyStatus
  BY <1>2 DEF CopyStatus
<1>3. CASE Shutdown
  BY <1>3 DEF Shutdown
<1>4. CASE \E e \in Endpoints : Flip(e)
  BY <1>4 DEF Flip
<1> QED BY <1>1, <1>2, <1>3, <1>4

\* Session, watchdog, diagnosis and status keep to their places in the loop.
THEOREM IInvHolds == Spec => []IInv
<1>1. IInv /\ [Next]_vars => IInv'
  <2> SUFFICES ASSUME IInv, [Next]_vars PROVE IInv' OBVIOUS
  <2>1. CASE Runs(Worker)
    BY <2>1, ConnectPreserves, SetupPreserves, OperatePreserves, ClosePreserves
    DEF Worker, Runs
  <2>2. CASE Hang
    BY <2>2 DEF Hang, store, server, sps, app, IInv, Places, SessionPlace, ShownPlace
  <2>3. CASE Others
    BY <2>3, WatchdogPreserves, OthersPreserve DEF Others
  <2>4. CASE UNCHANGED vars
    BY <2>4 DEF vars, store, server, sps, app, IInv, Places, SessionPlace, ShownPlace
  <2> QED BY <2>1, <2>2, <2>3, <2>4 DEF Next
<1> QED BY <1>1, InitEstablishes, PTL DEF Spec

\* The watchdog never outlives the loop body whose locals it refers to.
THEOREM WatchdogScopeHolds == Spec => []WatchdogScope
<1>1. IInv => WatchdogScope
  BY DEF IInv, SessionPlace, WatchdogScope, Watched, Without, Operating
<1> QED BY <1>1, IInvHolds, PTL

\* Without a session nothing but the finding of a failed setup is shown.
THEOREM NothingStaleHolds == Spec => []NothingStale
<1>1. IInv => NothingStale
  BY ConnectionAssumption
  DEF ConnectionAssumption, IInv, Places, SessionPlace, ShownPlace, NothingStale, InSession, Without,
      Operating
<1> QED BY <1>1, IInvHolds, PTL

----------------------------------------------------------------------------
(* Types.  The flags and the rest are kept apart.                          *)

FlagsOK ==
  /\ opc \in BOOLEAN /\ on \in BOOLEAN /\ alive \in BOOLEAN /\ linkDown \in BOOLEAN
  /\ global \in BOOLEAN /\ connected \in BOOLEAN /\ diag \in BOOLEAN
  /\ failed \in BOOLEAN /\ hung \in BOOLEAN

RestOK ==
  /\ cfg \in Endpoints /\ active \in Endpoints /\ session \in Endpoints \cup {None}
  /\ bootRev \in Nat /\ seenRev \in 0..bootRev /\ unbumped \in Nat
  /\ bootRev + unbumped <= changes
  /\ changes \in 0..MaxChanges /\ flips \in 0..MaxFlips
  /\ pc \in {"apply", "capture", "enabled", "probe", "connect", "setup", "close", "wait",
             "join", "disconnect", "clear", "exit"} \cup Operating
  /\ wd \in {"none", "probe", "clear", "status", "sleep", "ended"}
  /\ copy \in {"none", "true", "false"}

\* Where a heartbeat is written there is a session to ask for.
LEMMA InSessionStatus ==
  ASSUME IInv, pc \in InSession
  PROVE  up[session] \in BOOLEAN
BY DEF IInv, Places, SessionPlace, Without, InSession, Operating

\* Every action keeps the flags Boolean.
LEMMA FlagsStep == IInv /\ FlagsOK /\ [Next]_vars => FlagsOK'
<1> SUFFICES ASSUME IInv, FlagsOK, [Next]_vars PROVE FlagsOK'
  OBVIOUS
<1> USE DEF FlagsOK, At, SetStatus, store, server, sps, app
<1>0. pc \in {"beat", "transfer"} => up[session] \in BOOLEAN
  BY InSessionStatus DEF InSession, Operating
<1>1. CASE Runs(Worker)
  <2>1. CASE Apply BY <1>1, <2>1, Zenon DEF Apply, Runs
  <2>2. CASE Capture BY <1>1, <2>2, Zenon DEF Capture, Runs
  <2>3. CASE CheckEnabled BY <1>1, <2>3, Zenon DEF CheckEnabled, Runs
  <2>4. CASE Probe BY <1>1, <2>4, Zenon DEF Probe, Runs
  <2>5. CASE Connect BY <1>1, <2>5, Zenon DEF Connect, Runs
  <2>6. CASE SetupFails BY <1>1, <2>6, Zenon DEF SetupFails, Runs
  <2>7. CASE Setup BY <1>1, <2>7, Zenon DEF Setup, Runs
  <2>8. CASE Wait BY <1>1, <2>8, Zenon DEF Wait, Runs
  <2>9. CASE CheckRev BY <1>1, <2>9, Zenon DEF CheckRev, Runs
  <2>10. CASE CheckLink BY <1>1, <2>10, Zenon DEF CheckLink, Runs
  <2>11. CASE CheckSwitch BY <1>1, <2>11, Zenon DEF CheckSwitch, Runs
  <2>12. CASE Heartbeat BY <1>1, <2>12, <1>0, Zenon DEF Heartbeat, Runs
  <2>13. CASE NotDue BY <1>1, <2>13, Zenon DEF NotDue, Runs
  <2>14. CASE Triggers BY <1>1, <2>14, Zenon DEF Triggers, Runs
  <2>15. CASE KeepAlive BY <1>1, <2>15, <1>0, Zenon DEF KeepAlive, Runs
  <2>16. CASE TransferEnds BY <1>1, <2>16, Zenon DEF TransferEnds, Runs
  <2>17. CASE StopWatchdog BY <1>1, <2>17, Zenon DEF StopWatchdog, Runs
  <2>18. CASE Join BY <1>1, <2>18, Zenon DEF Join, Runs
  <2>19. CASE Disconnect BY <1>1, <2>19, Zenon DEF Disconnect, Runs
  <2> QED BY <1>1, <2>1, <2>2, <2>3, <2>4, <2>5, <2>6, <2>7, <2>8, <2>9, <2>10, <2>11, <2>12, <2>13, <2>14, <2>15, <2>16, <2>17, <2>18, <2>19 DEF Worker, Runs
<1>2. CASE Hang BY <1>2, Zenon DEF Hang
<1>3. CASE Others /\ UNCHANGED hung
  <2>1. CASE Watchdog BY <1>3, <2>1, Zenon DEF Watchdog, WdProbe, WdReport, WdSleep, WdAt
  <2>2. CASE Store BY <1>3, <2>2, Zenon DEF Store, ChangeEndpoint, BumpBootRev, ToggleOpc
  <2>3. CASE CopyStatus BY <1>3, <2>3, Zenon DEF CopyStatus
  <2>4. CASE Shutdown BY <1>3, <2>4, Zenon DEF Shutdown
  <2>5. ASSUME NEW e \in Endpoints, Flip(e) PROVE FlagsOK'
    BY <1>3, <2>5, Zenon DEF Flip
  <2> QED BY <1>3, <2>1, <2>2, <2>3, <2>4, <2>5 DEF Others
<1>4. CASE UNCHANGED vars BY <1>4, Zenon DEF vars
<1> QED BY <1>1, <1>2, <1>3, <1>4 DEF Next

\* Every action keeps the other types, and counts no change twice.
LEMMA RestStep == IInv /\ RestOK /\ [Next]_vars => RestOK'
<1> SUFFICES ASSUME IInv, RestOK, [Next]_vars PROVE RestOK'
  OBVIOUS
<1> USE ConnectionAssumption DEF ConnectionAssumption, RestOK, Operating, At, SetStatus,
      store, server, sps, app
<1>1. CASE Runs(Worker)
  <2>1. CASE Apply BY <1>1, <2>1 DEF Apply, Runs
  <2>2. CASE Capture BY <1>1, <2>2 DEF Capture, Runs
  <2>3. CASE CheckEnabled BY <1>1, <2>3 DEF CheckEnabled, Runs
  <2>4. CASE Probe BY <1>1, <2>4 DEF Probe, Runs
  <2>5. CASE Connect BY <1>1, <2>5 DEF Connect, Runs
  <2>6. CASE SetupFails BY <1>1, <2>6 DEF SetupFails, Runs
  <2>7. CASE Setup BY <1>1, <2>7 DEF Setup, Runs
  <2>8. CASE Wait BY <1>1, <2>8 DEF Wait, Runs
  <2>9. CASE CheckRev BY <1>1, <2>9 DEF CheckRev, Runs
  <2>10. CASE CheckLink BY <1>1, <2>10 DEF CheckLink, Runs
  <2>11. CASE CheckSwitch BY <1>1, <2>11 DEF CheckSwitch, Runs
  <2>12. CASE Heartbeat BY <1>1, <2>12 DEF Heartbeat, Runs
  <2>13. CASE NotDue BY <1>1, <2>13 DEF NotDue, Runs
  <2>14. CASE Triggers BY <1>1, <2>14 DEF Triggers, Runs
  <2>15. CASE KeepAlive BY <1>1, <2>15 DEF KeepAlive, Runs
  <2>16. CASE TransferEnds BY <1>1, <2>16 DEF TransferEnds, Runs
  <2>17. CASE StopWatchdog BY <1>1, <2>17 DEF StopWatchdog, Runs
  <2>18. CASE Join BY <1>1, <2>18 DEF Join, Runs
  <2>19. CASE Disconnect BY <1>1, <2>19 DEF Disconnect, Runs
  <2> QED BY <1>1, <2>1, <2>2, <2>3, <2>4, <2>5, <2>6, <2>7, <2>8, <2>9, <2>10, <2>11, <2>12, <2>13, <2>14, <2>15, <2>16, <2>17, <2>18, <2>19 DEF Worker, Runs
<1>2. CASE Hang BY <1>2 DEF Hang
<1>3. CASE Others /\ UNCHANGED hung
  <2>1. CASE Watchdog BY <1>3, <2>1 DEF Watchdog, WdProbe, WdReport, WdSleep, WdAt
  <2>2. CASE Store BY <1>3, <2>2 DEF Store, ChangeEndpoint, BumpBootRev, ToggleOpc
  <2>3. CASE CopyStatus BY <1>3, <2>3 DEF CopyStatus
  <2>4. CASE Shutdown BY <1>3, <2>4 DEF Shutdown
  <2>5. ASSUME NEW e \in Endpoints, Flip(e) PROVE RestOK'
    BY <1>3, <2>5 DEF Flip
  <2> QED BY <1>3, <2>1, <2>2, <2>3, <2>4, <2>5 DEF Others
<1>4. CASE UNCHANGED vars BY <1>4 DEF vars
<1> QED BY <1>1, <1>2, <1>3, <1>4 DEF Next

\* TypeOK: bootRev_ never runs ahead of the changes stored.
THEOREM TypeHolds == Spec => []TypeOK
<1>1. Init => FlagsOK /\ RestOK
  <2>1. Init => FlagsOK
    BY Zenon DEF Init, FlagsOK
  <2>2. Init => RestOK
    BY ConnectionAssumption DEF ConnectionAssumption, Init, RestOK
  <2> QED BY <2>1, <2>2
<1>2. IInv /\ FlagsOK /\ RestOK => TypeOK
  BY DEF IInv, Places, FlagsOK, RestOK, TypeOK
<1>3. IInv /\ FlagsOK /\ RestOK /\ [Next]_vars => (FlagsOK /\ RestOK)'
  BY FlagsStep, RestStep
<1> QED BY <1>1, <1>2, <1>3, IInvHolds, PTL DEF Spec
=============================================================================
