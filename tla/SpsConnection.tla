--------------------------- MODULE SpsConnection ---------------------------
(***************************************************************************)
(* spsWorkerLoop: the thread that keeps the service connected to the PLC,  *)
(* the watchdog thread it starts for every session, and the settings whose *)
(* change makes it connect anew.                                           *)
(*                                                                         *)
(*   PUT /api/settings  --> cfg, opc, bootRev --> worker --> session       *)
(*   watchdog  --> linkDown  --> worker                                    *)
(*   worker, watchdog --> connected, diag (AppState) --> web interface     *)
(*   preview worker: copies g_sps_connected into AppState                  *)
(*                                                                         *)
(* A setting other than opcEnabled is reduced to the endpoint.  Waiting    *)
(* times are not modelled: a wait is a state the thread may leave, the     *)
(* 1 s, 3 s and 10 s timers are choices.  A call on a dead link may      *)
(* block: the SPS thread then hangs, for ever in the worst case.           *)
(***************************************************************************)
EXTENDS Integers

CONSTANTS
  Endpoints,    \* values of the setting ipSPS
  None,         \* no session
  MaxChanges,   \* bound: changes of settings in a behaviour
  MaxFlips,     \* bound: times a server appears, disappears or has a wrong node
  Disturb       \* "window", "preview", "shutdown", "toggle", "hang"

ASSUME ConnectionAssumption ==
  /\ None \notin Endpoints
  /\ MaxChanges \in Nat /\ MaxFlips \in Nat
  /\ Disturb \subseteq {"window", "preview", "shutdown", "toggle", "hang"}

VARIABLES
  cfg,        \* ipSPS in the settings store
  opc,        \* opcEnabled in the settings store
  bootRev,    \* bootRev_
  unbumped,   \* setMany calls that have changed the store and not yet bootRev_
  changes,    \* changes so far
  up,         \* which servers can be reached
  flips,      \* such events so far
  on,         \* g_running
  pc,         \* the SPS thread
  active,     \* ipOPC, set by applySettings
  seenRev,    \* bootRev of the loop body
  session,    \* endpoint of the open session, or None
  alive,      \* loopRunning
  linkDown,   \* linkDown
  wd,         \* the watchdog thread
  global,     \* g_sps_connected
  connected,  \* AppState.spsConnected_
  diag,       \* nodeDiag_ is not empty
  failed,     \* the setup of the latest session failed
  copy,       \* the preview worker: the value it has loaded, or "none"
  hung        \* the SPS thread hangs in a call on a dead link

store == <<cfg, opc, bootRev, unbumped, changes>>
server == <<up, flips>>
sps == <<pc, active, seenRev, session, alive, linkDown>>
app == <<global, connected, diag, failed>>
vars == <<store, server, on, sps, wd, app, copy, hung>>

----------------------------------------------------------------------------
SetStatus(value) == global' = value /\ connected' = value
At(label, next) == pc = label /\ pc' = next

(* The settings store: setMany writes under its lock, then counts up.       *)

\* A bootstrap setting changes; bootRev_ follows in a step of its own.
ChangeEndpoint(e) ==
  /\ changes < MaxChanges /\ e # cfg
  /\ cfg' = e
  /\ changes' = changes + 1 /\ unbumped' = unbumped + 1
  /\ UNCHANGED <<opc, bootRev, server, on, sps, wd, app, copy>>

\* Faulty: the change is not announced to the SPS thread.
BumpForgotten ==
  /\ unbumped > 0
  /\ unbumped' = unbumped - 1
  /\ UNCHANGED <<cfg, opc, bootRev, changes, server, on, sps, wd, app, copy>>

\* "window": also while the thread is between applying and reading the revision.
BumpBootRev ==
  /\ unbumped > 0
  /\ "window" \in Disturb \/ pc # "capture"
  /\ bootRev' = bootRev + 1 /\ unbumped' = unbumped - 1
  /\ UNCHANGED <<cfg, opc, changes, server, on, sps, wd, app, copy>>

\* opcEnabled is a live key: no bootRev_.
ToggleOpc ==
  /\ "toggle" \in Disturb
  /\ changes < MaxChanges
  /\ opc' = ~opc /\ changes' = changes + 1
  /\ UNCHANGED <<cfg, bootRev, unbumped, server, on, sps, wd, app, copy>>

Store == (\E e \in Endpoints : ChangeEndpoint(e)) \/ BumpBootRev \/ ToggleOpc

----------------------------------------------------------------------------
(* The SPS thread.                                                         *)

Apply ==
  /\ pc = "apply"
  /\ IF on THEN pc' = "capture" /\ active' = cfg ELSE pc' = "exit" /\ UNCHANGED active
  /\ UNCHANGED <<store, server, on, seenRev, session, alive, linkDown, wd, app, copy>>

Capture ==
  /\ At("capture", "enabled")
  /\ seenRev' = bootRev
  /\ UNCHANGED <<store, server, on, active, session, alive, linkDown, wd, app, copy>>

\* Switched off: no session, look again after two seconds.
CheckEnabled ==
  /\ At("enabled", IF opc THEN "probe" ELSE "wait")
  /\ diag' = FALSE /\ SetStatus(FALSE)
  /\ UNCHANGED <<store, server, on, active, seenRev, session, alive, linkDown, wd, failed, copy>>

Probe ==
  /\ At("probe", IF up[active] THEN "connect" ELSE "wait")
  /\ diag' = IF up[active] THEN diag ELSE FALSE
  /\ IF up[active] THEN UNCHANGED <<global, connected>> ELSE SetStatus(FALSE)
  /\ UNCHANGED <<store, server, on, active, seenRev, session, alive, linkDown, wd, failed, copy>>

Connect ==
  /\ pc = "connect"
  /\ IF up[active]
     THEN /\ pc' = "setup" /\ session' = active /\ failed' = FALSE
          /\ SetStatus(TRUE) /\ UNCHANGED diag
     ELSE /\ pc' = "wait" /\ diag' = FALSE
          /\ SetStatus(FALSE) /\ UNCHANGED <<session, failed>>
  /\ UNCHANGED <<store, server, on, active, seenRev, alive, linkDown, wd, copy>>

\* A node is missing or of the wrong type, or the server is gone: the findings
\* are collected for the web interface before the session is closed.
SetupFails ==
  /\ \/ /\ At("setup", "close")
        /\ \/ ~up[active] /\ UNCHANGED flips
           \/ flips < MaxFlips /\ flips' = flips + 1
        /\ diag' = TRUE /\ failed' = TRUE /\ SetStatus(FALSE) /\ UNCHANGED session
     \/ /\ At("close", "wait")
        /\ session' = None /\ UNCHANGED <<app, flips>>
  /\ UNCHANGED <<store, up, on, active, seenRev, alive, linkDown, wd, copy>>

\* Nodes registered: the watchdog starts, then the operating loop.
Setup ==
  /\ At("setup", "rev")
  /\ up[active]
  /\ SetStatus(TRUE) /\ diag' = TRUE
  /\ alive' = TRUE /\ linkDown' = FALSE /\ wd' = "probe"
  /\ UNCHANGED <<store, server, on, active, seenRev, session, failed, copy>>

\* A wait ends after its time, or at once on a shutdown or a changed revision.
Wait ==
  /\ At("wait", "apply")
  /\ UNCHANGED <<store, server, on, active, seenRev, session, alive, linkDown, wd, app, copy>>

\* Faulty: the operating loop looks for changed settings only.
CheckRevOnly ==
  /\ At("rev", IF bootRev # seenRev THEN "stop" ELSE "link")
  /\ UNCHANGED <<store, server, on, active, seenRev, session, alive, linkDown, wd, app, copy>>

\* Head of the operating loop: shutdown or a changed bootstrap setting.
CheckRev ==
  /\ At("rev", IF ~on \/ bootRev # seenRev THEN "stop" ELSE "link")
  /\ UNCHANGED <<store, server, on, active, seenRev, session, alive, linkDown, wd, app, copy>>

\* Every 10 s the diagnosis is refreshed, then the watchdog's flag is looked at.
CheckLink ==
  /\ At("link", IF linkDown THEN "stop" ELSE "switch")
  /\ diag' \in {diag, TRUE}
  /\ UNCHANGED <<store, server, on, active, seenRev, session, alive, linkDown, wd,
                 global, connected, failed, copy>>

\* Faulty: the switch is looked at only before connecting.
CheckSwitchOnce ==
  /\ At("switch", "beat")
  /\ UNCHANGED <<store, server, on, active, seenRev, session, alive, linkDown, wd, app, copy>>

CheckSwitch ==
  /\ At("switch", IF opc THEN "beat" ELSE "stop")
  /\ UNCHANGED <<store, server, on, active, seenRev, session, alive, linkDown, wd, app, copy>>

\* Once a second; a failed write means that the PLC is gone.
Heartbeat ==
  /\ At("beat", IF up[session] THEN "triggers" ELSE "stop")
  /\ SetStatus(up[session])
  /\ UNCHANGED <<store, server, on, active, seenRev, session, alive, linkDown, wd, diag, failed, copy>>

NotDue ==
  /\ At("beat", "triggers")
  /\ UNCHANGED <<store, server, on, active, seenRev, session, alive, linkDown, wd, app, copy>>

\* The triggers of the PLC; a transfer or a live image keeps the thread.
Triggers ==
  /\ \/ At("triggers", "rev")
     \/ At("triggers", "transfer")
  /\ UNCHANGED <<store, server, on, active, seenRev, session, alive, linkDown, wd, app, copy>>

\* keepAlive_ inside the handshake: heartbeat, link and shutdown, no settings.
KeepAlive ==
  /\ pc = "transfer"
  /\ \/ /\ SetStatus(up[session])
        /\ pc' = IF up[session] /\ on /\ ~linkDown THEN "transfer" ELSE "rev"
     \/ /\ ~on \/ linkDown                \* between two heartbeats
        /\ pc' = "rev" /\ UNCHANGED <<global, connected>>
  /\ UNCHANGED <<store, server, on, active, seenRev, session, alive, linkDown, wd, diag,
                 failed, copy>>

\* The handshake ends: BlockTransfer, RequestAnswered.
TransferEnds ==
  /\ At("transfer", "rev")
  /\ UNCHANGED <<store, server, on, active, seenRev, session, alive, linkDown, wd, app, copy>>

StopWatchdog ==
  /\ At("stop", "join")
  /\ alive' = FALSE
  /\ UNCHANGED <<store, server, on, active, seenRev, session, linkDown, wd, app, copy>>

\* Faulty: the watchdog is detached instead of joined.
Detach ==
  /\ At("join", "disconnect")
  /\ UNCHANGED <<store, server, on, active, seenRev, session, alive, linkDown, wd, app, copy>>

Join ==
  /\ At("join", "disconnect")
  /\ wd = "ended" /\ wd' = "none"
  /\ UNCHANGED <<store, server, on, active, seenRev, session, alive, linkDown, app, copy>>

\* Faulty: the diagnosis of the closed session is left standing.
DisconnectKeepsDiag ==
  /\ \/ At("disconnect", "clear") /\ session' = None /\ UNCHANGED app
     \/ At("clear", "apply") /\ SetStatus(FALSE) /\ UNCHANGED <<session, diag>>
  /\ UNCHANGED <<store, server, on, active, seenRev, alive, linkDown, wd, failed, copy>>

Disconnect ==
  /\ \/ At("disconnect", "clear") /\ session' = None /\ UNCHANGED app
     \/ At("clear", "apply") /\ diag' = FALSE /\ SetStatus(FALSE) /\ UNCHANGED session
  /\ UNCHANGED <<store, server, on, active, seenRev, alive, linkDown, wd, failed, copy>>

Worker ==
  \/ Apply \/ Capture \/ CheckEnabled \/ Probe \/ Connect \/ SetupFails \/ Setup \/ Wait
  \/ CheckRev \/ CheckLink \/ CheckSwitch \/ Heartbeat \/ NotDue \/ Triggers
  \/ KeepAlive \/ TransferEnds \/ StopWatchdog \/ Join \/ Disconnect

----------------------------------------------------------------------------
(* The watchdog thread, its own TCP probe every three seconds.             *)

WdAt(label, next) == wd = label /\ wd' = next

WdProbe ==
  /\ WdAt("probe", IF up[active] THEN "sleep" ELSE "clear")
  /\ linkDown' = ~up[active]
  /\ UNCHANGED <<store, server, on, pc, active, seenRev, session, alive, app, copy>>

\* Faulty: the loss is only handed to the operating loop.
WdReportsToLoop ==
  /\ \/ WdAt("clear", "status") /\ diag' = FALSE
     \/ WdAt("status", "sleep") /\ UNCHANGED diag
  /\ UNCHANGED <<store, server, on, sps, global, connected, failed, copy>>

\* The loss is shown whether or not the SPS thread hangs in a call.
WdReport ==
  /\ \/ WdAt("clear", "status") /\ diag' = FALSE /\ UNCHANGED <<global, connected>>
     \/ WdAt("status", "sleep") /\ SetStatus(FALSE) /\ UNCHANGED diag
  /\ UNCHANGED <<store, server, on, sps, failed, copy>>

WdSleep ==
  /\ WdAt("sleep", IF alive /\ on THEN "probe" ELSE "ended")
  /\ UNCHANGED <<store, server, on, sps, app, copy>>

Watchdog == WdProbe \/ WdReport \/ WdSleep

----------------------------------------------------------------------------
(* The preview worker copies the status before it takes a command.         *)

CopyStatus ==
  /\ "preview" \in Disturb
  /\ \/ copy = "none" /\ copy' = (IF global THEN "true" ELSE "false") /\ UNCHANGED connected
     \/ copy # "none" /\ copy' = "none" /\ connected' = (copy = "true")
  /\ UNCHANGED <<store, server, on, sps, wd, global, diag, failed>>

(* Network and operator.                                                   *)

Flip(e) ==
  /\ flips < MaxFlips
  /\ up' = [up EXCEPT ![e] = ~@] /\ flips' = flips + 1
  /\ UNCHANGED <<store, on, sps, wd, app, copy>>

\* An OPC UA call on a server that is lost does not return.
Hang ==
  /\ "hang" \in Disturb
  /\ ~hung /\ ~up[active]
  /\ pc \in {"connect", "setup", "link", "beat", "triggers", "transfer", "disconnect"}
  /\ hung' = TRUE
  /\ UNCHANGED <<store, server, on, sps, wd, app, copy>>

Shutdown ==
  /\ "shutdown" \in Disturb
  /\ on /\ on' = FALSE
  /\ UNCHANGED <<store, server, sps, wd, app, copy>>

----------------------------------------------------------------------------
Init ==
  /\ cfg \in Endpoints /\ opc \in BOOLEAN /\ bootRev = 0 /\ unbumped = 0 /\ changes = 0
  /\ up \in [Endpoints -> BOOLEAN] /\ flips = 0
  /\ on = TRUE
  /\ pc = "apply" /\ active = cfg /\ seenRev = 0 /\ session = None
  /\ alive = FALSE /\ linkDown = FALSE
  /\ wd = "none"
  /\ global = FALSE /\ connected = FALSE /\ diag = FALSE /\ failed = FALSE
  /\ copy = "none" /\ hung = FALSE

\* A step of the SPS thread, which does not hang.
Runs(A) == ~hung /\ A /\ UNCHANGED hung

Others ==
  \/ Watchdog \/ Store \/ CopyStatus \/ Shutdown
  \/ \E e \in Endpoints : Flip(e)

Next == Runs(Worker) \/ Hang \/ (Others /\ UNCHANGED hung)

Spec == Init /\ [][Next]_vars

\* Both threads are scheduled unless the SPS thread hangs, setMany finishes, a
\* heartbeat falls due again and again, a transfer ends.
FairSpec ==
  /\ Spec
  /\ WF_vars(Runs(Worker)) /\ WF_vars(Watchdog /\ UNCHANGED hung)
  /\ WF_vars(BumpBootRev /\ UNCHANGED hung)
  /\ SF_vars(Runs(Heartbeat)) /\ WF_vars(Runs(TransferEnds))

----------------------------------------------------------------------------
Operating == {"rev", "link", "switch", "beat", "triggers", "transfer", "stop"}

TypeOK ==
  /\ cfg \in Endpoints /\ opc \in BOOLEAN /\ on \in BOOLEAN
  /\ bootRev \in Nat /\ seenRev \in 0..bootRev /\ unbumped \in Nat
  /\ bootRev + unbumped <= changes
  /\ changes \in 0..MaxChanges /\ flips \in 0..MaxFlips
  /\ up \in [Endpoints -> BOOLEAN]
  /\ pc \in {"apply", "capture", "enabled", "probe", "connect", "setup", "close", "wait",
             "join", "disconnect", "clear", "exit"} \cup Operating
  /\ active \in Endpoints /\ session \in Endpoints \cup {None}
  /\ alive \in BOOLEAN /\ linkDown \in BOOLEAN
  /\ wd \in {"none", "probe", "clear", "status", "sleep", "ended"}
  /\ global \in BOOLEAN /\ connected \in BOOLEAN /\ diag \in BOOLEAN
  /\ failed \in BOOLEAN
  /\ copy \in {"none", "true", "false"} /\ hung \in BOOLEAN

\* The watchdog captures locals of the loop body by reference: it lives only
\* while they do, and watches the endpoint of the open session.
WatchdogScope ==
  wd # "none" => pc \in Operating \cup {"join"} /\ session = active

\* "Ohne OPC-Sitzung sind die Knoten-Diagnosewerte ungueltig. Sie MUESSEN
\* geloescht werden" (main.cpp): what is shown without a session is at most the
\* finding of the setup that failed, whatever SPS thread and watchdog write; and
\* g_sps_connected is set only while there is one.  AppState's own flag may lag
\* behind: the preview worker copies with a load and a later store.
NothingStale == session = None /\ pc # "clear" => ~global /\ (diag => failed)

\* A stored endpoint that can be reached comes into use without a restart, and
\* the web interface says so (main.cpp: "Aendert sich eine Bootstrap-Einstellung
\* (...), wird die Verbindung automatisch neu aufgebaut").
InUse == <>[](on /\ opc /\ up[cfg] /\ ~hung) => <>[](session = cfg /\ connected)

\* opcEnabled = 0 ends the connection.
SwitchedOff == <>[](~opc /\ ~hung) => <>[](session = None)

\* A lost server is shown although the SPS thread hangs in a call on it.
LossShown ==
  wd # "none" /\ ~up[active] ~> ~connected \/ up[active] \/ wd \in {"none", "ended"}

\* The threads end after a shutdown.
ShutdownEnds == ~on ~> pc = "exit" \/ hung
=============================================================================
