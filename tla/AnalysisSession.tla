--------------------------- MODULE AnalysisSession ---------------------------
(***************************************************************************)
(* One top-level analysis at a time, and the Python environment it shares  *)
(* with setup commands and connection probes.                              *)
(*                                                                         *)
(*   src/orchestrator.ts              runAnalysisSession, abortTest        *)
(*   src/pipeline/executionContext.ts ExecutionManager, ExecutionContext   *)
(*   src/environment/analysisEnvironmentLease.ts  AnalysisEnvironmentLease *)
(*   src/environment/pythonEnvironmentSetup.ts  PythonEnvironmentActivity  *)
(*   src/ui/SidebarProvider.ts        start handshake, probes              *)
(*   src/ui/webviewContent.ts         the panel's analysisRunning flag     *)
(*                                                                         *)
(* A step is what the extension host runs between two awaits.  A session   *)
(* is one call of runAnalysisSession; a slot is reused once its call has   *)
(* returned.                                                               *)
(***************************************************************************)
EXTENDS Integers, FiniteSets

CONSTANTS
    Sessions,   \* slots for calls of runAnalysisSession
    Setups,     \* standalone setup commands (packages, imports, resources)
    Probes,     \* connection tests and function lists
    NoSession

ASSUME SessionsFinite == IsFiniteSet(Sessions) /\ IsFiniteSet(Probes)
ASSUME DistinctActors ==
    /\ Sessions \cap Setups = {} /\ Sessions \cap Probes = {} /\ Setups \cap Probes = {}
    /\ NoSession \notin Sessions \cup Setups \cup Probes

VARIABLES
    users,           \* PythonEnvironmentActivity.users
    installing,      \* PythonEnvironmentActivity.installing
    pc,              \* where each session's call stands
    active,          \* ExecutionManager.active
    cancelled,       \* sessions whose ExecutionContext is stopped
    lease,           \* sessions whose lease holds a release closure
    hadActive,       \* refused sessions that saw another run (a local)
    setting,         \* standalone setups holding the environment
    probing,         \* probes holding the environment
    nested,          \* sessions whose borrowed setup holds the environment
    sidebarActive,   \* MutationViewProvider.activeAnalysis
    pendingStart,    \* the session the sidebar is preparing to launch
    pendingCancelled,\* pendingStartCancelled
    staleSelection,  \* projectRevision moved since the pending start
    panelRunning,    \* the webview's analysisRunning
    settingsValid    \* the saved policies pass runAnalysisSession's checks

lockVars == <<users, installing>>
runVars == <<pc, active, cancelled, lease, hadActive>>
actorVars == <<setting, probing, nested>>
startVars == <<pendingStart, pendingCancelled, staleSelection>>
vars == <<lockVars, runVars, actorVars, sidebarActive, startVars, panelRunning, settingsValid>>

PcValues == {"idle", "starting", "launched", "refused", "preparing", "scanning",
             "testing", "suspended", "resuming", "closing"}

Init ==
    /\ users = 0 /\ installing = FALSE
    /\ pc = [s \in Sessions |-> "idle"]
    /\ active = NoSession /\ cancelled = {} /\ lease = {} /\ hadActive = {}
    /\ setting = {} /\ probing = {} /\ nested = {}
    /\ sidebarActive = NoSession
    /\ pendingStart = NoSession /\ pendingCancelled = FALSE /\ staleSelection = FALSE
    /\ panelRunning = FALSE
    /\ settingsValid \in BOOLEAN

Goto(s, there) == pc' = [pc EXCEPT ![s] = there]

(***************************************************************************)
(* PythonEnvironmentActivity.acquire and the closures it returns.          *)
(***************************************************************************)
CanUse == ~installing
CanSetup == ~installing /\ users = 0
AcquireUse == CanUse /\ users' = users + 1 /\ UNCHANGED installing
ReleaseUse == users' = users - 1 /\ UNCHANGED installing
AcquireSetup == CanSetup /\ installing' = TRUE /\ UNCHANGED users
ReleaseSetup == installing' = FALSE /\ UNCHANGED users

-----------------------------------------------------------------------------
(***************************************************************************)
(* The sidebar's start handshake.                                          *)
(***************************************************************************)
\* The Run button: the panel turns busy at once, then posts startAnalysis,
\* which the host drops while a run or another start is in progress.
ClickRun(s) ==
    /\ pc[s] = "idle" /\ ~panelRunning
    /\ panelRunning' = TRUE
    /\ IF sidebarActive # NoSession \/ pendingStart # NoSession
       THEN UNCHANGED <<pc, startVars>>
       ELSE /\ Goto(s, "starting")
            /\ pendingStart' = s
            /\ pendingCancelled' = FALSE /\ staleSelection' = FALSE
    /\ UNCHANGED <<lockVars, active, cancelled, lease, hadActive, actorVars,
                   sidebarActive, settingsValid>>

\* Another project or batch folder is chosen while the start is pending.
ChangeSelection ==
    /\ pendingStart # NoSession
    /\ staleSelection' = TRUE
    /\ UNCHANGED <<lockVars, runVars, actorVars, sidebarActive, pendingStart,
                   pendingCancelled, panelRunning, settingsValid>>

\* The start leaves the sidebar, launched or not: analysisStartPending is reset.
EndPending(s, there) ==
    /\ pc[s] = "starting"
    /\ Goto(s, there)
    /\ pendingStart' = NoSession /\ pendingCancelled' = FALSE /\ staleSelection' = FALSE
    /\ UNCHANGED <<lockVars, active, cancelled, lease, hadActive, actorVars,
                   sidebarActive, settingsValid>>

StartSuperseded == sidebarActive # NoSession \/ pendingCancelled

\* After each of its awaits the handler drops a start that was overtaken or aborted...
DropStart(s) ==
    /\ StartSuperseded
    /\ panelRunning' = (panelRunning /\ ~(pendingCancelled /\ sidebarActive = NoSession))
    /\ EndPending(s, "idle")

\* ... gives up one whose selection changed or whose credential is missing...
GiveUpStart(s) ==
    /\ ~StartSuperseded
    /\ panelRunning' = FALSE
    /\ EndPending(s, "idle")

\* ... answers a setting or a save that throws...
FailStart(s) ==
    /\ panelRunning' = (panelRunning /\ sidebarActive # NoSession)
    /\ EndPending(s, "idle")

\* ... and otherwise hands the parameters to the run command.
LaunchStart(s) ==
    /\ ~StartSuperseded /\ ~staleSelection
    /\ UNCHANGED panelRunning
    /\ EndPending(s, "launched")

\* The command called directly, without the panel.
RunCommand(s) ==
    /\ pc[s] = "idle"
    /\ Goto(s, "launched")
    /\ UNCHANGED <<lockVars, active, cancelled, lease, hadActive, actorVars,
                   sidebarActive, startVars, panelRunning, settingsValid>>

-----------------------------------------------------------------------------
(***************************************************************************)
(* runAnalysisSession up to its first await.                               *)
(***************************************************************************)
\* A policy that does not validate throws before anything is reserved.
RejectSettings(s) ==
    /\ pc[s] = "launched" /\ ~settingsValid
    /\ Goto(s, "idle")
    /\ UNCHANGED <<lockVars, active, cancelled, lease, hadActive, actorVars,
                   sidebarActive, startVars, panelRunning, settingsValid>>

\* A setup holds the environment: remember whether another run owns the panel
\* and show a message.
RefuseForSetup(s) ==
    /\ pc[s] = "launched" /\ settingsValid
    /\ ~CanUse
    /\ hadActive' = IF active # NoSession THEN hadActive \cup {s} ELSE hadActive \ {s}
    /\ Goto(s, "refused")
    /\ UNCHANGED <<lockVars, active, cancelled, lease, actorVars, sidebarActive,
                   startVars, panelRunning, settingsValid>>

\* Mutant of DismissNotice: only the run seen when the start was refused counts.
DismissNotice_Stale(s) ==
    /\ pc[s] = "refused"
    /\ panelRunning' = (panelRunning /\ s \in hadActive)
    /\ hadActive' = hadActive \ {s}
    /\ Goto(s, "idle")
    /\ UNCHANGED <<lockVars, active, cancelled, lease, actorVars, sidebarActive,
                   startVars, settingsValid>>

\* The message is dismissed: the panel is freed unless a run owns it.
DismissNotice(s) ==
    /\ pc[s] = "refused"
    /\ panelRunning' = (panelRunning /\ (s \in hadActive \/ active # NoSession))
    /\ hadActive' = hadActive \ {s}
    /\ Goto(s, "idle")
    /\ UNCHANGED <<lockVars, active, cancelled, lease, actorVars, sidebarActive,
                   startVars, settingsValid>>

\* Another run is active: the lease just taken is given back at once.
RefuseForRun(s) ==
    /\ pc[s] = "launched" /\ settingsValid
    /\ CanUse /\ active # NoSession
    /\ Goto(s, "idle")
    /\ UNCHANGED <<lockVars, active, cancelled, lease, hadActive, actorVars,
                   sidebarActive, startVars, panelRunning, settingsValid>>

Begin(s) ==
    /\ pc[s] = "launched" /\ settingsValid
    /\ AcquireUse
    /\ lease' = lease \cup {s}
    /\ active = NoSession /\ active' = s
    /\ cancelled' = cancelled \ {s}     \* a new ExecutionContext
    /\ sidebarActive' = s
    /\ Goto(s, "preparing")
    /\ UNCHANGED <<hadActive, actorVars, startVars, panelRunning, settingsValid>>

-----------------------------------------------------------------------------
(***************************************************************************)
(* The run itself, up to and including its finally block.                  *)
(***************************************************************************)
\* Runtime discovery and the role prerequisites are awaited; a cancelled run
\* goes no further, a failed one reports and closes.
PrepareEnds(s) ==
    /\ pc[s] = "preparing"
    /\ \/ s \notin cancelled /\ Goto(s, "scanning")
       \/ Goto(s, "closing")
    /\ UNCHANGED <<lockVars, active, cancelled, lease, hadActive, actorVars,
                   sidebarActive, startVars, panelRunning, settingsValid>>

\* Targets are found and the import preflight needs no setup, or the run stops.
ScanEnds(s) ==
    /\ pc[s] = "scanning"
    /\ \/ s \notin cancelled /\ Goto(s, "testing")
       \/ Goto(s, "closing")
    /\ UNCHANGED <<lockVars, active, cancelled, lease, hadActive, actorVars,
                   sidebarActive, startVars, panelRunning, settingsValid>>

\* Mutant of LendToSetup: the setup starts although others use the environment.
LendToSetup_Shared(s) ==
    /\ pc[s] = "scanning" /\ s \notin cancelled
    /\ s \in lease /\ lease' = lease \ {s}
    /\ users' = users - 1
    /\ \/ ~installing /\ installing' = TRUE /\ nested' = nested \cup {s}
       \/ UNCHANGED <<installing, nested>>
    /\ Goto(s, "suspended")
    /\ UNCHANGED <<active, cancelled, hadActive, setting, probing, sidebarActive,
                   startVars, panelRunning, settingsValid>>

\* withSetup: the lease is given up and the setup runs to its first await in
\* the same step.  The setup gets the environment only if nobody else uses it.
LendToSetup(s) ==
    /\ pc[s] = "scanning" /\ s \notin cancelled
    /\ s \in lease /\ lease' = lease \ {s}
    /\ users' = users - 1
    /\ \/ ~installing /\ users' = 0 /\ installing' = TRUE /\ nested' = nested \cup {s}
       \/ UNCHANGED <<installing, nested>>   \* busy, untrusted or without a root
    /\ Goto(s, "suspended")
    /\ UNCHANGED <<active, cancelled, hadActive, setting, probing, sidebarActive,
                   startVars, panelRunning, settingsValid>>

\* The setup settles, answered, failed or cancelled, and frees the environment.
LentSetupEnds(s) ==
    /\ pc[s] = "suspended"
    /\ IF s \in nested THEN ReleaseSetup ELSE UNCHANGED lockVars
    /\ nested' = nested \ {s}
    /\ Goto(s, "resuming")
    /\ UNCHANGED <<active, cancelled, lease, hadActive, setting, probing,
                   sidebarActive, startVars, panelRunning, settingsValid>>

\* Mutant of TakeBackLease: the run goes on without its share.
TakeBackLease_NoShare(s) ==
    /\ pc[s] = "resuming"
    /\ UNCHANGED <<lockVars, lease>>
    /\ Goto(s, "testing") \/ Goto(s, "closing")
    /\ UNCHANGED <<active, cancelled, hadActive, actorVars, sidebarActive,
                   startVars, panelRunning, settingsValid>>

\* withSetup's finally: take the share back, unless the run was cancelled
\* or another setup came first; an unusable setup result closes the run.
TakeBackLease(s) ==
    /\ pc[s] = "resuming"
    /\ IF s \notin cancelled /\ CanUse
       THEN /\ AcquireUse
            /\ lease' = lease \cup {s}
            /\ Goto(s, "testing") \/ Goto(s, "closing")
       ELSE /\ UNCHANGED <<lockVars, lease>>
            /\ Goto(s, "closing")
    /\ UNCHANGED <<active, cancelled, hadActive, actorVars, sidebarActive,
                   startVars, panelRunning, settingsValid>>

\* The last target's workers settled.
TestingEnds(s) ==
    /\ pc[s] = "testing"
    /\ Goto(s, "closing")
    /\ UNCHANGED <<lockVars, active, cancelled, lease, hadActive, actorVars,
                   sidebarActive, startVars, panelRunning, settingsValid>>

\* Mutant of Close: a cancelled run keeps its reservation.
Close_KeepingCancelled(s) ==
    /\ pc[s] = "closing"
    /\ IF s \in lease THEN ReleaseUse ELSE UNCHANGED lockVars
    /\ lease' = lease \ {s}
    /\ active' = IF active = s /\ s \notin cancelled THEN NoSession ELSE active
    /\ panelRunning' = (panelRunning /\ active # s)
    /\ sidebarActive' = IF sidebarActive = s THEN NoSession ELSE sidebarActive
    /\ cancelled' = cancelled \ {s}
    /\ Goto(s, "idle")
    /\ UNCHANGED <<hadActive, actorVars, startVars, settingsValid>>

\* Mutant of Close: the last message goes through the view, which a cancelled run may not use.
Close_ViaCanPublish(s) ==
    /\ pc[s] = "closing"
    /\ IF s \in lease THEN ReleaseUse ELSE UNCHANGED lockVars
    /\ lease' = lease \ {s}
    /\ active' = IF active = s THEN NoSession ELSE active
    /\ panelRunning' = (panelRunning /\ (active # s \/ s \in cancelled))
    /\ sidebarActive' = IF sidebarActive = s THEN NoSession ELSE sidebarActive
    /\ cancelled' = cancelled \ {s}
    /\ Goto(s, "idle")
    /\ UNCHANGED <<hadActive, actorVars, startVars, settingsValid>>

\* The finally block, then endAnalysis, which follows it before the host takes
\* another message: only the owner frees the run and the panel.
Close(s) ==
    /\ pc[s] = "closing"
    /\ IF s \in lease THEN ReleaseUse ELSE UNCHANGED lockVars
    /\ lease' = lease \ {s}
    /\ active' = IF active = s THEN NoSession ELSE active
    /\ panelRunning' = (panelRunning /\ active # s)
    /\ sidebarActive' = IF sidebarActive = s THEN NoSession ELSE sidebarActive
    /\ cancelled' = cancelled \ {s}     \* its ExecutionContext is dropped
    /\ Goto(s, "idle")
    /\ UNCHANGED <<hadActive, actorVars, startVars, settingsValid>>

\* abortTest: the active run is told to stop and keeps its reservation.  Only
\* the panel's button also reaches a start that is still pending.
Abort(fromPanel) ==
    /\ pendingCancelled' = (pendingCancelled \/ (fromPanel /\ pendingStart # NoSession))
    /\ IF active # NoSession /\ active \notin cancelled
       THEN cancelled' = cancelled \cup {active} /\ panelRunning' = TRUE
       ELSE UNCHANGED <<cancelled, panelRunning>>
    /\ UNCHANGED <<lockVars, pc, active, lease, hadActive, actorVars, sidebarActive,
                   pendingStart, staleSelection, settingsValid>>

-----------------------------------------------------------------------------
(***************************************************************************)
(* The other users of the environment.                                     *)
(***************************************************************************)
BeginSetup(u) ==
    /\ u \notin setting
    /\ AcquireSetup
    /\ setting' = setting \cup {u}
    /\ UNCHANGED <<runVars, probing, nested, sidebarActive, startVars,
                   panelRunning, settingsValid>>

EndSetup(u) ==
    /\ u \in setting
    /\ ReleaseSetup
    /\ setting' = setting \ {u}
    /\ UNCHANGED <<runVars, probing, nested, sidebarActive, startVars,
                   panelRunning, settingsValid>>

BeginProbe(p) ==
    /\ p \notin probing
    /\ AcquireUse
    /\ probing' = probing \cup {p}
    /\ UNCHANGED <<runVars, setting, nested, sidebarActive, startVars,
                   panelRunning, settingsValid>>

EndProbe(p) ==
    /\ p \in probing
    /\ ReleaseUse
    /\ probing' = probing \ {p}
    /\ UNCHANGED <<runVars, setting, nested, sidebarActive, startVars,
                   panelRunning, settingsValid>>

-----------------------------------------------------------------------------
StartSettles(s) == DropStart(s) \/ GiveUpStart(s) \/ FailStart(s) \/ LaunchStart(s)
Enter(s) == RejectSettings(s) \/ RefuseForSetup(s) \/ RefuseForRun(s) \/ Begin(s)
RunStep(s) == PrepareEnds(s) \/ ScanEnds(s) \/ LendToSetup(s) \/ LentSetupEnds(s)
              \/ TakeBackLease(s) \/ TestingEnds(s) \/ Close(s)

Next ==
    \/ \E s \in Sessions : \/ ClickRun(s) \/ StartSettles(s) \/ RunCommand(s)
                           \/ Enter(s) \/ DismissNotice(s) \/ RunStep(s)
    \/ ChangeSelection
    \/ \E fromPanel \in BOOLEAN : Abort(fromPanel)
    \/ \E u \in Setups : BeginSetup(u) \/ EndSetup(u)
    \/ \E p \in Probes : BeginProbe(p) \/ EndProbe(p)

Spec == Init /\ [][Next]_vars

\* Every await of a session settles: saves and credential lookups return, the
\* user answers dialogs, discovery and setups are abortable, and a target's
\* work is bounded by its budget.
Fairness == \A s \in Sessions :
    WF_vars(StartSettles(s)) /\ WF_vars(Enter(s)) /\ WF_vars(DismissNotice(s))
    /\ WF_vars(RunStep(s))

FairSpec == Spec /\ Fairness

-----------------------------------------------------------------------------
TypeOK ==
    /\ users \in Nat /\ installing \in BOOLEAN
    /\ pc \in [Sessions -> PcValues]
    /\ active \in Sessions \cup {NoSession} /\ sidebarActive \in Sessions \cup {NoSession}
    /\ cancelled \subseteq Sessions /\ lease \subseteq Sessions
    /\ hadActive \subseteq Sessions /\ nested \subseteq Sessions
    /\ setting \subseteq Setups /\ probing \subseteq Probes
    /\ pendingStart \in Sessions \cup {NoSession}
    /\ pendingCancelled \in BOOLEAN /\ staleSelection \in BOOLEAN
    /\ panelRunning \in BOOLEAN /\ settingsValid \in BOOLEAN

Using == lease \cup probing
Changing == setting \cup nested

(* No setup changes the environment while a run or a probe uses it, and     *)
(* there is one setup at a time: PythonEnvironmentActivity's counter and    *)
(* flag, which do not know their holders, agree with them over every        *)
(* interleaving of leases lent and taken back.                              *)
EnvironmentExclusion ==
    /\ Changing # {} => Using = {}
    /\ \A a, b \in Changing : a = b

(* While targets are looked for and tested, the run still owns the          *)
(* reservation and holds the environment, whatever cancellations, lent      *)
(* leases and refused starts came before.                                   *)
WorkHoldsLease ==
    \A s \in Sessions : pc[s] \in {"preparing", "scanning", "testing"} =>
        s \in lease /\ active = s /\ sidebarActive = s

(* Nothing unlocks the panel under a run: not a refused start whose message *)
(* is dismissed late, nor a pending start that another run overtook.        *)
PanelFreedOnlyWhenIdle ==
    [][panelRunning /\ ~panelRunning' => active' = NoSession]_vars

(* A run that was told to stop gives up its reservation, its lease and the  *)
(* setup it may be waiting for.                                             *)
CancelledRunsEnd ==
    \A s \in Sessions : (s \in cancelled) ~>
        (s \notin cancelled \cup lease \cup nested /\ active # s)

(* A busy panel is freed again, whichever way the start it shows ends;      *)
(* settings that runAnalysisSession rejects are the exception, since that   *)
(* throw is not answered to the panel.                                      *)
PanelReturns == [](settingsValid) => (panelRunning ~> ~panelRunning)

(* The counter and the flag implement the readers and the writer.           *)
Lock == INSTANCE EnvironmentLock WITH
    Actors <- Sessions \cup Setups \cup Probes, Nobody <- NoSession,
    readers <- Using,
    writer <- IF Changing = {} THEN NoSession ELSE CHOOSE a \in Changing : TRUE
LockRefinement == Lock!LockSpec
=============================================================================
