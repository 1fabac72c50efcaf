-------------------------- MODULE EnvironmentProofs --------------------------
(***************************************************************************)
(* What the runs of AnalysisSession and EnvironmentPrepare check on small  *)
(* instances: who holds the environment, for any number of sessions, setup *)
(* commands and probes; then what a preparation does to it.                *)
(***************************************************************************)
EXTENDS AnalysisSession, EnvironmentPrepare, FiniteSetTheorems, SequenceTheorems, TLAPS

USE DEF lockVars, runVars, actorVars, startVars

(* The counter and the flag agree with the actors that hold the             *)
(* environment.                                                             *)
LockCounts ==
    /\ users = Cardinality(Using)
    /\ installing <=> Changing # {}

\* From Begin to Close a session is a run; before Close it may hold a lease.
Run == {"preparing", "scanning", "testing", "suspended", "resuming", "closing"}
Leased == {"preparing", "scanning", "testing"}

(* Where a session stands determines what it owns.                          *)
Ownership ==
    /\ sidebarActive = active
    /\ \A s \in Sessions :
        /\ pc[s] \in Run <=> active = s
        /\ pc[s] \in Leased => s \in lease
        /\ s \in lease => pc[s] \in Leased \cup {"closing"}
        /\ s \in nested => pc[s] = "suspended"

IInv == TypeOK /\ LockCounts /\ EnvironmentExclusion /\ Ownership

-----------------------------------------------------------------------------
LEMMA UsingFinite ==
    ASSUME TypeOK PROVE IsFiniteSet(Using) /\ Cardinality(Using) \in Nat
  <1>1. IsFiniteSet(Sessions \cup Probes)
    BY SessionsFinite, FS_Union
  <1>2. Using \in SUBSET (Sessions \cup Probes)
    BY DEF TypeOK, Using
  <1>. QED BY <1>1, <1>2, FS_Subset, FS_CardinalityType

(* Taking a share counts the new user.                                      *)
LEMMA TakeShare ==
    ASSUME TypeOK, LockCounts, NEW a, a \notin Using,
           AcquireUse, Using' = Using \cup {a}, Changing' = Changing
    PROVE  LockCounts' /\ EnvironmentExclusion' /\ users' \in Nat /\ installing' = installing
  <1>1. Cardinality(Using \cup {a}) = Cardinality(Using) + 1
    BY UsingFinite, FS_AddElement
  <1>2. Changing = {}
    BY DEF LockCounts, AcquireUse, CanUse
  <1>. QED BY <1>1, <1>2, UsingFinite DEF LockCounts, AcquireUse, CanUse, EnvironmentExclusion

(* Giving a share back uncounts exactly its holder.                         *)
LEMMA ReturnShare ==
    ASSUME TypeOK, LockCounts, EnvironmentExclusion, NEW a \in Using,
           ReleaseUse, Using' = Using \ {a}, Changing' = Changing
    PROVE  LockCounts' /\ EnvironmentExclusion' /\ users' \in Nat /\ installing' = installing
  <1>1. /\ Cardinality(Using \ {a}) = Cardinality(Using) - 1
        /\ Cardinality(Using \ {a}) \in Nat
    BY UsingFinite, FS_RemoveElement, FS_CardinalityType
  <1>. QED BY <1>1, UsingFinite DEF LockCounts, ReleaseUse, EnvironmentExclusion

(* What nobody takes or returns stays counted.                              *)
LEMMA SharesKept ==
    ASSUME LockCounts, EnvironmentExclusion, UNCHANGED lockVars,
           Using' = Using, Changing' = Changing
    PROVE  LockCounts' /\ EnvironmentExclusion'
  BY DEF LockCounts, EnvironmentExclusion

-----------------------------------------------------------------------------
(* Steps of a start that is not, or not yet, a run.                         *)
QuietStep(s) ==
    \/ ClickRun(s) \/ StartSettles(s) \/ RunCommand(s)
    \/ RejectSettings(s) \/ RefuseForSetup(s) \/ RefuseForRun(s) \/ DismissNotice(s)

(* A quiet step leaves the environment and the run alone.                   *)
LEMMA QuietFrame ==
    ASSUME TypeOK, NEW s \in Sessions, QuietStep(s)
    PROVE  /\ UNCHANGED <<lockVars, actorVars, lease, active, cancelled, sidebarActive, settingsValid>>
           /\ \/ UNCHANGED pc
              \/ \E there \in PcValues \ Run : pc[s] \notin Run /\ Goto(s, there)
  <1>1. CASE ClickRun(s)
    BY <1>1 DEF ClickRun, Goto, PcValues, Run
  <1>2. CASE StartSettles(s)
    BY <1>2 DEF StartSettles, DropStart, GiveUpStart, FailStart, LaunchStart, EndPending, Goto, PcValues, Run
  <1>3. CASE RunCommand(s)
    BY <1>3 DEF RunCommand, Goto, PcValues, Run
  <1>4. CASE RejectSettings(s)
    BY <1>4 DEF RejectSettings, Goto, PcValues, Run
  <1>5. CASE RefuseForSetup(s)
    BY <1>5 DEF RefuseForSetup, Goto, PcValues, Run
  <1>6. CASE RefuseForRun(s)
    BY <1>6 DEF RefuseForRun, Goto, PcValues, Run
  <1>7. CASE DismissNotice(s)
    BY <1>7 DEF DismissNotice, Goto, PcValues, Run
  <1>. QED BY <1>1, <1>2, <1>3, <1>4, <1>5, <1>6, <1>7 DEF QuietStep

LEMMA QuietTypes ==
    ASSUME TypeOK, NEW s \in Sessions, QuietStep(s)
    PROVE  TypeOK'
  <1>. USE DEF TypeOK
  <1>1. CASE ClickRun(s)
    BY <1>1 DEF ClickRun, Goto, PcValues
  <1>2. CASE StartSettles(s)
    BY <1>2 DEF StartSettles, DropStart, GiveUpStart, FailStart, LaunchStart, EndPending,
                StartSuperseded, Goto, PcValues
  <1>3. CASE RunCommand(s)
    BY <1>3 DEF RunCommand, Goto, PcValues
  <1>4. CASE RejectSettings(s)
    BY <1>4 DEF RejectSettings, Goto, PcValues
  <1>5. CASE RefuseForSetup(s)
    BY <1>5 DEF RefuseForSetup, Goto, PcValues
  <1>6. CASE RefuseForRun(s)
    BY <1>6 DEF RefuseForRun, Goto, PcValues
  <1>7. CASE DismissNotice(s)
    BY <1>7 DEF DismissNotice, Goto, PcValues
  <1>. QED BY <1>1, <1>2, <1>3, <1>4, <1>5, <1>6, <1>7 DEF QuietStep

LEMMA QuietKeepsInv ==
    ASSUME IInv, NEW s \in Sessions, QuietStep(s)
    PROVE  IInv'
  <1>1. TypeOK'
    BY QuietTypes DEF IInv
  <1>2. /\ UNCHANGED <<lockVars, actorVars, lease, active, cancelled, sidebarActive, settingsValid>>
        /\ \/ UNCHANGED pc
           \/ \E there \in PcValues \ Run : pc[s] \notin Run /\ Goto(s, there)
    BY QuietFrame DEF IInv
  <1>3. LockCounts' /\ EnvironmentExclusion'
    BY <1>2, SharesKept DEF IInv, Using, Changing
  <1>4. Ownership'
    BY <1>2 DEF IInv, TypeOK, Ownership, Goto, Run, Leased
  <1>. QED BY <1>1, <1>3, <1>4 DEF IInv

-----------------------------------------------------------------------------
LEMMA InitEstablishesInv == Init => IInv
  <1>. SUFFICES ASSUME Init PROVE IInv
    OBVIOUS
  <1>1. TypeOK
    BY DEF Init, TypeOK, PcValues
  <1>2. LockCounts /\ EnvironmentExclusion
    BY FS_EmptySet DEF Init, LockCounts, EnvironmentExclusion, Using, Changing
  <1>3. Ownership
    BY DistinctActors DEF Init, Ownership, Run, Leased
  <1>. QED BY <1>1, <1>2, <1>3 DEF IInv

(* A run moves on without touching the environment.                         *)
LEMMA AdvanceKeepsInv ==
    ASSUME IInv, NEW s \in Sessions, PrepareEnds(s) \/ ScanEnds(s) \/ TestingEnds(s)
    PROVE  IInv'
  <1>1. /\ UNCHANGED <<lockVars, active, cancelled, lease, hadActive, actorVars,
                      sidebarActive, startVars, panelRunning, settingsValid>>
        /\ pc[s] \in Leased
        /\ \E there \in Leased \cup {"closing"} : Goto(s, there)
    BY DEF PrepareEnds, ScanEnds, TestingEnds, Goto, Leased
  <1>2. TypeOK'
    BY <1>1 DEF IInv, TypeOK, Goto, Leased, PcValues
  <1>3. LockCounts' /\ EnvironmentExclusion'
    BY <1>1, SharesKept DEF IInv, Using, Changing
  <1>4. Ownership'
    BY <1>1 DEF IInv, TypeOK, Ownership, Goto, Run, Leased
  <1>. QED BY <1>2, <1>3, <1>4 DEF IInv

LEMMA BeginKeepsInv ==
    ASSUME IInv, NEW s \in Sessions, Begin(s)
    PROVE  IInv'
  <1>1. s \notin Using /\ Using' = Using \cup {s} /\ Changing' = Changing
    BY DistinctActors DEF IInv, TypeOK, Ownership, Begin, Using, Changing, Leased
  <1>2. LockCounts' /\ EnvironmentExclusion' /\ users' \in Nat /\ installing' = installing
    BY <1>1, TakeShare DEF IInv, Begin
  <1>3. TypeOK'
    BY <1>2 DEF IInv, TypeOK, Begin, Goto, PcValues
  <1>4. Ownership'
    BY DistinctActors DEF IInv, TypeOK, Ownership, Begin, Goto, Run, Leased
  <1>. QED BY <1>2, <1>3, <1>4 DEF IInv

(* The lent environment: the setup starts only when the count, without the  *)
(* lender, is zero, so nobody is left in Using.                             *)
LEMMA LendKeepsInv ==
    ASSUME IInv, NEW s \in Sessions, LendToSetup(s)
    PROVE  IInv'
  <1>1. s \in Using /\ Using' = Using \ {s}
    BY DistinctActors DEF IInv, TypeOK, LendToSetup, Using
  <1>2. /\ Cardinality(Using \ {s}) = Cardinality(Using) - 1
        /\ IsFiniteSet(Using \ {s}) /\ Cardinality(Using \ {s}) \in Nat
    BY <1>1, UsingFinite, FS_RemoveElement, FS_CardinalityType DEF IInv
  <1>3. users' = Cardinality(Using') /\ users' \in Nat
    BY <1>1, <1>2 DEF IInv, LockCounts, LendToSetup
  <1>4. Changing = {}
    BY <1>1 DEF IInv, EnvironmentExclusion
  <1>5. TypeOK'
    BY <1>3 DEF IInv, TypeOK, LendToSetup, Goto, PcValues
  <1>6. Ownership'
    BY DEF IInv, TypeOK, Ownership, LendToSetup, Goto, Run, Leased
  <1>7. CASE installing' = TRUE /\ users' = 0 /\ nested' = nested \cup {s}
    <2>1. Using' = {}
      BY <1>1, <1>2, <1>3, <1>7, FS_EmptySet
    <2>2. Changing' = {s}
      BY <1>4, <1>7 DEF Changing, LendToSetup
    <2>. QED BY <1>3, <1>5, <1>6, <1>7, <2>1, <2>2 DEF IInv, LockCounts, EnvironmentExclusion
  <1>8. CASE UNCHANGED <<installing, nested>>
    <2>1. Changing' = {}
      BY <1>4, <1>8 DEF Changing, LendToSetup
    <2>. QED BY <1>3, <1>4, <1>5, <1>6, <1>8, <2>1 DEF IInv, LockCounts, EnvironmentExclusion
  <1>. QED BY <1>7, <1>8 DEF LendToSetup

(* A setup that ends was the only one.                                      *)
LEMMA SetupGone ==
    ASSUME LockCounts, EnvironmentExclusion, NEW a \in Changing,
           ReleaseSetup, Using' = Using, Changing' = Changing \ {a}
    PROVE  LockCounts' /\ EnvironmentExclusion' /\ installing' = FALSE /\ users' = users
  BY DEF LockCounts, EnvironmentExclusion, ReleaseSetup

LEMMA LentSetupEndsKeepsInv ==
    ASSUME IInv, NEW s \in Sessions, LentSetupEnds(s)
    PROVE  IInv'
  <1>1. Ownership'
    BY DEF IInv, TypeOK, Ownership, LentSetupEnds, Goto, Run, Leased
  <1>2. CASE s \in nested
    <2>1. /\ s \in Changing /\ Using' = Using /\ Changing' = Changing \ {s} /\ ReleaseSetup
      BY <1>2, DistinctActors DEF IInv, TypeOK, LentSetupEnds, Using, Changing
    <2>2. LockCounts' /\ EnvironmentExclusion' /\ installing' = FALSE /\ users' = users
      BY <2>1, SetupGone DEF IInv
    <2>3. TypeOK'
      BY <2>2 DEF IInv, TypeOK, LentSetupEnds, Goto, PcValues
    <2>. QED BY <1>1, <2>2, <2>3 DEF IInv
  <1>3. CASE s \notin nested
    <2>1. UNCHANGED lockVars /\ Using' = Using /\ Changing' = Changing
      BY <1>3 DEF IInv, TypeOK, LentSetupEnds, Using, Changing
    <2>2. TypeOK'
      BY <2>1 DEF IInv, TypeOK, LentSetupEnds, Goto, PcValues
    <2>. QED BY <1>1, <2>1, <2>2, SharesKept DEF IInv
  <1>. QED BY <1>2, <1>3

LEMMA TakeBackKeepsInv ==
    ASSUME IInv, NEW s \in Sessions, TakeBackLease(s)
    PROVE  IInv'
  <1>1. Ownership'
    BY DEF IInv, TypeOK, Ownership, TakeBackLease, Goto, Run, Leased
  <1>2. CASE s \notin cancelled /\ CanUse
    <2>1. s \notin Using /\ Using' = Using \cup {s} /\ Changing' = Changing /\ AcquireUse
      BY <1>2, DistinctActors DEF IInv, TypeOK, Ownership, TakeBackLease, Using, Changing, Leased
    <2>2. LockCounts' /\ EnvironmentExclusion' /\ users' \in Nat /\ installing' = installing
      BY <2>1, TakeShare DEF IInv
    <2>3. TypeOK'
      BY <1>2, <2>2 DEF IInv, TypeOK, TakeBackLease, Goto, PcValues
    <2>. QED BY <1>1, <2>2, <2>3 DEF IInv
  <1>3. CASE ~(s \notin cancelled /\ CanUse)
    <2>1. UNCHANGED lockVars /\ Using' = Using /\ Changing' = Changing
      BY <1>3 DEF TakeBackLease, Using, Changing
    <2>2. TypeOK'
      BY <1>3, <2>1 DEF IInv, TypeOK, TakeBackLease, Goto, PcValues
    <2>. QED BY <1>1, <2>1, <2>2, SharesKept DEF IInv
  <1>. QED BY <1>2, <1>3

LEMMA CloseKeepsInv ==
    ASSUME IInv, NEW s \in Sessions, Close(s)
    PROVE  IInv'
  <1>1. Ownership'
    BY DistinctActors DEF IInv, TypeOK, Ownership, Close, Goto, Run, Leased
  <1>2. Changing' = Changing
    BY DEF Close, Changing
  <1>3. CASE s \in lease
    <2>1. s \in Using /\ Using' = Using \ {s} /\ ReleaseUse
      BY <1>3, DistinctActors DEF IInv, TypeOK, Close, Using
    <2>2. LockCounts' /\ EnvironmentExclusion' /\ users' \in Nat /\ installing' = installing
      BY <1>2, <2>1, ReturnShare DEF IInv
    <2>3. TypeOK'
      BY <2>2 DEF IInv, TypeOK, Close, Goto, PcValues
    <2>. QED BY <1>1, <2>2, <2>3 DEF IInv
  <1>4. CASE s \notin lease
    <2>1. UNCHANGED lockVars /\ Using' = Using
      BY <1>4 DEF Close, Using
    <2>2. TypeOK'
      BY <2>1 DEF IInv, TypeOK, Close, Goto, PcValues
    <2>. QED BY <1>1, <1>2, <2>1, <2>2, SharesKept DEF IInv
  <1>. QED BY <1>3, <1>4

LEMMA AbortKeepsInv ==
    ASSUME IInv, (\E fromPanel \in BOOLEAN : Abort(fromPanel)) \/ ChangeSelection
    PROVE  IInv'
  <1>1. UNCHANGED <<lockVars, pc, active, lease, actorVars, sidebarActive>>
    BY DEF Abort, ChangeSelection
  <1>2. TypeOK'
    BY DEF IInv, TypeOK, Abort, ChangeSelection
  <1>3. LockCounts' /\ EnvironmentExclusion'
    BY <1>1, SharesKept DEF IInv, Using, Changing
  <1>4. Ownership'
    BY <1>1 DEF IInv, Ownership
  <1>. QED BY <1>2, <1>3, <1>4 DEF IInv

LEMMA SetupKeepsInv ==
    ASSUME IInv, NEW u \in Setups, BeginSetup(u) \/ EndSetup(u)
    PROVE  IInv'
  <1>1. Ownership' /\ Using' = Using
    BY DEF IInv, Ownership, BeginSetup, EndSetup, Using
  <1>2. CASE BeginSetup(u)
    <2>1. Using = {} /\ Changing = {}
      BY <1>2, UsingFinite, FS_EmptySet DEF IInv, LockCounts, BeginSetup, AcquireSetup, CanSetup
    <2>2. Changing' = {u}
      BY <1>2, <2>1 DEF Changing, BeginSetup
    <2>3. TypeOK'
      BY <1>2 DEF IInv, TypeOK, BeginSetup, AcquireSetup
    <2>. QED BY <1>1, <1>2, <2>1, <2>2, <2>3
             DEF IInv, LockCounts, EnvironmentExclusion, BeginSetup, AcquireSetup
  <1>3. CASE EndSetup(u)
    <2>1. u \in Changing /\ Changing' = Changing \ {u} /\ ReleaseSetup
      BY <1>3, DistinctActors DEF IInv, TypeOK, EndSetup, Changing
    <2>2. LockCounts' /\ EnvironmentExclusion' /\ installing' = FALSE /\ users' = users
      BY <1>1, <2>1, SetupGone DEF IInv
    <2>3. TypeOK'
      BY <1>3, <2>2 DEF IInv, TypeOK, EndSetup
    <2>. QED BY <1>1, <2>2, <2>3 DEF IInv
  <1>. QED BY <1>2, <1>3

LEMMA ProbeKeepsInv ==
    ASSUME IInv, NEW p \in Probes, BeginProbe(p) \/ EndProbe(p)
    PROVE  IInv'
  <1>1. Ownership' /\ Changing' = Changing
    BY DEF IInv, Ownership, BeginProbe, EndProbe, Changing
  <1>2. CASE BeginProbe(p)
    <2>1. p \notin Using /\ Using' = Using \cup {p} /\ AcquireUse
      BY <1>2, DistinctActors DEF IInv, TypeOK, BeginProbe, Using
    <2>2. LockCounts' /\ EnvironmentExclusion' /\ users' \in Nat /\ installing' = installing
      BY <1>1, <2>1, TakeShare DEF IInv
    <2>3. TypeOK'
      BY <1>2, <2>2 DEF IInv, TypeOK, BeginProbe
    <2>. QED BY <1>1, <2>2, <2>3 DEF IInv
  <1>3. CASE EndProbe(p)
    <2>1. p \in Using /\ Using' = Using \ {p} /\ ReleaseUse
      BY <1>3, DistinctActors DEF IInv, TypeOK, EndProbe, Using
    <2>2. LockCounts' /\ EnvironmentExclusion' /\ users' \in Nat /\ installing' = installing
      BY <1>1, <2>1, ReturnShare DEF IInv
    <2>3. TypeOK'
      BY <1>3, <2>2 DEF IInv, TypeOK, EndProbe
    <2>. QED BY <1>1, <2>2, <2>3 DEF IInv
  <1>. QED BY <1>2, <1>3

-----------------------------------------------------------------------------
LEMMA InvIsInductive == IInv /\ [Next]_vars => IInv'
  <1>. SUFFICES ASSUME IInv, [Next]_vars PROVE IInv'
    OBVIOUS
  <1>1. CASE UNCHANGED vars
    BY <1>1 DEF IInv, TypeOK, LockCounts, EnvironmentExclusion, Ownership, Using, Changing, vars
  <1>2. ASSUME NEW s \in Sessions, QuietStep(s)  PROVE IInv'
    BY <1>2, QuietKeepsInv
  <1>3. ASSUME NEW s \in Sessions, Begin(s) PROVE IInv'
    BY <1>3, BeginKeepsInv
  <1>4. ASSUME NEW s \in Sessions, RunStep(s) PROVE IInv'
    BY <1>4, AdvanceKeepsInv, LendKeepsInv, LentSetupEndsKeepsInv, TakeBackKeepsInv,
       CloseKeepsInv DEF RunStep
  <1>5. CASE (\E fromPanel \in BOOLEAN : Abort(fromPanel)) \/ ChangeSelection
    BY <1>5, AbortKeepsInv
  <1>6. ASSUME NEW u \in Setups, BeginSetup(u) \/ EndSetup(u) PROVE IInv'
    BY <1>6, SetupKeepsInv
  <1>7. ASSUME NEW p \in Probes, BeginProbe(p) \/ EndProbe(p) PROVE IInv'
    BY <1>7, ProbeKeepsInv
  <1>. QED BY <1>1, <1>2, <1>3, <1>4, <1>5, <1>6, <1>7 DEF Next, Enter, QuietStep

LEMMA InvHolds == Spec => []IInv
  BY InitEstablishesInv, InvIsInductive, PTL DEF Spec

(* Every variable keeps its type: in particular the count of users never    *)
(* goes below zero, however leases are lent, returned and abandoned.        *)
THEOREM TypeCorrect == Spec => []TypeOK
  <1>1. IInv => TypeOK
    BY DEF IInv
  <1>. QED BY <1>1, InvHolds, PTL

(* PythonEnvironmentActivity: no setup changes the environment while a run  *)
(* or a probe uses it, and at most one setup does.                          *)
THEOREM SetupsExclude == Spec => []EnvironmentExclusion
  <1>1. IInv => EnvironmentExclusion
    BY DEF IInv
  <1>. QED BY <1>1, InvHolds, PTL

(* runAnalysisSession: work goes on only under the reservation and a lease. *)
THEOREM WorkIsProtected == Spec => []WorkHoldsLease
  <1>1. IInv => WorkHoldsLease
    BY DEF IInv, Ownership, WorkHoldsLease, Run, Leased
  <1>. QED BY <1>1, InvHolds, PTL

-----------------------------------------------------------------------------
(* The panel under a run is freed by the run's own Close only.              *)
LEMMA PanelStep ==
    ASSUME IInv, [Next]_vars, panelRunning, ~panelRunning'
    PROVE  active' = NoSession
  <1>1. ASSUME NEW s \in Sessions, StartSettles(s) PROVE active' = NoSession
    BY <1>1 DEF IInv, Ownership, StartSettles, DropStart, GiveUpStart, FailStart, LaunchStart,
                EndPending, StartSuperseded
  <1>2. ASSUME NEW s \in Sessions, DismissNotice(s) PROVE active' = NoSession
    BY <1>2 DEF DismissNotice
  <1>3. ASSUME NEW s \in Sessions, Close(s) PROVE active' = NoSession
    BY <1>3 DEF Close
  <1>. QED BY <1>1, <1>2, <1>3 DEF Next, vars, ClickRun, RunCommand, Enter, RejectSettings,
              RefuseForSetup, RefuseForRun, Begin, RunStep, PrepareEnds, ScanEnds, LendToSetup,
              LentSetupEnds, TakeBackLease, TestingEnds, ChangeSelection, Abort, BeginSetup,
              EndSetup, BeginProbe, EndProbe

(* DismissNotice, the sidebar's pending starts and abortTest never free the *)
(* panel under a run, over every interleaving of starts.                    *)
THEOREM PanelGuarded == Spec => PanelFreedOnlyWhenIdle
  <1>1. IInv /\ [Next]_vars => (panelRunning /\ ~panelRunning' => active' = NoSession)
    BY PanelStep
  <1>. QED BY <1>1, InvHolds, PTL DEF Spec, PanelFreedOnlyWhenIdle

-----------------------------------------------------------------------------
\* The refinement mapping: who holds the environment to change it.
Writer == IF Changing = {} THEN NoSession ELSE CHOOSE a \in Changing : TRUE

LEMMA WriterOfOne ==
    ASSUME NEW a, Changing = {a} PROVE Writer = a
  BY DEF Writer

LEMMA LockStart == Init => Lock!LockInit
  BY DEF Init, Lock!LockInit, Using, Changing

LEMMA LockStep ==
    ASSUME IInv, [Next]_vars
    PROVE  [Lock!LockNext]_(Lock!lockVars)
  <1>. DEFINE Actors == Sessions \cup Setups \cup Probes
  <1>. USE DEF Lock!LockNext, Lock!lockVars
  <1>1. ASSUME Using' = Using, Changing' = Changing PROVE UNCHANGED Lock!lockVars
    BY <1>1
  <1>2. ASSUME NEW a \in Actors, Using' = Using \cup {a}, Changing' = Changing, Changing = {}
        PROVE  Lock!StartUse(a)
    BY <1>2 DEF Lock!StartUse
  <1>3. ASSUME NEW a \in Actors, Using' = Using \ {a}, Changing' = Changing
        PROVE  Lock!EndUse(a)
    BY <1>3 DEF Lock!EndUse
  <1>4. ASSUME NEW s \in Sessions, QuietStep(s) PROVE UNCHANGED Lock!lockVars
    BY <1>1, <1>4, QuietFrame DEF IInv, Using, Changing
  <1>5. ASSUME NEW s \in Sessions, Begin(s) PROVE Lock!StartUse(s)
    <2>1. Using' = Using \cup {s} /\ Changing' = Changing /\ Changing = {}
      BY <1>5 DEF IInv, LockCounts, Begin, AcquireUse, CanUse, Using, Changing
    <2>. QED BY <1>2, <2>1
  <1>6. ASSUME NEW s \in Sessions, PrepareEnds(s) \/ ScanEnds(s) \/ TestingEnds(s)
        PROVE  UNCHANGED Lock!lockVars
    BY <1>1, <1>6 DEF PrepareEnds, ScanEnds, TestingEnds, Using, Changing
  <1>7. ASSUME NEW s \in Sessions, LendToSetup(s)
        PROVE  Lock!TurnIntoSetup(s) \/ Lock!EndUse(s)
    <2>1. /\ s \in Using /\ Using' = Using \ {s}
          /\ Cardinality(Using \ {s}) = Cardinality(Using) - 1
          /\ IsFiniteSet(Using \ {s})
      BY <1>7, UsingFinite, FS_RemoveElement, DistinctActors DEF IInv, TypeOK, LendToSetup, Using
    <2>2. CASE installing' = TRUE /\ users' = 0 /\ nested' = nested \cup {s} /\ ~installing
      <3>1. Using = {s} /\ Using' = {}
        BY <1>7, <2>1, <2>2, FS_EmptySet DEF IInv, LockCounts, LendToSetup
      <3>2. Changing = {} /\ Changing' = {s}
        BY <1>7, <2>2 DEF IInv, LockCounts, Changing, LendToSetup
      <3>. QED BY <3>1, <3>2 DEF Lock!TurnIntoSetup
    <2>3. CASE UNCHANGED <<installing, nested>>
      BY <1>3, <1>7, <2>1, <2>3 DEF Changing, LendToSetup
    <2>. QED BY <1>7, <2>2, <2>3 DEF LendToSetup
  <1>8. ASSUME NEW s \in Sessions, LentSetupEnds(s)
        PROVE  Lock!EndSetup(s) \/ UNCHANGED Lock!lockVars
    <2>1. CASE s \in nested
      <3>1. Changing = {s} /\ Changing' = {} /\ Using' = Using
        BY <1>8, <2>1, DistinctActors DEF IInv, TypeOK, EnvironmentExclusion, LentSetupEnds, Using, Changing
      <3>. QED BY <3>1 DEF Lock!EndSetup
    <2>2. CASE s \notin nested
      BY <1>1, <1>8, <2>2 DEF LentSetupEnds, Using, Changing
    <2>. QED BY <2>1, <2>2
  <1>9. ASSUME NEW s \in Sessions, TakeBackLease(s)
        PROVE  Lock!StartUse(s) \/ UNCHANGED Lock!lockVars
    <2>1. CASE s \notin cancelled /\ CanUse
      <3>1. Using' = Using \cup {s} /\ Changing' = Changing /\ Changing = {}
        BY <1>9, <2>1 DEF IInv, LockCounts, TakeBackLease, CanUse, Using, Changing
      <3>. QED BY <1>2, <3>1
    <2>2. CASE ~(s \notin cancelled /\ CanUse)
      BY <1>1, <1>9, <2>2 DEF TakeBackLease, Using, Changing
    <2>. QED BY <2>1, <2>2
  <1>10. ASSUME NEW s \in Sessions, Close(s) PROVE Lock!EndUse(s)
    BY <1>3, <1>10, DistinctActors DEF IInv, TypeOK, Close, Using, Changing
  <1>11. CASE (\E fromPanel \in BOOLEAN : Abort(fromPanel)) \/ ChangeSelection
    BY <1>1, <1>11 DEF Abort, ChangeSelection, Using, Changing
  <1>12. ASSUME NEW u \in Setups, BeginSetup(u) PROVE Lock!StartSetup(u)
    <2>1. Using = {} /\ Changing = {} /\ Using' = Using
      BY <1>12, UsingFinite, FS_EmptySet
         DEF IInv, LockCounts, BeginSetup, AcquireSetup, CanSetup, Using
    <2>2. Changing' = {u}
      BY <1>12, <2>1 DEF Changing, BeginSetup
    <2>. QED BY <2>1, <2>2 DEF Lock!StartSetup
  <1>13. ASSUME NEW u \in Setups, EndSetup(u) PROVE Lock!EndSetup(u)
    <2>1. Changing = {u} /\ Changing' = {} /\ Using' = Using
      BY <1>13, DistinctActors DEF IInv, TypeOK, EnvironmentExclusion, EndSetup, Using, Changing
    <2>. QED BY <2>1 DEF Lock!EndSetup
  <1>14. ASSUME NEW p \in Probes, BeginProbe(p) PROVE Lock!StartUse(p)
    <2>1. Using' = Using \cup {p} /\ Changing' = Changing /\ Changing = {}
      BY <1>14 DEF IInv, LockCounts, BeginProbe, AcquireUse, CanUse, Using, Changing
    <2>. QED BY <1>2, <2>1
  <1>15. ASSUME NEW p \in Probes, EndProbe(p) PROVE Lock!EndUse(p)
    BY <1>3, <1>15, DistinctActors DEF IInv, TypeOK, EndProbe, Using, Changing
  <1>16. CASE UNCHANGED vars
    BY <1>1, <1>16 DEF vars, Using, Changing
  <1>17. ASSUME NEW s \in Sessions, RunStep(s) PROVE Lock!LockNext \/ UNCHANGED Lock!lockVars
    BY <1>6, <1>7, <1>8, <1>9, <1>10, <1>17 DEF RunStep
  <1>. QED BY <1>4, <1>5, <1>11, <1>12, <1>13, <1>14, <1>15, <1>16, <1>17
           DEF Next, Enter, QuietStep

(* The counter and the flag of PythonEnvironmentActivity, driven by leases, *)
(* setups and probes, implement the abstract readers and writer.            *)
THEOREM ImplementsLock == Spec => LockRefinement
  <1>1. IInv /\ [Next]_vars => [Lock!LockNext]_(Lock!lockVars)
    BY LockStep
  <1>. QED BY <1>1, LockStart, InvHolds, PTL DEF Spec, LockRefinement, Lock!LockSpec
-----------------------------------------------------------------------------
(***************************************************************************)
(* What happens in the environment while a setup holds it: the             *)
(* preparation, for every set of interpreters, modules and packages.       *)
(***************************************************************************)
\* Each run has used up a confirmation; an approval that is left is one no run
\* has used, for the files of the plan it was given for.
Confirmed ==
    \A o \in Ops :
        /\ ran[o] <= confirmed[o]
        /\ approved[o] # NotApproved => ran[o] < confirmed[o] /\ basis[o] = approved[o]

\* An interpreter the user has set is the only one that is looked at.
Selected ==
    /\ pythonPath # None /\ stage # "ended" =>
        queue \in Seq({pythonPath}) /\ {current.python, python} \subseteq {None, pythonPath}
    /\ current.status \in {"ready", "missing"} => current.python \in Pythons
    /\ stage \notin {"discover", "candidates", "ended"} => python \in Pythons

\* Nothing installs between the last look and the setting.
Seen == stage = "saving" => env[python] = [has |-> Modules, tools |-> TRUE, health |-> "ok"]

PrepareInv == PrepareTypeOK /\ Confirmed /\ Selected /\ Seen
-----------------------------------------------------------------------------
(* What the operators give.                                                 *)
LEMMA NoNamesAreNames ==
  /\ NoNames \in Mapping /\ NoView \in View /\ NoView.status = "none"
  /\ NoPlan \in [ops: SUBSET Ops, names: Mapping, editable: SUBSET Modules, files: 0 .. V,
                 blocked: BOOLEAN]
  BY Bounds DEF NoNames, NoView, NoPlan, Mapping, View

LEMMA OverrideType ==
  ASSUME NEW old \in Mapping, NEW new \in Mapping
  PROVE  Override(old, new) \in Mapping
  BY DEF Mapping, Override

(* A look tells of the interpreter what it has, and names modules only.     *)
LEMMA ViewsType ==
  ASSUME PrepareTypeOK, NEW p \in Pythons, NEW v \in Views(p)
  PROVE  /\ v \in View /\ v.python = p /\ v.missing \subseteq Modules
         /\ v.status = "ready" => env[p].health = "ok" /\ env[p].has = Modules
         /\ v.tools = env[p].tools
  <1>1. env[p] \in Environment
    BY DEF PrepareTypeOK
  <1>2. PICK l \in Lacking(env[p]) :
          v = [python |-> p, status |-> Status(env[p]), missing |-> l, tools |-> env[p].tools]
    BY DEF Views
  <1>3. l \subseteq Modules
    BY <1>2 DEF Lacking
  <1>4. Status(env[p]) \in {"ready", "missing", "blocked"}
    BY DEF Status
  <1>5. env[p].tools \in BOOLEAN
    BY <1>1 DEF Environment
  <1>6. Status(env[p]) = "ready" => env[p].health = "ok" /\ env[p].has = Modules
    BY DEF Status
  <1> HIDE DEF Status
  <1> QED
    BY <1>2, <1>3, <1>4, <1>5, <1>6 DEF View

(* A plan names packages for modules, and what it installs can be asked for.*)
LEMMA PlanType ==
  ASSUME PrepareTypeOK, NEW unreadable \in BOOLEAN
  PROVE  Plan(unreadable) \in [ops: SUBSET Ops, names: Mapping, editable: SUBSET Modules,
                               files: 0 .. V, blocked: BOOLEAN]
  <1>1. current.missing \subseteq Modules /\ current.tools \in BOOLEAN /\ requirements \in BOOLEAN
    BY DEF PrepareTypeOK, View
  <1>2. \A m \in Modules : NameOf(m) \in Names
    BY Sets DEF PrepareTypeOK, Mapping, NameOf
  <1>3. Mappable \subseteq Modules
    BY <1>1 DEF Mappable
  <1>4. Plan(unreadable).ops \subseteq Ops
    BY <1>2, <1>3 DEF Plan, Ops
  <1>5. Plan(unreadable).names \in Mapping
    BY <1>2, <1>3 DEF Plan, Mapping
  <1>6. Plan(unreadable).editable \subseteq Modules
    BY <1>1 DEF Plan
  <1>7. Plan(unreadable).files \in 0 .. V
    BY Bounds DEF Plan, PrepareTypeOK
  <1>8. Plan(unreadable).blocked \in BOOLEAN
    BY DEF Plan
  <1>9. Plan(unreadable) = [ops |-> Plan(unreadable).ops, names |-> Plan(unreadable).names,
                            editable |-> Plan(unreadable).editable,
                            files |-> Plan(unreadable).files, blocked |-> Plan(unreadable).blocked]
    BY DEF Plan
  <1> QED
    BY <1>4, <1>5, <1>6, <1>7, <1>8, <1>9

(* An installer that starts uses its approval up.                           *)
LEMMA StartType ==
  ASSUME NEW table \in [Ops -> {NotApproved} \cup 0 .. V], NEW o \in Ops,
         ran \in [Ops -> Nat], reqs \in 1 .. V, StartInstall(table, o)
  PROVE  /\ approved' \in [Ops -> {NotApproved} \cup 0 .. V] /\ ran' \in [Ops -> Nat]
         /\ op' \in Ops /\ stage' = "install"
         /\ table[o] # NotApproved /\ table[o] \in {0, reqs}
         /\ approved' = [table EXCEPT ![o] = NotApproved] /\ ran' = [ran EXCEPT ![o] = @ + 1]
  BY Bounds DEF StartInstall, Spent, NotApproved

\* The table that a confirmation fills.
Table == [o \in Ops |-> IF o \in plan.ops THEN plan.files ELSE approved[o]]

LEMMA TableType ==
  ASSUME PrepareTypeOK
  PROVE  Table \in [Ops -> {NotApproved} \cup 0 .. V]
  BY DEF PrepareTypeOK, Table

(* The kinds of step that install.                                          *)
LEMMA Confirming ==
  ASSUME PrepareTypeOK, Confirm
  PROVE  /\ ~aborted /\ plan.files \in {0, reqs} /\ plan.ops \subseteq Ops /\ plan.files \in 0 .. V
         /\ confirmed' = [o \in Ops |-> IF o \in plan.ops THEN confirmed[o] + 1 ELSE confirmed[o]]
         /\ basis' = [o \in Ops |-> IF o \in plan.ops THEN plan.files ELSE basis[o]]
         /\ names' \in Mapping
         /\ \/ approved' = Table /\ stage' = "inspect" /\ UNCHANGED <<op, ran>>
            \/ \E o \in Ops : StartInstall(Table, o)
  <1>1. names' \in Mapping
    BY OverrideType DEF Confirm, PrepareTypeOK
  <1>2. {"requirements", "tools"} \subseteq Ops /\ Names \subseteq Ops
    BY DEF Ops
  <1>3. after \in Modules /\ names'[after] # None => names'[after] \in Ops
    BY <1>1, <1>2 DEF Mapping
  <1> QED
    BY <1>1, <1>2, <1>3 DEF Confirm, Table, PrepareTypeOK

LEMMA InspectingMissing ==
  ASSUME PrepareTypeOK, InspectMissing, python \in Pythons
  PROVE  /\ ~aborted /\ tried' \subseteq Modules /\ after' \in Modules
         /\ current' \in View /\ current'.python = python
         /\ \/ stage' = "planning" /\ UNCHANGED <<approved, op, ran>>
            \/ \E o \in Ops : StartInstall(approved, o)
  <1>0. PICK v \in Views(python) : \E m \in v.missing \ (Odd \cup tried) :
          /\ tried' = tried \cup {m} /\ after' = m /\ current' = v
          /\ \/ names[m] = None /\ stage' = "planning" /\ UNCHANGED <<approved, op, ran>>
             \/ names[m] # None /\ StartInstall(approved, names[m])
    BY DEF InspectMissing
  <1>1. PICK m \in v.missing \ (Odd \cup tried) :
          /\ tried' = tried \cup {m} /\ after' = m /\ current' = v
          /\ \/ names[m] = None /\ stage' = "planning" /\ UNCHANGED <<approved, op, ran>>
             \/ names[m] # None /\ StartInstall(approved, names[m])
    BY <1>0
  <1>2. v \in View /\ v.python = python /\ m \in Modules
    BY <1>1, ViewsType
  <1>3. names[m] # None => names[m] \in Ops
    BY <1>2 DEF PrepareTypeOK, Mapping, Ops
  <1> QED
    BY <1>1, <1>2, <1>3 DEF InspectMissing, PrepareTypeOK

LEMMA InspectingReady ==
  ASSUME PrepareTypeOK, InspectReady, python \in Pythons
  PROVE  /\ ~aborted /\ after' \in {after, "tools"}
         /\ current' \in View /\ current'.python = python
         /\ \/ stage' \in {"planning", "check"} /\ UNCHANGED <<approved, op, ran>>
            \/ StartInstall(approved, "tools")
  <1>1. PICK v \in Views(python) :
          /\ current' = v
          /\ \/ ~NeedsTools(v) /\ stage' = "check" /\ UNCHANGED <<approved, op, ran, after>>
             \/ /\ NeedsTools(v) /\ approved["tools"] = NotApproved
                /\ stage' = "planning" /\ after' = "tools" /\ UNCHANGED <<approved, op, ran>>
             \/ /\ NeedsTools(v) /\ approved["tools"] # NotApproved
                /\ StartInstall(approved, "tools") /\ UNCHANGED after
    BY DEF InspectReady
  <1>2. v \in View /\ v.python = python
    BY <1>1, ViewsType
  <1> QED
    BY <1>1, <1>2 DEF InspectReady

-----------------------------------------------------------------------------
(* Types.                                                                   *)
LEMMA PrepareInitInv == PrepareInit => PrepareInv
  <1> SUFFICES ASSUME PrepareInit PROVE PrepareInv
    OBVIOUS
  <1>1. PrepareTypeOK
    <2>1. /\ env \in [Pythons -> Environment] /\ mappings \in Mapping
      BY Initial DEF PrepareInit
    <2>2. queue \in Seq(Pythons)
      BY EmptySeq DEF PrepareInit
    <2>3. /\ approved \in [Ops -> {NotApproved} \cup 0 .. V]
          /\ confirmed \in [Ops -> Nat] /\ basis \in [Ops -> 0 .. V] /\ ran \in [Ops -> Nat]
          /\ reqs \in 1 .. V /\ edits \in 0 .. MaxEdits
      BY Bounds DEF PrepareInit
    <2>4. /\ looked \subseteq View /\ tried \subseteq Modules /\ revision \in Nat
      BY DEF PrepareInit
    <2> QED
      BY <2>1, <2>2, <2>3, <2>4, NoNamesAreNames DEF PrepareInit, PrepareTypeOK
  <1>2. Confirmed
    BY DEF PrepareInit, Confirmed
  <1>3. Selected
    <2>1. queue \in Seq({pythonPath})
      BY EmptySeq DEF PrepareInit
    <2> QED
      BY <2>1, NoNamesAreNames DEF PrepareInit, Selected, NoView
  <1>4. Seen
    BY DEF PrepareInit, Seen
  <1> QED
    BY <1>1, <1>2, <1>3, <1>4 DEF PrepareInv

LEMMA PrepareTypeInv ==
  ASSUME PrepareTypeOK, Selected, [PrepareNext]_prepareVars
  PROVE  PrepareTypeOK'
  <1> USE DEF PrepareTypeOK, world, choice, listing, consent, runs
  <1>1. CASE Discover
    <2>1. CASE pythonPath # None
      <3>1. queue' = <<pythonPath>> /\ pythonPath \in Pythons
        BY <1>1, <2>1 DEF Discover
      <3>2. queue' \in Seq(Pythons)
        BY <3>1
      <3> QED
        BY <1>1, <3>2 DEF Discover
    <2>2. CASE pythonPath = None
      <3> DEFINE n == IF Len(Candidates) < MaxCandidates THEN Len(Candidates) ELSE MaxCandidates
      <3>1. n \in Int /\ n <= Len(Candidates) /\ Candidates \in Seq(Pythons)
        BY Sets, Bounds, LenProperties
      <3>2. \A i \in 1 .. n : Candidates[i] \in Pythons
        BY <3>1, ElementOfSeq, LenProperties
      <3>3. queue' = SubSeq(Candidates, 1, n)
        BY <1>1, <2>2 DEF Discover
      <3> HIDE DEF n
      <3>4. queue' \in Seq(Pythons)
        BY <3>1, <3>2, <3>3, SubSeqProperties
      <3> QED
        BY <1>1, <3>4 DEF Discover
    <2> QED
      BY <2>1, <2>2
  <1>2. CASE Look \/ SkipCandidate
    <2>1. queue # <<>> /\ queue' \in {<<>>, Tail(queue)}
      BY <1>2 DEF Look, SkipCandidate
    <2>2. Head(queue) \in Pythons /\ queue' \in Seq(Pythons)
      <3>1. queue \in Seq(Pythons)
        OBVIOUS
      <3>2. Head(queue) \in Pythons /\ Tail(queue) \in Seq(Pythons) /\ <<>> \in Seq(Pythons)
        BY <2>1, <3>1, HeadTailProperties, EmptySeq
      <3> QED
        BY <2>1, <3>2
    <2>3. looked' \subseteq View /\ current' \in View
      BY <1>2, <2>2, ViewsType DEF Look, SkipCandidate
    <2> QED
      BY <1>2, <2>2, <2>3 DEF Look, SkipCandidate
  <1>3. CASE Select \/ Choose \/ Check \/ Final \/ Save \/ Throw
    BY <1>3 DEF Select, Choose, Check, Final, Save, Throw, View, Selected
  <1>4. CASE MakePlan
    BY <1>4, PlanType DEF MakePlan
  <1>5. CASE EnterNames
    <2>1. pending' \in Mapping
      <3>1. PICK ms \in SUBSET plan.editable \ {{}} : \E f \in [ms -> Names \ Unsafe] :
              pending' = [m \in Modules |-> IF m \in ms THEN f[m] ELSE None]
        BY <1>5 DEF EnterNames
      <3> QED
        BY <3>1 DEF Mapping
    <2> QED
      BY <1>5, <2>1 DEF EnterNames
  <1>6. CASE SaveNames
    BY <1>6, OverrideType, NoNamesAreNames DEF SaveNames, Revised
  <1>7. CASE Confirm
    <2>1. /\ confirmed' \in [Ops -> Nat] /\ basis' \in [Ops -> 0 .. V] /\ names' \in Mapping
      BY <1>7, Confirming
    <2>2. /\ approved' \in [Ops -> {NotApproved} \cup 0 .. V] /\ ran' \in [Ops -> Nat]
          /\ op' \in Ops \cup {None} /\ stage' \in {"inspect", "install"}
      BY <1>7, Confirming, StartType, TableType
    <2> QED
      BY <1>7, <2>1, <2>2, NoNamesAreNames DEF Confirm
  <1>8. CASE InstallEnds
    <2>1. env' \in [Pythons -> Environment]
      <3>1. PICK e \in [has: SUBSET Modules, tools: BOOLEAN, health: {"ok", "blocked"}] :
              env' = [env EXCEPT ![python] = e]
        BY <1>8 DEF InstallEnds
      <3>2. e \in Environment
        BY <3>1 DEF Environment
      <3> QED
        BY <3>1, <3>2
    <2> QED
      BY <1>8, <2>1 DEF InstallEnds
  <1>9. CASE InspectMissing
    <2>1. python \in Pythons
      BY <1>9 DEF InspectMissing, Selected
    <2>2. /\ approved' \in [Ops -> {NotApproved} \cup 0 .. V] /\ ran' \in [Ops -> Nat]
          /\ op' \in Ops \cup {None} /\ stage' \in {"planning", "install"}
      BY <1>9, <2>1, InspectingMissing, StartType
    <2> QED
      BY <1>9, <2>1, <2>2, InspectingMissing DEF InspectMissing
  <1>10. CASE InspectReady
    <2>1. python \in Pythons
      BY <1>10 DEF InspectReady, Selected
    <2>2. "tools" \in Ops
      BY DEF Ops
    <2>3. /\ approved' \in [Ops -> {NotApproved} \cup 0 .. V] /\ ran' \in [Ops -> Nat]
          /\ op' \in Ops \cup {None} /\ stage' \in {"planning", "check", "install"}
      BY <1>10, <2>1, <2>2, InspectingReady, StartType
    <2> QED
      BY <1>10, <2>1, <2>3, InspectingReady DEF InspectReady
  <1>11. CASE CancelPrepare \/ EditRequirements
    <2>1. reqs' \in 1 .. V /\ edits' \in 0 .. MaxEdits
      BY <1>11, Bounds DEF CancelPrepare, EditRequirements
    <2>2. aborted' \in BOOLEAN
      BY <1>11 DEF CancelPrepare, EditRequirements
    <2>3. /\ UNCHANGED <<scope, files, env, pythonPath, mappings, stage, choice, listing, consent>>
          /\ UNCHANGED <<after, runs>>
      BY <1>11 DEF CancelPrepare, EditRequirements
    <2> QED
      BY <2>1, <2>2, <2>3
  <1>12. CASE UNCHANGED prepareVars
    BY <1>12 DEF prepareVars
  <1> QED
    BY <1>1, <1>2, <1>3, <1>4, <1>5, <1>6, <1>7, <1>8, <1>9, <1>10, <1>11, <1>12 DEF PrepareNext, Program

-----------------------------------------------------------------------------
(* The invariants.                                                          *)
LEMMA ConfirmedAfterStart ==
  ASSUME NEW table \in [Ops -> {NotApproved} \cup 0 .. V], NEW o \in Ops, PrepareTypeOK,
         StartInstall(table, o),
         confirmed' \in [Ops -> Nat],
         \A q \in Ops : /\ ran[q] <= confirmed'[q]
                        /\ table[q] # NotApproved => ran[q] < confirmed'[q] /\ basis'[q] = table[q]
  PROVE  /\ Confirmed'
         /\ \A q \in Ops : ran'[q] # ran[q] =>
                ran'[q] <= confirmed'[q] /\ basis'[q] \in {0, reqs}
  <1>1. /\ table[o] # NotApproved /\ table[o] \in {0, reqs}
        /\ approved' = [table EXCEPT ![o] = NotApproved] /\ ran' = [ran EXCEPT ![o] = @ + 1]
    BY StartType DEF PrepareTypeOK
  <1>2. ASSUME NEW q \in Ops
        PROVE  /\ ran'[q] <= confirmed'[q]
               /\ approved'[q] # NotApproved => ran'[q] < confirmed'[q] /\ basis'[q] = approved'[q]
               /\ ran'[q] # ran[q] => basis'[q] \in {0, reqs}
    <2>1. ran[q] \in Nat /\ confirmed'[q] \in Nat
      BY DEF PrepareTypeOK
    <2>2. CASE q = o
      <3>1. ran'[q] = ran[q] + 1 /\ approved'[q] = NotApproved
        BY <1>1, <2>2 DEF PrepareTypeOK
      <3>2. ran[q] < confirmed'[q] /\ basis'[q] = table[q]
        BY <1>1, <2>2
      <3> QED
        BY <1>1, <2>1, <2>2, <3>1, <3>2
    <2>3. CASE q # o
      BY <1>1, <2>3 DEF PrepareTypeOK
    <2> QED
      BY <2>2, <2>3
  <1> QED
    BY <1>2 DEF Confirmed

\* The steps that can start an installer.
Installing == Confirm \/ InspectMissing \/ InspectReady

\* What a step that starts one may do.
AsConfirmed ==
    \A o \in Ops : ran'[o] # ran[o] =>
        ~aborted /\ ran'[o] <= confirmed'[o] /\ basis'[o] \in {0, reqs}

LEMMA OthersStart ==
  ASSUME [PrepareNext]_prepareVars, ~Installing
  PROVE  UNCHANGED <<approved, confirmed, basis, ran>>
  BY DEF PrepareNext, Program, Installing, Discover, Look, SkipCandidate, Select, Choose, MakePlan,
     EnterNames, SaveNames, InstallEnds, Check, Final, Save, Throw, CancelPrepare, EditRequirements,
     prepareVars, consent, runs

LEMMA ConfirmedInv ==
  ASSUME PrepareTypeOK, Selected, Confirmed, [PrepareNext]_prepareVars
  PROVE  Confirmed' /\ AsConfirmed
  <1>1. CASE Confirm
    <2>1. /\ ~aborted /\ plan.files \in {0, reqs} /\ plan.files \in 0 .. V
          /\ confirmed' = [o \in Ops |-> IF o \in plan.ops THEN confirmed[o] + 1 ELSE confirmed[o]]
          /\ basis' = [o \in Ops |-> IF o \in plan.ops THEN plan.files ELSE basis[o]]
          /\ \/ approved' = Table /\ stage' = "inspect" /\ UNCHANGED <<op, ran>>
             \/ \E o \in Ops : StartInstall(Table, o)
      BY <1>1, Confirming
    <2>2. Table \in [Ops -> {NotApproved} \cup 0 .. V] /\ confirmed' \in [Ops -> Nat]
      BY <2>1, TableType DEF PrepareTypeOK
    <2>3. ASSUME NEW q \in Ops
          PROVE  /\ ran[q] <= confirmed'[q]
                 /\ Table[q] # NotApproved => ran[q] < confirmed'[q] /\ basis'[q] = Table[q]
      <3>1. ran[q] \in Nat /\ confirmed[q] \in Nat /\ ran[q] <= confirmed[q]
        BY DEF PrepareTypeOK, Confirmed
      <3>2. CASE q \in plan.ops
        <4>1. confirmed'[q] = confirmed[q] + 1 /\ basis'[q] = plan.files /\ Table[q] = plan.files
          BY <2>1, <3>2 DEF Table
        <4> QED
          BY <3>1, <4>1
      <3>3. CASE q \notin plan.ops
        <4>1. confirmed'[q] = confirmed[q] /\ basis'[q] = basis[q] /\ Table[q] = approved[q]
          BY <2>1, <3>3 DEF Table
        <4> QED
          BY <3>1, <4>1 DEF Confirmed
      <3> QED
        BY <3>2, <3>3
    <2>4. CASE approved' = Table /\ UNCHANGED ran
      BY <2>3, <2>4 DEF Confirmed, AsConfirmed
    <2>5. ASSUME NEW o \in Ops, StartInstall(Table, o)
          PROVE  Confirmed' /\ AsConfirmed
      BY <2>1, <2>2, <2>3, <2>5, ConfirmedAfterStart DEF AsConfirmed
    <2> QED
      BY <2>1, <2>4, <2>5
  <1>2. CASE InspectMissing \/ InspectReady
    <2>1. python \in Pythons
      BY <1>2 DEF InspectMissing, InspectReady, Selected
    <2>2. ~aborted /\ UNCHANGED <<confirmed, basis>>
      BY <1>2 DEF InspectMissing, InspectReady
    <2>3. "tools" \in Ops
      BY DEF Ops
    <2>4. \/ UNCHANGED <<approved, ran>>
          \/ \E o \in Ops : StartInstall(approved, o)
      BY <1>2, <2>1, <2>3, InspectingMissing, InspectingReady
    <2>5. CASE UNCHANGED <<approved, ran>>
      BY <2>2, <2>5 DEF Confirmed, AsConfirmed
    <2>6. ASSUME NEW o \in Ops, StartInstall(approved, o)
          PROVE  Confirmed' /\ AsConfirmed
      <3>1. approved \in [Ops -> {NotApproved} \cup 0 .. V] /\ confirmed' \in [Ops -> Nat]
        BY <2>2 DEF PrepareTypeOK
      <3>2. \A q \in Ops :
              /\ ran[q] <= confirmed'[q]
              /\ approved[q] # NotApproved => ran[q] < confirmed'[q] /\ basis'[q] = approved[q]
        BY <2>2 DEF Confirmed
      <3> QED
        BY <2>2, <2>6, <3>1, <3>2, ConfirmedAfterStart DEF AsConfirmed
    <2> QED
      BY <2>4, <2>5, <2>6
  <1>3. CASE ~Installing
    BY <1>3, OthersStart DEF Confirmed, AsConfirmed
  <1> QED
    BY <1>1, <1>2, <1>3 DEF Installing

LEMMA SelectedInv ==
  ASSUME PrepareTypeOK, Selected, [PrepareNext]_prepareVars
  PROVE  Selected'
  <1> USE DEF world, choice, listing, consent, runs
  <1>1. CASE Discover
    <2>1. pythonPath # None => queue' = <<pythonPath>>
      BY <1>1 DEF Discover
    <2>2. \A p : <<p>> \in Seq({p})
      OBVIOUS
    <2> QED
      BY <1>1, <2>1, <2>2 DEF Discover, Selected
  <1>2. CASE Look \/ SkipCandidate
    <2>1. queue # <<>> /\ queue' \in {<<>>, Tail(queue)} /\ stage = "candidates" /\ stage' = "candidates"
      BY <1>2 DEF Look, SkipCandidate
    <2>2. queue \in Seq(Pythons) /\ Head(queue) \in Pythons
      BY <2>1, HeadTailProperties DEF PrepareTypeOK
    <2>3. pythonPath # None => queue' \in Seq({pythonPath}) /\ Head(queue) = pythonPath
      <3>1. ASSUME pythonPath # None PROVE queue' \in Seq({pythonPath}) /\ Head(queue) = pythonPath
        <4>1. queue \in Seq({pythonPath})
          BY <2>1, <3>1 DEF Selected
        <4>2. Head(queue) \in {pythonPath} /\ Tail(queue) \in Seq({pythonPath})
          BY <2>1, <4>1, HeadTailProperties
        <4>3. <<>> \in Seq({pythonPath})
          BY EmptySeq
        <4> QED
          BY <2>1, <4>2, <4>3
      <3> QED
        BY <3>1
    <2>4. UNCHANGED <<pythonPath, python>>
      BY <1>2 DEF Look, SkipCandidate
    <2>5. current' = current \/ current'.python = Head(queue)
      BY <1>2, <2>2, ViewsType DEF Look, SkipCandidate
    <2> QED
      BY <2>1, <2>2, <2>3, <2>4, <2>5 DEF Selected
  <1>3. CASE InspectMissing \/ InspectReady
    <2>1. python \in Pythons /\ stage = "inspect"
      BY <1>3 DEF InspectMissing, InspectReady, Selected
    <2>2. current'.python = python /\ UNCHANGED <<pythonPath, queue, python>>
      BY <1>3, <2>1, InspectingMissing, InspectingReady DEF InspectMissing, InspectReady
    <2> QED
      BY <2>1, <2>2 DEF Selected
  <1>4. CASE Select
    BY <1>4 DEF Select, Selected
  <1>5. CASE Confirm
    <2>1. stage = "confirm" /\ UNCHANGED <<pythonPath, queue, python, current>>
      BY <1>5 DEF Confirm
    <2> QED
      BY <2>1 DEF Selected
  <1>6. CASE InstallEnds
    BY <1>6 DEF InstallEnds, Selected
  <1>7. CASE Choose \/ MakePlan \/ EnterNames \/ SaveNames \/ Check \/ Final
    BY <1>7 DEF Choose, MakePlan, EnterNames, SaveNames, Check, Final, Selected
  <1>8. CASE Save \/ Throw
    BY <1>8 DEF Save, Throw, Selected
  <1>9. CASE CancelPrepare \/ EditRequirements \/ UNCHANGED prepareVars
    BY <1>9 DEF CancelPrepare, EditRequirements, prepareVars, Selected
  <1> QED
    BY <1>1, <1>2, <1>3, <1>4, <1>5, <1>6, <1>7, <1>8, <1>9 DEF PrepareNext, Program

LEMMA SeenInv ==
  ASSUME PrepareTypeOK, Selected, Seen, [PrepareNext]_prepareVars
  PROVE  Seen'
  <1> USE DEF world, choice, listing, consent, runs
  <1>1. CASE Final
    <2>1. python \in Pythons /\ UNCHANGED <<env, python>>
      BY <1>1 DEF Final, Selected
    <2>2. PICK v \in Views(python) : Works(v)
      BY <1>1 DEF Final, Verified
    <2>3. v.status = "ready" /\ v.tools
      BY <2>2 DEF Works, NeedsTools
    <2>4. env[python].health = "ok" /\ env[python].has = Modules /\ env[python].tools = v.tools
      BY <2>1, <2>2, <2>3, ViewsType
    <2>5. env[python] \in Environment
      BY <2>1 DEF PrepareTypeOK
    <2>6. env[python].tools = TRUE
      BY <2>3, <2>4, <2>5 DEF Environment
    <2>7. env[python] = [has |-> Modules, tools |-> TRUE, health |-> "ok"]
      BY <2>4, <2>5, <2>6 DEF Environment
    <2> QED
      BY <2>1, <2>7 DEF Seen
  <1>2. CASE PrepareNext /\ ~Final
    <2>1. stage' = "saving" => stage = "saving" /\ UNCHANGED <<env, python>>
      <3>1. CASE Confirm \/ InspectMissing \/ InspectReady
        BY <3>1 DEF Confirm, InspectMissing, InspectReady, StartInstall
      <3>2. CASE ~(Confirm \/ InspectMissing \/ InspectReady)
        BY <1>2, <3>2 DEF PrepareNext, Program, Discover, Look, SkipCandidate, Select, Choose, MakePlan,
           EnterNames, SaveNames, InstallEnds, Check, Save, Throw, CancelPrepare, EditRequirements
      <3> QED
        BY <3>1, <3>2
    <2> QED
      BY <2>1 DEF Seen
  <1>3. CASE UNCHANGED prepareVars
    BY <1>3 DEF prepareVars, Seen
  <1> QED
    BY <1>1, <1>2, <1>3

-----------------------------------------------------------------------------
(* The strengthening is inductive.                                          *)
THEOREM PrepareInductive == PrepareSpec => []PrepareInv
  <1>1. PrepareInv /\ [PrepareNext]_prepareVars => PrepareInv'
    BY PrepareTypeInv, ConfirmedInv, SelectedInv, SeenInv DEF PrepareInv
  <1> QED
    BY <1>1, PrepareInitInv, PTL DEF PrepareSpec

(* Types for every set of interpreters, modules and packages and every      *)
(* limit of revisions and attempts.                                         *)
THEOREM PrepareTypeCorrect == PrepareSpec => []PrepareTypeOK
  BY PrepareInductive, PTL DEF PrepareInv

(* No installer starts without a confirmation of its own for the            *)
(* requirements there are, however many plans are shown in between.         *)
THEOREM InstallsConfirmed == PrepareSpec => InstallsAreConfirmed
  <1>1. PrepareInv /\ [PrepareNext]_prepareVars =>
          [\A o \in Ops : ran'[o] # ran[o] =>
             ~aborted /\ ran'[o] <= confirmed'[o] /\ basis'[o] \in {0, reqs}]_prepareVars
    BY ConfirmedInv DEF PrepareInv, AsConfirmed
  <1> QED
    BY <1>1, PrepareInductive, PTL DEF PrepareSpec, InstallsAreConfirmed

(* An interpreter is saved only while it has everything, whatever the       *)
(* installers did to it, and never over one the user had set.               *)
THEOREM SavedReady == PrepareSpec => SavedIsReady
  <1>1. PrepareInv /\ [PrepareNext]_prepareVars =>
          [pythonPath' # pythonPath =>
             /\ env[pythonPath'] = [has |-> Modules, tools |-> TRUE, health |-> "ok"]
             /\ pythonPath = None]_prepareVars
    <2> SUFFICES ASSUME PrepareInv, PrepareNext, pythonPath' # pythonPath
                 PROVE  /\ env[pythonPath'] = [has |-> Modules, tools |-> TRUE, health |-> "ok"]
                        /\ pythonPath = None
      OBVIOUS
    <2>1. Save
      BY DEF PrepareNext, Program, Discover, Look, SkipCandidate, Select, Choose, MakePlan, EnterNames,
         SaveNames, Confirm, InstallEnds, InspectMissing, InspectReady, Check, Final, Throw, CancelPrepare,
         EditRequirements, world
    <2>2. stage = "saving" /\ pythonPath' = python
      BY <2>1 DEF Save
    <2>3. python \in Pythons /\ (pythonPath # None => python \in {None, pythonPath})
      BY <2>2 DEF PrepareInv, Selected
    <2> QED
      BY <2>2, <2>3, Sets DEF PrepareInv, Seen
  <1> QED
    BY <1>1, PrepareInductive, PTL DEF PrepareSpec, SavedIsReady
=============================================================================
