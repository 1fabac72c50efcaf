----------------------------- MODULE BatchSetup -----------------------------
(***************************************************************************)
(* A batch up to the moment its first target may run, with the setup it    *)
(* may ask for on the way: modules are imported once, a blocked module     *)
(* leads to a question, the setup scans for itself and hands its result    *)
(* back, and the batch looks again whether everything it relies on still   *)
(* holds.  BatchDispatch is what follows; AnalysisSession lends the lease. *)
(*                                                                         *)
(*   src/orchestrator.ts                       runBatchCmd                 *)
(*   src/pipeline/batchSetupContinuity.ts      captureBatchSetupScope      *)
(*   src/pipeline/batchPreflightPartition.ts   partitionBatchPreflight     *)
(*   and ImportSetup                                                       *)
(***************************************************************************)
EXTENDS ImportSetup

VARIABLES
    scope,  \* the selected file's content and the interpreter of the batch
    first   \* importCheck: how the batch's own scan ended, what it read

batchVars == <<vars, scope, first>>

BatchPcs == {"scope", "finding", "opening", "deciding", "verifying", "dispatched"}

NoFirst == [rows |-> "none", closure |-> NoClosure]

BatchInit ==
    /\ WorldInit /\ SetupInit
    /\ \/ pc \in {"discovering", "draft-preview"} /\ caller = "setup"
       \/ pc = "scope" /\ caller = "batch"
    /\ scope = [target |-> 1, python |-> "py1"] /\ first = NoFirst

\* The batch stops; its targets stay as they are.
BatchStops ==
    /\ pc \in BatchPcs \cup {"scanned"} /\ caller = "batch" /\ pc # "dispatched"
    /\ Dropped /\ UNCHANGED <<scope, first>>

\* captureBatchSetupScope, when the user has selected the files.
SelectScope ==
    /\ pc = "scope" /\ ~cancelled
    /\ scope' = [scope EXCEPT !.target = src["target"]] /\ pc' = "finding"
    /\ UNCHANGED <<outside, user, stopped, caller, scanVars, check, offer, saved, reason, outcome, first>>

\* inspect(): unlike the setup the batch accepts no expired approval.
Inspect ==
    /\ pc = "finding" /\ ~PlanFails(Effective, src["target"])
    /\ \E files \in BOOLEAN : BeginScan(files)
    /\ UNCHANGED <<scope, first>>

\* The settings are those the scan was made with; modules that did not load
\* lead to the setup, or to the question whether to go on without them.
Inspected ==
    /\ pc = "scanned" /\ caller = "batch" /\ ~cancelled
    /\ InForce(PlanOf(check.scan.saved, check.scan.target))
    /\ first' = [rows |-> check.rows, closure |-> check.closure]
    /\ pc' = IF check.rows = "planned" THEN "opening" ELSE
             IF check.rows \in {"blocked", "partial"} THEN "deciding" ELSE "verifying"
    /\ UNCHANGED <<outside, user, stopped, caller, scanVars, check, offer, saved, reason, outcome, scope>>

GoOn ==
    /\ pc = "deciding" /\ ~cancelled /\ pc' = "verifying"
    /\ UNCHANGED <<outside, user, stopped, caller, scanVars, check, offer, saved, reason, outcome, scope, first>>

\* withEnvironmentSetup(() => importSetup.prepare(...))
AskForSetup ==
    /\ pc \in {"opening", "deciding"} /\ ~cancelled
    /\ StartSetup /\ UNCHANGED <<scope, first>>

\* Mutant of SameScope: the imported files are left to the first scan.
SameScope_SelectedOnly == src["target"] = scope.target /\ python = scope.python
\* continuity.verify: what the setup saw is the batch's own scope.
SameScope ==
    /\ src["target"] = scope.target /\ python = scope.python
    /\ check.closure \in {NoClosure, src}

\* The look before the targets are handed out, in both branches.
StillValid ==
    /\ src["target"] = scope.target /\ python = scope.python
    /\ (first.rows \in Imported => first.closure = src)
    /\ InForce(check.plan)

\* A module that loaded has its targets run; no module, no batch.
HandOut ==
    /\ StillValid /\ check.rows \in {"partial", "loaded"}
    /\ pc' = "dispatched" /\ caller' = "batch"
    /\ UNCHANGED <<outside, user, stopped, scanVars, check, offer, saved, reason, outcome, scope, first>>

Verify == pc = "verifying" /\ ~cancelled /\ HandOut

\* The batch goes on with the scan the setup ended with, also when only some
\* of the modules loaded.
Resume ==
    /\ pc = "returned" /\ first # NoFirst /\ ~cancelled
    /\ result.status \in {"ready", "blocked"} /\ result.actual
    /\ check.scan.python = scope.python /\ SameScope
    /\ HandOut

ResumeFails ==
    /\ pc = "returned" /\ first # NoFirst
    /\ Dropped /\ UNCHANGED <<scope, first>>

\* The batch's abort reaches the setup it waits for.
Abort ==
    /\ Busy /\ (caller = "batch" \/ first # NoFirst) /\ ~cancelled
    /\ cancelled' = TRUE /\ stopped' = TRUE
    /\ UNCHANGED <<src, user, override, python, draft, edits, pc, caller, scanVars, check, offer, saved, reason, outcome, scope, first>>

BatchProgram ==
    \/ SelectScope \/ Inspect \/ Inspected \/ GoOn \/ AskForSetup \/ Verify \/ Resume \/ ResumeFails \/ BatchStops
    \/ (Program /\ UNCHANGED <<scope, first>>)
BatchNext == BatchProgram \/ Abort \/ ((Edits \/ Stop) /\ UNCHANGED <<scope, first>>)
BatchSpec == BatchInit /\ [][BatchNext]_batchVars

-----------------------------------------------------------------------------
(* No target runs on evidence that is not of now: when the batch hands out  *)
(* its targets, the scan it relies on really imported the modules, with the *)
(* contents of every file they reach, the interpreter and the settings of   *)
(* now, and the selected file is the one the user selected.                 *)
NeverDispatchesStale ==
    [][pc' = "dispatched" /\ pc # "dispatched" =>
         /\ ~cancelled /\ check.rows \in {"partial", "loaded"}
         /\ check.closure = src /\ src["target"] = scope.target
         /\ check.scan.python = python
         /\ check.scan.rules = Selected(Effective)
         /\ ~PlanFails(Effective, src["target"])]_batchVars
=============================================================================
