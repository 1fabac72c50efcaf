---------------------------- MODULE BatchDispatch ----------------------------
(***************************************************************************)
(* A batch: discover the targets of the chosen files, load each module     *)
(* once before any model is asked, leave out what does not load, run the   *)
(* other targets one after the other and account for all of them.          *)
(*                                                                         *)
(*   src/orchestrator.ts                       runBatchCmd, runSequentially*)
(*   src/pipeline/batchJournal.ts              BatchJournal                *)
(*   src/pipeline/batchPreflightPartition.ts   partitionBatchPreflight     *)
(*                                                                         *)
(* A target's own run is one step (TargetRun models it): it ends with a    *)
(* status in its journal, or without a report.  The counts of requests and *)
(* the reports are left out; a file holds one target.                      *)
(***************************************************************************)
EXTENDS Integers, FiniteSets

CONSTANTS
    N,                 \* number of targets
    BatchFailureLimit  \* StopPolicySettings.batchFailureLimit, 0: none

ASSUME SizesNat == N \in Nat /\ BatchFailureLimit \in Nat

VARIABLES
    pc,          \* the await runBatchCmd stands at
    state,       \* BatchTarget.state
    result,      \* BatchTarget.terminalStatus
    next,        \* index of runSequentially
    loaded,      \* targets whose module loaded in the last preflight
    undiscovered,\* a file could not be parsed (discoveryFailures)
    outcome,     \* the outcome runBatchCmd will report
    stage,       \* terminalFailureStage
    status,      \* the batch's status
    edited,      \* targets whose source changed since their run began
    cancelled

preflightVars == <<loaded, undiscovered>>
targetVars == <<state, result, next>>
vars == <<pc, targetVars, preflightVars, outcome, stage, status, edited, cancelled>>

Targets == 1 .. N

\* "quality" stands for the stops without a quality pass: round-limit,
\* stagnated, review-blocked; "blocked" for the categories environment and tool.
RunResults == {"passed", "failed", "quality", "blocked", "skipped", "cancelled"}
Results == RunResults \cup {"none", "source-changed", "incomplete-report",
                            "environment-blocked", "policy-not-run"}
PcValues == {"discovering", "preflight", "deciding", "setup", "partition",
             "dispatch", "running", "finishing", "done"}
Outcomes == {"completed", "cancelled", "failed", "environment-blocked"}

Init ==
    /\ pc = "discovering" /\ outcome = "failed" /\ stage = "none" /\ status = "discovering"
    /\ state = [t \in Targets |-> "pending"] /\ result = [t \in Targets |-> "none"]
    /\ next = 1 /\ loaded = {} /\ undiscovered = FALSE
    /\ edited = {} /\ cancelled = FALSE

(***************************************************************************)
(* Discovery and preflight.                                                *)
(***************************************************************************)
Discover ==
    /\ pc = "discovering" /\ ~cancelled
    /\ undiscovered' \in BOOLEAN
    /\ status' = "running" /\ pc' = "preflight"
    /\ UNCHANGED <<targetVars, loaded, outcome, stage, edited, cancelled>>

\* The scope preview was dismissed.
ScopeDeclined ==
    /\ pc = "discovering" /\ ~cancelled
    /\ outcome' = "cancelled" /\ pc' = "finishing"
    /\ UNCHANGED <<targetVars, preflightVars, stage, status, edited, cancelled>>

\* Modules without a complete diagnosis are not offered for a decision.
Preflight ==
    /\ pc = "preflight" /\ ~cancelled
    /\ loaded' \in SUBSET Targets
    /\ pc' \in IF loaded' = Targets THEN {"partition"} ELSE {"partition", "deciding"}
    /\ UNCHANGED <<targetVars, undiscovered, outcome, stage, status, edited, cancelled>>

ChooseContinue ==
    /\ pc = "deciding" /\ ~cancelled /\ pc' = "partition"
    /\ UNCHANGED <<targetVars, preflightVars, outcome, stage, status, edited, cancelled>>

ChooseSetup ==
    /\ pc = "deciding" /\ ~cancelled /\ pc' = "setup"
    /\ outcome' = "environment-blocked"
    /\ UNCHANGED <<targetVars, preflightVars, stage, status, edited, cancelled>>

ChooseCancel ==
    /\ pc = "deciding" /\ ~cancelled
    /\ outcome' = "cancelled" /\ pc' = "finishing"
    /\ UNCHANGED <<targetVars, preflightVars, stage, status, edited, cancelled>>

\* The setup ends with one real check of the modules, or without.
SetupEnds ==
    /\ pc = "setup" /\ ~cancelled
    /\ \/ loaded' \in SUBSET Targets /\ pc' = "partition" /\ UNCHANGED outcome
       \/ /\ pc' = "finishing" /\ outcome' \in {"cancelled", "environment-blocked"}
          /\ UNCHANGED loaded
    /\ UNCHANGED <<targetVars, undiscovered, stage, status, edited, cancelled>>

\* Anything thrown before the first target is dispatched; a changed source
\* or setup between the check and the dispatch is one of these.
Thrown ==
    /\ pc \in {"discovering", "preflight", "deciding", "setup", "partition"}
    /\ stage' = IF cancelled THEN stage ELSE "batch-error"
    /\ pc' = "finishing"
    /\ UNCHANGED <<targetVars, preflightVars, outcome, status, edited, cancelled>>

\* Mutant of Partition: blocked targets are only left out of the queue.
Partition_Unrecorded ==
    /\ pc = "partition"
    /\ outcome' = IF loaded # {} THEN "failed" ELSE IF Targets = {} THEN "completed" ELSE outcome
    /\ pc' = IF loaded # {} THEN "dispatch" ELSE "finishing"
    /\ UNCHANGED <<state, result, next, preflightVars, stage, status, edited, cancelled>>
\* blockPreflightTargets; the provisional outcome of a setup does not leak
\* into the batch once there is something to run.
Partition ==
    /\ pc = "partition"
    /\ state' = [t \in Targets |-> IF t \in loaded THEN state[t] ELSE "finished"]
    /\ result' = [t \in Targets |-> IF t \in loaded THEN result[t] ELSE "environment-blocked"]
    /\ outcome' = IF loaded # {} THEN "failed" ELSE IF Targets = {} THEN "completed" ELSE outcome
    /\ pc' = IF loaded # {} THEN "dispatch" ELSE "finishing"
    /\ UNCHANGED <<next, preflightVars, stage, status, edited, cancelled>>

\* The rows do not fit the targets: nothing is dispatched.
PartitionInvalid ==
    /\ pc = "partition" /\ outcome' = "environment-blocked" /\ pc' = "finishing"
    /\ UNCHANGED <<targetVars, preflightVars, stage, status, edited, cancelled>>

(***************************************************************************)
(* runSequentially and the batch failure limit.                            *)
(***************************************************************************)
Counted == {"failed", "quality", "source-changed"}
\* Mutant of Failures: blocked targets count as failures.
Failures_Blocked(st, res) ==
    Cardinality({t \in Targets : st[t] = "finished" /\ res[t] \in Counted \cup {"blocked"}})
Failures(st, res) ==
    Cardinality({t \in Targets : st[t] = "finished" /\ res[t] \in Counted})

LimitReached(st, res) ==
    BatchFailureLimit > 0 /\ Failures(st, res) >= BatchFailureLimit

\* stopDispatch, with the target that just ended in st and res.
StopDispatch(st, res) ==
    LET stopped(t) == LimitReached(st, res) /\ st[t] = "pending"
    IN  /\ stage' = IF LimitReached(st, res) THEN "batch-failure-limit" ELSE stage
        /\ state' = [t \in Targets |-> IF stopped(t) THEN "finished" ELSE st[t]]
        /\ result' = [t \in Targets |-> IF stopped(t) THEN "policy-not-run" ELSE res[t]]

SkipBlocked ==
    /\ pc = "dispatch" /\ next \in Targets \ loaded /\ next' = next + 1
    /\ UNCHANGED <<pc, state, result, preflightVars, outcome, stage, status, edited, cancelled>>

BeginTarget ==
    /\ pc = "dispatch" /\ next \in loaded /\ ~cancelled
    /\ stage # "batch-failure-limit"
    /\ state' = [state EXCEPT ![next] = "running"] /\ pc' = "running"
    /\ edited' = edited \ {next}
    /\ UNCHANGED <<result, next, preflightVars, outcome, stage, status, cancelled>>

\* verifyQualityPass: a pass is recomputed from its policy, its immutable
\* text and its evidence (any of them may be damaged) and from its sources.
PassRecomputed(t, damaged) ==
    IF damaged THEN "incomplete-report" ELSE
    IF t \in edited THEN "source-changed" ELSE "passed"

\* BatchJournal.refresh: a report that is missing or not of this run leaves
\* the target unfinished, and a pass is never taken from what it says.
Refreshed(t, r, damaged) ==
    IF r = "passed" THEN PassRecomputed(t, damaged) ELSE
    IF damaged THEN "incomplete-report" ELSE r
StateAfter(r) == IF r = "incomplete-report" THEN "running" ELSE "finished"

\* An error of the target's run is logged and the next one starts.
TargetEnds(r, damaged) ==
    LET shown == Refreshed(next, r, damaged)
    IN  /\ pc = "running" /\ (r = "cancelled" => cancelled)
        /\ StopDispatch([state EXCEPT ![next] = StateAfter(shown)], [result EXCEPT ![next] = shown])
        /\ next' = next + 1 /\ pc' = "dispatch"
        /\ UNCHANGED <<preflightVars, outcome, status, edited, cancelled>>

\* Mutant of DispatchEnds: the queue waits until every target has its report.
DispatchEnds_AllFinished ==
    /\ pc = "dispatch"
    /\ \/ next > N /\ \A t \in Targets : state[t] = "finished"
       \/ next \in loaded /\ ~cancelled /\ stage = "batch-failure-limit"
    /\ outcome' = "completed" /\ pc' = "finishing"
    /\ UNCHANGED <<targetVars, preflightVars, stage, status, edited, cancelled>>
DispatchEnds ==
    /\ pc = "dispatch"
    /\ \/ next > N
       \/ next \in loaded /\ ~cancelled /\ stage = "batch-failure-limit"
    /\ outcome' = "completed" /\ pc' = "finishing"
    /\ UNCHANGED <<targetVars, preflightVars, stage, status, edited, cancelled>>

DispatchCancelled ==
    /\ pc = "dispatch" /\ next \in loaded /\ cancelled /\ pc' = "finishing"
    /\ UNCHANGED <<targetVars, preflightVars, outcome, stage, status, edited, cancelled>>

(***************************************************************************)
(* BatchJournal.finish                                                     *)
(***************************************************************************)
FinalStatus(said, st, res) ==
    LET unfinished == undiscovered \/ \E t \in Targets : st[t] # "finished"
        failed == \E t \in Targets : res[t] \in {"failed", "source-changed"}
        blocked == {t \in Targets : res[t] \in {"blocked", "environment-blocked"}}
    IN  IF stage = "batch-failure-limit" THEN "policy-stopped" ELSE
        IF said # "completed" THEN said ELSE
        IF unfinished THEN "incomplete" ELSE
        IF failed THEN "failed" ELSE
        IF blocked = {} THEN "completed" ELSE
        IF blocked = Targets THEN "environment-blocked" ELSE "partial"

\* Mutant of Finish: the targets that passed are not looked at again.
Finish_Unrefreshed(damaged) ==
    /\ pc = "finishing" /\ pc' = "done"
    /\ status' = FinalStatus(IF cancelled THEN "cancelled" ELSE outcome, state, result)
    /\ UNCHANGED <<targetVars, preflightVars, outcome, stage, edited, cancelled>>
Finish(damaged) ==
    /\ pc = "finishing" /\ pc' = "done"
    /\ result' = [t \in Targets |-> IF result[t] = "passed"
                                    THEN Refreshed(t, "passed", t \in damaged) ELSE result[t]]
    /\ state' = [t \in Targets |-> IF result[t] = "passed" THEN StateAfter(result'[t]) ELSE state[t]]
    /\ status' = FinalStatus(IF cancelled THEN "cancelled" ELSE outcome, state', result')
    /\ UNCHANGED <<next, preflightVars, outcome, stage, edited, cancelled>>

(***************************************************************************)
(* The outside.                                                            *)
(***************************************************************************)
Cancel ==
    /\ pc # "done" /\ ~cancelled /\ cancelled' = TRUE
    /\ UNCHANGED <<pc, targetVars, preflightVars, outcome, stage, status, edited>>

\* A source is edited, or edited back.
EditSource(t) ==
    /\ pc # "done" /\ edited' \in {edited \cup {t}, edited \ {t}}
    /\ UNCHANGED <<pc, targetVars, preflightVars, outcome, stage, status, cancelled>>

Before == \/ Discover \/ ScopeDeclined \/ Preflight \/ ChooseContinue \/ ChooseSetup
          \/ ChooseCancel \/ SetupEnds \/ Thrown \/ Partition \/ PartitionInvalid
Dispatch == \/ SkipBlocked \/ BeginTarget \/ DispatchEnds \/ DispatchCancelled
            \/ \E r \in RunResults, damaged \in BOOLEAN : TargetEnds(r, damaged)
Program == Before \/ Dispatch \/ \E damaged \in SUBSET Targets : Finish(damaged)
Next == Program \/ Cancel \/ \E t \in Targets : EditSource(t)

Spec == Init /\ [][Next]_vars

\* Every await settles: dialogs are answered, a target's run ends.
FairSpec == Spec /\ WF_vars(Program)

-----------------------------------------------------------------------------
TypeOK ==
    /\ pc \in PcValues /\ outcome \in Outcomes
    /\ state \in [Targets -> {"pending", "running", "finished"}]
    /\ result \in [Targets -> Results]
    /\ next \in 1 .. N + 1 /\ loaded \subseteq Targets /\ undiscovered \in BOOLEAN
    /\ stage \in {"none", "batch-error", "batch-failure-limit"}
    /\ status \in {"discovering", "running", "policy-stopped", "incomplete", "partial"} \cup Outcomes
    /\ edited \subseteq Targets /\ cancelled \in BOOLEAN

(* The batch never claims more than its targets show: a batch reported as   *)
(* completed has no target unfinished, failed, blocked or not run, and a    *)
(* target reported as passed still has the source it was tested with.       *)
NothingIsOverclaimed ==
    pc = "done" =>
        /\ status = "completed" =>
             ~undiscovered /\ \A t \in Targets :
                 state[t] = "finished" /\ result[t] \in {"passed", "quality", "skipped", "cancelled"}
        /\ \A t \in Targets : result[t] = "passed" => t \notin edited

(* Every target the batch planned is accounted for: a batch that was not    *)
(* cut short by an error or by the user leaves no target pending.           *)
EveryTargetIsAccountedFor ==
    pc = "done" /\ outcome = "completed" /\ ~cancelled =>
        \A t \in Targets : state[t] # "pending"

(* The batch is stopped by its limit exactly when that many targets failed: *)
(* blocked, cancelled and broken reports do not count, and until the final  *)
(* look at the reports fewer failures never stop it.                        *)
LimitIsExact ==
    LET failed == {t \in Targets : /\ state[t] = "finished"
                                   /\ result[t] \in {"failed", "quality", "source-changed"}}
    IN  /\ stage = "batch-failure-limit" => Cardinality(failed) >= BatchFailureLimit
        /\ stage # "batch-failure-limit" /\ BatchFailureLimit > 0 /\ pc # "done" =>
             Cardinality(failed) < BatchFailureLimit

(* A target starts at most once, never after it was found blocked, never    *)
(* after the limit, never after a cancellation.                             *)
StartsAreFinal ==
    [][\A t \in Targets : state'[t] = "running" /\ result'[t] # "incomplete-report" /\ state[t] # "running" =>
         /\ state[t] = "pending" /\ t \in loaded /\ ~cancelled
         /\ ~LimitReached(state, result)]_vars

(* The batch always ends, and only after the target that was running.       *)
BatchEnds == <>(pc = "done" /\ \A t \in Targets : result[t] = "none" => state[t] = "pending")

(* ARCHITECTURE.md:173: the terminal error of a target stops the batch, the *)
(* targets behind it stay pending.                                          *)
FailureStopsTheBatch ==
    [][BeginTarget => \A t \in Targets : result[t] # "failed"]_vars
=============================================================================
