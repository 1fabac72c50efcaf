---------------------------- MODULE TargetAnalysis ----------------------------
(***************************************************************************)
(* The analysis of one target, from its settings to its report             *)
(* (executeSingleFileAnalysis in src/orchestrator.ts with                  *)
(* pipeline/modulePreflight.ts, pipeline/executionVerification.ts and      *)
(* roles/semanticContractRepair.ts): evidence is collected by workers, the *)
(* Analyst plans, the rounds of the full workflow or the execution-only    *)
(* loop produce a test, and every end leaves a report that says why.       *)
(*                                                                         *)
(* `pc' is the await the analysis stands at; what runs between two awaits  *)
(* is one step.  The rounds are one await here (TargetRun has their        *)
(* steps), a request of a role is one await (ModelRequest, RequestQueue),  *)
(* and the feedback of the repair loop is left out (CandidatePipeline).    *)
(* A version is a content: an edit that is undone before the next look at  *)
(* the file goes unnoticed by the code, and is left out; so is writing a   *)
(* deleted file anew, which counts as an edit.                             *)
(***************************************************************************)
EXTENDS WorkerProcess

CONSTANTS
    FailureLimit,  \* StopPolicySettings.failureLimit
    MaxEdits       \* edits of the sources in one behaviour

ASSUME LimitIsPositive == FailureLimit \in Nat \ {0}
ASSUME EditsNat == MaxEdits \in Nat

VARIABLES
    opt,       \* what the user chose
    pc,
    sources,   \* the content of the target file and of a dependency, 0: deleted
    edits,
    saw,       \* what the running worker has read
    hash,      \* journal.sourceHash
    parsed,    \* the version of the target that the AST is of
    versions,  \* the loaded versions the evidence is bound to
    failures,  \* TargetStopPolicy.failureCount
    attached,  \* the directory is known to the batch
    status,    \* the journal's terminalStatus, "none" before there is a journal
    report,    \* the status the last written report shows
    error,     \* the stage of the error the analysis ended with
    stop       \* TargetStopPolicy.reason

sourceVars == <<sources, edits>>
evidenceVars == <<hash, parsed, versions>>
resultVars == <<attached, status, report, error, stop>>
vars == <<workerVars, opt, pc, sourceVars, saw, evidenceVars, failures, resultVars>>

None == "none"
Files == {"target", "dependency"}
First == [f \in Files |-> 1]
Nothing == [f \in Files |-> 0]

\* A saved candidate is replayed in execution mode only.
Options ==
    {o \in [mode : {"full", "execution"}, focused : BOOLEAN, batch : BOOLEAN,
            replay : {"no", "keep", "repair"}] : o.replay = "no" \/ o.mode = "execution"}
Full == opt.mode = "full"

WorkerStages == {"complexity", "ast", "preflight", "dependency", "callers", "trace",
                 "coverage", "supplement", "mocks", "validating", "calling", "testing", "hints",
                 "scope"}
Requests == {"planning", "writing", "revising"}
PcValues == {"start", "rounds", "opening", "showing", "done"} \cup WorkerStages \cup Requests

Init ==
    /\ opt \in Options /\ pc = "start"
    /\ NoWorker /\ resources \in BOOLEAN /\ cancelled = FALSE /\ late = FALSE
    /\ sources = First /\ edits = 0 /\ saw = Nothing
    /\ hash = 0 /\ parsed = 0 /\ versions = Nothing
    /\ failures = 0
    /\ attached = FALSE /\ status = None /\ report = None /\ error = None /\ stop = None

-----------------------------------------------------------------------------
(* How an analysis ends                                                     *)

\* policy.stop: the first reason stays.  A plain error has no stage of its
\* own, and neither has the one a cancelled analysis is left with.
StopReason(why) ==
    IF stop # None THEN stop ELSE
    IF why = "target-budget" THEN "budget-exhausted" ELSE
    IF why = "environment" THEN "environment-blocked" ELSE
    IF why = "tool" THEN "tool-blocked" ELSE
    IF why = "model-api" THEN "model-api-error" ELSE
    IF why = "timeout" THEN "stage-timeout" ELSE why

\* Mutant of EarlyEnd: only what has a journal is reported.
EarlyEnd_Unreported(why) == UNCHANGED <<attached, status, report, stop>>
\* Before there is a journal, only an exhausted budget is worth one.
EarlyEnd(why) ==
    IF why = "target-budget"
    THEN /\ attached' = opt.batch
         /\ status' = "failed" /\ report' = "failed" /\ stop' = StopReason(why)
    ELSE UNCHANGED <<attached, status, report, stop>>

\* The catch and the finally; why is the stage of the error.
Fail(why) ==
    /\ pc' = "done" /\ error' = why
    /\ IF status = None THEN EarlyEnd(why)
       ELSE /\ status' = IF cancelled THEN "cancelled" ELSE
                         IF why = "source-changed" THEN why ELSE "failed"
            /\ report' = status' /\ stop' = StopReason(why)
            /\ UNCHANGED attached

\* The end without an error, or after the error of a round.
Settle(reached, thrown) ==
    /\ pc' = "done" /\ error' = thrown
    /\ status' = IF reached # "running" THEN reached ELSE
                 IF cancelled THEN "cancelled" ELSE "incomplete"
    /\ report' = status' /\ stop' = StopReason(IF thrown # None THEN thrown ELSE status')
    /\ UNCHANGED attached

\* Outside a batch the report is opened first.
Publish(reached, thrown) ==
    IF opt.batch THEN Settle(reached, thrown)
    ELSE /\ pc' = "opening" /\ error' = thrown
         /\ status' = reached /\ report' = reached
         /\ UNCHANGED <<attached, stop>>

Go(stage) == pc' = stage /\ UNCHANGED resultVars

-----------------------------------------------------------------------------
(* What is looked at before an analysis goes on                             *)

\* The target is the journal's and every loaded source is still the same.
Current == sources["target"] = hash /\ sources = versions

IfGoing(then) == IF cancelled THEN Fail("cancelled") ELSE then

\* Mutant of IfCurrent: only the user is asked.
IfCurrent_SourceTaken(then) == IfGoing(then)
IfCurrent(then) == IfGoing(IF Current THEN then ELSE Fail("source-changed"))

\* TargetBudget.assertRemaining
IfAllowed(then) == IfGoing(IF late THEN Fail("target-budget") ELSE then)

\* TargetStopPolicy.reject
Charge(then) ==
    IF cancelled \/ late THEN IfAllowed(FALSE) /\ UNCHANGED failures
    ELSE /\ failures' = failures + 1
         /\ IF failures' = FailureLimit THEN Fail("failure-limit") ELSE then

-----------------------------------------------------------------------------
(* Workers                                                                  *)

StartWorker == Start /\ pc \in WorkerStages /\ UNCHANGED <<opt, pc, sourceVars, saw,
                                                           evidenceVars, failures, resultVars>>

\* The answer of the worker of a stage is taken.
Taken(stage) ==
    /\ pc = stage /\ Answered /\ Consume
    /\ UNCHANGED <<settingVars, opt, sourceVars, saw>>
TakenPlainly(stage) == Taken(stage) /\ UNCHANGED <<evidenceVars, failures>>

Ended == outcome \in {"ok", "bad"}

\* The error of a worker nobody catches.
Thrown == IF cancelled THEN "cancelled" ELSE
          IF outcome = "budget" THEN "target-budget" ELSE
          IF outcome = "timeout" THEN "timeout" ELSE "pipeline"

\* A worker that may fail: only a stop gets through.
Tolerated(then) ==
    IF Ended THEN then ELSE
    IF cancelled \/ outcome = "budget" THEN Fail(Thrown) ELSE then

\* A worker without which the stage fails.
Needed(stage, then) ==
    IF Ended THEN then ELSE
    IF cancelled \/ outcome = "budget" THEN Fail(Thrown) ELSE Fail(stage)

-----------------------------------------------------------------------------
(* The journal                                                              *)

\* A function the user marked as a dummy is only reported.
Skip ==
    /\ pc = "start" /\ ~cancelled /\ sources["target"] # 0
    /\ pc' = "done" /\ attached' = opt.batch
    /\ status' = "dummy-skipped" /\ report' = "dummy-skipped"
    /\ UNCHANGED <<workerVars, opt, sourceVars, saw, evidenceVars, failures, error, stop>>

\* The batch knows the directory before there is a journal in it.
CreateDirectory == hash' = sources["target"] /\ attached' = opt.batch

\* The journal, the stores of candidates, checkpoints and evidence.
CreateJournal == status' = "running"

\* The saved context of the model is not one it can run with.
ContextRefused ==
    /\ pc' = "done" /\ status' = "failed" /\ report' = "failed"
    /\ error' = "model-runtime" /\ stop' = StopReason("model-runtime")

\* All of it between two awaits.
Open ==
    IF sources["target"] = 0 \/ cancelled
    THEN Fail(IF sources["target"] = 0 THEN "ast-trace" ELSE "cancelled") /\ UNCHANGED hash
    ELSE /\ CreateDirectory
         /\ \/ CreateJournal /\ pc' = "ast" /\ UNCHANGED <<report, error, stop>>
            \/ ContextRefused

Begin ==
    /\ pc = "start"
    /\ IF cancelled \/ ~opt.focused
       THEN IfGoing(Go("complexity")) /\ UNCHANGED hash
       ELSE Open
    /\ UNCHANGED <<workerVars, opt, sourceVars, saw, parsed, versions, failures>>

Assessed ==
    /\ Taken("complexity") /\ UNCHANGED <<parsed, versions, failures>>
    /\ IF Ended \/ (~cancelled /\ outcome # "budget") THEN Open
       ELSE Fail(Thrown) /\ UNCHANGED hash

-----------------------------------------------------------------------------
(* Evidence                                                                 *)

\* The module of the target is known; a module that could not be loaded for
\* another target of the batch is not tried again.
CheckEnvironment ==
    IF sources["target"] = 0 THEN Fail("pipeline") ELSE
       \/ Go("preflight")
       \/ opt.batch /\ IfGoing(Fail("environment"))

\* The AST of a target that was not found says so; no other target is taken.
Resolved == IF outcome = "bad" THEN Fail("ast-trace") ELSE CheckEnvironment
Parsed ==
    /\ Taken("ast") /\ parsed' = saw["target"] /\ UNCHANGED <<hash, versions, failures>>
    /\ Needed("ast-trace", Resolved)

\* The worker reports what it has loaded, and the evidence is bound to it.
BindEvidence == versions' = saw
Loaded ==
    /\ Taken("preflight") /\ BindEvidence /\ UNCHANGED <<hash, parsed, failures>>
    /\ IfGoing(Needed("environment",
         \/ Fail("environment")
         \/ outcome = "ok" /\ (Go("dependency") \/ Go("callers"))))

Depended == TakenPlainly("dependency") /\ Tolerated(Go("callers"))

\* A stub needs no role: it gets a smoke test, or is left out when its class
\* cannot be built from what its callers show.
StubEnds == IfGoing(\E skipped \in {"stub-skipped", "stub-smoke-generated"} : Settle(skipped, None))

BeginExecution == Fail("writer-qualification") \/ Go("mocks")

\* With the evidence complete, the way to a test is chosen.
Collected ==
    IF Full THEN StubEnds \/ Fail("role-qualification") \/ Go("coverage")
    ELSE BeginExecution

\* The probe inputs of the user belong to a version of the target.
Called ==
    /\ TakenPlainly("callers")
    /\ Tolerated(IF ~Full THEN Collected ELSE
                 IF sources["target"] = 0 THEN Fail("pipeline")
                 ELSE Go("trace") \/ Fail("ast-trace"))

\* The planning of the probe can use up its allowance.
Traced == TakenPlainly("trace") /\ Tolerated(Collected \/ Fail("ast-trace"))

-----------------------------------------------------------------------------
(* The Analyst, and what leads to the rounds                                *)

RequestErrors ==
    IF cancelled THEN {"cancelled"}
    ELSE {"model-api"} \cup {w \in {"target-budget"} : late}
                       \cup {w \in {"source-changed"} : ~Current}

\* A request of a role is answered; usable, or rejected for its format.
Replied(role) ==
    /\ pc = role
    /\ UNCHANGED <<workerVars, opt, sourceVars, saw, evidenceVars>>
RequestFails(role) ==
    /\ Replied(role) /\ UNCHANGED failures
    /\ \E why \in RequestErrors :
          IF role = "revising" THEN IfCurrent(Fail(why)) ELSE Fail(why)

\* The evidence is put together, and the Analyst gets a deadline of its own.
AskAnalyst == IfAllowed(IfCurrent(Go("planning")))
Covered ==
    /\ TakenPlainly("coverage")
    /\ IF outcome = "ok" THEN AskAnalyst ELSE
       IF outcome = "bad" THEN Fail("environment") ELSE Fail(Thrown)

\* The plan, the rules and the observations are handed to the Writer.
ToTheRounds == IF opt.focused THEN Go("mocks") ELSE Go("rounds")

\* Only a plan with usable inputs is probed again.
PlanTaken == Go("supplement") \/ ToTheRounds

Planned ==
    /\ Replied("planning")
    /\ \/ UNCHANGED failures /\ IfCurrent(IfAllowed(PlanTaken \/ Fail("timeout")))
       \/ ~cancelled /\ Charge(IfCurrent(Go("planning")))

Supplemented == TakenPlainly("supplement") /\ Tolerated(ToTheRounds \/ Fail("ast-trace"))

\* What a round throws ends the rounds: TargetRun's CatchError, or its
\* ImprovingFails for an error of the quality phase.
RoundErrors == RequestErrors \cup {w \in {"tool", "failure-limit", "timeout"} : ~cancelled}
RoundsEnd ==
    /\ pc = "rounds"
    /\ \/ /\ ~cancelled /\ Current
          /\ \E s \in {"passed", "stagnated", "round-limit"} : Publish(s, None)
       \/ \E why \in RoundErrors :
             \E s \in IF ~Current THEN {"source-changed"} ELSE
                      IF cancelled THEN {"cancelled"} ELSE
                      {"failed", "review-blocked", "retained-after-failure"} : Publish(s, why)
       \/ \E why \in RoundErrors : Fail(why)
       \/ cancelled /\ Publish("running", None)
       \/ ~cancelled /\ ~Current /\ Publish("source-changed", None)
    /\ UNCHANGED <<workerVars, opt, sourceVars, saw, evidenceVars, failures>>

-----------------------------------------------------------------------------
(* The execution-only loop                                                  *)

\* The head of the candidate pipeline.
Attempt(then) == IfCurrent(IfAllowed(then))

\* hooks.revise refuses before it asks.
BeginRevision ==
    IF opt.replay = "keep" THEN Fail("candidate-replay")
    ELSE Go("revising") \/ Fail("fixer-qualification")
NextAttempt(ran) == Attempt(BeginRevision \/ (ran /\ Go("hints")))

\* Text that has not the shape of a test file is rejected without a worker;
\* an empty reply is such a text.
StructureFails == Charge(NextAttempt(FALSE))
Validate == (UNCHANGED failures /\ Go("validating")) \/ StructureFails
FirstAttempt ==
    IF Current /\ ~cancelled /\ ~late THEN Validate ELSE UNCHANGED failures /\ Attempt(FALSE)

\* A saved candidate must be of this target, source and model.
Generate ==
    IF opt.replay = "no" THEN UNCHANGED failures /\ Attempt(Go("writing"))
    ELSE (UNCHANGED failures /\ Attempt(Fail("candidate-replay"))) \/ FirstAttempt

\* The sources are looked at again before the Writer is handed the setup.
HandOver ==
    IF cancelled \/ sources["target"] = 0
    THEN Fail(IF cancelled THEN "cancelled" ELSE "pipeline") /\ UNCHANGED failures
    ELSE Generate

\* The worker is tolerated even when it was stopped.
Scaffolded ==
    /\ Taken("mocks") /\ UNCHANGED evidenceVars
    /\ IF Full THEN Go("rounds") /\ UNCHANGED failures ELSE HandOver

Written ==
    /\ Replied("writing") /\ ~cancelled
    /\ FirstAttempt \/ Charge(Go("writing"))

\* The answer of a validator: no verdict is a fault of the tool and never
\* of the candidate.
Judged(stage, then) ==
    /\ Taken(stage) /\ UNCHANGED evidenceVars
    /\ \/ UNCHANGED failures /\ Needed("tool", IF outcome = "bad" THEN Fail("tool") ELSE then)
       \/ outcome = "ok" /\ Charge(NextAttempt(FALSE))

\* The names a candidate uses, and then its calls of a target with a signature.
Validated == Judged("validating", Go("calling") \/ IfCurrent(Go("testing")))
CallsChecked == Judged("calling", IfCurrent(Go("testing")))

Accept == Publish("execution-passed", None)

\* What the runner's files say of a run.
Tested ==
    /\ Taken("testing") /\ UNCHANGED evidenceVars
    /\ \/ /\ Ended /\ UNCHANGED failures
          /\ IfCurrent(\/ Fail("environment") \/ Fail("tool")
                       \/ outcome = "ok" /\ (Accept \/ Fail("execution-evidence")))
       \/ /\ outcome \in {"cancelled", "budget", "fault"} /\ UNCHANGED failures
          /\ Fail(Thrown)
       \/ /\ outcome = "timeout" /\ UNCHANGED failures
          /\ IfCurrent(IfAllowed(Fail("timeout")))
       \/ /\ outcome \in {"ok", "bad", "timeout"} /\ ~cancelled /\ Current
          /\ Charge(NextAttempt(TRUE))

Hinted ==
    /\ TakenPlainly("hints")
    /\ IF Ended THEN IfCurrent(BeginRevision) ELSE Fail(Thrown)

\* The Bug Fixer's revision is measured; the Writer's is not.
Revised ==
    /\ Replied("revising") /\ ~cancelled
    /\ \/ UNCHANGED failures /\ IfCurrent(Go("scope"))
       \/ Current /\ Validate
       \/ Current /\ Charge(NextAttempt(FALSE))

Measured ==
    /\ Taken("scope") /\ UNCHANGED evidenceVars
    /\ \/ UNCHANGED failures /\ ~Ended /\ Fail(Thrown)
       \/ UNCHANGED failures /\ outcome = "ok" /\ Fail("repair-scope")
       \/ outcome = "ok" /\ Validate
       \/ outcome = "ok" /\ Charge(NextAttempt(FALSE))
       \/ Ended /\ Charge(Fail("tool"))

-----------------------------------------------------------------------------
(* The report is opened                                                     *)

Opened ==
    /\ pc = "opening" /\ (IfGoing(Go("showing")) \/ Fail("pipeline"))
    /\ UNCHANGED <<workerVars, opt, sourceVars, saw, evidenceVars, failures>>

Shown ==
    /\ pc = "showing" /\ (Settle(status, error) \/ Fail("pipeline"))
    /\ UNCHANGED <<workerVars, opt, sourceVars, saw, evidenceVars, failures>>

-----------------------------------------------------------------------------
(* Outside: nothing happens between a stage and the start of its worker     *)

Awaiting == pc # "done" /\ (pc \in WorkerStages => worker # "idle")
rest == <<opt, pc, evidenceVars, failures, resultVars>>

WorkerRuns ==
    \/ Load /\ saw' = sources /\ UNCHANGED <<rest, sourceVars>>
    \/ (Exit \/ Interrupted) /\ UNCHANGED <<rest, sourceVars, saw>>
WorkerLeaves == (WorkerSettles \/ HeirsLeave) /\ UNCHANGED <<rest, sourceVars, saw>>

Cancel == Awaiting /\ CancelWorkers /\ UNCHANGED <<rest, sourceVars, saw>>
Deadline == Awaiting /\ Expires /\ UNCHANGED <<rest, sourceVars, saw>>
Edit ==
    /\ Awaiting /\ edits < MaxEdits /\ edits' = edits + 1
    /\ \E f \in Files, v \in {0, edits + 2} :
          sources[f] # 0 /\ sources' = [sources EXCEPT ![f] = v]
    /\ UNCHANGED <<workerVars, rest, saw>>

Collect == Parsed \/ Loaded \/ Depended \/ Called \/ Traced \/ Covered
Lead == Planned \/ Supplemented \/ RoundsEnd
Execute == Scaffolded \/ Written \/ Validated \/ CallsChecked \/ Tested \/ Hinted \/ Revised \/ Measured
Reply == \E role \in Requests : RequestFails(role)
Program ==
    \/ Begin \/ Skip \/ StartWorker \/ Assessed \/ Collect \/ Lead \/ Execute \/ Reply
    \/ Opened \/ Shown

Next == Program \/ WorkerRuns \/ WorkerLeaves \/ Cancel \/ Deadline \/ Edit

Spec == Init /\ [][Next]_vars

\* Requests are answered, rounds end, a killed process dies, the timer of the
\* deadline fires, and whoever outlives a worker lets go of its pipes.
BudgetStops == late /\ Terminate("budget") /\ UNCHANGED <<settingVars, rest, sourceVars, saw>>
FairSpec == Spec /\ WF_vars(Program) /\ WF_vars(WorkerLeaves) /\ WF_vars(BudgetStops)

-----------------------------------------------------------------------------
(* Properties                                                               *)

StatusValues ==
    {None, "running", "dummy-skipped", "stub-skipped", "stub-smoke-generated",
     "execution-passed", "passed", "stagnated", "round-limit", "review-blocked",
     "retained-after-failure", "failed", "source-changed", "cancelled", "incomplete"}
TypeOK ==
    /\ WorkerTypeOK /\ opt \in Options /\ pc \in PcValues
    /\ {sources, saw, versions} \subseteq [Files -> 0 .. MaxEdits + 1]
    /\ {hash, parsed} \subseteq 0 .. MaxEdits + 1 /\ edits \in 0 .. MaxEdits
    /\ failures \in 0 .. FailureLimit
    /\ attached \in BOOLEAN /\ {status, report} \subseteq StatusValues

(***************************************************************************)
(* The end of an analysis is written down, and what is written is true:    *)
(* the report shows the journal's status, a target the budget stopped has  *)
(* a report even when it had no journal yet, cancelled and source-changed  *)
(* are said only of an analysis they happened to, and the reason it        *)
(* stopped for is one it had.                                              *)
(***************************************************************************)
ReportIsTrue ==
    pc = "done" =>
        /\ status # "running" /\ report = status /\ attached = (opt.batch /\ status # None)
        /\ status = None => error # None /\ error # "target-budget"
        /\ error = "target-budget" => stop = "budget-exhausted"
        /\ stop = "budget-exhausted" => late
        /\ stop = "failure-limit" /\ ~Full => failures = FailureLimit
        /\ status = "cancelled" => cancelled
        /\ status = "source-changed" => sources # First
        /\ status = "execution-passed" => error = None

(***************************************************************************)
(* A test is published as executed only while the analysis goes on, and    *)
(* only when its run, the AST, the loaded versions the evidence is bound   *)
(* to and the journal are all of the sources that are there now, whatever  *)
(* was edited while a worker or a role was at work.                        *)
(***************************************************************************)
PublishedIsCurrent ==
    [][ status' = "execution-passed" /\ status # status' =>
            ~cancelled /\ Current /\ saw = sources /\ parsed = hash ]_vars

(***************************************************************************)
(* A stopped analysis ends, although workers without a timeout of their    *)
(* own, requests, and editors that open a report are waited for.           *)
(***************************************************************************)
StoppedRunsEnd == cancelled \/ late ~> pc = "done"
=============================================================================
