# TLA+ models of the evidence-checked unit-test generator

The program is a VS Code extension (TypeScript under `src/src`, Python workers
under `src/python_scripts`) that asks language models for Python unit tests and
keeps only what evidence supports. This directory models its control: who may
run when, what may be installed or sent, which candidate test becomes the file
that is kept, what the run of a target publishes about it, and what a batch
claims about its targets. TLC checks every module on small instances; TLAPS
proves safety properties of the core for every value of the constants.

## 1. The system

One target (a function of a Python module) goes through: AST and trace evidence
-> Analyst -> Writer seed -> structure check -> native run -> Reviewer approval
of the same text -> coverage and mutation score -> bounded rounds of quality
revisions. A batch runs many targets one after the other behind an import
preflight. Nothing runs in parallel threads: the extension host is one event
loop, so what interleaves are the pieces of code between two `await`s, the
child processes, the user and the editor.

| Component | State | Operations | Modelled by |
| --- | --- | --- | --- |
| Analysis session and environment lease (`runAnalysisSession`, `executionContext.ts`, `analysisEnvironmentLease.ts`, `pythonEnvironmentSetup.ts`, `SidebarProvider.ts`) | counter of users, installing flag, active run, pending start, panel flag | start handshake, reserve, refuse, lend the lease to a setup and take it back, abort, close; setups and probes | `AnalysisSession`, `EnvironmentLock` |
| Python environment preparation (`preparePythonEnvironment`, `pythonInstallationPlan.ts`, `pythonInstallationPreview.ts`, `pythonEnvironmentController.ts`) | interpreters looked at, plan, approvals, attempts | inspect, plan, edit names, confirm, install, look again, save the setting | `EnvironmentPrepare` |
| Import setup and batch preflight (`importSetupController.ts`, `importSetupSession.ts`, `resourceSetupController.ts`, `batchSetupContinuity.ts`, the first half of `runBatchCmd`) | settings and overrides, draft, scan, shown list, result | scan, preview, save both settings, roll back, rescan, return, verify, hand out | `ImportSetup`, `BatchSetup` |
| Role qualification and budgeted model request (`SidebarProvider.testConnection`, `roleQualification.ts`, `testGenerationQualification.ts`, `batchRuntimeQualification.ts`, `requestBudgetedOne`, `contextGrowth.ts`, `writerOutputBudget.ts`, `targetBudget.ts`) | saved profiles, the batch's evidence, context, budget of requests, learned reply size | probe, store, revoke, grow, requalify, send, retry, refuse | `ModelCapacity`, `RoleProbe`, `RoleQualification`, `ModelRequest` |
| Model request queue and transport (`serialRequestQueue.ts`, `requestLlmApi`, `connectionTimeout.ts`, `modelTransport.ts`, `cloudApi.ts`) | tail of the queue, waiting flags, phase and attempt of a request, deadlines | enqueue, abort, time out, skip, start, retry, fall back, read, settle | `RequestQueue`, `SerialService` |
| Target analysis: evidence, execution-only loop, report (`executeSingleFileAnalysis`, `processRunner.ts`, `isolatedResources.ts`, `modulePreflight.ts`, `executionVerification.ts`, `semanticContractRepair.ts`) | source hash, AST, bound versions, workers and their leases, status, report | a stage per worker or request, stop, publish, report | `WorkerProcess`, `TargetAnalysis` |
| Writer generation loop (single-pass loop of `runAnalysis`, `requestBudgeted`, `writerMethodEdits.ts`, `focusedWriterAdditions.ts`) | text at hand, method plan, attempt, charges, requests left | request, ask again, compose an edit, validate, plan a repair | `GenerationLoop` |
| Writer round: composition, feedback, review contract (`candidateHooks` of `runAnalysis`, `testMerger.ts`, `bugFixer.ts`, `repairFeedback.ts`, `passingTestPreservation.ts`, `testReviewer.ts`, `reviewContractRepair.ts`) | texts by hash, feedback and scope of each, workloads, retained text | compose, divide, validate, run, review, revise, merge, restrict | `CandidateText`, `ReviewContract`, `WriterRound` |
| Candidate pipeline (`testCandidatePipeline.ts`, `seedCandidatePipeline.ts`, `stopPolicy.ts`) | code at hand, retained code, role, feedback, charges, checkpoints | revise, scope check, structure check, run, checkpoint, review | `CandidatePipeline`, `CandidateGate` |
| Target run (rounds of `runAnalysis`, `candidateCheckpoint.ts`, `qualityPolicy.ts`, `qualityRegression.ts`, `focusedQualityProgress.ts`, `analysisJournal.ts`) | round, checkpoints, quality baseline, focus, progress, journal | round, review, mutation run, accept or roll back, focus, experiments, Analyst, stop, close the journal | `TargetRun`, `QualityBaseline` |
| Batch dispatch and journal (`runBatchCmd`, `runSequentially`, `batchJournal.ts`, `batchPreflightPartition.ts`) | state and result of each target, dispatch index, outcome, batch status | discover, preflight, decide, partition, dispatch, limit, refresh, finish | `BatchDispatch` |
| Roles and prompts, validation checkers, Python scripts | none, or per call | build requests, parse replies, static checks, mutate, trace | their verdicts and reports are choices |
| Tier strategies, batch scope selection, side bar view, localisation | routes, layout, texts | | section 7 |

How they interact. The side bar's start handshake calls `runAnalysisSession`,
which owns the environment lease for the whole run and lends it to a preparation
or a setup; it calls the single-target analysis or `runBatchCmd`, which runs the
batch setup and then calls the analysis once per loaded target. The analysis
collects evidence with workers, and in full mode enters the rounds; each round
asks the generation loop for a text and gives it to the candidate pipeline, whose
hooks are the writer round's. Pipeline and rounds share one `TargetStopPolicy`,
one `TargetBudget` and one checkpoint store per target; all look at the same
execution context for cancellation and at the hash of the analysed source. Every
model request of every role is budgeted, qualified and then queued in one serial
queue.

The modules compose accordingly. `BatchSetup` EXTENDS `ImportSetup` (the setup runs
inside the batch), `ModelRequest` EXTENDS `RoleQualification`, which EXTENDS
`ModelCapacity` and `RoleProbe`; `TargetAnalysis` EXTENDS `WorkerProcess`;
`WriterRound` EXTENDS `GenerationLoop` and `ReviewContract` and runs both with the
texts. Where a component is one step of another module, that module relies on
what the component's own module checks; section 3 says where.

### What is hard here

- *Interleaving and stale state.* Everything read before an `await` may be wrong
  after it: the notice of a busy environment is dismissed after another run
  began, sources change while a worker, a model or a dialog is at work, the test
  file is edited between approval and mutation and may be edited back.
- *Lent resources.* An analysis gives its environment share to a setup it starts
  and has to win it back, cancelled or not; a worker's lease outlives the process
  as long as a descendant does.
- *Evidence with an expiry.* What a probe showed of a model holds for a context
  and for the dependency versions of a batch; what a scan showed of a module
  holds for the contents, settings and interpreter it was made with.
- *State kept per text.* A plan, missing scenarios and a correction scope belong to
  one text among many; looked up for another they allow too much or say something
  false.
- *Partial failure.* A round can throw at any of its awaits; file, checkpoint,
  score, approval and focus are assigned one by one and have to end as those of
  one version; the second of two settings writes can fail.
- *Limits met in nested layers.* One failure count is charged in the request, the
  review contract, the pipeline and the quality phase; the failure that reaches
  the limit must stop all of them and none may retry for free.
- *Termination.* Retry loops have many exits and several ways back to the head.
- *Claims.* A batch ends long after a target passed; what it says must still be
  true of the reports and sources there are then.

`PROJECT.json` lists each hazard at its line with the properties aimed at it.

### What makes each component correct

- Session: setups and users of the environment exclude each other, a working run
  holds reservation and lease, the panel is not freed under a run, a cancelled
  run gives everything back.
- Preparation: nothing is installed twice on one confirmation or on a list that
  was not shown; the interpreter that is saved has what it is saved for; it ends.
- Setup: settings half saved are undone, what is returned is true of the project
  then, and no target is handed out on a scan that is not of now.
- Model request: a role is asked only where it was qualified, every send is paid
  for and allowed at that moment, a refusal is true, a retry has more room.
- Request queue: one request at a time, in order, each settled once; nothing is sent
  after the deadline or a cancellation; everything queued settles.
- Target analysis: no stage starts over a live worker, published results are of the
  sources there are, every end leaves a true report, a stop ends it.
- Generation loop and writer round: only a checked text leaves the loop, feedback is
  about the text it is given for, corrections stay within what was asked for, no
  checkpointed test is lost or weakened, the round ends.
- Pipeline: a candidate runs at most once per target, only a passing run is
  checkpointed, the accepted text is at once file, checkpoint and approved text,
  no passing test is lost, every retry is charged, the limit is final.
- Target run: the baseline is one executed, approved and measured text, gaps only
  close, the journal describes the version that is left and its status is true.
- Batch: the limit is exact, every target is accounted for, nothing is
  overclaimed, the batch ends.

## 2. Conventions

A step is what runs between two awaits; an await that can settle in several ways
is a disjunction. Model replies, verdicts of static checks, test outcomes and
mutation results are existential choices: the properties hold whatever models
and tools answer. A text is a model value or a small function or sequence, equal
texts are equal values. The comment above a definition names what it stands for;
an operator `X_Y` marked "Mutant of X" is a plausible bug of `X`, kept beside it to
show which property notices; it is part of no specification. `PROJECT.json` maps
each definition to its lines.

## 3. The modules

### AnalysisSession (with EnvironmentLock)

`users` and `installing` are the fields of `PythonEnvironmentActivity`; `active`
and `cancelled` those of `ExecutionManager` and the context it handed out;
`lease` the sessions whose `AnalysisEnvironmentLease` holds a release closure.
`pendingStart`, `pendingCancelled` and `staleSelection` are the side bar's start
in preparation, `panelRunning` the web view's own flag. Actions follow the code
from the Run button (`ClickRun`) through the awaits of the handler
(`DropStart`, `GiveUpStart`, `FailStart`, `LaunchStart`), the checks of
`runAnalysisSession` (`RejectSettings`, `RefuseForSetup`, `RefuseForRun`,
`Begin`), the run (`PrepareEnds`, `ScanEnds`, `LendToSetup`, `LentSetupEnds`,
`TakeBackLease`, `TestingEnds`) to its `finally` (`Close`). `Abort`, standalone
setups and probes interleave with all of it.

`EnvironmentLock` is the promise: readers and one writer, without counter or
closures. `LockRefinement` maps the holders of shares to `readers` and the
session or setup that is changing the environment to `writer`.

### EnvironmentPrepare (with MCEnvironmentPrepare)

`preparePythonEnvironment` from the discovery of interpreters to the saved setting.
`env` is what each interpreter really has; the program knows it only through
inspections (`Look`, `InspectMissing`, `Check`, `Final`), and every installer run
(`InstallEnds`) may change it in any way, because pip resolves whatever it likes.
`MakePlan` opens a list, `EnterNames` and `SaveNames` revise it, `Confirm` approves the
operations shown; `approvedOperations` and `approvedMappings` keep the code's names
shortened to `approved` and `names`. `confirmed`, `basis` and `ran` are ghosts: how
often an operation was confirmed, with which version of the requirements file,
and how often it ran.

### ImportSetup and BatchSetup (with MCBatchSetup)

`ImportSetup` is one `prepare()` of the controller: the planner's scan and the real
import scan, the proposals, the preview, the two settings writes with their
rollback, the second scan, the returned result with the report on disk, and the
editing of a resource draft. A file is the version of its content, a hash is
equality of versions, an approval carries the version it was given for. Sources,
user settings, workspace overrides, the interpreter and the draft may change at
every await, up to `MaxEdits` times. A save of the session file that throws is
swallowed, with a failed result and with one that is ready alike: `SaveSession` leaves
the new report, the one before it or none that can be read. `ReturnIsTrue` therefore
says what the result promises and what a `ready` report still guarantees, not that
the two agree.

`BatchSetup` EXTENDS it with the batch around it: the batch has a scan of its own
(`Inspect`, `Inspected`), the setup is asked for in between (`AskForSetup`), and
`SameScope` is what the batch compares before it hands its targets to
`BatchDispatch`. `closure` is the set of contents the planner read, which is how the
batch notices a change of a file that was only imported.

### ModelCapacity, RoleProbe, RoleQualification, ModelRequest (with MCModelRequest)

`ModelCapacity` holds the arithmetic of prompts, replies and growing contexts with
the code's constants as parameters. `RoleProbe` is the fixed probe: `AssertsBehavior`
and `Executable` are the two checks a reply must pass before it is run, `Passes` is
its run against any function, and `Distinguishes` the question what a run can show.
`RoleQualification` is the test connection that stores a profile; `ModelRequest` is
`requestBudgetedOne` for the targets of a batch: the prompt (`BeginCall`,
`PromptRefused`), the choice to grow the context (`Attempt`, `Grow`), requalification
at the new one (`Ask`, `Probing`, `Requalify`), the engine of the full workflow
(`SelectEngine`), the send and its second attempt (`CorrectFormat`, `GrowOutput`).
`may` is who is authorized, `Asked` who of them is asked at all: the execution-only
workflow returns before any review, and a workflow without the roles it needs ends
in `Preflight`, before a request.
`store` is `BatchRuntimeQualification`; `proven` is a ghost, the contexts and versions
at which a probe verified a role with a reply that distinguishes. A prompt is
refused before its first attempt when the isolated test resources changed or are
incomplete, or the inventory of methods cannot be read.

### RequestQueue (with SerialService)

One instance of `SerialRequestQueue` with `requestLlmApi` as its caller. `place`
is a request's link in the chain of promises behind `tail`, `waiting` its flag,
`drained` the links that have settled, `settled` the caller's promise: a request
that times out in the queue has settled long before its link has. `phase`
and `attempt` belong to the task: on the wire, in backoff, reading the body.
`Try` is the callback of the retry loop, whose charge may throw and whose
`fetchModelResponse` refuses a stopped request; `FallBack` is the second send
without `thinkingConfig` or without the structured format, each once and with a
retry loop of its own under the same deadline. `Expire` is the clock; the timer
(`DeadlineTimer`), the turn (`Late`) and an arriving answer see it in any order.

`SerialService` is the promise: one request is worked on at a time, in the order
of arrival, and each is over once. The one worked on is the request whose task
is anywhere but off.

### TargetAnalysis (with WorkerProcess)

`WorkerProcess` is one call of `runSpawn` with its resource lease: the child may fail
to appear, load its sources, exit or be killed, a descendant may keep its pipes
(`heirs`), and the caller is answered only after `close` and the removal of the
lease. `TargetAnalysis` runs it once per stage. `pc` is the await; `sources` are the
contents there are, `saw` those the last worker loaded, `hash`, `parsed` and
`versions` what the journal, the AST and the evidence are bound to. The actions
follow `executeSingleFileAnalysis`: assessment, AST, preflight, dependencies,
callers, trace, coverage, the Analyst's plan with its supplement, mocks, and then
either the rounds (one await, `TargetRun`) or the execution-only loop (structure
gate, bindings and call checks, test, hints, revision, publication). Every stage can
end the analysis; `Opened` and `Shown` are the report, whose document is awaited.

### GenerationLoop

The loop that asks the Writer until it has a text for the pipeline. Each await is
a value of `pc`. `llmRetry` is the loop's own counter, `candidate` is
`sanitizedCode`, which a `continue` may leave filled; `plan` is the baseline of
`generationBindingEdit`, the method repair the loop turns to when an undefined
name is the fault. `AskAgain` stands for the retries within one await, the
output recovery of `requestBudgeted` and the cases of a focused family: each
opens an attempt of its own. `requests` is the logical request budget, of which
an await uses one or more.

### CandidateText, ReviewContract, WriterRound (with MCWriterRound)

`CandidateText` describes a text by its test methods and says how texts are merged,
edited and compared; `ReviewContract` says which replies of the Reviewer are
assessments. `WriterRound` runs the generation loop and the hooks of the pipeline on
such texts. `onto` is `writerAdditionBaseline`, `snippets` the parts of a divided
generation, `focus` the draft of a focused family, whose cases are asked for one
after the other. `work`, `edits`, `adds` and `scoped` are the maps of `runAnalysis` that
are keyed by the hash of a text; `ask` is the revision under way, with the text and
feedback it was made for. `owed` and `narrow` are ghosts: every text that was
checkpointed, and the methods a correction was last restricted to.

### CandidatePipeline (with CandidateGate)

One call of `validateTestCandidate` with the hooks of full mode or of
execution-only mode. Earlier calls of the same target are in `Init`: what ran,
the failures charged, a checkpoint. `Reject` is `TargetStopPolicy.reject` behind
the loop's `reject`: the first rejection of an attempt is charged, the one that
reaches the limit throws. `kept` is a history variable, the union of the tests
that passed in retained runs; it exists for `NothingPassedIsLost`.

`CandidateGate` is what the rest of the program relies on: a text enters the file
at most once, only what was run is checkpointed, an accepted text is the file and
the checkpoint and (in full mode) the text that was approved. Every step of the
loop is a step of the gate or a stutter.

### TargetRun (with QualityBaseline)

The rounds of `runAnalysis` in full mode after the evidence was collected. The
candidate pipeline appears as what the gate promises (`Run`, `RunPasses`,
`Rejected`, `Approve`); the mutation runner reads the file at some moment of its
own (`RunnerReads`) and reports the hash of what it read and an outcome per mutant.
An outcome that is neither killed nor survived makes the measurement unusable
(`MeasurementRefused`), which the round meets as an error. `Measured` is the whole
synchronous piece after it: comparison with the baseline, acceptance or roll
back, focus, charge, progress, stop. `CatchError` is the round's `catch`. The
quality phase has three awaits: a focus is chosen (`BeginFocus`, `FocusSelected`),
its experiments run (`Experimented`), the Analyst is asked (`Asked`); an error in any
of them ends the run and leaves the focus that had begun. `Close` is what happens
after the loop.

A task (`pending`, `tries`, `deferred`) is judged by `Verdict`, the three answers of
`measureQualityFocus`: `resolved` puts it down, `unchanged` counts an attempt and
defers it at the second, `unavailable` changes nothing. `basis` is what the coverage
stored with the task says of the target's invocation: tests that never invoke the
target pass and may become the baseline (`NotExecuted` in the gaps), and a coverage
task taken on them can never be compared (`Stuck`). Other coverage that is unusable
does not survive `evaluateQuality`, and a survivor is compared by its mutant. `last`
and `times` are ghosts: which task was handed out last and how often in succession.

`EditFile` and `SourceChanges` are the editor. The module assumes that
there is a mutant (`MutantsExist`): a target without candidates takes another path.

`QualityBaseline` is the promise about what is published: a baseline ran, later
ones open no closed gap, a score belongs to the newest baseline or is withdrawn,
and a run that says passed shows a baseline that meets the policy.

### BatchDispatch

`runBatchCmd` with `runSequentially` and `BatchJournal`. A target's run is one
step with a nondeterministic result; `damaged` says whether the report it left
is missing or not its own. `edited` is the set of targets whose source differs
from what their run analysed. `StopDispatch` and `FinalStatus` are the journal's
functions; `PassRecomputed` is `verifyQualityPass`, which trusts no stored verdict;
`Finish` re-reads the reports of targets that passed.

## 4. Runs

| Run | Instance | Shows |
| --- | --- | --- |
| `session` | 3 start attempts, 2 setups, 2 probes | a working run is protected, the panel is not freed under it, the lock is implemented, cancelled runs end and the panel comes back |
| `environment_prepare` | 2 interpreters under 3 paths, 2 modules, 3 packages, 2 revisions, 2 attempts, 1 edit of the requirements | one confirmation per install, what is saved is ready, it ends |
| `batch_setup` | 2 versions of each of two files, 1 change from outside, 4 initial settings | half saved settings are undone, the result is true, nothing stale is dispatched |
| `model_request` | contexts up to 20 tokens, prompts of 9 and 18, 1 test connection, 2 targets with 2 calls each, 4 requests, 1 drift, 2025 probe replies | qualified at that context, refusals true, retries longer, sends allowed |
| `request_queue` | 3 requests, 3 attempts | no send after a stop, the serial service, everything settles |
| `target_analysis` | 2 failures, 1 edit or deletion, 1 cancellation, 1 deadline | no stage over a live worker, published results current, true report, a stopped analysis ends |
| `writer_round` | 3 methods, 7 texts, 12 replies, limit 3, 5 requests, 2 parts or cases | only checked texts leave the loop, feedback true, corrections narrow, checkpoints kept, the round ends |
| `candidate_pipeline` | 3 texts, 2 tests, limit 4, 3 attempts | no passing test lost, stop at the limit, the gate, the call ends |
| `target_run` | 3 texts, 2 mutants, both required, 1 line and whether it is reached at all, 4 rounds, limit 4, stagnation after 2 | the tasks rotate over open gaps, journal one story, status true, the baseline, the run ends |
| `batch_dispatch` | 3 targets, limit 2 | nothing overclaimed, all accounted for, limit exact, the batch ends |
| `format_failure` | 2 texts, 1 test | violated: see Findings |
| `batch_default` | 2 targets, limit 0 | violated: see Findings |

Why the bounds are enough.

- Three start attempts are a running session, one that is refused and one that
  overtakes it; two setups and two probes let one end while the other holds on.
- Two interpreters under three paths have a better, a worse and a repeated one; two
  modules with three packages let both map to one, or to one that brings neither;
  two revisions and two attempts each reach the limit.
- Two versions and one change distinguish "as approved" from "changed" at every
  await; a second change could only restore what was there, which no comparison of
  contents can notice.
- The contexts leave room for a prompt that fits, one that needs a larger context
  and one that no context holds; `Rounding` 4 and `Headroom` 1 make the grown context
  differ from the exact one; four requests are two probes, a request and its retry,
  two calls a role after the other, at the context the first one left.
  The probe replies are all test files of a class, a method and two further lines
  of 36 kinds, or three further lines of 9 kinds.
- Two failures in the execution-only loop are one repair and the limit. One edit
  reaches every await, of either file.
- Three methods are a seed, an addition and one more; seven texts contain each
  relation of `CandidateText`; the replies have every category, basis and rejection.
- Three texts of the pipeline are a baseline, its repair and a repair of that; four
  failures let the limit be reached in any layer before or after the candidate budget.
- Two mutants and a line allow a round that closes one gap and opens another, and a
  task that alternates with others or is the only one left. Three rounds that end
  below the policy are the shortest run in which a task could be handed out a third
  time. No branch is needed: it is judged as a line is.
- A limit of two among three targets has targets before, at and behind it, blocked
  ones among them.
- Three requests are one that is worked on, one that leaves the queue while it waits
  and one behind both; three attempts are the program's own limit.

For the modules of section 6 the proofs then remove the bounds of all safety
properties.

No `SYMMETRY` is used, because most runs check liveness. `CHECK_DEADLOCK FALSE` is
set where the modelled call returns; the session never does and is checked for
deadlock. `GenerationLoop` has no run of its own: its actions fire inside
`WriterRound`, which checks `OnlyValidatedLeaves` with real texts.

### Fairness

Weak fairness of the program's own steps, never of the outside (`Cancel`,
`Abort`, `Edit`, `EditFile`, `SourceChanges`, `Drift`, clicks, setups, probes): every
await settles because model requests have deadlines, child processes are killed at
their timeouts, and dialogs are answered. The user's answers to dialogs are the
one assumption about a human. No strong fairness is assumed. `TargetAnalysis`, whose
early workers have no timeout of their own, does not assume that a worker exits: it
assumes that a killed process dies and whoever holds its pipes lets go
(`WorkerLeaves`), and that the timer of the target's deadline fires (`BudgetStops`);
`StoppedRunsEnd` is what follows. `RequestQueue` assumes only that time passes, timers
fire and an abort ends a fetch and its read, never that a provider answers; the
other models take from it that a request settles. `BatchSetup` and `ModelRequest` check
safety only and state no fairness.

`PanelReturns` is stated for settings that pass `runAnalysisSession`'s checks: a
policy that does not validate throws before the `try`, and the panel is not told.

## 5. Findings

- `format_failure`: `ARCHITECTURE.md:429` says that a Bug Fixer reply of unusable
  format is handed over to the Writer once. Under a stop policy, which both
  callers install, the loop charges it and asks the Bug Fixer again.
- `batch_default`: `ARCHITECTURE.md:173` says that a target's terminal error stops
  the batch and leaves the others pending. `runSequentially` logs it and starts
  the next target; only `batchFailureLimit` (0 by default) stops a batch.

Three more places where a document and the code differ, visible in the models and
without a run of their own:

- `docs/STOP_POLICY.md:29` counts a reply that omits a planned method
  (`edit-method-missing`) among the recoverable format failures, which by line 22
  share the failure limit. `recordRejected` leaves the reason out: the loop asks
  again without a charge, and only the request budget bounds it. `GenerationLoop` and
  `RoundEnds` therefore need the budget.
- `docs/isolated-test-resources.md` says that a batch that is still blocked after a
  setup stops and saves the new reason; `orchestrator.ts:827-849` goes on with the
  modules that load.
- `ARCHITECTURE.md:403` says that a task that is unresolved twice in a row is deferred
  and another gap preferred, and the comment at `orchestrator.ts:5027` that such a task
  must not consume every remaining round. A coverage task taken on tests that never
  invoked the target is `unavailable` at every comparison
  (`focusedQualityProgress.ts:131-133`), which counts no attempt; `orchestrator.ts:5244`
  hands it out in all remaining rounds, also once its gap is closed. `FocusIsOpen`
  names this case (`Stuck`) as the only exception to the rotation.

Observed and not counted as findings, because no document decides them:

- Session, run and batch: an error of the quality phase ends a run as `failed`
  although a baseline is retained; a cancellation or failure while the report
  document opens overwrites `passed` or `execution-passed`; a cancelled run's stop
  reason becomes `pipeline`; a batch whose targets are all blocked ends as `failed`
  when the user continued and as `environment-blocked` after a setup;
  `policy-stopped` wins over `cancelled`; `runMockScaffold` swallows cancellation and
  budget errors, which the next stage then meets.
- Import setup: the save of the session file is not checked
  (`importSetupController.ts:209-216`, `228-229`), so after a `failed` result the file may
  still say `ready`, or be missing. No code reads it back; a person does.
- Workers: `killProcessTree` returns early when the child has exited, so a descendant
  that holds its pipes is waited for (the model's fairness lets it leave).
- Probe: a reply that ends with an unguarded `unittest.main()` ends the process
  before the runner loads a test; with an older Python it exits with success
  (`EndsEarly`). Such a reply still has to contain the assertions.
- Round: a Bug Fixer's text does not inherit the correction scope of the text it
  repairs; after a text that ran before is met again in a later round, a passing
  method outside of the checkpoint may be weakened; a review addition composed
  onto a baseline that has moved is rejected later than it could be; the divided
  generation's merge is not validated as a whole before the pipeline; entries of
  `additionRejections` are never deleted; the name-binding branch of `revise` and the
  suspension of a `ReviewSession` are not reached before another exit.

## 6. Proofs

Each proof module has the strengthening `IInv`, the lemmas `Init => IInv` and
`IInv /\ [Next]_vars => IInv'` with one step per action, and the theorems.

- `EnvironmentProofs`, the session. `IInv` adds `LockCounts` (the counter is the number of
  holders, the flag says that somebody changes the environment) and `Ownership`
  (which session, at which point of its call, owns reservation and lease). The
  counter does not know its holders, so exclusion is not inductive without it.
  Proved: `TypeCorrect`, `SetupsExclude`, `WorkIsProtected`, `PanelGuarded`,
  `ImplementsLock`.
- `EnvironmentProofs`, the preparation. `PrepareInv` adds `Confirmed` (an approval
  that is left is one no run has used, for the files of the plan it was given for:
  that a run counts less than its confirmations is not inductive without the
  approvals), `Selected` (an interpreter the user has set is the only one looked at)
  and `Seen` (nothing installs between the last look and the setting). Proved:
  `PrepareTypeCorrect`, `InstallsConfirmed`, `SavedReady`, while an installer may do
  anything to the interpreter.
- `WriterRoundProofs`, the generation loop. `IInv` adds `Control` (the failure that
  reaches the limit has thrown, so the loop's condition never ends it), `Paid`
  (iterations against failures, before and after the charge) and `Counted`
  (iterations against requests). Proved: `TypeCorrect`, `ValidatedOnly`, `PaidFor`,
  `ScopeKept`.
- `WriterRoundProofs`, the whole round, for every set of texts and replies. The lemma
  `Steps` sorts the steps by kind: nearly every conjunct of `RoundInv` is disturbed by
  one or two kinds only. `InParts`, `Limited` and `HasText` are what of the loop's
  invariant survives the round, which starts the loop anew. `Remembered`: whatever is
  kept for a text, in each of the three maps and in the revision under way, was
  accepted for that text. `Narrowed`: the scope of a correction goes with the text at
  hand and with the retained one, and a text it does not fit is refused before it
  runs. `Checkpointed`: the last checkpoint keeps all earlier ones and what runs keeps
  the last; with `PreservesOn` (what keeps a text that kept another keeps that one)
  no comparison with the older ones is needed, as in the code. Proved:
  `RoundTypeCorrect`, `RoundValidatedOnly`, `FeedbackAgrees`, `CorrectionsNarrow`,
  `CheckpointsKept`.
- `CandidatePipelineProofs`. `IInv` adds `Provenance`: which texts ran at which
  point of the loop, and what the checkpoint, the file and the retained text have
  to do with each other. Proved: `TypeCorrect`, `PassedTestsStay`,
  `LimitEndsTheCall`, `EveryRetryCharged`, `RepairsWhatRan`,
  `StoppedStaysStopped`, `ImplementsGate`.
- `TargetRunProofs`. `IInv` adds `RoundBounds` (rounds against failures and
  progress), `Provenance` (what file, checkpoint, tested text and approval are at
  each await), `Bookkeeping` (journal against baseline between rounds) and
  `Statuses` (what a status already written implies). On top of it, `Rotation` relates
  the task in hand to what was handed out last: judged at least as often as handed out
  before (`InHand`), and when it was put down either deferred or closed (`NoneInHand`).
  That it is not handed out a third time is not inductive without the count of
  judgements; that a put down task stays closed needs `GapStep`. Proved: `TypeCorrect`,
  `BaselineIsWhatWasTested`, `FailuresPayForRounds`, `JournalAgrees`,
  `StatusAgrees`, `BaselinesImprove`, `FocusStaysOpen`, `NothingAfterStop`,
  `ImplementsBaseline`.
- `BatchDispatchProofs`. `IInv` adds `Progress` (the dispatch index splits the
  targets into settled and pending ones), `Agreement` (state against result) and
  `LimitHolds` (the count against the recorded stop). Proved: `TypeCorrect`,
  `NoOverclaim`, `AllAccountedFor`, `LimitCounts`, `StartsOnce`.
- `RequestProofs`, the queue. `QueueInv` adds `Chain` (places are those of a chain that
  settles from its beginning), `Places` (where a request is against what its caller
  knows) and `Attempts`. A link looks only at the one before it, so that turns exclude
  each other needs `Chain`. Proved: `TypeCorrect`, `SendsStop`, `ImplementsSerial`.
- `RequestProofs`, the budgeted request. Lemmas on the arithmetic come first: a grown
  context is within the model's limit and holds the prompt with the reply that is asked
  for there (`GrownHolds`), and where none was grown none holds it (`NothingHolds`).
  `RequestInv` adds `Allowances` (what was looked at before an await is so where the
  request goes on), `Room` (a prompt goes out where it fits, a context that grows will
  hold it), `Longer` (what a cut-off reply taught outlives the growth of the context)
  and `Entitled` (whoever may be asked is verified in the profile that goes with the
  context). Proved: `RequestTypeCorrect`, `RefusalsAreTrue`, `RetriesAreLonger`,
  `SendsAllowed`. `Evidence` says that every verdict, in the saved profile, a test
  connection, the batch's store, a probe and the target, was shown by a probe at its
  context; with it `QualifiedRoles`. That theorem has a hypothesis, `VerdictsTell`: a
  reply that is verified holds tests that tell the probe's function from wrong ones. It
  is a fact about texts, computed by folds over their lines, and to prove it for every
  text would need induction over data; TLC evaluates it for the texts of the run
  (`TextsTell` in `MCModelRequest`).
- `TargetAnalysisProofs`. `IInv` adds `CallInv` (where the call stands against the
  process and the lease), `Reading` (what a worker that is not over has read) and
  `Binding` (what is bound at a stage is no later than what is bound after it).
  Contents do not come back, so if the first in the order hash, AST, versions, loaded
  files is what is there now, all of them are: that is why one look before a
  publication is enough. `Onward` gives the shape of every step. On top of it,
  `Records` says what is written down at each stage and `Results` how a step may end
  an analysis (`FailsTruly`, `EndsTruly`: with a reason it has). Proved:
  `TypeCorrect`, `AnsweredAfterTheWorker`, `ReportsAreTrue`,
  `PublishedOnCurrentSources`.
- `BatchSetupProofs` (the setup included). `IInv` adds `Reads` and `Checks` (what was
  imported had a closure read before it, and a plan has the rules of its scan, so equal
  plans mean equal rules), `Reports` (what the result goes by, and a saved session that says `ready`),
  `Scope` (the batch's own scan until it asks for a setup), `Rounds`, and `Saves`:
  what the settings in force have to do with those of the list at each of the two
  writes, as long as the user does not change them. Proved: `TypeCorrect`,
  `HalfSavesAreUndone`, `ReturnsAreTrue`, `NothingStaleIsDispatched`.

The assumptions are those of the modules: finite sets of actors, texts and
mutants (at least one mutant), a `None` outside of them, limits that are naturals
(positive where the settings' validation demands it), token counts that are naturals
(`Tokens`, `Contexts`, `Amounts`), words of the plan that are no names of packages
(`Sets`). Two modules that share a proof module name their parts apart: `QueueSpec` and
`FairQueue` are the queue's, `PrepareSpec` and `FairPrepare` the preparation's.

Steps that all safety proofs have in common: TLC checks the strengthening on the run's
instance first, then it is proved. For `ModelRequest` that found a request the model
allowed and the code does not: a Reviewer asked in the execution-only workflow.

Some properties are proved and not run, because the proof says more than the run
would: the type invariants, `EnvironmentExclusion`, `StartsAreFinal`,
`RetriesAreCharged`, `RoundsAreCharged`, `IterationsArePaidFor`, `ScopeNeverWidens`,
`GapsOnlyClose`, `BugFixerSeesARun`, `StopIsFinal`, `StoppedPublishesNothing`,
`BaselineIsOneCandidate`.

Only model-checked: liveness (`CancelledRunsEnd`, `PanelReturns`, `AllSettle`,
`PreparationEnds`, `StoppedRunsEnd`, `RoundEnds`, `CallEnds`, `RunEnds`, `BatchEnds`),
which needs fairness and ENABLED, out of this prover's reach; and `VerdictsTell`. Every
invariant, action property and refinement that a passing run checks is proved for all
values of the constants, `QualifiedForRole` from that hypothesis.

## 7. Not modelled, and why

- Roles and prompts, validation checkers, Python scripts: pure computations over
  texts; the models choose their outcomes. What of them decides control (the
  Reviewer's contract, merging and comparing texts, the probe's two checks) is
  modelled.
- Tier strategies of workflows the side bar no longer selects; a target without
  mutation candidates; the inner session of the quality experiments.
- Candidate pipeline and generation loop: branches for callers without a stop
  policy, which no production caller is.
- Model request: cloud and custom test connections. Request queue: connection probes, which do not use the queue, and
  telemetry.
- Import setup: which call a proposal names and which columns a schema proposal has.
- `ReviewContract`: how prose is recognised as a claim, and severity.
- Target analysis: an edit that is undone before the next look at the file, which
  the code cannot notice either; a deleted file that is written anew, which counts as
  an edit; the refinement of a setup that is not used, which is part of a choice.
- Side bar layout, batch scope dialog, localisation, report wording.

## 8. Plan

Done: every component above except those of section 7; proofs of all safety
properties that the runs check.

Left, in this order:

1. The session in which quality experiments run, and the quality analysis of a
   target without mutation candidates.
2. That `TargetRun`'s view of the pipeline and of the writer round follows from what
   `CandidateGate` and `WriterRound` promise, as a refinement between their modules.
