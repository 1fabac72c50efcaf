------------------------------ MODULE TargetRun ------------------------------
(***************************************************************************)
(* The run of one target in full mode, after its evidence was collected:   *)
(* rounds of writing, reviewing and measuring candidates, the quality      *)
(* baseline they leave, the focus of the next round, and the journal the   *)
(* run ends with (runAnalysis in src/orchestrator.ts, the round loop, with *)
(* pipeline/candidateCheckpoint.ts, qualityPolicy.ts, qualityRegression.ts,*)
(* focusedQualityProgress.ts, analysisJournal.ts, roles/qualityAnalyst.ts).*)
(*                                                                         *)
(* The workflow is the focused one the side bar always selects: no tier    *)
(* falls back.  A call of the candidate pipeline appears here as what      *)
(* CandidateGate promises of it (its own loop is CandidatePipeline).  A    *)
(* step is what runs between two awaits.  The native run binds its         *)
(* evidence to the hash of the candidate, so an edit of the test file      *)
(* matters here only from the review on.                                   *)
(***************************************************************************)
EXTENDS Integers, FiniteSets

CONSTANTS
    Codes,        \* candidate test files
    NoCode,
    Mutants,      \* the fixed set of mutants of the target
    Lines,        \* executable lines of the target
    Branches,     \* branches that leave them
    NotExecuted,  \* the gap `target:not-executed'
    NoFocus,
    Required,     \* kills that meet the policy's mutation threshold
    MaxLoops,     \* params.maxLoops
    FailureLimit, \* StopPolicySettings.failureLimit
    NoImprovementLimit  \* StopPolicySettings.qualityNoImprovementLimit, 0: none

ASSUME FiniteData == IsFiniteSet(Mutants) /\ IsFiniteSet(Codes)
CoverageGaps == Lines \cup Branches \cup {NotExecuted}
GapIds == Mutants \cup CoverageGaps

\* A target without mutants ends in a way of its own, which is left out.
ASSUME MutantsExist == Mutants # {}
ASSUME NoCodeIsNone == NoCode \notin Codes
ASSUME GapsDiffer == Mutants \cap CoverageGaps = {} /\ NoFocus \notin GapIds
ASSUME NotExecutedDiffers == NotExecuted \notin Lines \cup Branches
ASSUME LimitsNat ==
    /\ Required \in Nat /\ NoImprovementLimit \in Nat
    /\ MaxLoops \in Nat \ {0} /\ FailureLimit \in Nat \ {0}

VARIABLES
    pc,          \* the await the loop stands at
    loop,        \* currentLoop
    failures,    \* TargetStopPolicy.failureCount
    ran,         \* TargetStopPolicy.executedCandidates
    file,        \* what the round's test file holds
    executable,  \* CandidateCheckpointStore.executable, its code
    missing,     \* ... and the coverage gaps measured in it
    tested,      \* the text the mutation runner read and hashed
    best,        \* CandidateCheckpointStore.quality and the best* variables
    pending,     \* pendingQualityGap
    tries,       \* pendingQualityAttempts
    deferred,    \* deferredFocusId
    basis,       \* pendingQualityGap.coverage: {NotExecuted} if it never saw the target run
    last,        \* history: the focus handed out last ...
    times,       \* ... and how often in succession
    observed,    \* QualityProgress: the gaps of the last round
    stalled,     \* QualityProgress.stalled
    status,      \* the journal's terminalStatus
    accepted,    \* ... acceptedCodeHash
    approval,    \* ... reviewApproval
    scored,      \* ... the code its mutationScore belongs to
    valid,       \* ... evidenceValid
    cancelled,   \* the execution context is stopped
    stale        \* the source differs from the analysed version

attemptVars == <<loop, failures, ran>>
candidateVars == <<file, executable, missing, tested>>
taskVars == <<pending, tries, deferred, basis>>
historyVars == <<last, times>>
focusVars == <<taskVars, historyVars>>
progressVars == <<observed, stalled>>
journalVars == <<status, accepted, approval, scored, valid>>
stopVars == <<cancelled, stale>>
vars == <<pc, attemptVars, candidateVars, best, focusVars, progressVars,
          journalVars, stopVars>>

\* `best' before the first quality checkpoint.
NoBaseline == [code |-> NoCode, tested |-> NoCode, approval |-> NoCode,
               survivors |-> Mutants, missing |-> CoverageGaps]
HasBest == best.code # NoCode
Open(b) == b.survivors \cup b.missing

\* qualityPolicy: the target executed, every line and branch, the mutation threshold.
Satisfied(gaps) ==
    /\ gaps \cap CoverageGaps = {}
    /\ Cardinality(Mutants \ gaps) >= Required

Rounds == {"writing", "running", "reviewing", "mutating"}
Improving == {"improving", "experimenting", "asking"}
PcValues == {"head", "ending", "done"} \cup Rounds \cup Improving
StatusValues == {"running", "passed", "stagnated", "round-limit", "cancelled", "failed",
                 "source-changed", "review-blocked", "retained-after-failure"}

Init ==
    /\ pc = "head" /\ loop = 1 /\ failures = 0 /\ ran = {}
    /\ file = NoCode /\ executable = NoCode /\ tested = NoCode /\ missing = CoverageGaps
    /\ best = NoBaseline
    /\ pending = NoFocus /\ tries = 0 /\ deferred = NoFocus /\ basis = {}
    /\ last = NoFocus /\ times = 0
    /\ observed = {NoFocus} /\ stalled = 0
    /\ status = "running" /\ accepted = NoCode /\ approval = NoCode
    /\ scored = NoCode /\ valid = TRUE
    /\ cancelled = FALSE /\ stale = FALSE

(***************************************************************************)
(* The catch of a round: the retained version comes back, the journal says *)
(* why and what the evidence is still worth.                               *)
(***************************************************************************)
\* Mutant of Retained: the newest executable candidate is put back.
Retained_Newest == executable
Retained == IF HasBest THEN best.code ELSE executable

CatchError(reviewer) ==
    /\ pc' = "ending"
    /\ file' = IF Retained # NoCode THEN Retained ELSE file
    /\ status' = IF stale THEN "source-changed" ELSE
                 IF cancelled THEN "cancelled" ELSE
                 IF reviewer THEN "review-blocked" ELSE
                 IF executable # NoCode THEN "retained-after-failure" ELSE "failed"
    /\ accepted' = IF HasBest THEN accepted ELSE executable
    /\ approval' = IF HasBest THEN best.approval ELSE approval
    /\ scored' = IF stale \/ ~HasBest THEN NoCode ELSE scored
    /\ valid' = ~stale

\* Cancellation, an exhausted budget, a changed source or test file, a broken
\* tool: any await of a round can throw.
RoundFails ==
    /\ pc \in Rounds
    /\ \E reviewer \in {FALSE, pc = "reviewing"} : CatchError(reviewer)
    /\ UNCHANGED <<attemptVars, executable, missing, tested, best, focusVars,
                   progressVars, stopVars>>

(***************************************************************************)
(* The head of a round.                                                    *)
(***************************************************************************)
BeginRound ==
    /\ pc = "head" /\ ~cancelled /\ ~stale
    /\ pc' = "writing" /\ file' = NoCode
    /\ UNCHANGED <<attemptVars, executable, missing, tested, best, focusVars,
                   progressVars, journalVars, stopVars>>

HeadCancelled ==
    /\ pc = "head" /\ cancelled /\ pc' = "ending"
    /\ UNCHANGED <<attemptVars, candidateVars, best, focusVars, progressVars,
                   journalVars, stopVars>>

\* Mutant of HeadStale: the loop continues, as if the source would come back.
HeadStale_Continues == pc = "head" /\ stale /\ UNCHANGED vars
\* invalidateSourceEvidence
HeadStale ==
    /\ pc = "head" /\ ~cancelled /\ stale /\ pc' = "ending"
    /\ status' = "source-changed" /\ scored' = NoCode /\ valid' = FALSE
    /\ UNCHANGED <<attemptVars, candidateVars, best, focusVars, progressVars,
                   accepted, approval, stopVars>>

(***************************************************************************)
(* A candidate: written, run, reviewed.                                    *)
(***************************************************************************)
\* A rejected reply, candidate, run or review: charged, and asked for again.
Rejected ==
    /\ pc \in {"writing", "running", "reviewing"} /\ ~cancelled
    /\ failures' = failures + 1
    /\ \/ /\ failures' < FailureLimit
          /\ pc' \in {"writing"} \cup ({"reviewing"} \cap {pc})
          /\ UNCHANGED <<file, journalVars>>
       \/ failures' = FailureLimit /\ CatchError(FALSE)
    /\ UNCHANGED <<loop, ran, executable, missing, tested, best, focusVars,
                   progressVars, stopVars>>

Run(c) ==
    /\ pc = "writing" /\ ~cancelled /\ ~stale /\ c \notin ran
    /\ ran' = ran \cup {c} /\ file' = c /\ pc' = "running"
    /\ UNCHANGED <<loop, failures, executable, missing, tested, best, focusVars,
                   progressVars, journalVars, stopVars>>

\* saveExecutable: the text and the coverage measured in it, in one slot.
SaveExecutable(code, gaps) == executable' = code /\ missing' = gaps

\* checkpointExecutable: tests that never invoke the target pass too, and then none of
\* its lines counts as covered.
RunPasses(gaps) ==
    /\ pc = "running" /\ ~cancelled /\ ~stale
    /\ NotExecuted \in gaps => Lines \subseteq gaps
    /\ SaveExecutable(file, gaps)
    /\ pc' = "reviewing"
    /\ UNCHANGED <<attemptVars, file, tested, best, focusVars, progressVars,
                   journalVars, stopVars>>

\* The Reviewer approves; up to the start of the mutation runner there is no
\* await, and each check that fails is thrown as RoundFails.
Approve ==
    /\ pc = "reviewing" /\ ~cancelled /\ ~stale /\ file = executable
    /\ approval' = executable /\ pc' = "mutating" /\ tested' = NoCode
    /\ UNCHANGED <<attemptVars, file, executable, missing, best, focusVars, progressVars,
                   status, accepted, scored, valid, stopVars>>

(***************************************************************************)
(* The mutation runner reads the file once, some time after its start; the *)
(* report carries the hash of what it read.                                *)
(***************************************************************************)
RunnerReads ==
    /\ pc = "mutating" /\ tested = NoCode /\ file # NoCode
    /\ tested' = file
    /\ UNCHANGED <<pc, attemptVars, file, executable, missing, best, focusVars,
                   progressVars, journalVars, stopVars>>

\* The measurement belongs to the executable candidate, the file still holds it and the
\* source is the analysed one.
Comparable == ~cancelled /\ ~stale /\ tested = executable /\ file = executable

\* No gap the baseline closed is open again and the score is no lower.
NoWorse(b) ==
    ~HasBest \/ /\ b.survivors \subseteq best.survivors
                /\ b.missing \subseteq best.missing
                /\ Cardinality(Mutants \ b.survivors) >= Cardinality(Mutants \ best.survivors)

\* measureQualityFocus: other gains do not resolve the task that was given, and a
\* coverage task is compared only between tests that both invoked the target.
Uncomparable(gaps) == pending \in CoverageGaps /\ NotExecuted \in basis \cup gaps \cup {pending}
Verdict(gaps) == IF Uncomparable(gaps) THEN "unavailable" ELSE
                 IF pending \in gaps THEN "unchanged" ELSE "resolved"

\* beginFocus keeps the coverage the task is compared with.
Basis(gaps) == gaps \cap {NotExecuted}

\* Mutant of FocusAfter: a task that is given up is not deferred.
FocusAfter_Forgets(gaps) ==
    LET gaveUp == Verdict(gaps) = "unchanged" /\ tries + 1 >= 2
        goesOn == Verdict(gaps) = "unchanged" /\ ~gaveUp
    IN  IF pending = NoFocus \/ Verdict(gaps) = "unavailable" THEN UNCHANGED taskVars
        ELSE /\ pending' = IF goesOn THEN pending ELSE NoFocus
             /\ tries' = IF goesOn THEN tries + 1 ELSE 0
             /\ basis' = IF goesOn THEN Basis(gaps) ELSE {}
             /\ UNCHANGED deferred

\* Judged is the version kept, after a rollback: a task it closed is done, one it could
\* not be compared for stays as it is, and one open for the second time is deferred.
FocusAfter(gaps) ==
    \/ /\ pending = NoFocus \/ Verdict(gaps) = "unavailable"
       /\ UNCHANGED taskVars
    \/ /\ pending # NoFocus /\ Verdict(gaps) = "resolved"
       /\ pending' = NoFocus /\ tries' = 0 /\ basis' = {} /\ UNCHANGED deferred
    \/ /\ pending # NoFocus /\ Verdict(gaps) = "unchanged" /\ tries + 1 < 2
       /\ tries' = tries + 1 /\ basis' = Basis(gaps) /\ UNCHANGED <<pending, deferred>>
    \/ /\ pending # NoFocus /\ Verdict(gaps) = "unchanged" /\ tries + 1 >= 2
       /\ pending' = NoFocus /\ tries' = 0 /\ basis' = {} /\ deferred' = pending

\* QualityProgress.observe
Observe(gaps) ==
    /\ observed' = gaps
    /\ stalled' = IF observed \subseteq gaps THEN stalled + 1 ELSE 0
Stagnated == NoImprovementLimit > 0 /\ stalled' >= NoImprovementLimit

\* currentStopPolicy()?.reject('quality-thresholds-not-met')
QualityCharge == failures + 1

\* Mutant of Passes: the mutation score alone decides.
Passes_ScoreOnly(b) == Cardinality(Mutants \ b.survivors) >= Required
\* qualityToolsSatisfied; the review of a measured candidate is complete.
Passes(b) == Satisfied(Open(b))

\* What follows the measurement, with the baseline b that is kept.
AfterMeasurement(b) ==
    \/ /\ Passes(b)
       /\ status' = "passed" /\ pc' = "ending"
       /\ UNCHANGED <<loop, failures, progressVars>>
    \/ /\ ~Passes(b) /\ failures' = QualityCharge
       /\ failures' = FailureLimit
       /\ status' = "retained-after-failure" /\ pc' = "ending"
       /\ UNCHANGED <<loop, progressVars>>
    \/ /\ ~Passes(b) /\ failures' = QualityCharge
       /\ failures' < FailureLimit
       /\ Observe(Open(b))
       /\ \/ Stagnated /\ status' = "stagnated" /\ pc' = "ending" /\ UNCHANGED loop
          \/ ~Stagnated /\ loop = MaxLoops /\ loop' = loop + 1
             /\ status' = "round-limit" /\ pc' = "ending"
          \/ ~Stagnated /\ loop < MaxLoops /\ pc' = "improving"
             /\ UNCHANGED <<status, loop>>

\* saveQuality: what the baseline is when this measurement is accepted.
QualityCheckpoint(survivors) ==
    [code |-> executable, tested |-> tested, approval |-> approval,
     survivors |-> survivors, missing |-> missing]

\* Accept the candidate, or roll back to the baseline: either way file,
\* checkpoint, focus and journal are those of the version kept.
Kept(survivors) ==
    IF NoWorse(QualityCheckpoint(survivors)) THEN QualityCheckpoint(survivors) ELSE best

Measured(survivors) ==
    LET b == Kept(survivors)
    IN  /\ pc = "mutating" /\ Comparable
        /\ best' = b /\ file' = b.code /\ SaveExecutable(b.code, b.missing)
        /\ FocusAfter(Open(b)) /\ UNCHANGED historyVars
        /\ accepted' = b.code /\ approval' = b.approval /\ scored' = b.code
        /\ AfterMeasurement(b)
        /\ UNCHANGED <<ran, tested, valid, stopVars>>

\* The runner reports an outcome for every mutant of the set; a report that
\* leaves one of them undecided is no measurement, whatever it claims.
Outcomes == {"KILLED", "SURVIVED", "TIMEOUT", "ERROR", "NOT_RUN"}
Complete(outcome) == \A m \in Mutants : outcome[m] \in {"KILLED", "SURVIVED"}
Survivors(outcome) == {m \in Mutants : outcome[m] = "SURVIVED"}

MeasurementTaken(outcome) == Complete(outcome) /\ Measured(Survivors(outcome))

MeasurementRefused(outcome) ==
    /\ pc = "mutating" /\ ~Complete(outcome)
    /\ CatchError(FALSE)
    /\ UNCHANGED <<attemptVars, executable, missing, tested, best, focusVars,
                   progressVars, stopVars>>

(***************************************************************************)
(* The quality phase: the next round's focus, experiments, the Analyst.    *)
(***************************************************************************)
\* selectQualityFocus: a deferred gap only when there is no other.
FocusPool == IF Open(best) = {deferred} THEN {deferred} ELSE Open(best) \ {deferred}

\* beginFocus; a focus that is still pending stays, whatever it was tried for.
BeginFocus(f) ==
    /\ \/ pending = NoFocus /\ f \in FocusPool /\ basis' = Basis(Open(best))
       \/ pending # NoFocus /\ f = pending /\ UNCHANGED basis
    /\ pending' = f /\ deferred' = NoFocus
    /\ last' = f /\ times' = IF f = last THEN times + 1 ELSE 1

FocusSelected(f) ==
    /\ pc = "improving" /\ ~cancelled /\ pc' = "experimenting"
    /\ BeginFocus(f)
    /\ UNCHANGED <<attemptVars, candidateVars, best, tries, progressVars,
                   journalVars, stopVars>>

\* Bounded inputs are run in isolation while the source is the analysed one;
\* what they show is evidence for the Writer, and neither test nor score.
Experimented ==
    /\ pc = "experimenting" /\ ~cancelled /\ pc' = "asking"
    /\ UNCHANGED <<attemptVars, candidateVars, best, focusVars, progressVars,
                   journalVars, stopVars>>

NextRound ==
    /\ pc' = "head" /\ loop' = loop + 1
    /\ UNCHANGED <<failures, ran, candidateVars, best, focusVars, progressVars,
                   journalVars, stopVars>>

\* The Analyst's tasks, or the measured gap alone, go to the next Writer.
Asked == pc = "asking" /\ ~cancelled /\ NextRound

\* An error that is no stage error is only recorded: the focus, if one was
\* chosen, stays.
FocusFails == pc \in Improving /\ ~cancelled /\ NextRound

ImprovingCancelled ==
    /\ pc \in Improving /\ cancelled /\ pc' = "ending"
    /\ UNCHANGED <<attemptVars, candidateVars, best, focusVars, progressVars,
                   journalVars, stopVars>>

\* A stage error leaves the loop for the outer catch; no report is opened.
ImprovingFails ==
    /\ pc \in Improving /\ ~cancelled
    /\ status' = "failed" /\ pc' = "done"
    /\ UNCHANGED <<attemptVars, candidateVars, best, focusVars, progressVars,
                   accepted, approval, scored, valid, stopVars>>

(***************************************************************************)
(* After the loop: the report is opened (not in a batch), and a status     *)
(* nobody set is settled.                                                  *)
(***************************************************************************)
\* Mutant of Close: nobody settles the status.
Close_Unsettled ==
    /\ pc = "ending" /\ pc' = "done" /\ UNCHANGED status
    /\ UNCHANGED <<attemptVars, candidateVars, best, focusVars, progressVars,
                   accepted, approval, scored, valid, stopVars>>
Close ==
    /\ pc = "ending" /\ pc' = "done"
    /\ \E batch \in BOOLEAN :
         status' = IF cancelled /\ (~batch \/ status = "running") THEN "cancelled" ELSE status
    /\ UNCHANGED <<attemptVars, candidateVars, best, focusVars, progressVars,
                   accepted, approval, scored, valid, stopVars>>

(***************************************************************************)
(* The outside.                                                            *)
(***************************************************************************)
Cancel ==
    /\ pc # "done" /\ ~cancelled /\ cancelled' = TRUE
    /\ UNCHANGED <<pc, attemptVars, candidateVars, best, focusVars, progressVars,
                   journalVars, stale>>

\* The source is edited, or put back.
SourceChanges ==
    /\ pc # "done" /\ stale' = ~stale
    /\ UNCHANGED <<pc, attemptVars, candidateVars, best, focusVars, progressVars,
                   journalVars, cancelled>>

\* The test file is edited while the Reviewer or the runner has it.
EditFile(c) ==
    /\ pc \in {"reviewing", "mutating"} /\ c # file /\ file' = c
    /\ UNCHANGED <<pc, attemptVars, executable, missing, tested, best, focusVars,
                   progressVars, journalVars, stopVars>>

Round == \/ RoundFails \/ BeginRound \/ HeadCancelled \/ HeadStale \/ Rejected
         \/ (\E c \in Codes : Run(c)) \/ (\E gaps \in SUBSET CoverageGaps : RunPasses(gaps))
         \/ Approve \/ RunnerReads
         \/ /\ pc = "mutating"
            /\ \E outcome \in [Mutants -> Outcomes] :
                  MeasurementTaken(outcome) \/ MeasurementRefused(outcome)
Improve == \/ \E f \in GapIds : FocusSelected(f)
           \/ Experimented \/ Asked \/ FocusFails \/ ImprovingCancelled \/ ImprovingFails
Program == Round \/ Improve \/ Close
Next == Program \/ Cancel \/ SourceChanges \/ \E c \in Codes : EditFile(c)

Spec == Init /\ [][Next]_vars

\* Every await settles: requests and processes have timeouts.
FairSpec == Spec /\ WF_vars(Program)

-----------------------------------------------------------------------------
CodeOrNone == Codes \cup {NoCode}
TypeOK ==
    /\ pc \in PcValues /\ status \in StatusValues
    /\ loop \in 1 .. MaxLoops + 1 /\ failures \in 0 .. FailureLimit
    /\ ran \subseteq Codes
    /\ {file, executable, tested, accepted, approval, scored} \subseteq CodeOrNone
    /\ missing \subseteq CoverageGaps
    /\ best \in [code : CodeOrNone, tested : CodeOrNone, approval : CodeOrNone,
                 survivors : SUBSET Mutants, missing : SUBSET CoverageGaps]
    /\ {pending, deferred, last} \subseteq GapIds \cup {NoFocus}
    /\ basis \subseteq {NotExecuted} /\ times \in Nat
    /\ tries \in 0 .. 1 /\ stalled \in 0 .. MaxLoops
    /\ observed \subseteq GapIds \cup {NoFocus}
    /\ valid \in BOOLEAN /\ cancelled \in BOOLEAN /\ stale \in BOOLEAN

(* The baseline is one candidate: the text the mutation runner hashed is    *)
(* the text that was executed and the text the Reviewer approved, whoever   *)
(* edited the file in between.                                              *)
BaselineIsOneCandidate ==
    HasBest => best.code \in ran /\ best.tested = best.code /\ best.approval = best.code

(* A gap the retained version closed is never open again: each round's      *)
(* baseline has no survivor and no uncovered line its predecessor had not.  *)
GapsOnlyClose == [][Open(best') \subseteq Open(best)]_vars

\* A coverage task taken on tests that never invoked the target: nothing can be
\* compared with those.
Stuck == pending \in CoverageGaps /\ NotExecuted \in basis

(* What the Writer and the Analyst are asked to close is a gap still open   *)
(* in the version kept, and the tasks rotate: the same gap is handed out    *)
(* three times in a row only when nothing else is open.  The one exception  *)
(* to both is a stuck task, which stays for the rest of the run, open or    *)
(* not.                                                                     *)
FocusIsOpen ==
    /\ pending # NoFocus => pending \in Open(best) \/ Stuck
    /\ times > 2 => Open(best) \subseteq {last} \/ (pending = last /\ Stuck)

(* Every round that did not pass cost a failure, so the failure limit also  *)
(* bounds the rounds.                                                       *)
RoundsAreCharged == loop - 1 <= failures

(* The journal the run ends with tells one story: the accepted test is the  *)
(* file that is left, the approval and the score are of that very text, and *)
(* there is no score for evidence that lost its validity.                   *)
JournalIsOneStory ==
    pc = "done" =>
        /\ accepted # NoCode => accepted = file
        /\ HasBest => accepted = best.code /\ approval = accepted
        /\ scored \in {NoCode, accepted}
        /\ scored # NoCode => HasBest /\ valid
        /\ valid /\ HasBest => scored = accepted

(* The terminal status is true of what is left: passed means the baseline   *)
(* meets the policy, a quality stop means it does not, a retained version   *)
(* exists when the journal says so, and no run ends as still running.       *)
StatusIsTrue ==
    pc = "done" =>
        /\ status # "running"
        /\ status = "passed" => HasBest /\ valid /\ Satisfied(Open(best))
        /\ status \in {"stagnated", "round-limit"} => HasBest /\ ~Satisfied(Open(best))
        /\ status = "retained-after-failure" => accepted # NoCode
        /\ status = "cancelled" => cancelled

(* Once the run is stopped, and while the source is not the analysed one,   *)
(* no checkpoint, baseline or score is published.                           *)
StoppedPublishesNothing ==
    [][cancelled \/ stale =>
         /\ UNCHANGED <<best, executable>>
         /\ scored' \in {scored, NoCode}]_vars

(* Whatever models, tools and the user do, the run ends.                    *)
RunEnds == <>(pc = "done")

(* The run implements the promise about published quality.                  *)
Baseline == INSTANCE QualityBaseline WITH
    OpenGaps <- GapIds, Enough <- Satisfied, tried <- ran, code <- best.code,
    open <- Open(best),
    outcome <- IF pc # "done" THEN "open" ELSE IF status = "passed" THEN "passed" ELSE "ended"
BaselineRefinement == Baseline!BaselineSpec
=============================================================================
