-------------------------- MODULE CandidatePipeline --------------------------
(***************************************************************************)
(* The loop that turns a model's draft into an accepted test file: revise, *)
(* check the scope and the structure, run, checkpoint, review.             *)
(*                                                                         *)
(*   src/pipeline/testCandidatePipeline.ts   validateTestCandidate         *)
(*   src/pipeline/seedCandidatePipeline.ts   validateSeedThenCandidate     *)
(*   src/pipeline/stopPolicy.ts              TargetStopPolicy              *)
(*   src/pipeline/targetBudget.ts            candidateAttempts             *)
(*   src/validation/repairFeedback.ts        RepairFeedback                *)
(*   src/pipeline/executionVerification.ts   the execution-only hooks      *)
(*   src/orchestrator.ts                     the full-mode hooks           *)
(*                                                                         *)
(* A target always runs under a TargetStopPolicy, so the branches of the   *)
(* loop for callers without one are left out.  One call is modelled; what  *)
(* earlier calls of the same target left (runs, failures, a baseline) is   *)
(* in Init.  A step is what runs between two awaits, the revision and the  *)
(* check of its scope being one await.                                     *)
(***************************************************************************)
EXTENDS Integers, FiniteSets

CONSTANTS
    Codes,         \* candidate test files, up to their normalised text
    NoCode,
    Tests,         \* ids of test methods
    FailureLimit,  \* StopPolicySettings.failureLimit
    MaxAttempts    \* TargetBudgetLimits.candidateAttempts

ASSUME CodesFinite == IsFiniteSet(Codes)
ASSUME NoCodeIsNone == NoCode \notin Codes
ASSUME LimitPositive == FailureLimit \in Nat \ {0}
ASSUME AttemptsNat == MaxAttempts \in Nat

VARIABLES
    mode,        \* "full" or "execution": which hooks the call got
    pc,          \* the await the loop stands at
    first,       \* attempt = 0
    code,        \* the candidate at hand
    retained,    \* retainedCode
    role,        \* who is asked for the next revision
    writerOnly,  \* executionRepairRole = 'writer'
    unresolved,  \* unresolvedReview
    ranOnce,     \* a candidate ran in this call (executionAttempted)
    seen,        \* RepairFeedback.seen
    passing,     \* RepairFeedback.passing
    kept,        \* every test that passed in a run that was kept
    ran,         \* TargetStopPolicy.executedCandidates
    failures,    \* TargetStopPolicy.failureCount
    charged,     \* the current attempt is one of failedAttempts
    attempts,    \* candidate attempts the budget still allows
    file,        \* the test file
    executable,  \* CandidateCheckpointStore.executable
    approved,    \* the approvedCodeHash of the result
    seedPending, \* no seed of this target was checkpointed yet
    cancelled,   \* the execution context is stopped
    stale        \* the source differs from the analysed version

loopVars == <<pc, first, code, retained, role, writerOnly, unresolved, ranOnce>>
feedbackVars == <<seen, passing, kept>>
policyVars == <<ran, failures, charged, attempts>>
resultVars == <<file, executable, approved, seedPending>>
stopVars == <<cancelled, stale>>
vars == <<mode, loopVars, feedbackVars, policyVars, resultVars, stopVars>>

Ended == {"accepted", "failed"}
PcValues == {"head", "revising", "validating", "running", "reviewing"} \cup Ended

\* Execution mode never has a baseline; full mode has one once a candidate
\* of this target was checkpointed, and then the seed is no longer pending.
Init ==
    /\ mode \in {"full", "execution"}
    /\ ran \in SUBSET Codes
    /\ executable \in ran \cup {NoCode}
    /\ mode = "execution" => ran = {}
    /\ retained \in Codes
    /\ executable # NoCode => retained = executable
    /\ code \in Codes
    /\ executable = NoCode => code = retained
    /\ passing \in SUBSET Tests
    /\ executable = NoCode => passing = {}
    /\ kept = passing
    /\ failures \in 0 .. FailureLimit - 1
    /\ seedPending \in {FALSE, mode = "full" /\ executable = NoCode}
    /\ ranOnce = FALSE
    /\ pc = "head" /\ first = TRUE /\ role = "writer"
    /\ writerOnly = FALSE /\ unresolved = FALSE
    /\ seen = {retained}
    /\ charged = FALSE /\ attempts = MaxAttempts
    /\ file = NoCode /\ approved = NoCode
    /\ cancelled = FALSE /\ stale = FALSE

Reviewed == mode = "full"

\* hooks.checkCancelled: the execution-only hook also looks at the source.
Stopped == cancelled \/ (mode = "execution" /\ stale)

(***************************************************************************)
(* TargetStopPolicy.reject, reached through the loop's reject(): only the  *)
(* first rejection of an attempt is charged, and the one that uses up the  *)
(* limit throws past everybody.                                            *)
(***************************************************************************)
\* Mutant of Reject: the error thrown at the limit is caught and the loop goes on.
Reject_Swallowed(there) ==
    /\ failures' = IF charged THEN failures ELSE failures + 1
    /\ charged' = TRUE
    /\ pc' = there
    /\ UNCHANGED <<ran, attempts>>
Reject(there) ==
    /\ failures' = IF charged THEN failures ELSE failures + 1
    /\ charged' = TRUE
    /\ pc' = IF failures' = FailureLimit THEN "failed" ELSE there
    /\ UNCHANGED <<ran, attempts>>

\* The Bug Fixer is chosen only for a failure text that names one of the
\* candidate's test methods, and never after a load failure.  The text does
\* not change between this choice and the next revision, where the code makes it.
RepairRoles(loadFailed, hasRun) ==
    IF loadFailed \/ ~hasRun THEN {"writer"} ELSE {"writer", "bug-fixer"}

(***************************************************************************)
(* The head of the loop.                                                   *)
(***************************************************************************)
BeginAttempt ==
    /\ pc = "head" /\ ~Stopped /\ attempts > 0
    /\ attempts' = attempts - 1 /\ charged' = FALSE
    /\ first' = FALSE
    /\ pc' = IF first THEN "validating" ELSE "revising"
    /\ UNCHANGED <<mode, code, retained, role, writerOnly, unresolved, ranOnce,
                   ran, failures, feedbackVars, resultVars, stopVars>>

(***************************************************************************)
(* hooks.revise and hooks.validateRevision.                                *)
(***************************************************************************)
\* Mutant of ReplyRejected: a reply asked for again is not charged.
ReplyRejected_Free ==
    /\ pc \in {"revising", "reviewing"} /\ ~cancelled /\ ~charged
    /\ charged' = TRUE
    /\ UNCHANGED <<mode, loopVars, ran, failures, attempts, feedbackVars, resultVars, stopVars>>
\* A reply cut off at its token limit, or a review outside its contract, is
\* charged inside the request...
ReplyRejected ==
    /\ pc \in {"revising", "reviewing"} /\ ~cancelled /\ ~charged
    /\ Reject(pc)
    /\ UNCHANGED <<mode, first, code, retained, role, writerOnly, unresolved, ranOnce,
                   feedbackVars, resultVars, stopVars>>

\* ... and asked for again as a new attempt.
ReplyRetried ==
    /\ pc \in {"revising", "reviewing"} /\ ~cancelled /\ charged
    /\ charged' = FALSE
    /\ UNCHANGED <<mode, loopVars, ran, failures, attempts,
                   feedbackVars, resultVars, stopVars>>

\* The reply has no usable format: same code, same role, once more.
RevisionUnusable ==
    /\ pc = "revising" /\ ~Stopped
    /\ Reject("head")
    /\ UNCHANGED <<mode, first, code, retained, role, writerOnly, unresolved, ranOnce,
                   feedbackVars, resultVars, stopVars>>

\* feedback.consider knows the text: back to the retained candidate, for
\* the Writer (recoverWithWriter when the Bug Fixer was asked).
RevisionRepeats ==
    /\ pc = "revising" /\ ~Stopped /\ ~charged
    /\ Reject("head")
    /\ code' = retained /\ role' = "writer"
    /\ UNCHANGED <<mode, first, retained, writerOnly, unresolved, ranOnce,
                   feedbackVars, resultVars, stopVars>>

\* The revision is out of scope in a way a model can repair.
RevisionOutOfScope(c, noMethodChange) ==
    /\ pc = "revising" /\ ~Stopped /\ ~charged
    /\ c \notin seen /\ seen' = seen \cup {c}
    /\ Reject("head")
    /\ code' = retained
    /\ role' \in IF (role = "bug-fixer" /\ noMethodChange) \/ unresolved
                 THEN {"writer"} ELSE RepairRoles(writerOnly, ranOnce)
    /\ UNCHANGED <<mode, first, retained, writerOnly, unresolved, ranOnce,
                   passing, kept, resultVars, stopVars>>

RevisionArrives(c) ==
    /\ pc = "revising" /\ ~Stopped /\ ~charged
    /\ c \notin seen /\ seen' = seen \cup {c}
    /\ code' = c /\ pc' = "validating"
    /\ UNCHANGED <<mode, first, retained, role, writerOnly, unresolved, ranOnce,
                   passing, kept, policyVars, resultVars, stopVars>>

(***************************************************************************)
(* hooks.validate.                                                         *)
(***************************************************************************)
\* Until something ran, execution mode goes on from the Writer's latest
\* draft without retaining it.
KeepsDraft == mode = "execution" /\ ~ranOnce /\ role = "writer"

StructureRejected ==
    /\ pc = "validating" /\ ~cancelled
    /\ Reject("head")
    /\ code' = IF KeepsDraft THEN code ELSE retained
    /\ role' = "writer" /\ writerOnly' = FALSE /\ unresolved' = FALSE
    /\ UNCHANGED <<mode, first, retained, ranOnce, feedbackVars, resultVars, stopVars>>

\* Mutant of FirstExecution: executed candidates are not remembered.
FirstExecution_Always == TRUE
\* TargetStopPolicy.firstExecution
FirstExecution == code \notin ran

AlreadyExecuted ==
    /\ pc = "validating" /\ ~cancelled /\ ~FirstExecution
    /\ Reject("head")
    /\ role' = "writer"
    /\ UNCHANGED <<mode, first, code, retained, writerOnly, unresolved, ranOnce,
                   feedbackVars, resultVars, stopVars>>

(***************************************************************************)
(* hooks.execute.                                                          *)
(***************************************************************************)
StartRun ==
    /\ pc = "validating" /\ ~cancelled /\ ~stale /\ FirstExecution
    /\ ran' = ran \cup {code} /\ ranOnce' = TRUE
    /\ file' = code /\ pc' = "running"
    /\ UNCHANGED <<mode, first, code, retained, role, writerOnly, unresolved,
                   failures, charged, attempts, feedbackVars, executable, approved,
                   seedPending, stopVars>>

\* RepairFeedback.record: tests that passed before fail, are gone or skipped.
Regressed(passed) == ~(passing \subseteq passed)

RunRegresses(passed, loadFailed) ==
    /\ pc = "running" /\ ~Stopped /\ Regressed(passed)
    /\ loadFailed => passed = {}
    /\ Reject("head")
    /\ code' = retained /\ unresolved' = FALSE
    /\ writerOnly' = loadFailed /\ role' \in RepairRoles(loadFailed, TRUE)
    /\ UNCHANGED <<mode, first, retained, ranOnce, feedbackVars, resultVars, stopVars>>

\* Mutant of Keep: whatever ran becomes the retained candidate.
Keep_AnyRun(passed) ==
    /\ retained' = code /\ passing' = passed /\ kept' = kept \cup passed
    /\ UNCHANGED seen
Keep(passed) ==
    /\ ~Regressed(passed)
    /\ retained' = code /\ passing' = passed /\ kept' = kept \cup passed
    /\ UNCHANGED seen

RunFails(passed, loadFailed) ==
    /\ pc = "running" /\ ~Stopped /\ Keep(passed)
    /\ loadFailed => passed = {}
    /\ Reject("head")
    /\ unresolved' = FALSE
    /\ writerOnly' = loadFailed /\ role' \in RepairRoles(loadFailed, TRUE)
    /\ UNCHANGED <<mode, first, code, ranOnce, resultVars, stopVars>>

\* checkpointExecutable looks at the source again before it saves; a seed is
\* accepted with the first checkpoint.  Nobody reviews in execution mode,
\* whose single baseline is written with the acceptance.
RunPasses(passed) ==
    /\ pc = "running" /\ ~cancelled /\ ~stale /\ Keep(passed)
    /\ executable' = code /\ seedPending' = FALSE
    /\ writerOnly' = FALSE
    /\ pc' = IF Reviewed THEN "reviewing" ELSE "accepted"
    /\ UNCHANGED <<mode, first, code, role, unresolved, ranOnce, policyVars,
                   file, approved, stopVars>>

(***************************************************************************)
(* hooks.review.                                                           *)
(***************************************************************************)
ReviewFindsIssues ==
    /\ pc = "reviewing" /\ ~Stopped /\ ~charged
    /\ Reject("head")
    /\ unresolved' = TRUE /\ role' = "writer"
    /\ UNCHANGED <<mode, first, code, retained, writerOnly, ranOnce,
                   feedbackVars, resultVars, stopVars>>

\* No review, or a request that failed: rejected, then thrown.
ReviewUnavailable ==
    /\ pc = "reviewing" /\ ~Stopped
    /\ Reject("failed")
    /\ UNCHANGED <<mode, first, code, retained, role, writerOnly, unresolved, ranOnce,
                   feedbackVars, resultVars, stopVars>>

Approve ==
    /\ pc = "reviewing" /\ ~Stopped /\ ~charged
    /\ approved' = code /\ pc' = "accepted"
    /\ UNCHANGED <<mode, first, code, retained, role, writerOnly, unresolved, ranOnce,
                   policyVars, feedbackVars, file, executable, seedPending, stopVars>>

(***************************************************************************)
(* Errors that end the call: cancellation, source-changed, an exhausted    *)
(* budget, a broken tool or environment, a fatal scope violation.          *)
(***************************************************************************)
StageError ==
    /\ pc \notin Ended
    /\ pc' = "failed"
    /\ UNCHANGED <<mode, first, code, retained, role, writerOnly, unresolved, ranOnce,
                   policyVars, feedbackVars, resultVars, stopVars>>

(***************************************************************************)
(* The outside: the user stops the run, somebody edits the source.         *)
(***************************************************************************)
Cancel ==
    /\ pc \notin Ended /\ ~cancelled /\ cancelled' = TRUE
    /\ UNCHANGED <<mode, loopVars, policyVars, feedbackVars, resultVars, stale>>

SourceChanges ==
    /\ pc \notin Ended /\ ~stale /\ stale' = TRUE
    /\ UNCHANGED <<mode, loopVars, policyVars, feedbackVars, resultVars, cancelled>>

Revise == \/ ReplyRejected \/ ReplyRetried \/ RevisionUnusable \/ RevisionRepeats
          \/ \E c \in Codes : RevisionArrives(c)
          \/ \E c \in Codes, none \in BOOLEAN : RevisionOutOfScope(c, none)
Validate == StructureRejected \/ AlreadyExecuted \/ StartRun
RunEnds == \E passed \in SUBSET Tests :
    \/ RunPasses(passed)
    \/ \E loadFailed \in BOOLEAN : RunFails(passed, loadFailed) \/ RunRegresses(passed, loadFailed)
Review == ReviewFindsIssues \/ ReviewUnavailable \/ Approve
Loop == BeginAttempt \/ Revise \/ Validate \/ RunEnds \/ Review \/ StageError
Next == Loop \/ Cancel \/ SourceChanges

Spec == Init /\ [][Next]_vars

\* Every await settles: model requests and test runs have timeouts.
FairSpec == Spec /\ WF_vars(Loop)

-----------------------------------------------------------------------------
TypeOK ==
    /\ mode \in {"full", "execution"} /\ pc \in PcValues
    /\ code \in Codes /\ retained \in Codes
    /\ role \in {"writer", "bug-fixer"}
    /\ first \in BOOLEAN /\ writerOnly \in BOOLEAN /\ unresolved \in BOOLEAN
    /\ ranOnce \in BOOLEAN /\ charged \in BOOLEAN /\ seedPending \in BOOLEAN
    /\ cancelled \in BOOLEAN /\ stale \in BOOLEAN
    /\ seen \subseteq Codes /\ ran \subseteq Codes
    /\ passing \subseteq Tests /\ kept \subseteq Tests
    /\ failures \in 0 .. FailureLimit /\ attempts \in 0 .. MaxAttempts
    /\ {file, executable, approved} \subseteq Codes \cup {NoCode}

(* A test that passed in any run the loop kept still passes in the newest   *)
(* run it kept, whatever regressions, rejected revisions and drafts came    *)
(* in between: the accepted file loses no passing test.                     *)
NothingPassedIsLost == kept \subseteq passing

(* The target stops with the N-th failure and never goes on after it, in    *)
(* whichever layer that failure was met; an accepted target had fewer.      *)
StopsAtLimit == failures = FailureLimit => pc = "failed"

(* No iteration is repeated for free: every way back to the head of the     *)
(* loop has charged the attempt it gave up.                                 *)
RetriesAreCharged == pc = "head" /\ ~first => charged

(* The Bug Fixer repairs a candidate that ran, never a draft or a generated *)
(* text that only failed a check.                                           *)
BugFixerSeesARun == pc = "revising" /\ role = "bug-fixer" => code \in ran

(* Once the run is stopped nothing is written, checkpointed or approved;    *)
(* once the source differs nothing is written or checkpointed.              *)
StopIsFinal ==
    [][ /\ cancelled => UNCHANGED resultVars
        /\ stale => UNCHANGED <<file, executable, seedPending>> ]_vars

(* Whatever the models answer, the call returns or throws.                  *)
CallEnds == <>(pc \in Ended)

(* The loop implements the gate.                                            *)
Gate == INSTANCE CandidateGate WITH
    reviewed <- Reviewed, tried <- ran,
    outcome <- IF pc \in Ended THEN pc ELSE "open"
GateRefinement == Gate!GateSpec

(* ARCHITECTURE.md:429: a Bug Fixer reply of unusable format is handed over *)
(* to the Writer once.  The loop under a stop policy asks the Bug Fixer     *)
(* again.                                                                   *)
FormatFailureGoesToWriter ==
    [][RevisionUnusable /\ role = "bug-fixer" /\ pc' = "head" => role' = "writer"]_vars
=============================================================================
