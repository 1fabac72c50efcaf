----------------------- MODULE CandidatePipelineProofs -----------------------
(***************************************************************************)
(* What the runs of CandidatePipeline check on small instances, proved for *)
(* any candidates, tests, failure limit and candidate budget.              *)
(***************************************************************************)
EXTENDS CandidatePipeline, TLAPS

USE DEF loopVars, feedbackVars, policyVars, resultVars, stopVars

(* Where the texts at hand come from: the retained one ran as soon as       *)
(* anything passed or ran in this call, and what is under test or review is *)
(* what the file holds.                                                     *)
Provenance ==
    /\ executable # NoCode => executable \in ran
    /\ passing # {} => retained \in ran
    /\ ranOnce /\ pc \notin {"running", "failed"} => retained \in ran
    /\ pc \in {"head", "revising"} /\ role = "bug-fixer" => code \in ran
    /\ pc \in {"running", "reviewing"} => code \in ran /\ file = code
    /\ pc = "reviewing" => Reviewed /\ executable = code
    /\ pc # "accepted" => approved = NoCode

IInv == /\ TypeOK /\ StopsAtLimit /\ RetriesAreCharged
        /\ NothingPassedIsLost /\ Provenance

-----------------------------------------------------------------------------
LEMMA InitEstablishesInv == Init => IInv
  <1>. SUFFICES ASSUME Init PROVE IInv
    OBVIOUS
  <1>1. TypeOK
    <2>1. failures \in 0 .. FailureLimit /\ attempts \in 0 .. MaxAttempts
      BY LimitPositive, AttemptsNat DEF Init
    <2>2. seedPending \in BOOLEAN /\ (mode = "full" => mode \in {"full", "execution"})
      BY DEF Init
    <2>3. executable \in Codes \cup {NoCode}
      BY DEF Init
    <2>. QED BY <2>1, <2>2, <2>3 DEF Init, TypeOK, PcValues
  <1>2. StopsAtLimit /\ RetriesAreCharged /\ NothingPassedIsLost
    BY LimitPositive DEF Init, StopsAtLimit, RetriesAreCharged, NothingPassedIsLost
  <1>3. Provenance
    BY DEF Init, Provenance
  <1>. QED BY <1>1, <1>2, <1>3 DEF IInv

(* A rejection leads to `there` or past the limit, and charges the attempt. *)
LEMMA RejectFacts ==
    ASSUME TypeOK, StopsAtLimit, pc # "failed", NEW there \in PcValues, Reject(there)
    PROVE  /\ failures' \in 0 .. FailureLimit /\ charged' = TRUE
           /\ pc' \in {there, "failed"}
           /\ failures' = FailureLimit => pc' = "failed"
           /\ UNCHANGED <<ran, attempts>>
  BY LimitPositive DEF TypeOK, StopsAtLimit, Reject, PcValues

(* What a rejection leaves alone stays right.                               *)
LEMMA RejectKeepsInv ==
    ASSUME IInv, pc # "failed", NEW there \in {"head", "failed", "revising", "reviewing"},
           Reject(there), UNCHANGED <<mode, first, resultVars, stopVars>>,
           there = "reviewing" => pc = "reviewing" /\ UNCHANGED code,
           code' \in Codes, retained' \in Codes, role' \in {"writer", "bug-fixer"},
           writerOnly' \in BOOLEAN, unresolved' \in BOOLEAN, ranOnce' = ranOnce,
           seen' \subseteq Codes, passing' \subseteq Tests, kept' \subseteq passing',
           passing' # {} => retained' \in ran,
           ranOnce => retained' \in ran,
           there \in {"head", "revising"} /\ role' = "bug-fixer" => code' \in ran,
           pc # "accepted"
    PROVE  IInv'
  <1>1. /\ failures' \in 0 .. FailureLimit /\ charged' = TRUE
        /\ pc' \in {there, "failed"}
        /\ failures' = FailureLimit => pc' = "failed"
        /\ UNCHANGED <<ran, attempts>>
    BY RejectFacts DEF IInv, PcValues, Ended
  <1>2. TypeOK'
    BY <1>1 DEF IInv, TypeOK, PcValues, Ended
  <1>3. StopsAtLimit' /\ RetriesAreCharged' /\ NothingPassedIsLost'
    BY <1>1 DEF StopsAtLimit, RetriesAreCharged, NothingPassedIsLost
  <1>4. Provenance'
    BY <1>1 DEF IInv, Provenance, Reviewed
  <1>. QED BY <1>2, <1>3, <1>4 DEF IInv

-----------------------------------------------------------------------------
LEMMA BeginKeepsInv == ASSUME IInv, BeginAttempt PROVE IInv'
  <1>1. TypeOK'
    <2>1. attempts' \in 0 .. MaxAttempts
      BY AttemptsNat DEF IInv, TypeOK, BeginAttempt
    <2>2. pc' \in PcValues
      BY DEF BeginAttempt, PcValues
    <2>. QED BY <2>1, <2>2 DEF IInv, TypeOK, BeginAttempt
  <1>2. StopsAtLimit' /\ RetriesAreCharged' /\ NothingPassedIsLost'
    BY DEF IInv, StopsAtLimit, RetriesAreCharged, NothingPassedIsLost, BeginAttempt
  <1>3. Provenance'
    BY DEF IInv, Provenance, Reviewed, BeginAttempt
  <1>. QED BY <1>1, <1>2, <1>3 DEF IInv

LEMMA ReviseKeepsInv == ASSUME IInv, Revise PROVE IInv'
  <1>1. CASE ReplyRejected
    <2>1. pc \in {"revising", "reviewing"} /\ Reject(pc)
      BY <1>1 DEF ReplyRejected
    <2>. QED BY <1>1, <2>1, RejectKeepsInv DEF IInv, TypeOK, NothingPassedIsLost, Provenance, ReplyRejected
  <1>2. CASE ReplyRetried
    <2>1. TypeOK' /\ StopsAtLimit' /\ RetriesAreCharged' /\ NothingPassedIsLost'
      BY <1>2 DEF IInv, TypeOK, StopsAtLimit, RetriesAreCharged, NothingPassedIsLost, ReplyRetried
    <2>2. Provenance'
      BY <1>2 DEF IInv, Provenance, Reviewed, ReplyRetried
    <2>. QED BY <2>1, <2>2 DEF IInv
  <1>3. CASE RevisionUnusable
    BY <1>3, RejectKeepsInv DEF IInv, TypeOK, NothingPassedIsLost, Provenance, RevisionUnusable
  <1>4. CASE RevisionRepeats
    BY <1>4, RejectKeepsInv DEF IInv, TypeOK, NothingPassedIsLost, Provenance, RevisionRepeats
  <1>5. ASSUME NEW c \in Codes, RevisionArrives(c) PROVE IInv'
    <2>1. TypeOK'
      BY <1>5 DEF IInv, TypeOK, RevisionArrives, PcValues
    <2>2. StopsAtLimit' /\ RetriesAreCharged' /\ NothingPassedIsLost'
      BY <1>5 DEF IInv, StopsAtLimit, RetriesAreCharged, NothingPassedIsLost, RevisionArrives
    <2>3. Provenance'
      BY <1>5 DEF IInv, Provenance, RevisionArrives
    <2>. QED BY <2>1, <2>2, <2>3 DEF IInv
  <1>6. ASSUME NEW c \in Codes, NEW none \in BOOLEAN, RevisionOutOfScope(c, none) PROVE IInv'
    <2>1. role' \in {"writer", "bug-fixer"} /\ (role' = "bug-fixer" => ranOnce)
      BY <1>6 DEF RevisionOutOfScope, RepairRoles
    <2>2. ranOnce => retained \in ran
      BY <1>6 DEF IInv, Provenance, RevisionOutOfScope
    <2>. QED BY <1>6, <2>1, <2>2, RejectKeepsInv
             DEF IInv, TypeOK, NothingPassedIsLost, Provenance, RevisionOutOfScope
  <1>. QED BY <1>1, <1>2, <1>3, <1>4, <1>5, <1>6 DEF Revise

LEMMA ValidateKeepsInv == ASSUME IInv, Validate PROVE IInv'
  <1>1. CASE StructureRejected
    BY <1>1, RejectKeepsInv DEF IInv, TypeOK, NothingPassedIsLost, Provenance, StructureRejected
  <1>2. CASE AlreadyExecuted
    BY <1>2, RejectKeepsInv DEF IInv, TypeOK, NothingPassedIsLost, Provenance, AlreadyExecuted
  <1>3. CASE StartRun
    <2>1. TypeOK'
      BY <1>3 DEF IInv, TypeOK, StartRun, PcValues
    <2>2. StopsAtLimit' /\ RetriesAreCharged' /\ NothingPassedIsLost'
      BY <1>3 DEF IInv, StopsAtLimit, RetriesAreCharged, NothingPassedIsLost, StartRun
    <2>3. Provenance'
      BY <1>3 DEF IInv, Provenance, StartRun
    <2>. QED BY <2>1, <2>2, <2>3 DEF IInv
  <1>. QED BY <1>1, <1>2, <1>3 DEF Validate

LEMMA RunKeepsInv == ASSUME IInv, RunEnds PROVE IInv'
  <1>1. ASSUME NEW passed \in SUBSET Tests, NEW load \in BOOLEAN, RunRegresses(passed, load)
        PROVE  IInv'
    <2>1. retained \in ran
      BY <1>1 DEF IInv, TypeOK, Provenance, RunRegresses, Regressed
    <2>2. role' \in {"writer", "bug-fixer"}
      BY <1>1 DEF RunRegresses, RepairRoles
    <2>. QED BY <1>1, <2>1, <2>2, RejectKeepsInv
             DEF IInv, TypeOK, NothingPassedIsLost, RunRegresses
  <1>2. ASSUME NEW passed \in SUBSET Tests, NEW load \in BOOLEAN, RunFails(passed, load)
        PROVE  IInv'
    <2>1. code \in ran /\ retained' = code
      BY <1>2 DEF IInv, Provenance, RunFails, Keep
    <2>2. kept' \subseteq passing' /\ passing' \subseteq Tests
      BY <1>2 DEF IInv, NothingPassedIsLost, RunFails, Keep, Regressed
    <2>3. role' \in {"writer", "bug-fixer"}
      BY <1>2 DEF RunFails, RepairRoles
    <2>. QED BY <1>2, <2>1, <2>2, <2>3, RejectKeepsInv DEF IInv, TypeOK, RunFails, Keep
  <1>3. ASSUME NEW passed \in SUBSET Tests, RunPasses(passed) PROVE IInv'
    <2>1. kept' \subseteq passing' /\ passing' \subseteq Tests
      BY <1>3 DEF IInv, NothingPassedIsLost, RunPasses, Keep, Regressed
    <2>2. TypeOK'
      BY <1>3, <2>1 DEF IInv, TypeOK, RunPasses, Keep, PcValues, Ended
    <2>3. StopsAtLimit' /\ RetriesAreCharged'
      BY <1>3 DEF IInv, StopsAtLimit, RetriesAreCharged, RunPasses
    <2>4. Provenance'
      BY <1>3 DEF IInv, Provenance, Reviewed, RunPasses, Keep
    <2>. QED BY <2>1, <2>2, <2>3, <2>4 DEF IInv, NothingPassedIsLost
  <1>. QED BY <1>1, <1>2, <1>3 DEF RunEnds

LEMMA ReviewKeepsInv == ASSUME IInv, Review PROVE IInv'
  <1>1. CASE ReviewFindsIssues
    BY <1>1, RejectKeepsInv DEF IInv, TypeOK, NothingPassedIsLost, Provenance, ReviewFindsIssues
  <1>2. CASE ReviewUnavailable
    BY <1>2, RejectKeepsInv DEF IInv, TypeOK, NothingPassedIsLost, Provenance, ReviewUnavailable
  <1>3. CASE Approve
    <2>1. TypeOK' /\ StopsAtLimit' /\ RetriesAreCharged' /\ NothingPassedIsLost'
      BY <1>3 DEF IInv, TypeOK, StopsAtLimit, RetriesAreCharged, NothingPassedIsLost,
                  Approve, PcValues, Ended
    <2>2. Provenance'
      BY <1>3 DEF IInv, Provenance, Approve
    <2>. QED BY <2>1, <2>2 DEF IInv
  <1>. QED BY <1>1, <1>2, <1>3 DEF Review

LEMMA OutsideKeepsInv == ASSUME IInv, StageError \/ Cancel \/ SourceChanges PROVE IInv'
  <1>1. TypeOK'
    <2>1. CASE StageError
      BY <2>1 DEF IInv, TypeOK, StageError, PcValues, Ended
    <2>2. CASE Cancel
      BY <2>2 DEF IInv, TypeOK, Cancel
    <2>3. CASE SourceChanges
      BY <2>3 DEF IInv, TypeOK, SourceChanges
    <2>. QED BY <2>1, <2>2, <2>3
  <1>2. StopsAtLimit' /\ RetriesAreCharged' /\ NothingPassedIsLost'
    BY DEF IInv, StopsAtLimit, RetriesAreCharged, NothingPassedIsLost,
           StageError, Cancel, SourceChanges
  <1>3. Provenance'
    BY DEF IInv, Provenance, Reviewed, StageError, Cancel, SourceChanges, Ended
  <1>. QED BY <1>1, <1>2, <1>3 DEF IInv

LEMMA InvIsInductive == IInv /\ [Next]_vars => IInv'
  <1>. SUFFICES ASSUME IInv, [Next]_vars PROVE IInv'
    OBVIOUS
  <1>1. CASE BeginAttempt
    BY <1>1, BeginKeepsInv
  <1>2. CASE Revise
    BY <1>2, ReviseKeepsInv
  <1>3. CASE Validate
    BY <1>3, ValidateKeepsInv
  <1>4. CASE RunEnds
    BY <1>4, RunKeepsInv
  <1>5. CASE Review
    BY <1>5, ReviewKeepsInv
  <1>6. CASE StageError \/ Cancel \/ SourceChanges
    BY <1>6, OutsideKeepsInv
  <1>7. CASE UNCHANGED vars
    BY <1>7 DEF vars, IInv, TypeOK, StopsAtLimit, RetriesAreCharged, NothingPassedIsLost,
                Provenance, Reviewed
  <1>. QED BY <1>1, <1>2, <1>3, <1>4, <1>5, <1>6, <1>7 DEF Next, Loop

LEMMA InvHolds == Spec => []IInv
  BY InitEstablishesInv, InvIsInductive, PTL DEF Spec

-----------------------------------------------------------------------------
(* The failure count stays within its limit, the budget is never overdrawn. *)
THEOREM TypeCorrect == Spec => []TypeOK
  <1>1. IInv => TypeOK
    BY DEF IInv
  <1>. QED BY <1>1, InvHolds, PTL

(* RepairFeedback.record and retainedCode together never drop a test that   *)
(* passed in a kept run, over any sequence of repairs and regressions.      *)
THEOREM PassedTestsStay == Spec => []NothingPassedIsLost
  <1>1. IInv => NothingPassedIsLost
    BY DEF IInv
  <1>. QED BY <1>1, InvHolds, PTL

(* TargetStopPolicy ends the call at its limit, in whichever layer the last *)
(* failure is met.                                                          *)
THEOREM LimitEndsTheCall == Spec => []StopsAtLimit
  <1>1. IInv => StopsAtLimit
    BY DEF IInv
  <1>. QED BY <1>1, InvHolds, PTL

(* No iteration of validateTestCandidate is repeated uncharged.             *)
THEOREM EveryRetryCharged == Spec => []RetriesAreCharged
  <1>1. IInv => RetriesAreCharged
    BY DEF IInv
  <1>. QED BY <1>1, InvHolds, PTL

(* The role routing hands the Bug Fixer executed candidates only.           *)
THEOREM RepairsWhatRan == Spec => []BugFixerSeesARun
  <1>1. IInv => BugFixerSeesARun
    BY DEF IInv, Provenance, BugFixerSeesARun
  <1>. QED BY <1>1, InvHolds, PTL

-----------------------------------------------------------------------------
(* After a cancellation no step touches the results; after a source change  *)
(* none runs or checkpoints a candidate.                                    *)
LEMMA StopStep ==
    ASSUME [Next]_vars
    PROVE  /\ cancelled => UNCHANGED resultVars
           /\ stale => UNCHANGED <<file, executable, seedPending>>
  <1>1. CASE BeginAttempt
    BY <1>1 DEF BeginAttempt
  <1>2. CASE Revise
    BY <1>2 DEF Revise, ReplyRejected, ReplyRetried, RevisionUnusable, RevisionRepeats,
                RevisionArrives, RevisionOutOfScope
  <1>3. CASE Validate
    BY <1>3 DEF Validate, StructureRejected, AlreadyExecuted, StartRun
  <1>4. CASE RunEnds
    BY <1>4 DEF RunEnds, RunPasses, RunFails, RunRegresses
  <1>5. CASE Review
    BY <1>5 DEF Review, ReviewFindsIssues, ReviewUnavailable, Approve, Stopped
  <1>6. CASE StageError \/ Cancel \/ SourceChanges
    BY <1>6 DEF StageError, Cancel, SourceChanges
  <1>7. CASE UNCHANGED vars
    BY <1>7 DEF vars
  <1>. QED BY <1>1, <1>2, <1>3, <1>4, <1>5, <1>6, <1>7 DEF Next, Loop

(* Cancellation and source changes are final for the file, the checkpoint   *)
(* and the approval.                                                        *)
THEOREM StoppedStaysStopped == Spec => StopIsFinal
  <1>1. [Next]_vars => [ /\ cancelled => UNCHANGED resultVars
                         /\ stale => UNCHANGED <<file, executable, seedPending>> ]_vars
    BY StopStep
  <1>. QED BY <1>1, PTL DEF Spec, StopIsFinal

-----------------------------------------------------------------------------
LEMMA GateStart == Init => Gate!GateInit
  BY DEF Init, Reviewed, Gate!GateInit, Ended

LEMMA GateStep ==
    ASSUME IInv, [Next]_vars
    PROVE  [Gate!GateNext]_(Gate!gateVars)
  <1>. USE DEF Gate!gateVars, Reviewed
  <1>1. ASSUME UNCHANGED <<mode, file, ran, executable, approved>>, pc \notin Ended, pc' # "accepted"
        PROVE  [Gate!GateNext]_(Gate!gateVars)
    BY <1>1 DEF Gate!GateNext, Gate!Fail, Ended
  <1>2. CASE BeginAttempt
    BY <1>1, <1>2 DEF BeginAttempt, Ended
  <1>3. CASE Revise
    <2>1. UNCHANGED <<mode, file, ran, executable, approved>> /\ pc \notin Ended /\ pc' # "accepted"
      BY <1>3 DEF Revise, ReplyRejected, ReplyRetried, RevisionUnusable, RevisionRepeats,
                  RevisionArrives, RevisionOutOfScope, Reject, Ended
    <2>. QED BY <1>1, <2>1
  <1>4. CASE StructureRejected \/ AlreadyExecuted
    BY <1>1, <1>4 DEF StructureRejected, AlreadyExecuted, Reject, Ended
  <1>5. CASE StartRun
    <2>1. Gate!Try(code)
      BY <1>5 DEF StartRun, FirstExecution, Gate!Try, Ended
    <2>. QED BY <2>1 DEF IInv, TypeOK, Gate!GateNext
  <1>6. ASSUME NEW passed \in SUBSET Tests, NEW load \in BOOLEAN,
               RunFails(passed, load) \/ RunRegresses(passed, load)
        PROVE  [Gate!GateNext]_(Gate!gateVars)
    BY <1>1, <1>6 DEF RunFails, RunRegresses, Reject, Ended
  <1>7. ASSUME NEW passed \in SUBSET Tests, RunPasses(passed)
        PROVE  Gate!Checkpoint \/ Gate!Accept
    <2>1. file = code /\ file # NoCode /\ approved = NoCode
      BY <1>7, NoCodeIsNone DEF IInv, TypeOK, Provenance, RunPasses
    <2>2. CASE mode = "full"
      BY <1>7, <2>1, <2>2 DEF RunPasses, Gate!Checkpoint, Ended
    <2>3. CASE mode # "full"
      BY <1>7, <2>1, <2>3 DEF RunPasses, Gate!Accept, Ended
    <2>. QED BY <2>2, <2>3
  <1>8. CASE ReviewFindsIssues \/ ReviewUnavailable
    BY <1>1, <1>8 DEF ReviewFindsIssues, ReviewUnavailable, Reject, Ended
  <1>9. CASE Approve
    <2>1. file = code /\ file # NoCode /\ executable = file /\ mode = "full"
      BY <1>9, NoCodeIsNone DEF IInv, TypeOK, Provenance, Approve
    <2>2. Gate!Accept
      BY <1>9, <2>1 DEF Approve, Gate!Accept, Ended
    <2>. QED BY <2>2 DEF Gate!GateNext
  <1>10. CASE StageError \/ Cancel \/ SourceChanges
    BY <1>1, <1>10 DEF StageError, Cancel, SourceChanges, Ended
  <1>11. CASE UNCHANGED vars
    BY <1>11 DEF vars
  <1>. QED BY <1>2, <1>3, <1>4, <1>5, <1>6, <1>7, <1>8, <1>9, <1>10, <1>11
           DEF Next, Loop, Validate, RunEnds, Review, Gate!GateNext

(* The loop implements the gate: a candidate is run at most once, only a    *)
(* passing run is checkpointed, and what is accepted is the file, the       *)
(* checkpoint and, with a review, the approved text.                        *)
THEOREM ImplementsGate == Spec => GateRefinement
  <1>1. IInv /\ [Next]_vars => [Gate!GateNext]_(Gate!gateVars)
    BY GateStep
  <1>. QED BY <1>1, GateStart, InvHolds, PTL DEF Spec, GateRefinement, Gate!GateSpec
=============================================================================
