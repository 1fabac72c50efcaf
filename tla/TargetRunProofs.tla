--------------------------- MODULE TargetRunProofs ---------------------------
(***************************************************************************)
(* What the run of TargetRun checks on a small instance, proved for any    *)
(* candidates, mutants, lines and limits.                                  *)
(***************************************************************************)
EXTENDS TargetRun, TLAPS

USE DEF attemptVars, candidateVars, taskVars, historyVars, focusVars, progressVars,
        journalVars, stopVars, Improving, SaveExecutable

Baselines == [code : CodeOrNone, tested : CodeOrNone, approval : CodeOrNone,
              survivors : SUBSET Mutants, missing : SUBSET CoverageGaps]
Over == pc \in {"ending", "done"}

(* The rounds fit their bounds, and so do the failures that pay for them.   *)
RoundBounds ==
    /\ loop - 1 <= failures
    /\ ~Over => loop <= MaxLoops
    /\ ~Over /\ pc \notin Improving => stalled < loop
    /\ pc \in Improving => loop < MaxLoops /\ loop <= failures /\ stalled <= loop

(* Where the texts come from: what is checkpointed was executed, what is    *)
(* being measured was approved, and an empty baseline closes nothing.       *)
Provenance ==
    /\ executable # NoCode => executable \in ran
    /\ pc = "running" => file \in ran
    /\ pc \in {"reviewing", "mutating"} => executable # NoCode
    /\ pc = "mutating" => approval = executable
    /\ ~HasBest => best = NoBaseline /\ pc \notin Improving
    /\ BaselineIsOneCandidate

(* The journal follows the baseline, and the file as soon as a round ends.  *)
Bookkeeping ==
    /\ HasBest => accepted = best.code
    /\ ~HasBest /\ ~Over => accepted = NoCode
    /\ scored \in {NoCode, best.code}
    /\ scored # NoCode => valid
    /\ valid /\ HasBest => scored = best.code
    /\ ~Over => valid
    /\ pc \in {"head"} \cup Improving \/ Over =>
         (HasBest => file = best.code /\ approval = best.approval)
    /\ Over /\ accepted # NoCode => accepted = file

(* The status is set on the way out, and true of the baseline.              *)
Statuses ==
    /\ ~Over => status = "running"
    /\ pc = "ending" /\ status = "running" => cancelled
    /\ pc = "done" => status # "running"
    /\ status = "passed" => HasBest /\ valid /\ Satisfied(Open(best))
    /\ status \in {"stagnated", "round-limit"} => HasBest /\ ~Satisfied(Open(best))
    /\ status = "retained-after-failure" => accepted # NoCode
    /\ status = "cancelled" => cancelled

IInv == TypeOK /\ RoundBounds /\ Provenance /\ Bookkeeping /\ Statuses

-----------------------------------------------------------------------------
(* A measurement that is taken has some survivors, and one that is refused  *)
(* is an error of the round like any other.                                 *)
LEMMA RoundCases ==
    ASSUME Round
    PROVE  \/ RoundFails \/ BeginRound \/ HeadCancelled \/ HeadStale \/ Rejected
           \/ Approve \/ RunnerReads
           \/ \E c \in Codes : Run(c)
           \/ \E gaps \in SUBSET CoverageGaps : RunPasses(gaps)
           \/ \E survivors \in SUBSET Mutants : Measured(survivors)
  <1>1. ASSUME NEW outcome \in [Mutants -> Outcomes], MeasurementTaken(outcome)
        PROVE  \E survivors \in SUBSET Mutants : Measured(survivors)
    <2>1. Survivors(outcome) \in SUBSET Mutants /\ Measured(Survivors(outcome))
      BY <1>1 DEF MeasurementTaken, Survivors
    <2>. QED BY <2>1
  <1>2. ASSUME NEW outcome \in [Mutants -> Outcomes], MeasurementRefused(outcome)
        PROVE  RoundFails
    BY <1>2 DEF MeasurementRefused, RoundFails, Rounds
  <1>. QED BY <1>1, <1>2 DEF Round

(* The steps of the quality phase: all but the choice of a focus leave it,  *)
(* and the baseline, alone.                                                 *)
LEMMA ImproveCases ==
    ASSUME Improve
    PROVE  /\ pc \in Improving
           /\ \/ \E f \in GapIds : FocusSelected(f)
              \/ ImprovingFails
              \/ /\ \/ pc' = "asking" /\ UNCHANGED loop
                    \/ pc' = "head" /\ loop' = loop + 1
                    \/ pc' = "ending" /\ cancelled /\ UNCHANGED loop
                 /\ UNCHANGED <<failures, ran, candidateVars, best, focusVars, progressVars,
                                journalVars, stopVars>>
  BY DEF Improve, FocusSelected, Experimented, Asked, FocusFails, NextRound,
         ImprovingCancelled, ImprovingFails

LEMMA InitEstablishesInv == Init => IInv
  <1>. SUFFICES ASSUME Init PROVE IInv
    OBVIOUS
  <1>1. TypeOK
    <2>1. /\ loop \in 1 .. MaxLoops + 1 /\ failures \in 0 .. FailureLimit
          /\ tries \in 0 .. 1 /\ stalled \in 0 .. MaxLoops
      BY LimitsNat DEF Init
    <2>2. best \in Baselines
      BY DEF Init, NoBaseline, Baselines, CodeOrNone
    <2>3. pc \in PcValues /\ status \in StatusValues
      BY DEF Init, PcValues, StatusValues
    <2>4. /\ valid \in BOOLEAN /\ cancelled \in BOOLEAN /\ stale \in BOOLEAN
          /\ ran \subseteq Codes /\ missing \subseteq CoverageGaps
          /\ {file, executable, tested, accepted, approval, scored} \subseteq CodeOrNone
          /\ {pending, deferred, last} \subseteq GapIds \cup {NoFocus}
          /\ observed \subseteq GapIds \cup {NoFocus}
          /\ basis \subseteq {NotExecuted} /\ times \in Nat
      BY DEF Init, CodeOrNone
    <2>. QED BY <2>1, <2>2, <2>3, <2>4 DEF TypeOK, Baselines
  <1>2. RoundBounds
    BY LimitsNat DEF Init, RoundBounds, Over
  <1>3. Provenance
    BY DEF Init, Provenance, BaselineIsOneCandidate, HasBest, NoBaseline, Over
  <1>4. Bookkeeping /\ Statuses
    BY DEF Init, Bookkeeping, Statuses, HasBest, NoBaseline, Over
  <1>. QED BY <1>1, <1>2, <1>3, <1>4 DEF IInv

(* The catch of a round keeps everything but the journal and the file.      *)
LEMMA CatchKeepsInv ==
    ASSUME IInv, NEW reviewer \in BOOLEAN, CatchError(reviewer), pc \in Rounds,
           failures' \in 0 .. FailureLimit, failures' >= failures,
           UNCHANGED <<loop, ran, executable, missing, tested, best, focusVars,
                       progressVars, stopVars>>
    PROVE  IInv'
  <1>1. TypeOK'
    <2>1. status' \in StatusValues /\ pc' \in PcValues
      BY DEF CatchError, StatusValues, PcValues
    <2>2. {file', accepted', approval', scored'} \subseteq CodeOrNone
      BY DEF IInv, TypeOK, CatchError, Retained, HasBest, CodeOrNone
    <2>3. valid' \in BOOLEAN
      BY DEF IInv, TypeOK, CatchError
    <2>. QED BY <2>1, <2>2, <2>3 DEF IInv, TypeOK, CodeOrNone
  <1>2. RoundBounds'
    BY LimitsNat DEF IInv, TypeOK, RoundBounds, CatchError, Over
  <1>3. Provenance'
    BY DEF IInv, Provenance, BaselineIsOneCandidate, CatchError, HasBest, NoBaseline
  <1>4. Bookkeeping'
    <2>1. ~Over /\ valid /\ Over' /\ (HasBest' <=> HasBest)
      BY DEF IInv, Bookkeeping, Over, Rounds, CatchError, HasBest
    <2>2. CASE HasBest
      BY <2>1, <2>2 DEF IInv, Bookkeeping, CatchError, Retained, HasBest
    <2>3. CASE ~HasBest
      BY <2>1, <2>3 DEF IInv, Bookkeeping, CatchError, Retained, HasBest
    <2>. QED BY <2>2, <2>3
  <1>5. Statuses'
    BY DEF IInv, Statuses, Bookkeeping, CatchError, HasBest, Over, Rounds
  <1>. QED BY <1>1, <1>2, <1>3, <1>4, <1>5 DEF IInv

-----------------------------------------------------------------------------
(* Steps that leave the journal, the baseline and the checkpoint alone.     *)
LEMMA QuietKeepsInv ==
    ASSUME IInv,
           UNCHANGED <<loop, executable, best, progressVars, journalVars>>,
           failures' \in 0 .. FailureLimit, failures' >= failures,
           ran \subseteq ran', ran' \subseteq Codes,
           file' \in CodeOrNone, tested' \in CodeOrNone, missing' \subseteq CoverageGaps,
           UNCHANGED focusVars,
           cancelled' \in BOOLEAN, stale' \in BOOLEAN, cancelled => cancelled',
           pc \in Rounds \cup {"head"}, pc' \in Rounds,
           pc' = "running" => file' \in ran',
           pc' \in {"reviewing", "mutating"} => executable # NoCode,
           pc' = "mutating" => approval = executable
    PROVE  IInv'
  <1>1. TypeOK'
    BY DEF IInv, TypeOK, PcValues
  <1>2. RoundBounds'
    BY DEF IInv, TypeOK, RoundBounds, Over, Rounds
  <1>3. Provenance'
    BY DEF IInv, Provenance, BaselineIsOneCandidate, HasBest, Rounds, NoBaseline
  <1>4. Bookkeeping' /\ Statuses'
    BY DEF IInv, Bookkeeping, Statuses, HasBest, Over, Rounds, Satisfied, Open
  <1>. QED BY <1>1, <1>2, <1>3, <1>4 DEF IInv

LEMMA HeadKeepsInv == ASSUME IInv, BeginRound \/ HeadCancelled \/ HeadStale PROVE IInv'
  <1>1. CASE BeginRound
    BY <1>1, QuietKeepsInv DEF BeginRound, IInv, TypeOK, CodeOrNone, Rounds
  <1>2. CASE HeadCancelled
    <2>1. TypeOK' /\ RoundBounds'
      BY <1>2 DEF IInv, TypeOK, PcValues, RoundBounds, Over, HeadCancelled
    <2>2. Provenance'
      BY <1>2 DEF IInv, Provenance, BaselineIsOneCandidate, HasBest, HeadCancelled, NoBaseline
    <2>3. Bookkeeping' /\ Statuses'
      BY <1>2 DEF IInv, Bookkeeping, Statuses, HasBest, Over, HeadCancelled, Satisfied, Open
    <2>. QED BY <2>1, <2>2, <2>3 DEF IInv
  <1>3. CASE HeadStale
    <2>1. TypeOK'
      BY <1>3 DEF IInv, TypeOK, PcValues, StatusValues, CodeOrNone, HeadStale
    <2>2. RoundBounds' /\ Provenance'
      BY <1>3 DEF IInv, RoundBounds, Over, Provenance, BaselineIsOneCandidate, HasBest, HeadStale, NoBaseline
    <2>3. Bookkeeping' /\ Statuses'
      BY <1>3 DEF IInv, Bookkeeping, Statuses, HasBest, Over, HeadStale
    <2>. QED BY <2>1, <2>2, <2>3 DEF IInv
  <1>. QED BY <1>1, <1>2, <1>3

LEMMA CandidateKeepsInv ==
    ASSUME IInv, \/ RoundFails \/ Rejected \/ Approve \/ RunnerReads
                 \/ \E c \in Codes : Run(c) \/ EditFile(c)
                 \/ \E gaps \in SUBSET CoverageGaps : RunPasses(gaps)
    PROVE  IInv'
  <1>1. CASE RoundFails
    <2>1. PICK reviewer \in BOOLEAN : CatchError(reviewer)
      BY <1>1 DEF RoundFails
    <2>2. failures' \in 0 .. FailureLimit /\ failures' >= failures
      BY <1>1 DEF RoundFails, IInv, TypeOK
    <2>. QED BY <1>1, <2>1, <2>2, CatchKeepsInv DEF RoundFails
  <1>2. CASE Rejected
    <2>1. failures' \in 0 .. FailureLimit /\ failures' >= failures
      <3>1. failures \in 0 .. FailureLimit
        BY DEF IInv, TypeOK
      <3>2. failures' = failures + 1 /\ (failures' < FailureLimit \/ failures' = FailureLimit)
        BY <1>2 DEF Rejected
      <3>. QED BY <3>1, <3>2, LimitsNat
    <2>2. CASE CatchError(FALSE)
      <3>1. pc \in Rounds
        BY <1>2 DEF Rejected, Rounds
      <3>. QED BY <1>2, <2>1, <2>2, <3>1, CatchKeepsInv DEF Rejected
    <2>3. CASE UNCHANGED <<file, journalVars>> /\ pc' \in {"writing"} \cup ({"reviewing"} \cap {pc})
      <3>1. pc \in Rounds \cup {"head"} /\ pc' \in Rounds /\ pc' \notin {"running", "mutating"}
        BY <1>2, <2>3 DEF Rejected, Rounds
      <3>2. pc' = "reviewing" => executable # NoCode
        BY <2>3 DEF IInv, Provenance
      <3>3. tries' \in 0 .. 1
        BY <1>2 DEF Rejected, IInv, TypeOK
      <3>. QED BY <1>2, <2>1, <2>3, <3>1, <3>2, <3>3, QuietKeepsInv DEF Rejected, IInv, TypeOK, CodeOrNone
    <2>. QED BY <1>2, <2>2, <2>3 DEF Rejected
  <1>3. CASE Approve
    <2>1. TypeOK' /\ RoundBounds'
      BY <1>3 DEF IInv, TypeOK, PcValues, Rounds, CodeOrNone, RoundBounds, Over, Approve
    <2>2. Provenance'
      BY <1>3 DEF IInv, Provenance, BaselineIsOneCandidate, HasBest, Approve, NoBaseline
    <2>3. Bookkeeping' /\ Statuses'
      BY <1>3 DEF IInv, Bookkeeping, Statuses, HasBest, Over, Approve, Satisfied, Open
    <2>. QED BY <2>1, <2>2, <2>3 DEF IInv
  <1>4. CASE RunnerReads
    BY <1>4, QuietKeepsInv DEF RunnerReads, IInv, TypeOK, Provenance, Rounds, CodeOrNone
  <1>5. ASSUME NEW c \in Codes, Run(c) PROVE IInv'
    BY <1>5, QuietKeepsInv DEF Run, IInv, TypeOK, Rounds, CodeOrNone
  <1>6. ASSUME NEW c \in Codes, EditFile(c) PROVE IInv'
    BY <1>6, QuietKeepsInv DEF EditFile, IInv, TypeOK, Provenance, Rounds, CodeOrNone
  <1>7. ASSUME NEW gaps \in SUBSET CoverageGaps, RunPasses(gaps) PROVE IInv'
    <2>1. TypeOK' /\ RoundBounds'
      BY <1>7 DEF IInv, TypeOK, PcValues, Rounds, CodeOrNone, RoundBounds, Over, RunPasses
    <2>2. Provenance'
      BY <1>7, NoCodeIsNone DEF IInv, TypeOK, Provenance, BaselineIsOneCandidate, HasBest, RunPasses, NoBaseline
    <2>3. Bookkeeping' /\ Statuses'
      BY <1>7 DEF IInv, Bookkeeping, Statuses, HasBest, Over, RunPasses, Satisfied, Open
    <2>. QED BY <2>1, <2>2, <2>3 DEF IInv
  <1>. QED BY <1>1, <1>2, <1>3, <1>4, <1>5, <1>6, <1>7

-----------------------------------------------------------------------------
(* What is kept after a measurement: a candidate that was executed,         *)
(* approved and measured, and closes every gap its predecessor closed.      *)
LEMMA KeptFacts ==
    ASSUME IInv, NEW survivors \in SUBSET Mutants, pc = "mutating", Comparable
    PROVE  LET b == Kept(survivors)
           IN  /\ b \in Baselines /\ b.code # NoCode /\ b.code \in ran
               /\ b.tested = b.code /\ b.approval = b.code
               /\ Open(b) \subseteq Open(best)
  <1>. DEFINE measured == QualityCheckpoint(survivors)
  <1>1. /\ executable # NoCode /\ executable \in ran
        /\ approval = executable /\ tested = executable
    BY DEF IInv, Provenance, Comparable
  <1>2. measured \in Baselines
    BY DEF QualityCheckpoint, IInv, TypeOK, Baselines
  <1>3. best \in Baselines
    BY DEF IInv, TypeOK, Baselines
  <1>4. CASE NoWorse(measured)
    <2>1. Kept(survivors) = measured
      BY <1>4 DEF Kept
    <2>2. Open(measured) \subseteq Open(best)
      <3>1. CASE HasBest
        BY <1>4, <3>1 DEF NoWorse, QualityCheckpoint, Open
      <3>2. CASE ~HasBest
        BY <1>2, <3>2 DEF IInv, Provenance, NoBaseline, Open, Baselines
      <3>. QED BY <3>1, <3>2
    <2>. QED BY <1>1, <1>2, <2>1, <2>2 DEF QualityCheckpoint
  <1>5. CASE ~NoWorse(measured)
    <2>1. Kept(survivors) = best /\ HasBest
      BY <1>5 DEF Kept, NoWorse
    <2>. QED BY <1>3, <2>1 DEF IInv, Provenance, BaselineIsOneCandidate, HasBest
  <1>. QED BY <1>4, <1>5

LEMMA MeasuredKeepsInv ==
    ASSUME IInv, NEW survivors \in SUBSET Mutants, Measured(survivors)
    PROVE  IInv'
  <1>. DEFINE b == Kept(survivors)
  <1>1. /\ pc = "mutating" /\ Comparable
        /\ best' = b /\ file' = b.code /\ executable' = b.code /\ missing' = b.missing
        /\ FocusAfter(Open(b)) /\ AfterMeasurement(b)
        /\ accepted' = b.code /\ approval' = b.approval /\ scored' = b.code
        /\ UNCHANGED <<historyVars, ran, tested, valid, stopVars>>
    BY DEF Measured
  <1>2. /\ b \in Baselines /\ b.code # NoCode /\ b.code \in ran
        /\ b.tested = b.code /\ b.approval = b.code
        /\ Open(b) \subseteq Open(best)
    BY <1>1, KeptFacts
  <1>3. HasBest' /\ ~Over /\ valid
    BY <1>1, <1>2 DEF HasBest, Over, IInv, Bookkeeping
  <1>. HIDE DEF b
  <1>4. Open(b) \subseteq GapIds
    BY <1>2 DEF Baselines, Open, GapIds
  <1>5. /\ pc' \in {"ending", "improving"}
        /\ status' \in StatusValues
        /\ pc' = "improving" => status' = status
        /\ pc' = "ending" => status' \in {"passed", "retained-after-failure", "stagnated", "round-limit"}
        /\ status' = "passed" => Passes(b) \/ status = "passed"
        /\ status' \in {"stagnated", "round-limit"} => ~Passes(b) \/ status = status'
    BY <1>1 DEF IInv, TypeOK, AfterMeasurement, StatusValues
  <1>6. TypeOK'
    <2>1. loop' \in 1 .. MaxLoops + 1 /\ failures' \in 0 .. FailureLimit
      <3>1. loop \in 1 .. MaxLoops + 1 /\ failures \in 0 .. FailureLimit
        BY DEF IInv, TypeOK
      <3>2. /\ loop' = loop \/ (loop = MaxLoops /\ loop' = loop + 1)
            /\ \/ failures' = failures
               \/ failures' = failures + 1 /\ (failures' < FailureLimit \/ failures' = FailureLimit)
        BY <1>1 DEF AfterMeasurement, QualityCharge
      <3>. QED BY <3>1, <3>2, LimitsNat
    <2>2. observed' \subseteq GapIds \cup {NoFocus} /\ stalled' \in 0 .. MaxLoops
      <3>1. /\ stalled \in 0 .. MaxLoops /\ loop \in 1 .. MaxLoops + 1
            /\ stalled < loop /\ loop <= MaxLoops
            /\ observed \subseteq GapIds \cup {NoFocus}
        BY <1>1, <1>3 DEF IInv, TypeOK, RoundBounds
      <3>2. UNCHANGED progressVars \/ Observe(Open(b))
        BY <1>1 DEF AfterMeasurement
      <3>. QED BY <1>4, <3>1, <3>2, LimitsNat DEF Observe
    <2>3. /\ {pending', deferred', last'} \subseteq GapIds \cup {NoFocus}
          /\ tries' \in 0 .. 1 /\ basis' \subseteq {NotExecuted} /\ times' \in Nat
      <3>1. /\ {pending, deferred, last} \subseteq GapIds \cup {NoFocus}
            /\ tries \in 0 .. 1 /\ basis \subseteq {NotExecuted} /\ times \in Nat
        BY DEF IInv, TypeOK
      <3>. QED BY <1>1, <3>1 DEF FocusAfter, Basis, Measured
    <2>4. /\ {file', executable', accepted', approval', scored'} \subseteq CodeOrNone
          /\ missing' \subseteq CoverageGaps /\ best' \in Baselines
      BY <1>1, <1>2 DEF Baselines
    <2>5. /\ ran' \subseteq Codes /\ tested' \in CodeOrNone
          /\ valid' \in BOOLEAN /\ cancelled' \in BOOLEAN /\ stale' \in BOOLEAN
      BY <1>1 DEF IInv, TypeOK
    <2>6. pc' \in PcValues
      BY <1>5 DEF PcValues
    <2>. QED BY <1>5, <2>1, <2>2, <2>3, <2>4, <2>5, <2>6 DEF TypeOK, Baselines
  <1>7. RoundBounds'
    <2>1. /\ stalled \in 0 .. MaxLoops /\ loop \in 1 .. MaxLoops + 1 /\ failures \in 0 .. FailureLimit
          /\ stalled < loop /\ loop <= MaxLoops /\ loop - 1 <= failures
      BY <1>1, <1>3 DEF IInv, TypeOK, RoundBounds
    <2>2. \/ pc' = "ending" /\ loop' = loop /\ failures' = failures
          \/ /\ failures' = failures + 1
             /\ \/ pc' = "ending" /\ loop' = loop
                \/ pc' = "ending" /\ loop' = loop + 1
                \/ /\ pc' = "improving" /\ loop < MaxLoops /\ loop' = loop
                   /\ stalled' = 0 \/ stalled' = stalled + 1
      BY <1>1 DEF AfterMeasurement, QualityCharge, Observe
    <2>. QED BY <2>1, <2>2, LimitsNat DEF RoundBounds, Over
  <1>8. Provenance'
    BY <1>1, <1>2, <1>3, <1>5 DEF Provenance, BaselineIsOneCandidate, HasBest
  <1>9. Bookkeeping'
    BY <1>1, <1>2, <1>3, <1>5 DEF Bookkeeping, HasBest, Over
  <1>10. Statuses'
    <2>1. status = "running"
      BY <1>3 DEF IInv, Statuses
    <2>2. (Satisfied(Open(best)))' <=> Passes(b)
      BY <1>1 DEF Passes, Satisfied, Open
    <2>3. status' = "retained-after-failure" => accepted' # NoCode
      BY <1>1, <1>2
    <2>. QED BY <1>1, <1>3, <1>5, <2>1, <2>2, <2>3 DEF Statuses, Over
  <1>. QED BY <1>6, <1>7, <1>8, <1>9, <1>10 DEF IInv

-----------------------------------------------------------------------------
LEMMA ImproveKeepsInv == ASSUME IInv, Improve PROVE IInv'
  <1>1. pc \in Improving /\ ~Over /\ HasBest
    BY ImproveCases DEF IInv, Provenance, Over
  <1>2. ASSUME \/ pc' \in {"experimenting", "asking"} /\ UNCHANGED loop
               \/ pc' = "head" /\ loop' = loop + 1,
               {pending', deferred', last'} \subseteq GapIds \cup {NoFocus},
               basis' \subseteq {NotExecuted}, times' \in Nat,
               UNCHANGED <<failures, ran, candidateVars, best, tries, progressVars,
                           journalVars, stopVars>>
        PROVE  IInv'
    <2>1. loop \in 1 .. MaxLoops + 1 /\ loop < MaxLoops /\ (loop' = loop \/ loop' = loop + 1)
      BY <1>1, <1>2 DEF IInv, TypeOK, RoundBounds
    <2>2. TypeOK'
      <3>1. loop' \in 1 .. MaxLoops + 1
        BY <2>1, LimitsNat
      <3>2. pc' \in PcValues
        BY <1>2 DEF PcValues
      <3>. QED BY <1>2, <3>1, <3>2 DEF IInv, TypeOK
    <2>3. RoundBounds'
      BY <1>1, <1>2, LimitsNat DEF IInv, TypeOK, RoundBounds, Over
    <2>4. Provenance'
      BY <1>1, <1>2 DEF IInv, Provenance, BaselineIsOneCandidate, HasBest
    <2>5. Bookkeeping' /\ Statuses'
      BY <1>1, <1>2 DEF IInv, Bookkeeping, Statuses, HasBest, Over, Satisfied, Open
    <2>. QED BY <2>2, <2>3, <2>4, <2>5 DEF IInv
  <1>3. ASSUME NEW f \in GapIds, FocusSelected(f) PROVE IInv'
    <2>1. /\ {pending', deferred', last'} \subseteq GapIds \cup {NoFocus}
          /\ basis' \subseteq {NotExecuted} /\ times' \in Nat
      BY <1>3 DEF FocusSelected, BeginFocus, Basis, IInv, TypeOK
    <2>. QED BY <1>2, <1>3, <2>1 DEF FocusSelected
  <1>4. ASSUME pc' \in {"ending", "done"},
               pc' = "ending" => cancelled /\ UNCHANGED status,
               pc' = "done" => status' = "failed",
               UNCHANGED <<attemptVars, candidateVars, best, focusVars, progressVars,
                           accepted, approval, scored, valid, stopVars>>
        PROVE  IInv'
    <2>1. status' \in StatusValues
      BY <1>4 DEF IInv, TypeOK, StatusValues
    <2>2. TypeOK' /\ RoundBounds'
      BY <1>1, <1>4, <2>1, LimitsNat DEF IInv, TypeOK, RoundBounds, PcValues, Over
    <2>3. Provenance'
      BY <1>1, <1>4 DEF IInv, Provenance, BaselineIsOneCandidate, HasBest
    <2>4. Bookkeeping'
      BY <1>1, <1>4 DEF IInv, Bookkeeping, HasBest, Over
    <2>5. Statuses'
      BY <1>1, <1>4 DEF IInv, Statuses, HasBest, Over, Satisfied, Open
    <2>. QED BY <2>2, <2>3, <2>4, <2>5 DEF IInv
  <1>5. CASE ImprovingFails
    BY <1>4, <1>5 DEF ImprovingFails
  <1>6. CASE /\ \/ pc' = "asking" /\ UNCHANGED loop
                \/ pc' = "head" /\ loop' = loop + 1
                \/ pc' = "ending" /\ cancelled /\ UNCHANGED loop
             /\ UNCHANGED <<failures, ran, candidateVars, best, focusVars, progressVars,
                            journalVars, stopVars>>
    <2>1. /\ {pending', deferred', last'} \subseteq GapIds \cup {NoFocus}
          /\ basis' \subseteq {NotExecuted} /\ times' \in Nat
      BY <1>6 DEF IInv, TypeOK
    <2>. QED BY <1>2, <1>4, <1>6, <2>1
  <1>. QED BY <1>3, <1>5, <1>6, ImproveCases

LEMMA CloseKeepsInv == ASSUME IInv, Close PROVE IInv'
  <1>1. /\ pc = "ending" /\ pc' = "done"
        /\ status' = status \/ (cancelled /\ status' = "cancelled")
        /\ status = "running" => status' = "cancelled" /\ cancelled
        /\ UNCHANGED <<attemptVars, candidateVars, best, focusVars, progressVars,
                       accepted, approval, scored, valid, stopVars>>
    BY DEF Close, IInv, Statuses
  <1>2. TypeOK' /\ RoundBounds'
    BY <1>1 DEF IInv, TypeOK, RoundBounds, PcValues, StatusValues, Over
  <1>3. Provenance'
    BY <1>1 DEF IInv, Provenance, BaselineIsOneCandidate, HasBest, NoBaseline
  <1>4. Bookkeeping'
    BY <1>1 DEF IInv, Bookkeeping, HasBest, Over
  <1>5. Statuses'
    BY <1>1 DEF IInv, Statuses, HasBest, Over, Satisfied, Open
  <1>. QED BY <1>2, <1>3, <1>4, <1>5 DEF IInv

LEMMA OutsideKeepsInv == ASSUME IInv, Cancel \/ SourceChanges PROVE IInv'
  <1>1. /\ UNCHANGED <<pc, attemptVars, candidateVars, best, focusVars, progressVars, journalVars>>
        /\ cancelled' \in BOOLEAN /\ stale' \in BOOLEAN /\ (cancelled => cancelled')
    BY DEF Cancel, SourceChanges, IInv, TypeOK
  <1>2. TypeOK' /\ RoundBounds'
    BY <1>1 DEF IInv, TypeOK, RoundBounds, Over
  <1>3. Provenance'
    BY <1>1 DEF IInv, Provenance, BaselineIsOneCandidate, HasBest, NoBaseline
  <1>4. Bookkeeping'
    BY <1>1 DEF IInv, Bookkeeping, HasBest, Over
  <1>5. Statuses'
    BY <1>1 DEF IInv, Statuses, HasBest, Over, Satisfied, Open
  <1>. QED BY <1>2, <1>3, <1>4, <1>5 DEF IInv

LEMMA StepKeepsInv == ASSUME IInv, [Next]_vars PROVE IInv'
  <1>1. CASE UNCHANGED vars
    BY <1>1 DEF vars, IInv, TypeOK, RoundBounds, Provenance, BaselineIsOneCandidate,
                Bookkeeping, Statuses, HasBest, Over, Satisfied, Open
  <1>2. CASE Round
    <2>1. CASE BeginRound \/ HeadCancelled \/ HeadStale
      BY <2>1, HeadKeepsInv
    <2>2. CASE \/ RoundFails \/ Rejected \/ Approve \/ RunnerReads
               \/ \E c \in Codes : Run(c)
               \/ \E gaps \in SUBSET CoverageGaps : RunPasses(gaps)
      BY <2>2, CandidateKeepsInv
    <2>3. CASE \E survivors \in SUBSET Mutants : Measured(survivors)
      BY <2>3, MeasuredKeepsInv
    <2>. QED BY <1>2, <2>1, <2>2, <2>3, RoundCases
  <1>3. CASE Improve
    BY <1>3, ImproveKeepsInv
  <1>4. CASE Close
    BY <1>4, CloseKeepsInv
  <1>5. CASE Cancel \/ SourceChanges
    BY <1>5, OutsideKeepsInv
  <1>6. CASE \E c \in Codes : EditFile(c)
    BY <1>6, CandidateKeepsInv
  <1>. QED BY <1>1, <1>2, <1>3, <1>4, <1>5, <1>6 DEF Next, Program

LEMMA InvHolds == Spec => []IInv
  <1>. QED BY InitEstablishesInv, StepKeepsInv, PTL DEF Spec

-----------------------------------------------------------------------------
(* The types and the bounds of rounds, failures and focus attempts.         *)
THEOREM TypeCorrect == Spec => []TypeOK
  <1>1. IInv => TypeOK
    BY DEF IInv
  <1>. QED BY <1>1, InvHolds, PTL

(* What the mutation runner hashed, the native run executed and the         *)
(* Reviewer approved is the code of the quality checkpoint, under any edits *)
(* of the test file.                                                        *)
THEOREM BaselineIsWhatWasTested == Spec => []BaselineIsOneCandidate
  <1>1. IInv => BaselineIsOneCandidate
    BY DEF IInv, Provenance
  <1>. QED BY <1>1, InvHolds, PTL

(* currentLoop never runs ahead of TargetStopPolicy.failureCount.           *)
THEOREM FailuresPayForRounds == Spec => []RoundsAreCharged
  <1>1. IInv => RoundsAreCharged
    BY DEF IInv, RoundBounds, RoundsAreCharged
  <1>. QED BY <1>1, InvHolds, PTL

(* The journal's accepted test, approval, score and validity agree with the *)
(* file and the baseline, on every way out of the run.                      *)
THEOREM JournalAgrees == Spec => []JournalIsOneStory
  <1>1. IInv => JournalIsOneStory
    BY DEF IInv, Bookkeeping, Provenance, BaselineIsOneCandidate, HasBest, Over, JournalIsOneStory
  <1>. QED BY <1>1, InvHolds, PTL

(* The terminalStatus the journal ends with is true of the baseline.        *)
THEOREM StatusAgrees == Spec => []StatusIsTrue
  <1>1. IInv => StatusIsTrue
    BY DEF IInv, Statuses, StatusIsTrue, Over
  <1>. QED BY <1>1, InvHolds, PTL

-----------------------------------------------------------------------------
(* Only a measurement replaces the baseline.                                *)
LEMMA BestMoves ==
    ASSUME [Next]_vars, ~ \E survivors \in SUBSET Mutants : Measured(survivors)
    PROVE  UNCHANGED best
  <1>1. CASE Round
    BY <1>1, RoundCases DEF RoundFails, BeginRound, HeadCancelled, HeadStale, Rejected,
                            Run, RunPasses, Approve, RunnerReads
  <1>2. CASE Improve \/ Close
    BY <1>2, ImproveCases DEF FocusSelected, ImprovingFails, Close
  <1>3. CASE Cancel \/ SourceChanges \/ \E c \in Codes : EditFile(c)
    BY <1>3 DEF Cancel, SourceChanges, EditFile
  <1>4. CASE UNCHANGED vars
    BY <1>4 DEF vars
  <1>. QED BY <1>1, <1>2, <1>3, <1>4 DEF Next, Program

LEMMA GapStep == ASSUME IInv, [Next]_vars PROVE Open(best') \subseteq Open(best)
  <1>1. ASSUME NEW survivors \in SUBSET Mutants, Measured(survivors)
        PROVE  Open(best') \subseteq Open(best)
    <2>1. pc = "mutating" /\ Comparable /\ best' = Kept(survivors)
      BY <1>1 DEF Measured
    <2>. QED BY <2>1, KeptFacts
  <1>2. CASE UNCHANGED best
    BY <1>2
  <1>. QED BY <1>1, <1>2, BestMoves

(* The rollback of a round never reopens a gap: over any number of rounds   *)
(* the survivors and uncovered lines of the baseline only shrink.           *)
THEOREM BaselinesImprove == Spec => GapsOnlyClose
  <1>1. IInv /\ [Next]_vars => [Open(best') \subseteq Open(best)]_vars
    BY GapStep
  <1>. QED BY <1>1, InvHolds, PTL DEF Spec, GapsOnlyClose

(* The rotation of the tasks.  A task in hand is the one handed out last,   *)
(* one time more than it was judged at most; a task given up is deferred    *)
(* until another is chosen, and one no longer in hand is otherwise closed.  *)
InHand ==
    /\ last = pending
    /\ pending \in Open(best) \/ Stuck
    /\ pending \in CoverageGaps /\ ~Stuck => NotExecuted \notin Open(best)
    /\ \/ times <= tries + 1 /\ (pc = "improving" => times <= tries)
       \/ Open(best) \subseteq {last}
       \/ Stuck
NoneInHand ==
    /\ tries = 0
    /\ times <= 2 \/ Open(best) \subseteq {last}
    /\ last # NoFocus => deferred = last \/ last \notin Open(best)
Rotation == IF pending = NoFocus THEN NoneInHand ELSE InHand

(* Tasks are moved by a measurement and by the choice of a focus only.      *)
LEMMA TaskMoves ==
    ASSUME [Next]_vars
    PROVE  \/ \E survivors \in SUBSET Mutants : Measured(survivors)
           \/ \E f \in GapIds : FocusSelected(f)
           \/ UNCHANGED <<focusVars, best>> /\ (pc' = "improving" => pc = "improving")
  <1>1. CASE Round
    BY <1>1, RoundCases DEF RoundFails, CatchError, BeginRound, HeadCancelled, HeadStale,
                Rejected, Run, RunPasses, Approve, RunnerReads
  <1>2. CASE Improve \/ Close
    BY <1>2, ImproveCases DEF ImprovingFails, Close
  <1>3. CASE Cancel \/ SourceChanges \/ \E c \in Codes : EditFile(c)
    BY <1>3 DEF Cancel, SourceChanges, EditFile
  <1>4. CASE UNCHANGED vars
    BY <1>4 DEF vars
  <1>. QED BY <1>1, <1>2, <1>3, <1>4 DEF Next, Program

(* What a measurement makes of the task in hand.                            *)
LEMMA JudgedTask ==
    ASSUME IInv, Rotation, NEW survivors \in SUBSET Mutants, Measured(survivors)
    PROVE  Rotation'
  <1>. DEFINE gaps == Open(Kept(survivors))
  <1>1. /\ pc = "mutating" /\ FocusAfter(gaps) /\ UNCHANGED historyVars
        /\ Open(best') = gaps /\ gaps \subseteq Open(best)
    BY KeptFacts DEF Measured
  <1>2. tries \in 0 .. 1 /\ times \in Nat /\ basis \subseteq {NotExecuted}
    BY DEF IInv, TypeOK
  <1>. HIDE DEF gaps
  <1>3. CASE pending = NoFocus
    <2>1. UNCHANGED taskVars
      BY <1>1, <1>3 DEF FocusAfter
    <2>2. NoneInHand'
      BY <1>1, <1>2, <1>3, <2>1 DEF Rotation, NoneInHand
    <2>. QED BY <1>3, <2>1, <2>2 DEF Rotation
  <1>4. CASE pending # NoFocus /\ Verdict(gaps) = "unavailable"
    <2>1. UNCHANGED taskVars /\ InHand
      BY <1>1, <1>4 DEF FocusAfter, Rotation
    <2>2. Stuck
      <3>1. pending \in CoverageGaps /\ NotExecuted \in basis \cup gaps \cup {pending}
        BY <1>4 DEF Verdict, Uncomparable
      <3>. QED BY <1>1, <2>1, <3>1 DEF InHand, Stuck
    <2>3. InHand'
      BY <1>1, <2>1, <2>2 DEF InHand, Stuck
    <2>. QED BY <1>4, <2>1, <2>3 DEF Rotation
  <1>5. ASSUME pending # NoFocus, Verdict(gaps) # "unavailable"
        PROVE  /\ InHand /\ ~Stuck
               /\ pending \in CoverageGaps => NotExecuted \notin gaps
               /\ times <= tries + 1 \/ gaps \subseteq {last}
    <2>1. InHand /\ ~Stuck
      BY <1>5 DEF Rotation, Verdict, Uncomparable, Stuck
    <2>. QED BY <1>1, <2>1 DEF InHand
  <1>6. CASE pending # NoFocus /\ Verdict(gaps) = "resolved"
    <2>1. pending' = NoFocus /\ tries' = 0
      BY <1>1, <1>6 DEF FocusAfter
    <2>2. pending \notin gaps /\ last = pending
      BY <1>5, <1>6 DEF Verdict, InHand
    <2>3. NoneInHand'
      BY <1>1, <1>2, <1>5, <1>6, <2>1, <2>2 DEF NoneInHand
    <2>. QED BY <2>1, <2>3 DEF Rotation
  <1>7. CASE pending # NoFocus /\ Verdict(gaps) = "unchanged" /\ tries + 1 < 2
    <2>1. tries' = tries + 1 /\ basis' = Basis(gaps) /\ UNCHANGED <<pending, last, times>>
      BY <1>1, <1>2, <1>7 DEF FocusAfter
    <2>2. last = pending /\ pending \in gaps
      BY <1>5, <1>7 DEF InHand, Verdict
    <2>3. pending \in CoverageGaps => ~Stuck' /\ NotExecuted \notin gaps
      BY <1>5, <1>7, <2>1 DEF Basis, Stuck
    <2>4. times' <= tries' \/ gaps \subseteq {last}
      BY <1>2, <1>5, <1>7, <2>1
    <2>5. times' <= tries' + 1 \/ gaps \subseteq {last}
      BY <1>2, <2>1, <2>4
    <2>6. InHand'
      BY <1>1, <2>1, <2>2, <2>3, <2>4, <2>5 DEF InHand
    <2>. QED BY <1>7, <2>1, <2>6 DEF Rotation
  <1>8. CASE pending # NoFocus /\ Verdict(gaps) = "unchanged" /\ tries + 1 >= 2
    <2>1. pending' = NoFocus /\ tries' = 0 /\ deferred' = pending /\ last = pending
      BY <1>1, <1>2, <1>5, <1>8 DEF FocusAfter, InHand
    <2>2. times <= 2 \/ gaps \subseteq {last}
      BY <1>2, <1>5, <1>8
    <2>3. NoneInHand'
      BY <1>1, <2>1, <2>2 DEF NoneInHand
    <2>. QED BY <2>1, <2>3 DEF Rotation
  <1>9. Verdict(gaps) \in {"unavailable", "unchanged", "resolved"}
    BY DEF Verdict
  <1>10. tries + 1 < 2 \/ tries + 1 >= 2
    BY <1>2
  <1>. QED BY <1>3, <1>4, <1>6, <1>7, <1>8, <1>9, <1>10

(* The choice of a focus: the deferred gap only when it is the sole one.    *)
LEMMA ChosenTask ==
    ASSUME IInv, Rotation, NEW f \in GapIds, FocusSelected(f)
    PROVE  Rotation'
  <1>1. /\ pc' = "experimenting" /\ UNCHANGED <<best, tries>>
        /\ pending' = f /\ last' = f /\ times' = IF f = last THEN times + 1 ELSE 1
    BY DEF FocusSelected, BeginFocus
  <1>2. f # NoFocus /\ tries \in 0 .. 1 /\ times \in Nat
    BY GapsDiffer DEF IInv, TypeOK
  <1>3. CASE pending = NoFocus
    <2>1. f \in FocusPool /\ basis' = Basis(Open(best)) /\ NoneInHand
      BY <1>3 DEF FocusSelected, BeginFocus, Rotation
    <2>2. f \in Open(best)
      BY <2>1 DEF FocusPool
    <2>3. times' <= tries' + 1 \/ Open(best) \subseteq {f}
      <3>1. CASE Open(best) = {deferred}
        BY <2>1, <3>1 DEF FocusPool
      <3>2. CASE Open(best) # {deferred}
        <4>1. f # last
          BY <1>2, <2>1, <2>2, <3>2 DEF FocusPool, NoneInHand
        <4>. QED BY <1>1, <2>1, <4>1 DEF NoneInHand
      <3>. QED BY <3>1, <3>2
    <2>4. f \in CoverageGaps /\ ~Stuck' => NotExecuted \notin Open(best)
      BY <1>1, <2>1 DEF Stuck, Basis
    <2>5. InHand'
      BY <1>1, <2>2, <2>3, <2>4 DEF InHand, Open
    <2>. QED BY <1>1, <1>2, <2>5 DEF Rotation
  <1>4. CASE pending # NoFocus
    <2>1. f = pending /\ UNCHANGED basis /\ InHand
      BY <1>4 DEF FocusSelected, BeginFocus, Rotation
    <2>2. pc = "improving" /\ (Stuck' <=> Stuck) /\ times' = times + 1
      BY <1>1, <2>1 DEF FocusSelected, InHand, Stuck
    <2>3. times' <= tries' + 1 \/ Open(best) \subseteq {last} \/ Stuck
      BY <1>1, <1>2, <2>1, <2>2 DEF InHand
    <2>4. InHand'
      BY <1>1, <2>1, <2>2, <2>3 DEF InHand, Open
    <2>. QED BY <1>1, <1>2, <2>4 DEF Rotation
  <1>. QED BY <1>3, <1>4

LEMMA RotationStep == ASSUME IInv, Rotation, [Next]_vars PROVE Rotation'
  <1>1. CASE UNCHANGED <<focusVars, best>> /\ (pc' = "improving" => pc = "improving")
    BY <1>1 DEF Rotation, NoneInHand, InHand, Stuck, Open
  <1>. QED BY <1>1, TaskMoves, JudgedTask, ChosenTask

(* selectQualityFocus and the judgement after a rollback hand out open gaps *)
(* only, and none three times in a row while another is open; the exception *)
(* is a coverage task taken on tests that never invoked the target.         *)
THEOREM FocusStaysOpen == Spec => []FocusIsOpen
  <1>1. Init => Rotation
    BY DEF Init, Rotation, NoneInHand
  <1>2. IInv /\ Rotation => FocusIsOpen
    <2>. SUFFICES ASSUME IInv, Rotation PROVE FocusIsOpen
      OBVIOUS
    <2>1. tries \in 0 .. 1 /\ times \in Nat
      BY DEF IInv, TypeOK
    <2>2. CASE pending = NoFocus
      BY <2>1, <2>2 DEF Rotation, NoneInHand, FocusIsOpen
    <2>3. CASE pending # NoFocus
      BY <2>1, <2>3 DEF Rotation, InHand, FocusIsOpen
    <2>. QED BY <2>2, <2>3
  <1>. QED BY <1>1, <1>2, RotationStep, InvHolds, PTL DEF Spec

LEMMA StopStep ==
    ASSUME [Next]_vars, cancelled \/ stale
    PROVE  UNCHANGED <<best, executable>> /\ scored' \in {scored, NoCode}
  <1>1. CASE Round
    BY <1>1, RoundCases DEF RoundFails, CatchError, BeginRound, HeadCancelled, HeadStale, Rejected,
                Run, RunPasses, Approve, RunnerReads, Measured, Comparable
  <1>2. CASE Improve \/ Close
    BY <1>2, ImproveCases DEF FocusSelected, ImprovingFails, Close
  <1>3. CASE Cancel \/ SourceChanges \/ \E c \in Codes : EditFile(c)
    BY <1>3 DEF Cancel, SourceChanges, EditFile
  <1>4. CASE UNCHANGED vars
    BY <1>4 DEF vars
  <1>. QED BY <1>1, <1>2, <1>3, <1>4 DEF Next, Program

(* After a cancellation, and on a changed source, no step of the run        *)
(* publishes a checkpoint, a baseline or a score.                           *)
THEOREM NothingAfterStop == Spec => StoppedPublishesNothing
  <1>1. [Next]_vars => [cancelled \/ stale => /\ UNCHANGED <<best, executable>>
                                              /\ scored' \in {scored, NoCode}]_vars
    BY StopStep
  <1>. QED BY <1>1, PTL DEF Spec, StoppedPublishesNothing

-----------------------------------------------------------------------------
LEMMA BaselineStart == Init => Baseline!BaselineInit
  BY DEF Init, NoBaseline, Open, GapIds, Baseline!BaselineInit

LEMMA BaselineStep ==
    ASSUME IInv, [Next]_vars
    PROVE  [Baseline!BaselineNext]_(Baseline!baselineVars)
  <1>. USE DEF Baseline!baselineVars
  <1>1. ASSUME UNCHANGED <<ran, best>>, scored' \in {scored, NoCode}, pc # "done", pc' # "done"
        PROVE  [Baseline!BaselineNext]_(Baseline!baselineVars)
    BY <1>1 DEF Baseline!BaselineNext, Baseline!Withdraw, Open
  <1>2. ASSUME UNCHANGED <<ran, best, scored>>, pc # "done", pc' = "done",
               status' = "passed" => status = "passed"
        PROVE  [Baseline!BaselineNext]_(Baseline!baselineVars)
    <2>1. CASE status' = "passed"
      <3>1. scored = best.code /\ best.code # NoCode /\ Satisfied(Open(best))
        BY <1>2, <2>1 DEF IInv, Statuses, Bookkeeping, HasBest
      <3>2. Baseline!Finish(TRUE)
        BY <1>2, <2>1, <3>1 DEF Baseline!Finish, Open
      <3>. QED BY <3>2 DEF Baseline!BaselineNext
    <2>2. CASE status' # "passed"
      <3>1. Baseline!Finish(FALSE)
        BY <1>2, <2>2 DEF Baseline!Finish, Open
      <3>. QED BY <3>1 DEF Baseline!BaselineNext
    <2>. QED BY <2>1, <2>2
  <1>3. CASE RoundFails \/ BeginRound \/ HeadCancelled \/ HeadStale \/ Rejected \/ Approve \/ RunnerReads
    <2>1. UNCHANGED <<ran, best>> /\ scored' \in {scored, NoCode} /\ pc # "done" /\ pc' # "done"
      BY <1>3 DEF RoundFails, CatchError, BeginRound, HeadCancelled, HeadStale, Rejected, Approve,
                  RunnerReads, Rounds
    <2>. QED BY <1>1, <2>1
  <1>4. ASSUME NEW c \in Codes, Run(c) PROVE [Baseline!BaselineNext]_(Baseline!baselineVars)
    <2>1. Baseline!Execute(c)
      BY <1>4 DEF Run, Baseline!Execute, Open
    <2>. QED BY <2>1 DEF Baseline!BaselineNext
  <1>5. CASE \/ \E gaps \in SUBSET CoverageGaps : RunPasses(gaps)
             \/ \E c \in Codes : EditFile(c)
    <2>1. UNCHANGED <<ran, best>> /\ scored' \in {scored, NoCode} /\ pc # "done" /\ pc' # "done"
      BY <1>5 DEF RunPasses, EditFile
    <2>. QED BY <1>1, <2>1
  <1>6. ASSUME NEW survivors \in SUBSET Mutants, Measured(survivors)
        PROVE  [Baseline!BaselineNext]_(Baseline!baselineVars)
    <2>. DEFINE b == Kept(survivors)
    <2>1. /\ pc = "mutating" /\ Comparable /\ best' = b /\ scored' = b.code /\ UNCHANGED ran
          /\ AfterMeasurement(b)
      BY <1>6 DEF Measured
    <2>2. pc' # "done"
      BY <2>1 DEF AfterMeasurement
    <2>3. /\ b \in Baselines /\ b.code # NoCode /\ b.code \in ran
          /\ Open(b) \subseteq Open(best)
      BY <2>1, KeptFacts
    <2>. HIDE DEF b
    <2>4. b.code \in Codes
      BY <2>3 DEF Baselines, CodeOrNone, Open, GapIds
    <2>5. Baseline!Publish(b.code)
      BY <2>1, <2>2, <2>3 DEF Baseline!Publish, Open
    <2>. QED BY <2>4, <2>5 DEF Baseline!BaselineNext
  <1>7. CASE Improve /\ ~ImprovingFails
    <2>1. UNCHANGED <<ran, best>> /\ scored' \in {scored, NoCode} /\ pc # "done" /\ pc' # "done"
      BY <1>7, ImproveCases DEF FocusSelected
    <2>. QED BY <1>1, <2>1
  <1>8. CASE ImprovingFails
    BY <1>2, <1>8 DEF ImprovingFails
  <1>9. CASE Close
    <2>1. status' = "passed" => status = "passed"
      BY <1>9 DEF Close
    <2>. QED BY <1>2, <1>9, <2>1 DEF Close
  <1>10. CASE Cancel \/ SourceChanges
    <2>1. UNCHANGED <<ran, best>> /\ scored' \in {scored, NoCode} /\ pc # "done" /\ pc' # "done"
      BY <1>10 DEF Cancel, SourceChanges
    <2>. QED BY <1>1, <2>1
  <1>11. CASE UNCHANGED vars
    BY <1>11 DEF vars, Open
  <1>. QED BY <1>3, <1>4, <1>5, <1>6, <1>7, <1>8, <1>9, <1>10, <1>11, RoundCases
           DEF Next, Program

(* The run implements QualityBaseline: every published baseline is an       *)
(* executed candidate with no gap reopened, its score is published with it  *)
(* and only ever withdrawn, and passed is said of enough quality only.      *)
THEOREM ImplementsBaseline == Spec => BaselineRefinement
  <1>1. IInv /\ [Next]_vars => [Baseline!BaselineNext]_(Baseline!baselineVars)
    BY BaselineStep
  <1>. QED BY <1>1, BaselineStart, InvHolds, PTL DEF Spec, BaselineRefinement, Baseline!BaselineSpec
=============================================================================
