------------------------- MODULE BatchDispatchProofs -------------------------
(***************************************************************************)
(* What the run of BatchDispatch checks for three targets, proved for any  *)
(* number of targets and any failure limit.                                *)
(***************************************************************************)
EXTENDS BatchDispatch, FiniteSetTheorems, TLAPS

USE DEF targetVars, preflightVars

Early == {"discovering", "preflight", "deciding", "setup", "partition"}
Stopped == stage = "batch-failure-limit"
Failed == {t \in Targets : state[t] = "finished" /\ result[t] \in Counted}

(* How far the dispatch came: nothing starts early, what is behind `next'   *)
(* has ended, what is before it waits unless the limit was reached.         *)
Progress ==
    /\ pc \in Early => next = 1 /\ \A t \in Targets : state[t] = "pending" /\ result[t] = "none"
    /\ pc \in {"dispatch", "running"} =>
         \A t \in Targets :
            /\ t < next => state[t] # "pending"
            /\ t \notin loaded => state[t] = "finished"
            /\ t \in loaded /\ t > next /\ ~Stopped => state[t] = "pending"
    /\ pc = "dispatch" /\ next \in loaded /\ ~Stopped => state[next] = "pending"
    /\ pc = "running" => next \in loaded /\ state[next] = "running" /\ ~Stopped
    /\ outcome = "completed" => pc \in {"finishing", "done"}
    /\ outcome = "completed" => \A t \in Targets : state[t] # "pending"

(* States and results of a target agree.                                    *)
Agreement ==
    \A t \in Targets :
        /\ state[t] = "pending" => result[t] = "none"
        /\ state[t] = "finished" => result[t] \notin {"none", "incomplete-report"}
        /\ result[t] = "policy-not-run" => Stopped
        /\ Stopped => state[t] # "pending"
        /\ state[t] = "running" /\ ~(pc = "running" /\ t = next) => result[t] = "incomplete-report"

LimitHolds ==
    /\ Stopped => BatchFailureLimit > 0 /\ Cardinality(Failed) >= BatchFailureLimit
    /\ ~Stopped /\ BatchFailureLimit > 0 /\ pc # "done" => Cardinality(Failed) < BatchFailureLimit

IInv == TypeOK /\ Progress /\ Agreement /\ LimitHolds /\ NothingIsOverclaimed

-----------------------------------------------------------------------------
LEMMA FailedIsFinite == IsFiniteSet(Failed) /\ Cardinality(Failed) \in Nat
  <1>1. IsFiniteSet(Targets)
    BY SizesNat, FS_Interval DEF Targets
  <1>2. Failed \subseteq Targets
    BY DEF Failed
  <1>. QED BY <1>1, <1>2, FS_Subset, FS_CardinalityType

LEMMA InitEstablishesInv == Init => IInv
  <1>. SUFFICES ASSUME Init PROVE IInv
    OBVIOUS
  <1>1. TypeOK
    <2>1. next \in 1 .. N + 1
      BY SizesNat DEF Init
    <2>2. state \in [Targets -> {"pending", "running", "finished"}] /\ result \in [Targets -> Results]
      BY DEF Init, Results, RunResults
    <2>. QED BY <2>1, <2>2 DEF Init, TypeOK, PcValues, Outcomes
  <1>2. Progress /\ Agreement
    BY DEF Init, Progress, Agreement, Early, Stopped
  <1>3. LimitHolds
    <2>1. Failed = {}
      BY DEF Init, Failed
    <2>2. Cardinality(Failed) = 0
      BY <2>1, FS_EmptySet
    <2>. QED BY <2>2, SizesNat DEF Init, LimitHolds, Stopped
  <1>4. NothingIsOverclaimed
    BY DEF Init, NothingIsOverclaimed
  <1>. QED BY <1>1, <1>2, <1>3, <1>4 DEF IInv

-----------------------------------------------------------------------------
(* Steps that leave the targets and the limit's mark alone.                 *)
LEMMA QuietKeepsInv ==
    ASSUME IInv, UNCHANGED <<targetVars, cancelled>>, pc # "done", pc' # "done",
           pc' \in PcValues, outcome' \in Outcomes,
           stage' \in {"none", "batch-error", "batch-failure-limit"}, (Stopped <=> Stopped'),
           status' \in {"discovering", "running"} \cup {status}, loaded' \subseteq Targets,
           undiscovered' \in BOOLEAN, edited' \subseteq Targets,
           pc \in Early \/ UNCHANGED <<pc, loaded>> \/ (pc' = "finishing" /\ pc # "running"),
           pc \in Early => pc' \in Early \cup {"finishing"},
           outcome' = "completed" =>
             pc' = "finishing" /\ (pc = "finishing" => outcome = "completed")
             /\ (pc # "finishing" => \A t \in Targets : state[t] # "pending")
    PROVE  IInv'
  <1>1. TypeOK'
    BY DEF IInv, TypeOK
  <1>2. Progress'
    BY DEF IInv, Progress, Early, Stopped, PcValues
  <1>3. Agreement'
    BY DEF IInv, Agreement, Progress, Early, Stopped, PcValues
  <1>4. LimitHolds'
    BY DEF IInv, LimitHolds, Failed, Stopped
  <1>5. NothingIsOverclaimed'
    BY DEF NothingIsOverclaimed
  <1>. QED BY <1>1, <1>2, <1>3, <1>4, <1>5 DEF IInv

LEMMA EarlyKeepsInv ==
    ASSUME IInv, \/ Discover \/ ScopeDeclined \/ Preflight \/ ChooseContinue \/ ChooseSetup
                 \/ ChooseCancel \/ SetupEnds \/ Thrown \/ PartitionInvalid
    PROVE  IInv'
  <1>. USE DEF Early, PcValues, Outcomes
  <1>1. outcome # "completed" /\ pc \in Early
    BY DEF IInv, Progress, Discover, ScopeDeclined, Preflight, ChooseContinue,
           ChooseSetup, ChooseCancel, SetupEnds, Thrown, PartitionInvalid
  <1>2. CASE Discover
    BY <1>1, <1>2, QuietKeepsInv DEF Discover, IInv, TypeOK, Stopped
  <1>3. CASE ScopeDeclined \/ ChooseCancel \/ ChooseContinue \/ ChooseSetup \/ PartitionInvalid
    BY <1>1, <1>3, QuietKeepsInv DEF ScopeDeclined, ChooseCancel, ChooseContinue, ChooseSetup,
       PartitionInvalid, IInv, TypeOK, Stopped
  <1>4. CASE Preflight
    BY <1>1, <1>4, QuietKeepsInv DEF Preflight, IInv, TypeOK, Stopped
  <1>5. CASE SetupEnds
    BY <1>1, <1>5, QuietKeepsInv DEF SetupEnds, IInv, TypeOK, Stopped
  <1>6. CASE Thrown
    <2>1. ~Stopped
      <3>1. Stopped => BatchFailureLimit > 0 /\ Cardinality(Failed) >= BatchFailureLimit
        BY DEF IInv, LimitHolds
      <3>2. Failed = {}
        BY <1>1 DEF IInv, Progress, Failed
      <3>3. Cardinality(Failed) = 0
        BY <3>2, FS_EmptySet
      <3>. QED BY <3>1, <3>3, SizesNat
    <2>. QED BY <1>1, <1>6, <2>1, QuietKeepsInv DEF Thrown, IInv, TypeOK, Stopped
  <1>. QED BY <1>2, <1>3, <1>4, <1>5, <1>6

LEMMA OutsideKeepsInv ==
    ASSUME IInv, Cancel \/ \E t \in Targets : EditSource(t)
    PROVE  IInv'
  <1>1. /\ UNCHANGED <<pc, targetVars, preflightVars, outcome, stage, status>> /\ pc # "done"
        /\ edited' \subseteq Targets /\ cancelled' \in BOOLEAN
    BY DEF Cancel, EditSource, IInv, TypeOK
  <1>2. TypeOK'
    BY <1>1 DEF IInv, TypeOK
  <1>3. Progress' /\ Agreement'
    BY <1>1 DEF IInv, Progress, Agreement, Early, Stopped
  <1>4. LimitHolds'
    BY <1>1 DEF IInv, LimitHolds, Failed, Stopped
  <1>5. NothingIsOverclaimed'
    BY <1>1 DEF NothingIsOverclaimed
  <1>. QED BY <1>2, <1>3, <1>4, <1>5 DEF IInv

LEMMA PartitionKeepsInv == ASSUME IInv, Partition PROVE IInv'
  <1>. USE DEF Early
  <1>1. /\ pc = "partition" /\ pc' = IF loaded # {} THEN "dispatch" ELSE "finishing"
        /\ \A t \in Targets : state[t] = "pending" /\ result[t] = "none"
        /\ \A t \in Targets : /\ state'[t] = IF t \in loaded THEN "pending" ELSE "finished"
                              /\ result'[t] = IF t \in loaded THEN "none" ELSE "environment-blocked"
        /\ UNCHANGED <<next, preflightVars, stage, status, edited, cancelled>>
    BY DEF IInv, Progress, Partition
  <1>2. Failed = {} /\ Failed' = {}
    BY <1>1 DEF Failed, Counted
  <1>3. ~Stopped
    <2>1. Cardinality(Failed) = 0
      BY <1>2, FS_EmptySet
    <2>. QED BY <2>1, SizesNat DEF IInv, LimitHolds
  <1>4. TypeOK'
    <2>1. state' \in [Targets -> {"pending", "running", "finished"}] /\ result' \in [Targets -> Results]
      BY DEF IInv, TypeOK, Partition, Results
    <2>2. outcome' \in Outcomes /\ pc' \in PcValues
      BY <1>1 DEF IInv, TypeOK, Partition, Outcomes, PcValues
    <2>. QED BY <1>1, <2>1, <2>2 DEF IInv, TypeOK
  <1>5. next = 1
    BY <1>1 DEF IInv, Progress
  <1>6. Progress'
    <2>1. \A t \in Targets : ~(t < 1)
      BY DEF Targets
    <2>2. outcome' = "completed" => pc' = "finishing" /\ Targets = {}
      BY <1>1 DEF Partition, IInv, Progress
    <2>3. loaded \subseteq Targets
      BY DEF IInv, TypeOK
    <2>. QED BY <1>1, <1>3, <1>5, <2>1, <2>2, <2>3 DEF Progress, Stopped
  <1>7. Agreement'
    BY <1>1, <1>3 DEF Agreement, Stopped
  <1>8. LimitHolds'
    BY <1>1, <1>2, <1>3, FS_EmptySet, SizesNat DEF LimitHolds, Stopped
  <1>9. NothingIsOverclaimed'
    BY <1>1 DEF NothingIsOverclaimed
  <1>. QED BY <1>4, <1>6, <1>7, <1>8, <1>9 DEF IInv

-----------------------------------------------------------------------------
LEMMA SkipKeepsInv == ASSUME IInv, SkipBlocked PROVE IInv'
  <1>1. next \in Targets /\ next' = next + 1 /\ next \notin loaded /\ state[next] = "finished"
    BY DEF IInv, Progress, SkipBlocked
  <1>2. TypeOK'
    <2>1. next' \in 1 .. N + 1
      BY <1>1, SizesNat DEF Targets
    <2>. QED BY <2>1 DEF IInv, TypeOK, SkipBlocked
  <1>3. Progress'
    <2>1. \A t \in Targets : (t < next' => t < next \/ t = next) /\ (t > next' => t > next)
      BY <1>1 DEF Targets
    <2>2. next' \in loaded /\ ~Stopped => state[next'] = "pending"
      <3>1. next' \in loaded => next' \in Targets /\ next' > next
        BY <1>1 DEF IInv, TypeOK, Targets
      <3>. QED BY <3>1 DEF IInv, Progress, SkipBlocked
    <2>. QED BY <1>1, <2>1, <2>2 DEF IInv, Progress, Early, Stopped, SkipBlocked
  <1>4. Agreement' /\ LimitHolds' /\ NothingIsOverclaimed'
    BY DEF IInv, Agreement, LimitHolds, NothingIsOverclaimed, Failed, Stopped, SkipBlocked
  <1>. QED BY <1>2, <1>3, <1>4 DEF IInv

LEMMA BeginKeepsInv == ASSUME IInv, BeginTarget PROVE IInv'
  <1>1. /\ next \in Targets /\ next \in loaded /\ state[next] = "pending" /\ result[next] = "none"
        /\ ~Stopped /\ pc = "dispatch" /\ pc' = "running"
        /\ \A t \in Targets : state'[t] = IF t = next THEN "running" ELSE state[t]
        /\ UNCHANGED <<result, next, preflightVars, outcome, stage, status, cancelled>>
    BY DEF IInv, TypeOK, Progress, Agreement, Stopped, BeginTarget
  <1>2. TypeOK'
    <2>1. state' \in [Targets -> {"pending", "running", "finished"}]
      BY DEF IInv, TypeOK, BeginTarget
    <2>2. edited' \subseteq Targets
      BY DEF IInv, TypeOK, BeginTarget
    <2>. QED BY <1>1, <2>1, <2>2 DEF IInv, TypeOK, PcValues
  <1>3. Progress'
    BY <1>1 DEF IInv, Progress, Early, Stopped
  <1>4. Agreement'
    BY <1>1 DEF IInv, Agreement, Stopped
  <1>5. LimitHolds'
    <2>1. Failed' = Failed
      BY <1>1 DEF Failed
    <2>. QED BY <1>1, <2>1 DEF IInv, LimitHolds, Stopped
  <1>6. NothingIsOverclaimed'
    BY <1>1 DEF NothingIsOverclaimed
  <1>. QED BY <1>2, <1>3, <1>4, <1>5, <1>6 DEF IInv

LEMMA EndKeepsInv ==
    ASSUME IInv, NEW r \in RunResults, NEW damaged \in BOOLEAN, TargetEnds(r, damaged)
    PROVE  IInv'
  <1>. DEFINE shown == Refreshed(next, r, damaged)
              st == [state EXCEPT ![next] = StateAfter(shown)]
              res == [result EXCEPT ![next] = shown]
              failed == {t \in Targets : st[t] = "finished" /\ res[t] \in Counted}
  <1>1. /\ shown \in RunResults \cup {"source-changed", "incomplete-report"}
        /\ StateAfter(shown) = IF shown = "incomplete-report" THEN "running" ELSE "finished"
    BY DEF Refreshed, PassRecomputed, StateAfter
  <1>2. /\ pc = "running" /\ pc' = "dispatch" /\ next' = next + 1 /\ StopDispatch(st, res)
        /\ UNCHANGED <<preflightVars, outcome, status, edited, cancelled>>
    BY DEF TargetEnds
  <1>3. next \in Targets /\ next \in loaded /\ ~Stopped
    BY <1>2 DEF IInv, TypeOK, Progress
  <1>4. /\ st \in [Targets -> {"pending", "running", "finished"}] /\ res \in [Targets -> Results]
        /\ \A t \in Targets : /\ st[t] = IF t = next THEN StateAfter(shown) ELSE state[t]
                              /\ res[t] = IF t = next THEN shown ELSE result[t]
    BY <1>1, <1>3 DEF IInv, TypeOK, Results, RunResults
  <1>5. LimitReached(st, res) <=> BatchFailureLimit > 0 /\ Cardinality(failed) >= BatchFailureLimit
    BY DEF LimitReached, Failures
  <1>. HIDE DEF st, res, shown
  <1>6. /\ Stopped' <=> LimitReached(st, res)
        /\ \A t \in Targets :
             /\ state'[t] = IF LimitReached(st, res) /\ st[t] = "pending" THEN "finished" ELSE st[t]
             /\ result'[t] = IF LimitReached(st, res) /\ st[t] = "pending"
                             THEN "policy-not-run" ELSE res[t]
    BY <1>2, <1>3 DEF StopDispatch, Stopped
  <1>7. TypeOK'
    <2>1. state' \in [Targets -> {"pending", "running", "finished"}] /\ result' \in [Targets -> Results]
      BY <1>2, <1>4 DEF StopDispatch, Results
    <2>2. next' \in 1 .. N + 1
      BY <1>2, <1>3, SizesNat DEF Targets
    <2>3. stage' \in {"none", "batch-error", "batch-failure-limit"}
      BY <1>2 DEF StopDispatch, IInv, TypeOK
    <2>. QED BY <1>2, <2>1, <2>2, <2>3 DEF IInv, TypeOK, PcValues
  <1>8. \A t \in Targets : state'[t] = "pending" => state[t] = "pending" /\ t # next /\ ~Stopped'
    BY <1>1, <1>4, <1>6
  <1>9. Progress'
    <2>1. \A t \in Targets : (t < next' => t < next \/ t = next) /\ (t > next' => t > next)
      BY <1>2, <1>3 DEF Targets
    <2>2. next' \in loaded /\ ~Stopped' => state'[next'] = "pending"
      <3>1. next' \in loaded => next' \in Targets /\ next' > next /\ next' # next
        BY <1>2, <1>3 DEF IInv, TypeOK, Targets
      <3>. QED BY <1>2, <1>3, <1>4, <1>6, <3>1 DEF IInv, Progress
    <2>3. \A t \in Targets :
            /\ t < next' => state'[t] # "pending"
            /\ t \notin loaded => state'[t] = "finished"
            /\ t \in loaded /\ t > next' /\ ~Stopped' => state'[t] = "pending"
      <3>1. \A t \in Targets : t > next' => t # next
        BY <1>2, <1>3 DEF Targets
      <3>. QED BY <1>2, <1>3, <1>4, <1>6, <1>8, <2>1, <3>1 DEF IInv, Progress
    <2>. QED BY <1>2, <2>2, <2>3 DEF IInv, Progress, Early
  <1>10. Agreement'
    BY <1>1, <1>2, <1>3, <1>4, <1>6, <1>8 DEF IInv, Agreement, RunResults
  <1>11. LimitHolds'
    <2>1. Failed' = failed
      BY <1>4, <1>6 DEF Failed, Counted
    <2>2. Failed' = failed => Cardinality(Failed') = Cardinality(failed)
      OBVIOUS
    <2>3. IsFiniteSet(Failed') /\ Cardinality(Failed') \in Nat
      <3>1. IsFiniteSet(Targets)
        BY SizesNat, FS_Interval DEF Targets
      <3>2. Failed' \subseteq Targets
        BY DEF Failed
      <3>. QED BY <3>1, <3>2, FS_Subset, FS_CardinalityType
    <2>4. Stopped' <=> BatchFailureLimit > 0 /\ Cardinality(Failed') >= BatchFailureLimit
      BY <1>5, <1>6, <2>1
    <2>. QED BY <2>3, <2>4, SizesNat DEF LimitHolds
  <1>12. NothingIsOverclaimed'
    BY <1>2 DEF NothingIsOverclaimed
  <1>. QED BY <1>7, <1>9, <1>10, <1>11, <1>12 DEF IInv

LEMMA LeaveKeepsInv == ASSUME IInv, DispatchEnds \/ DispatchCancelled PROVE IInv'
  <1>1. /\ pc = "dispatch" /\ pc' = "finishing"
        /\ outcome' \in {"completed", outcome} /\ outcome # "completed"
        /\ UNCHANGED <<targetVars, preflightVars, stage, status, edited, cancelled>>
    BY DEF DispatchEnds, DispatchCancelled, IInv, Progress
  <1>2. outcome' = "completed" => \A t \in Targets : state[t] # "pending"
    <2>1. SUFFICES ASSUME DispatchEnds PROVE \A t \in Targets : state[t] # "pending"
      BY <1>1 DEF DispatchCancelled
    <2>2. CASE next > N
      <3>1. \A t \in Targets : t < next
        BY <2>2, SizesNat DEF Targets, IInv, TypeOK
      <3>. QED BY <1>1, <3>1 DEF IInv, Progress
    <2>3. CASE Stopped
      BY <2>3 DEF IInv, Agreement
    <2>. QED BY <2>1, <2>2, <2>3 DEF DispatchEnds, Stopped
  <1>3. TypeOK'
    BY <1>1 DEF IInv, TypeOK, PcValues, Outcomes
  <1>4. Progress'
    BY <1>1, <1>2 DEF Progress, Early
  <1>5. Agreement' /\ LimitHolds' /\ NothingIsOverclaimed'
    BY <1>1 DEF IInv, Agreement, LimitHolds, NothingIsOverclaimed, Failed, Stopped
  <1>. QED BY <1>3, <1>4, <1>5 DEF IInv

LEMMA FinishKeepsInv ==
    ASSUME IInv, NEW damaged \in SUBSET Targets, Finish(damaged)
    PROVE  IInv'
  <1>. DEFINE look(t) == Refreshed(t, "passed", t \in damaged)
  <1>1. /\ pc = "finishing" /\ pc' = "done"
        /\ UNCHANGED <<next, preflightVars, outcome, stage, edited, cancelled>>
        /\ status' = FinalStatus(IF cancelled THEN "cancelled" ELSE outcome, state', result')
    BY DEF Finish
  <1>2. \A t \in Targets :
          /\ result'[t] = IF result[t] = "passed" THEN look(t) ELSE result[t]
          /\ state'[t] = IF result[t] = "passed" THEN StateAfter(result'[t]) ELSE state[t]
    BY DEF Finish
  <1>3. \A t \in Targets :
          /\ look(t) \in {"incomplete-report", "source-changed", "passed"}
          /\ look(t) = "passed" => t \notin edited
    BY DEF Refreshed, PassRecomputed
  <1>4. TypeOK'
    <2>1. result' \in [Targets -> Results]
      BY <1>2, <1>3 DEF Finish, IInv, TypeOK, Results, RunResults
    <2>2. state' \in [Targets -> {"pending", "running", "finished"}]
      BY DEF Finish, StateAfter, IInv, TypeOK
    <2>3. /\ pc' \in PcValues
          /\ status' \in {"discovering", "running", "policy-stopped", "incomplete", "partial"} \cup Outcomes
      BY <1>1 DEF FinalStatus, PcValues, Outcomes, IInv, TypeOK
    <2>. QED BY <1>1, <2>1, <2>2, <2>3 DEF IInv, TypeOK
  <1>. HIDE DEF look
  <1>5. Progress'
    BY <1>1, <1>2 DEF IInv, Progress, Early, StateAfter
  <1>6. Agreement'
    BY <1>1, <1>2, <1>3 DEF IInv, Agreement, Stopped, StateAfter
  <1>7. LimitHolds'
    <2>1. Failed \subseteq Failed'
      BY <1>2 DEF Failed, Counted
    <2>2. IsFiniteSet(Failed')
      <3>1. IsFiniteSet(Targets)
        BY SizesNat, FS_Interval DEF Targets
      <3>2. Failed' \subseteq Targets
        BY DEF Failed
      <3>. QED BY <3>1, <3>2, FS_Subset
    <2>3. Cardinality(Failed) <= Cardinality(Failed')
      BY <2>1, <2>2, FS_Subset
    <2>4. Cardinality(Failed) \in Nat /\ Cardinality(Failed') \in Nat
      BY <2>2, FailedIsFinite, FS_CardinalityType
    <2>. QED BY <1>1, <2>3, <2>4, SizesNat DEF IInv, LimitHolds, Stopped
  <1>8. NothingIsOverclaimed'
    <2>1. ASSUME status' = "completed"
          PROVE  /\ ~undiscovered'
                 /\ \A t \in Targets : /\ state'[t] = "finished"
                                       /\ result'[t] \in {"passed", "quality", "skipped", "cancelled"}
      <3>1. /\ ~Stopped /\ ~undiscovered /\ \A t \in Targets : state'[t] = "finished"
            /\ \A t \in Targets :
                 result'[t] \notin {"failed", "source-changed", "blocked", "environment-blocked"}
        BY <1>1, <2>1 DEF FinalStatus, Stopped
      <3>2. \A t \in Targets : result'[t] \notin {"none", "incomplete-report", "policy-not-run"}
        BY <1>1, <1>6, <3>1 DEF Agreement, Stopped
      <3>. QED BY <1>1, <1>4, <3>1, <3>2 DEF TypeOK, Results, RunResults
    <2>2. \A t \in Targets : result'[t] = "passed" => t \notin edited'
      BY <1>1, <1>2, <1>3
    <2>. QED BY <2>1, <2>2 DEF NothingIsOverclaimed
  <1>. QED BY <1>4, <1>5, <1>6, <1>7, <1>8 DEF IInv

LEMMA StepKeepsInv == ASSUME IInv, [Next]_vars PROVE IInv'
  <1>1. CASE UNCHANGED vars
    BY <1>1 DEF vars, IInv, TypeOK, Progress, Agreement, LimitHolds, NothingIsOverclaimed,
                Failed, Stopped, Early
  <1>2. CASE Before
    BY <1>2, EarlyKeepsInv, PartitionKeepsInv DEF Before
  <1>3. CASE Dispatch
    BY <1>3, SkipKeepsInv, BeginKeepsInv, EndKeepsInv, LeaveKeepsInv DEF Dispatch
  <1>4. CASE \E damaged \in SUBSET Targets : Finish(damaged)
    BY <1>4, FinishKeepsInv
  <1>5. CASE Cancel \/ \E t \in Targets : EditSource(t)
    BY <1>5, OutsideKeepsInv
  <1>. QED BY <1>1, <1>2, <1>3, <1>4, <1>5 DEF Next, Program

LEMMA InvHolds == Spec => []IInv
  <1>. QED BY InitEstablishesInv, StepKeepsInv, PTL DEF Spec

-----------------------------------------------------------------------------
(* States and results of the targets, the queue and the batch's status.     *)
THEOREM TypeCorrect == Spec => []TypeOK
  <1>1. IInv => TypeOK
    BY DEF IInv
  <1>. QED BY <1>1, InvHolds, PTL

(* BatchJournal.finish looks at every pass again, and says completed only   *)
(* of a batch whose targets all ended without a failure or a block.         *)
THEOREM NoOverclaim == Spec => []NothingIsOverclaimed
  <1>1. IInv => NothingIsOverclaimed
    BY DEF IInv
  <1>. QED BY <1>1, InvHolds, PTL

(* A dispatch that came to its end left no target pending.                  *)
THEOREM AllAccountedFor == Spec => []EveryTargetIsAccountedFor
  <1>1. IInv => EveryTargetIsAccountedFor
    BY DEF IInv, Progress, EveryTargetIsAccountedFor
  <1>. QED BY <1>1, InvHolds, PTL

(* stopDispatch stops at exactly the configured number of failures.         *)
THEOREM LimitCounts == Spec => []LimitIsExact
  <1>1. IInv => LimitIsExact
    BY DEF IInv, LimitHolds, LimitIsExact, Failed, Counted, Stopped
  <1>. QED BY <1>1, InvHolds, PTL

LEMMA StartStep ==
    ASSUME IInv, [Next]_vars, NEW t \in Targets,
           state'[t] = "running", result'[t] # "incomplete-report", state[t] # "running"
    PROVE  state[t] = "pending" /\ t \in loaded /\ ~cancelled /\ ~LimitReached(state, result)
  <1>1. CASE BeginTarget
    <2>1. t = next /\ next \in loaded /\ state[next] = "pending" /\ ~Stopped
      BY <1>1 DEF BeginTarget, IInv, TypeOK, Progress, Stopped
    <2>2. ~LimitReached(state, result)
      <3>1. BatchFailureLimit > 0 => Cardinality(Failed) < BatchFailureLimit
        BY <1>1, <2>1 DEF BeginTarget, IInv, LimitHolds
      <3>2. Failures(state, result) = Cardinality(Failed)
        BY DEF Failures, Failed
      <3>. QED BY <3>1, <3>2, FailedIsFinite, SizesNat DEF LimitReached
    <2>. QED BY <1>1, <2>1, <2>2 DEF BeginTarget
  <1>2. ASSUME NEW r \in RunResults, NEW damaged \in BOOLEAN, TargetEnds(r, damaged)
        PROVE  FALSE
    <2>. DEFINE shown == Refreshed(next, r, damaged)
                st == [state EXCEPT ![next] = StateAfter(shown)]
                res == [result EXCEPT ![next] = shown]
    <2>1. next \in Targets /\ state[next] = "running"
      BY <1>2 DEF TargetEnds, IInv, TypeOK, Progress
    <2>2. t # next /\ st[t] = state[t]
      BY <2>1 DEF IInv, TypeOK
    <2>3. state'[t] \in {"finished", st[t]}
      BY <1>2 DEF TargetEnds, StopDispatch
    <2>. QED BY <2>2, <2>3
  <1>3. ASSUME NEW damaged \in SUBSET Targets, Finish(damaged)
        PROVE  FALSE
    BY <1>3 DEF Finish, StateAfter
  <1>4. CASE Partition
    BY <1>4 DEF Partition
  <1>5. CASE UNCHANGED state
    BY <1>5
  <1>6. \/ BeginTarget \/ Partition \/ UNCHANGED state
        \/ \E r \in RunResults, damaged \in BOOLEAN : TargetEnds(r, damaged)
        \/ \E damaged \in SUBSET Targets : Finish(damaged)
    <2>1. CASE Before
      BY <2>1 DEF Before, Discover, ScopeDeclined, Preflight, ChooseContinue, ChooseSetup,
                  ChooseCancel, SetupEnds, Thrown, PartitionInvalid
    <2>2. CASE Dispatch
      BY <2>2 DEF Dispatch, SkipBlocked, DispatchEnds, DispatchCancelled
    <2>3. CASE Cancel \/ \E s \in Targets : EditSource(s)
      BY <2>3 DEF Cancel, EditSource
    <2>4. CASE UNCHANGED vars
      BY <2>4 DEF vars
    <2>. QED BY <2>1, <2>2, <2>3, <2>4 DEF Next, Program
  <1>. QED BY <1>1, <1>2, <1>3, <1>4, <1>5, <1>6

(* runSequentially starts a target once, only if it loaded, and neither     *)
(* after a cancellation nor once the limit is reached.                      *)
THEOREM StartsOnce == Spec => StartsAreFinal
  <1>1. IInv /\ [Next]_vars =>
          [\A t \in Targets :
             state'[t] = "running" /\ result'[t] # "incomplete-report" /\ state[t] # "running" =>
               /\ state[t] = "pending" /\ t \in loaded /\ ~cancelled
               /\ ~LimitReached(state, result)]_vars
    BY StartStep
  <1>. QED BY <1>1, InvHolds, PTL DEF Spec, StartsAreFinal
=============================================================================
