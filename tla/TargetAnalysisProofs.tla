------------------------ MODULE TargetAnalysisProofs ------------------------
(***************************************************************************)
(* Safety of the analysis of a target for every failure limit and any      *)
(* number of edits: no answer of a worker before the worker is over, a     *)
(* true report at every end, and no test published that was not run on the *)
(* sources there are.                                                      *)
(***************************************************************************)
EXTENDS TargetAnalysis, TLAPS

-----------------------------------------------------------------------------
(* The worker, whoever calls it.                                            *)

\* Where the call stands against the process and the lease.
CallInv ==
    /\ WorkerTypeOK
    /\ heirs => proc = "exited"
    /\ killing => reason # "none" /\ proc \in {"alive", "loaded", "exited"}
    /\ worker = "running" => outcome = "none" /\ proc # "none" /\ lease \in {"none", "held"}
    /\ worker = "closing" => /\ outcome = "none" /\ proc \in {"absent", "exited"} /\ ~heirs
                             /\ lease \in {"none", "held"}
    /\ worker = "disposing" => /\ outcome # "none" /\ proc \in {"absent", "exited"} /\ ~heirs
                               /\ ~killing /\ lease = "held"
                               /\ outcome \in {"ok", "bad"} => reason = "none"
    /\ worker = "idle" => /\ proc \in {"none", "absent", "exited"} /\ ~heirs /\ ~killing
                          /\ lease # "held" /\ (lease = "stuck" => outcome = "fault")
                          /\ outcome \in {"ok", "bad"} => reason = "none"
                          /\ outcome = "none" => proc = "none" /\ code = "bad" /\ reason = "none"
                                                 /\ lease = "none"
    /\ proc \in {"none", "absent", "alive", "loaded"} => code = "bad"
    /\ outcome = "ok" => code = "ok"
    /\ reason = "budget" \/ outcome = "budget" => late

\* The worker of this call has read the sources.
HasRead == proc = "loaded" \/ code = "ok" \/ outcome = "ok"

-----------------------------------------------------------------------------
(* The versions.  No content comes back, and a deleted file stays deleted;  *)
(* so what was read earlier and is there now was there all the time.        *)

NoLater(a, b) == a = b \/ (a # 0 /\ (b = 0 \/ a < b))

AllNoLater(a, b) == \A f \in Files : NoLater(a[f], b[f])

BeforeJournal == {"start", "complexity"}
BeforeEvidence == BeforeJournal \cup {"ast", "preflight"}
Ends == {"opening", "showing", "done"}

Versions ==
    /\ {sources, saw, versions} \subseteq [Files -> Nat] /\ {hash, parsed, edits} \subseteq Nat
    /\ \A f \in Files : sources[f] < edits + 2

Reading ==
    /\ HasRead => pc \in WorkerStages /\ AllNoLater(saw, sources)
    /\ pc \notin WorkerStages => worker = "idle" /\ outcome = "none"

\* What is bound at a stage is no later than what is bound after it.
Binding ==
    /\ pc \notin BeforeJournal \cup Ends => NoLater(hash, sources["target"])
    /\ pc = "ast" /\ HasRead => NoLater(hash, saw["target"])
    /\ pc \notin BeforeJournal \cup Ends \cup {"ast"} =>
          NoLater(hash, parsed) /\ NoLater(parsed, sources["target"])
    /\ pc \notin BeforeEvidence \cup Ends => AllNoLater(versions, sources)
    /\ pc \notin BeforeEvidence \cup Ends /\ HasRead => AllNoLater(versions, saw)

-----------------------------------------------------------------------------
(* What is written down at a stage, and what an end may say.                *)

\* The stages of the errors, but for a context that cannot be used.
Whys == {"cancelled", "target-budget", "source-changed", "failure-limit", "environment", "tool",
         "timeout", "pipeline", "ast-trace", "model-api", "role-qualification",
         "writer-qualification", "fixer-qualification", "candidate-replay",
         "execution-evidence", "repair-scope"}

\* What is said of a published result before the report was shown.
Held ==
    /\ status \in StatusValues \ {None} /\ error \in Whys \cup {None}
    /\ status = "execution-passed" => error = None
    /\ status = "cancelled" => cancelled
    /\ status = "source-changed" => sources # First
    /\ error = "target-budget" => late
    /\ ~Full => error = None

Records ==
    /\ opt \in Options
    /\ pc \in {"coverage", "planning", "supplement", "rounds"} => Full
    /\ pc \in BeforeJournal => status = None /\ report = None /\ attached = FALSE
    /\ pc \notin BeforeJournal \cup Ends => status = "running" /\ attached = opt.batch
    /\ pc \notin Ends => error = None
    /\ pc # "done" => stop = None
    /\ pc \in {"opening", "showing"} =>
          ~opt.batch /\ attached = FALSE /\ report = status /\ Held
    /\ ReportIsTrue

IInv == pc \in PcValues /\ CallInv /\ Versions /\ Reading /\ Binding

-----------------------------------------------------------------------------
(* The invariant holds at the start.                                        *)
LEMMA InitInv == Init => IInv
  <1> SUFFICES ASSUME Init PROVE IInv
    OBVIOUS
  <1>1. pc \in PcValues /\ pc = "start" /\ pc \notin WorkerStages
    BY DEF Init, PcValues, WorkerStages
  <1>2. CallInv
    BY DEF Init, NoWorker, CallInv, WorkerTypeOK, Reasons
  <1>3. Versions
    BY DEF Init, Versions, First, Nothing
  <1>4. Reading
    BY <1>1 DEF Init, NoWorker, Reading, HasRead
  <1>5. Binding
    BY <1>1 DEF Init, NoWorker, Binding, HasRead, BeforeJournal, BeforeEvidence
  <1> QED
    BY <1>1, <1>2, <1>3, <1>4, <1>5 DEF IInv

-----------------------------------------------------------------------------
(* A termination is recorded for a child that runs.                         *)
LEMMA TerminateStep ==
  ASSUME CallInv, NEW why \in Reasons, Terminate(why), UNCHANGED resources,
         cancelled' \in BOOLEAN, late' \in BOOLEAN, late => late', why = "budget" => late'
  PROVE  CallInv'
  <1>1. WorkerTypeOK'
    <2>1. killing' \in BOOLEAN
      BY DEF Terminate
    <2> QED
      BY <2>1 DEF CallInv, Terminate, WorkerTypeOK, childVars
  <1>2. /\ ~killing /\ worker = "running" /\ reason = "none"
        /\ proc \in {"absent", "alive", "loaded", "exited"}
    BY DEF CallInv, WorkerTypeOK, Terminate
  <1>3. (killing' => proc' \in {"alive", "loaded"}) /\ reason' # "none"
    BY DEF Terminate, childVars, Reasons
  <1> QED
    BY <1>1, <1>2, <1>3 DEF CallInv, Terminate, childVars

(* What happens to a worker keeps where it stands.                          *)
LEMMA WorkerSteps ==
  ASSUME CallInv,
         \/ Start \/ Load \/ Exit \/ Interrupted \/ WorkerSettles \/ HeirsLeave
         \/ CancelWorkers \/ Expires
  PROVE  CallInv'
  <1> USE DEF CallInv, WorkerTypeOK, Reasons, settingVars, callVars, childVars
  <1>1. CASE Start
    BY <1>1 DEF Start, Refused, Spawned
  <1>2. CASE Load
    BY <1>2 DEF Load
  <1>3. CASE Exit
    BY <1>3 DEF Exit
  <1>4. CASE Interrupted
    BY <1>4, TerminateStep DEF Interrupted
  <1>5. CASE Killed
    BY <1>5 DEF Killed
  <1>6. CASE SpawnFails
    BY <1>6 DEF SpawnFails
  <1>7. CASE Closed
    BY <1>7 DEF Closed
  <1>8. CASE Settled
    BY <1>8 DEF Settled
  <1>9. CASE Disposed
    BY <1>9 DEF Disposed
  <1>10. CASE HeirsLeave
    BY <1>10 DEF HeirsLeave
  <1>11. CASE CancelWorkers
    <2>1. CASE worker = "running" /\ reason = "none"
      BY <1>11, <2>1, TerminateStep DEF CancelWorkers
    <2>2. CASE ~(worker = "running" /\ reason = "none")
      BY <1>11, <2>2 DEF CancelWorkers
    <2> QED
      BY <2>1, <2>2
  <1>12. CASE Expires
    BY <1>12 DEF Expires
  <1> QED
    BY <1>1, <1>2, <1>3, <1>4, <1>5, <1>6, <1>7, <1>8, <1>9, <1>10, <1>11, <1>12 DEF WorkerSettles

(* Taking the answer leaves no call.                                        *)
LEMMA ConsumeStep ==
  ASSUME CallInv, Consume, UNCHANGED settingVars
  PROVE  CallInv'
  BY DEF CallInv, WorkerTypeOK, Consume, settingVars

-----------------------------------------------------------------------------
(* What a step of the analysis itself may do: go on to a later stage, with  *)
(* what it binds there, or to an end.                                       *)

Onward ==
    /\ pc' \in PcValues
    /\ IF pc \in BeforeJournal
       THEN /\ UNCHANGED <<parsed, versions>>
            /\ \/ hash' = hash /\ pc' \in Ends \cup {"complexity"}
               \/ hash' = sources["target"] /\ pc' \in Ends \cup {"ast"}
       ELSE /\ hash' = hash
            /\ pc' \in Ends \/ (pc \notin Ends /\ pc' \notin BeforeJournal \cup {"ast"})
            /\ IF pc = "ast"
               THEN /\ versions' = versions /\ parsed' = saw["target"]
                    /\ pc' \in Ends \/ (pc' = "preflight" /\ outcome = "ok")
               ELSE /\ parsed' = parsed
                    /\ IF pc = "preflight"
                       THEN /\ versions' = saw
                            /\ pc' \in Ends \/ (pc' # "preflight" /\ outcome = "ok")
                       ELSE versions' = versions /\ pc' # "preflight"

Moves ==
    /\ UNCHANGED <<settingVars, opt, sourceVars, saw>>
    /\ \/ pc \in WorkerStages /\ worker = "idle" /\ Consume
       \/ pc \notin WorkerStages /\ UNCHANGED workerVars
    /\ Onward

\* To an end, or to a stage behind the evidence.
Continues == UNCHANGED evidenceVars /\ pc' \in PcValues \ BeforeEvidence

LEMMA ContinuesOnward ==
  ASSUME Continues, pc \notin BeforeEvidence \cup Ends
  PROVE  Onward
  BY DEF Continues, Onward, BeforeEvidence, BeforeJournal, Ends, evidenceVars

LEMMA EndingOnward ==
  ASSUME UNCHANGED evidenceVars, pc' \in Ends, pc \in Ends
  PROVE  Onward
  BY DEF Onward, BeforeEvidence, BeforeJournal, Ends, evidenceVars, PcValues

LEMMA TakenMoves ==
  ASSUME NEW stage \in WorkerStages, Taken(stage), Onward
  PROVE  Moves
  BY DEF Taken, Moves, Answered, sourceVars, settingVars

LEMMA RepliedMoves ==
  ASSUME NEW role \in Requests, Replied(role), Onward
  PROVE  Moves
  <1>1. role \notin WorkerStages
    BY DEF Requests, WorkerStages
  <1> QED
    BY <1>1 DEF Replied, Moves, workerVars, sourceVars, settingVars

(* A failure ends the analysis, a settled end too.                          *)
LEMMA FailEnds ==
  /\ \A why : Fail(why) => pc' = "done"
  /\ \A reached, thrown : Publish(reached, thrown) => pc' \in Ends
  /\ \A reached, thrown : Settle(reached, thrown) => pc' = "done"
  /\ \A stage : Go(stage) => pc' = stage
  BY DEF Fail, Publish, Settle, Go, Ends

LEMMA ProgramShape ==
  ASSUME pc \in PcValues, Program
  PROVE  StartWorker \/ Moves
  <1> DEFINE Later == PcValues \ BeforeEvidence
  <1>0. /\ {"rounds", "mocks", "planning", "writing", "revising", "supplement", "validating",
             "calling", "testing", "hints", "scope", "coverage", "trace", "callers", "dependency"} \subseteq Later
        /\ Ends \subseteq Later /\ "done" \in Ends
        /\ {"preflight", "ast", "complexity"} \subseteq PcValues \ Ends
    BY DEF PcValues, BeforeEvidence, BeforeJournal, Ends, WorkerStages, Requests
  <1> USE FailEnds, <1>0
  <1>1. CASE Begin
    <2>1. Onward
      BY <1>1 DEF Begin, IfGoing, Open, CreateDirectory, CreateJournal, ContextRefused, Onward,
             BeforeJournal
    <2> QED
      BY <1>1, <2>1 DEF Begin, Moves, WorkerStages, sourceVars, workerVars, settingVars
  <1>2. CASE Skip
    <2>1. Onward
      BY <1>2 DEF Skip, Onward, BeforeJournal, evidenceVars
    <2> QED
      BY <1>2, <2>1 DEF Skip, Moves, WorkerStages, sourceVars, workerVars, settingVars
  <1>3. CASE Assessed
    <2>1. Onward
      BY <1>3 DEF Assessed, Open, CreateDirectory, CreateJournal, ContextRefused, Onward,
             BeforeJournal, Taken
    <2> QED
      BY <1>3, <2>1, TakenMoves DEF Assessed, WorkerStages
  <1>4. CASE Parsed
    <2>1. Onward
      BY <1>4 DEF Parsed, Needed, Resolved, CheckEnvironment, IfGoing, Ended, Onward,
             BeforeJournal, Taken
    <2> QED
      BY <1>4, <2>1, TakenMoves DEF Parsed, WorkerStages
  <1>5. CASE Loaded
    <2>1. Onward
      BY <1>5 DEF Loaded, BindEvidence, Needed, IfGoing, Ended, Onward, BeforeEvidence,
             BeforeJournal, Taken
    <2> QED
      BY <1>5, <2>1, TakenMoves DEF Loaded, WorkerStages
  <1>6. CASE Depended
    <2>1. pc = "dependency" /\ pc \notin BeforeEvidence \cup Ends
      BY <1>6 DEF Depended, Taken, TakenPlainly, BeforeEvidence, BeforeJournal, Ends
    <2>2. Continues
      BY <1>6
      DEF Depended, Tolerated, Taken, TakenPlainly, Continues, evidenceVars
    <2> QED
      BY <1>6, <2>1, <2>2, ContinuesOnward, TakenMoves DEF Depended, TakenPlainly, WorkerStages
  <1>7. CASE Called
    <2>1. pc = "callers" /\ pc \notin BeforeEvidence \cup Ends
      BY <1>7 DEF Called, Taken, TakenPlainly, BeforeEvidence, BeforeJournal, Ends
    <2>2. Continues
      BY <1>7
      DEF Called, Tolerated, Collected, StubEnds, BeginExecution, IfGoing, Taken,
             TakenPlainly, Continues, evidenceVars
    <2> QED
      BY <1>7, <2>1, <2>2, ContinuesOnward, TakenMoves DEF Called, TakenPlainly, WorkerStages
  <1>8. CASE Traced
    <2>1. pc = "trace" /\ pc \notin BeforeEvidence \cup Ends
      BY <1>8 DEF Traced, Taken, TakenPlainly, BeforeEvidence, BeforeJournal, Ends
    <2>2. Continues
      BY <1>8
      DEF Traced, Tolerated, Collected, StubEnds, BeginExecution, IfGoing, Taken,
             TakenPlainly, Continues, evidenceVars
    <2> QED
      BY <1>8, <2>1, <2>2, ContinuesOnward, TakenMoves DEF Traced, TakenPlainly, WorkerStages
  <1>9. CASE Covered
    <2>1. pc = "coverage" /\ pc \notin BeforeEvidence \cup Ends
      BY <1>9 DEF Covered, Taken, TakenPlainly, BeforeEvidence, BeforeJournal, Ends
    <2>2. Continues
      BY <1>9
      DEF Covered, AskAnalyst, IfAllowed, IfCurrent, IfGoing, Taken, TakenPlainly,
             Continues, evidenceVars
    <2> QED
      BY <1>9, <2>1, <2>2, ContinuesOnward, TakenMoves DEF Covered, TakenPlainly, WorkerStages
  <1>10. CASE Planned
    <2>1. pc = "planning" /\ pc \notin BeforeEvidence \cup Ends
      BY <1>10 DEF Planned, Replied, BeforeEvidence, BeforeJournal, Ends
    <2>2. Continues
      BY <1>10
      DEF Planned, IfAllowed, IfCurrent, IfGoing, PlanTaken, ToTheRounds, Charge,
             Replied, Continues, evidenceVars
    <2> QED
      BY <1>10, <2>1, <2>2, ContinuesOnward, RepliedMoves DEF Planned, Requests
  <1>11. CASE Supplemented
    <2>1. pc = "supplement" /\ pc \notin BeforeEvidence \cup Ends
      BY <1>11 DEF Supplemented, Taken, TakenPlainly, BeforeEvidence, BeforeJournal, Ends
    <2>2. Continues
      BY <1>11
      DEF Supplemented, Tolerated, ToTheRounds, Taken, TakenPlainly, Continues,
             evidenceVars
    <2> QED
      BY <1>11, <2>1, <2>2, ContinuesOnward, TakenMoves
      DEF Supplemented, TakenPlainly, WorkerStages
  <1>12. CASE RoundsEnd
    <2>1. pc = "rounds" /\ pc \notin BeforeEvidence \cup Ends
      BY <1>12 DEF RoundsEnd, BeforeEvidence, BeforeJournal, Ends
    <2>2. Continues
      BY <1>12
      DEF RoundsEnd, Continues
    <2> QED
      BY <1>12, <2>1, <2>2, ContinuesOnward
      DEF RoundsEnd, Moves, WorkerStages, sourceVars, workerVars, settingVars
  <1>13. CASE Scaffolded
    <2>1. pc = "mocks" /\ pc \notin BeforeEvidence \cup Ends
      BY <1>13 DEF Scaffolded, Taken, TakenPlainly, BeforeEvidence, BeforeJournal, Ends
    <2>2. Continues
      BY <1>13
      DEF Scaffolded, HandOver, Generate, Attempt, FirstAttempt, Validate,
             StructureFails, Charge, NextAttempt, BeginRevision, IfAllowed, IfCurrent,
             IfGoing, Taken, TakenPlainly, Continues, evidenceVars
    <2> QED
      BY <1>13, <2>1, <2>2, ContinuesOnward, TakenMoves DEF Scaffolded, WorkerStages
  <1>14. CASE Written
    <2>1. pc = "writing" /\ pc \notin BeforeEvidence \cup Ends
      BY <1>14 DEF Written, Replied, BeforeEvidence, BeforeJournal, Ends
    <2>2. Continues
      BY <1>14
      DEF Written, FirstAttempt, Attempt, Validate, StructureFails, Charge, NextAttempt,
             BeginRevision, IfAllowed, IfCurrent, IfGoing, Replied, Continues, evidenceVars
    <2> QED
      BY <1>14, <2>1, <2>2, ContinuesOnward, RepliedMoves DEF Written, Requests
  <1>15. CASE Validated
    <2>1. pc = "validating" /\ pc \notin BeforeEvidence \cup Ends
      BY <1>15 DEF Validated, Taken, TakenPlainly, Judged, BeforeEvidence, BeforeJournal, Ends
    <2>2. Continues
      BY <1>15
      DEF Validated, Judged, Needed, Charge, NextAttempt, Attempt, BeginRevision,
             IfAllowed, IfCurrent, IfGoing, Taken, TakenPlainly, Continues, evidenceVars
    <2> QED
      BY <1>15, <2>1, <2>2, ContinuesOnward, TakenMoves DEF Validated, Judged, WorkerStages
  <1>16. CASE CallsChecked
    <2>1. pc = "calling" /\ pc \notin BeforeEvidence \cup Ends
      BY <1>16 DEF CallsChecked, Taken, TakenPlainly, Judged, BeforeEvidence, BeforeJournal, Ends
    <2>2. Continues
      BY <1>16
      DEF CallsChecked, Judged, Needed, Charge, NextAttempt, Attempt, BeginRevision,
             IfAllowed, IfCurrent, IfGoing, Taken, TakenPlainly, Continues, evidenceVars
    <2> QED
      BY <1>16, <2>1, <2>2, ContinuesOnward, TakenMoves DEF CallsChecked, Judged, WorkerStages
  <1>17. CASE Tested
    <2>1. pc = "testing" /\ pc \notin BeforeEvidence \cup Ends
      BY <1>17 DEF Tested, Taken, TakenPlainly, BeforeEvidence, BeforeJournal, Ends
    <2>2. Continues
      BY <1>17
      DEF Tested, Accept, Charge, NextAttempt, Attempt, BeginRevision, IfAllowed,
             IfCurrent, IfGoing, Taken, TakenPlainly, Continues, evidenceVars
    <2> QED
      BY <1>17, <2>1, <2>2, ContinuesOnward, TakenMoves DEF Tested, WorkerStages
  <1>18. CASE Hinted
    <2>1. pc = "hints" /\ pc \notin BeforeEvidence \cup Ends
      BY <1>18 DEF Hinted, Taken, TakenPlainly, BeforeEvidence, BeforeJournal, Ends
    <2>2. Continues
      BY <1>18
      DEF Hinted, BeginRevision, IfCurrent, IfGoing, Taken, TakenPlainly, Continues,
             evidenceVars
    <2> QED
      BY <1>18, <2>1, <2>2, ContinuesOnward, TakenMoves DEF Hinted, TakenPlainly, WorkerStages
  <1>19. CASE Revised
    <2>1. pc = "revising" /\ pc \notin BeforeEvidence \cup Ends
      BY <1>19 DEF Revised, Replied, BeforeEvidence, BeforeJournal, Ends
    <2>2. Continues
      BY <1>19
      DEF Revised, Validate, StructureFails, Charge, NextAttempt, Attempt,
             BeginRevision, IfAllowed, IfCurrent, IfGoing, Replied, Continues, evidenceVars
    <2> QED
      BY <1>19, <2>1, <2>2, ContinuesOnward, RepliedMoves DEF Revised, Requests
  <1>20. CASE Measured
    <2>1. pc = "scope" /\ pc \notin BeforeEvidence \cup Ends
      BY <1>20 DEF Measured, Taken, TakenPlainly, BeforeEvidence, BeforeJournal, Ends
    <2>2. Continues
      BY <1>20
      DEF Measured, Validate, StructureFails, Charge, NextAttempt, Attempt,
             BeginRevision, IfAllowed, IfCurrent, IfGoing, Taken, TakenPlainly, Continues,
             evidenceVars
    <2> QED
      BY <1>20, <2>1, <2>2, ContinuesOnward, TakenMoves DEF Measured, WorkerStages
  <1>21. CASE Reply
    <2>1. PICK role \in Requests : RequestFails(role)
      BY <1>21 DEF Reply
    <2>2. pc = role /\ pc \notin BeforeEvidence \cup Ends
      BY <2>1 DEF RequestFails, Replied, Requests, BeforeEvidence, BeforeJournal, Ends
    <2>3. Continues
      BY <2>1 DEF RequestFails, Replied, IfCurrent, IfGoing, Continues, evidenceVars
    <2> QED
      BY <2>1, <2>2, <2>3, ContinuesOnward, RepliedMoves DEF RequestFails
  <1>22. CASE Opened
    <2>1. pc \in Ends /\ pc \notin WorkerStages /\ pc' \in Ends /\ UNCHANGED evidenceVars
      BY <1>22 DEF Opened, IfGoing, Ends, WorkerStages
    <2> QED
      BY <1>22, <2>1, EndingOnward DEF Opened, Moves, sourceVars, workerVars, settingVars
  <1>23. CASE Shown
    <2>1. pc \in Ends /\ pc \notin WorkerStages /\ pc' \in Ends /\ UNCHANGED evidenceVars
      BY <1>23 DEF Shown, IfGoing, Ends, WorkerStages
    <2> QED
      BY <1>23, <2>1, EndingOnward DEF Shown, Moves, sourceVars, workerVars, settingVars
  <1>24. CASE StartWorker
    BY <1>24
  <1> QED
    BY <1>1, <1>2, <1>3, <1>4, <1>5, <1>6, <1>7, <1>8, <1>9, <1>10, <1>11, <1>12, <1>13,
       <1>14, <1>15, <1>16, <1>17, <1>18, <1>19, <1>20, <1>21, <1>22, <1>23, <1>24
    DEF Program, Collect, Lead, Execute

-----------------------------------------------------------------------------
(* Only loading reads the sources.                                          *)
WorkerStep ==
    /\ \/ Start \/ Exit \/ Interrupted \/ WorkerSettles \/ HeirsLeave \/ CancelWorkers \/ Expires
    /\ UNCHANGED <<rest, sourceVars, saw>>

LEMMA ReadByLoad ==
  ASSUME CallInv, WorkerStep
  PROVE  /\ HasRead' => HasRead
         /\ worker = "idle" /\ outcome = "none" /\ ~Start => worker' = "idle" /\ outcome' = "none"
  <1> USE DEF HasRead, CallInv, settingVars, callVars, childVars
  <1>1. CASE Start
    BY <1>1 DEF Start, Refused, Spawned
  <1>2. CASE Exit
    BY <1>2 DEF Exit
  <1>3. CASE Interrupted
    <2>1. PICK why \in Reasons : Terminate(why)
      BY <1>3 DEF Interrupted, Reasons
    <2>2. worker = "running" /\ UNCHANGED <<proc, code, outcome>>
      BY <2>1 DEF Terminate
    <2> QED
      BY <2>2
  <1>4. CASE WorkerSettles
    <2>1. CASE Killed
      BY <2>1 DEF Killed
    <2>2. CASE SpawnFails
      BY <2>2 DEF SpawnFails
    <2>3. CASE Closed
      BY <2>3 DEF Closed
    <2>4. CASE Settled
      BY <2>4 DEF Settled, WorkerTypeOK, Reasons
    <2>5. CASE Disposed
      BY <2>5 DEF Disposed
    <2> QED
      BY <1>4, <2>1, <2>2, <2>3, <2>4, <2>5 DEF WorkerSettles
  <1>5. CASE HeirsLeave
    BY <1>5 DEF HeirsLeave
  <1>6. CASE CancelWorkers
    BY <1>6 DEF CancelWorkers, Terminate
  <1>7. CASE Expires
    BY <1>7 DEF Expires
  <1> QED
    BY <1>1, <1>2, <1>3, <1>4, <1>5, <1>6, <1>7 DEF WorkerStep

LEMMA WorkerStepInv ==
  ASSUME IInv, WorkerStep, Start => pc \in WorkerStages
  PROVE  IInv'
  <1>1. CallInv'
    BY WorkerSteps DEF IInv, WorkerStep
  <1>2. /\ HasRead' => HasRead
        /\ pc \notin WorkerStages => worker' = "idle" /\ outcome' = "none"
    BY ReadByLoad DEF IInv, Reading
  <1>3. UNCHANGED <<pc, hash, parsed, versions, sources, edits, saw>>
    BY DEF WorkerStep, rest, sourceVars, evidenceVars
  <1> QED
    <2>1. Versions' /\ pc' \in PcValues
      BY <1>3 DEF IInv, Versions
    <2>2. Reading'
      BY <1>2, <1>3 DEF IInv, Reading, AllNoLater, NoLater
    <2>3. Binding'
      BY <1>2, <1>3 DEF IInv, Binding, AllNoLater, NoLater
    <2> QED
      BY <1>1, <2>1, <2>2, <2>3 DEF IInv

LEMMA LoadInv ==
  ASSUME IInv, Load, saw' = sources, UNCHANGED <<rest, sourceVars>>
  PROVE  IInv'
  <1>1. CallInv'
    BY WorkerSteps DEF IInv
  <1>2. UNCHANGED <<pc, hash, parsed, versions, sources, edits, worker, outcome>>
    BY DEF Load, rest, sourceVars, evidenceVars, callVars
  <1>3. pc \in WorkerStages
    BY DEF IInv, Reading, Load
  <1>4. Versions' /\ pc' \in PcValues
    BY <1>2 DEF IInv, Versions
  <1>5. Reading'
    BY <1>2, <1>3 DEF IInv, Reading, AllNoLater, NoLater
  <1>6. Binding'
    BY <1>2 DEF IInv, Binding, AllNoLater, NoLater, BeforeJournal, BeforeEvidence, Ends, Files
  <1> QED
    BY <1>1, <1>4, <1>5, <1>6 DEF IInv

(* An edit only makes what was read earlier.                                *)
LEMMA EditLater ==
  ASSUME Versions, Edit, NEW f \in Files, NEW a \in Nat, NoLater(a, sources[f])
  PROVE  NoLater(a, sources'[f])
  BY DEF Versions, Edit, NoLater, Files

LEMMA EditInv ==
  ASSUME IInv, Edit
  PROVE  IInv'
  <1>1. UNCHANGED <<pc, hash, parsed, versions, saw, proc, code, outcome, worker>>
    BY DEF Edit, rest, evidenceVars, workerVars, childVars, callVars
  <1>2. CallInv'
    BY DEF Edit, IInv, CallInv, WorkerTypeOK, workerVars, childVars, callVars, settingVars
  <1>3. Versions' /\ pc' \in PcValues
    BY <1>1 DEF IInv, Versions, Edit, Files
  <1>4. \A a \in [Files -> Nat] : AllNoLater(a, sources) => AllNoLater(a, sources')
    BY EditLater DEF IInv, AllNoLater
  <1>5. saw \in [Files -> Nat] /\ versions \in [Files -> Nat] /\ hash \in Nat /\ parsed \in Nat
    BY DEF IInv, Versions
  <1>6. HasRead' = HasRead
    BY <1>1 DEF HasRead
  <1>7. Reading'
    BY <1>1, <1>4, <1>5, <1>6 DEF IInv, Reading, AllNoLater, NoLater
  <1>8. Binding'
    <2>1. \A a \in Nat : NoLater(a, sources["target"]) => NoLater(a, sources'["target"])
      BY EditLater DEF IInv, Files
    <2> QED
      BY <1>1, <1>4, <1>5, <1>6, <2>1 DEF IInv, Binding, AllNoLater, NoLater
  <1> QED
    BY <1>2, <1>3, <1>7, <1>8 DEF IInv

(* The steps of the analysis itself.                                        *)
LEMMA MovesInv ==
  ASSUME IInv, Moves
  PROVE  IInv'
  <1>1. CallInv'
    <2>1. CASE pc \in WorkerStages
      BY <2>1, ConsumeStep DEF IInv, Moves
    <2>2. CASE pc \notin WorkerStages
      BY <2>2 DEF IInv, Moves, CallInv, WorkerTypeOK, workerVars, childVars, callVars, settingVars
    <2> QED
      BY <2>1, <2>2
  <1>2. worker' = "idle" /\ outcome' = "none" /\ ~HasRead'
    BY DEF IInv, Reading, HasRead, CallInv, Moves, Consume, workerVars, childVars, callVars
  <1>3. Reading' /\ pc' \in PcValues
    BY <1>2 DEF Reading, Moves, Onward
  <1>4. /\ UNCHANGED <<sources, edits, saw>>
        /\ sources["target"] \in Nat /\ saw["target"] \in Nat
    BY DEF Moves, sourceVars, IInv, Versions, Files
  <1>5. Versions'
    BY <1>4 DEF IInv, Versions, Moves, Onward
  <1>6. outcome = "ok" => AllNoLater(saw, sources)
    BY DEF IInv, Reading, HasRead
  <1>7. outcome = "ok" => saw["target"] = sources["target"] \/ NoLater(saw["target"], sources["target"])
    BY <1>6 DEF AllNoLater, Files
  <1>8. NoLater(hash, sources["target"])'
           \/ pc' \in BeforeJournal \cup Ends
    BY <1>4 DEF IInv, Binding, Moves, Onward, NoLater, BeforeJournal, Ends
  <1>9. pc' \notin BeforeJournal \cup Ends \cup {"ast"} =>
           NoLater(hash, parsed)' /\ NoLater(parsed, sources["target"])'
    BY <1>4, <1>7 DEF IInv, Binding, Moves, Onward, NoLater, BeforeJournal, Ends, HasRead
  <1>10. pc' \notin BeforeEvidence \cup Ends => AllNoLater(versions, sources)'
    BY <1>4, <1>6
    DEF IInv, Binding, Moves, Onward, AllNoLater, NoLater, BeforeEvidence, BeforeJournal, Ends
  <1>11. Binding'
    BY <1>2, <1>8, <1>9, <1>10 DEF Binding
  <1> QED
    BY <1>1, <1>3, <1>5, <1>11 DEF IInv

LEMMA StepInv == IInv /\ [Next]_vars => IInv'
  <1> SUFFICES ASSUME IInv, [Next]_vars PROVE IInv'
    OBVIOUS
  <1>1. CASE Program
    <2>1. CASE StartWorker
      BY <2>1, WorkerStepInv DEF StartWorker, WorkerStep, rest
    <2>2. CASE Moves
      BY <2>2, MovesInv
    <2> QED
      BY <1>1, <2>1, <2>2, ProgramShape DEF IInv
  <1>2. CASE WorkerRuns
    <2>1. CASE Load /\ saw' = sources /\ UNCHANGED <<rest, sourceVars>>
      BY <2>1, LoadInv
    <2>2. CASE (Exit \/ Interrupted) /\ UNCHANGED <<rest, sourceVars, saw>>
      <3>1. ~Start
        BY <2>2 DEF Start, Exit, Interrupted, Terminate
      <3> QED
        BY <2>2, <3>1, WorkerStepInv DEF WorkerStep
    <2> QED
      BY <1>2, <2>1, <2>2 DEF WorkerRuns
  <1>3. CASE WorkerLeaves
    <2>1. pc \in WorkerStages \/ ~Start
      BY <1>3
      DEF IInv, Reading, CallInv, WorkerLeaves, WorkerSettles, Killed, SpawnFails, Closed,
          Settled,
             Disposed, HeirsLeave, Start, Refused, Spawned
    <2> QED
      BY <1>3, <2>1, WorkerStepInv DEF WorkerLeaves, WorkerStep
  <1>4. CASE Cancel
    <2>1. ~Start
      BY <1>4 DEF Cancel, CancelWorkers, Start, Refused, Spawned, settingVars
    <2> QED
      BY <1>4, <2>1, WorkerStepInv DEF Cancel, WorkerStep
  <1>5. CASE Deadline
    <2>1. ~Start
      BY <1>5 DEF Deadline, Expires, Start, Refused, Spawned, settingVars
    <2> QED
      BY <1>5, <2>1, WorkerStepInv DEF Deadline, WorkerStep
  <1>6. CASE Edit
    BY <1>6, EditInv
  <1>7. CASE UNCHANGED vars
    <2>1. UNCHANGED <<pc, workerVars, sources, edits, saw, hash, parsed, versions>>
      BY <1>7 DEF vars, sourceVars, evidenceVars
    <2>2. CallInv'
      BY <2>1 DEF IInv, CallInv, WorkerTypeOK, workerVars, childVars, callVars, settingVars
    <2>3. HasRead' = HasRead /\ UNCHANGED <<worker, outcome>>
      BY <2>1 DEF HasRead, workerVars, childVars, callVars
    <2> QED
      BY <2>1, <2>2, <2>3 DEF IInv, Versions, Reading, Binding, AllNoLater, NoLater
  <1> QED
    BY <1>1, <1>2, <1>3, <1>4, <1>5, <1>6, <1>7 DEF Next

LEMMA Invariance == Spec => []IInv
  BY InitInv, StepInv, PTL DEF Spec

-----------------------------------------------------------------------------
(* Whoever gets an answer of a worker gets it after the worker, its         *)
(* descendants and its lease, whatever stopped it (processRunner.ts).       *)
THEOREM AnsweredAfterTheWorker == Spec => []WorkerIsOver
  <1>1. IInv => WorkerIsOver
    BY DEF IInv, CallInv, WorkerIsOver, Answered
  <1> QED
    BY <1>1, Invariance, PTL

-----------------------------------------------------------------------------
(* How a step of the analysis may end it.                                   *)

Reason(why) ==
    /\ why = "target-budget" => late
    /\ why = "source-changed" => sources # First
    /\ why = "failure-limit" /\ ~Full => failures' = FailureLimit

FailsTruly == \E why \in Whys : Reason(why) /\ Fail(why)

Reached(reached, thrown) ==
    /\ thrown # None => Reason(thrown) /\ Full
    /\ reached = "execution-passed" =>
          thrown = None /\ pc = "testing" /\ outcome = "ok" /\ ~cancelled /\ Current
    /\ reached = "cancelled" => cancelled
    /\ reached = "source-changed" => sources # First

EndsTruly ==
    \E reached \in StatusValues \ {None}, thrown \in Whys \cup {None} :
        Reached(reached, thrown) /\ (Settle(reached, thrown) \/ Publish(reached, thrown))

FullStages == {"coverage", "planning", "supplement", "rounds"}

Goes == /\ pc' \notin Ends \cup BeforeJournal /\ (pc' \in FullStages => Full)
        /\ UNCHANGED resultVars

Results == Goes \/ FailsTruly \/ EndsTruly

(* A stage past the preflight notices only sources that were edited.        *)
LEMMA ChangedSources ==
  ASSUME IInv, pc \notin BeforeEvidence \cup Ends, ~Current
  PROVE  sources # First
  <1> SUFFICES ASSUME sources = First PROVE FALSE
    OBVIOUS
  <1>1. NoLater(hash, 1) /\ \A f \in Files : NoLater(versions[f], 1)
    BY DEF IInv, Binding, AllNoLater, First, Files, BeforeEvidence, BeforeJournal
  <1>2. hash = 1 /\ \A f \in Files : versions[f] = 1
    BY <1>1 DEF IInv, Versions, NoLater
  <1>3. versions = First
    BY <1>2 DEF IInv, Versions, First
  <1> QED
    BY <1>2, <1>3 DEF Current, First, Files

(* The error of a worker is one of those, and a true one.                   *)
LEMMA ThrownTruly ==
  ASSUME IInv, Fail(Thrown)
  PROVE  FailsTruly
  <1>1. Thrown \in Whys /\ Reason(Thrown)
    BY DEF Thrown, Whys, Reason, IInv, CallInv
  <1> QED
    BY <1>1 DEF FailsTruly

(* So are the errors that need no condition.                                *)
LEMMA FailsPlainly ==
  ASSUME NEW why \in Whys \ {"target-budget", "source-changed", "failure-limit"}, Fail(why)
  PROVE  FailsTruly
  BY DEF Reason, FailsTruly

LEMMA FailsLate ==
  ASSUME late, Fail("target-budget")
  PROVE  FailsTruly
  BY DEF Reason, FailsTruly, Whys

LEMMA FailsChanged ==
  ASSUME sources # First, Fail("source-changed")
  PROVE  FailsTruly
  BY DEF Reason, FailsTruly, Whys

LEMMA FailsAtLimit ==
  ASSUME failures' = FailureLimit, Fail("failure-limit")
  PROVE  FailsTruly
  BY DEF Reason, FailsTruly, Whys

LEMMA SettlesTruly ==
  ASSUME NEW reached \in StatusValues \ {None}, NEW thrown \in Whys \cup {None},
         Reached(reached, thrown), Settle(reached, thrown) \/ Publish(reached, thrown)
  PROVE  EndsTruly
  BY DEF EndsTruly

(* The end of a stub.                                                       *)
LEMMA StubTruly ==
  ASSUME ~cancelled, NEW skipped \in {"stub-skipped", "stub-smoke-generated"},
         Settle(skipped, None)
  PROVE  EndsTruly
  <1>1. skipped \in StatusValues \ {None} /\ Reached(skipped, None)
    BY DEF StatusValues, None, Reached
  <1> QED
    BY <1>1, SettlesTruly

(* What the errors of a role or of the rounds may be.                       *)
LEMMA RequestTruly ==
  ASSUME IInv, pc \notin BeforeEvidence \cup Ends, NEW why \in RequestErrors
  PROVE  why \in Whys /\ Reason(why) /\ why # "failure-limit"
  BY ChangedSources DEF RequestErrors, Whys, Reason

LEMMA RoundTruly ==
  ASSUME IInv, pc \notin BeforeEvidence \cup Ends, NEW why \in RoundErrors, Full
  PROVE  why \in Whys /\ Reason(why)
  BY RequestTruly DEF RoundErrors, Whys, Reason

LEMMA WorkResults ==
  ASSUME IInv, Records, Collect \/ Lead \/ Execute \/ Reply
  PROVE  Results /\ pc \notin BeforeJournal \cup Ends
  <1> USE StubTruly, ThrownTruly, FailsPlainly, FailsLate, FailsChanged, FailsAtLimit
  DEF Whys, Go, Results
  <1>0. \A stage \in PcValues : stage \in WorkerStages \cup Requests \cup {"rounds"} =>
           stage \notin Ends \cup BeforeJournal \/ stage = "complexity"
    BY DEF PcValues, WorkerStages, Requests, Ends, BeforeJournal
  <1>1. CASE Parsed
    <2>1. pc = "ast" /\ pc \notin BeforeJournal \cup Ends
      BY <1>1 DEF Parsed, Taken, TakenPlainly, BeforeJournal, Ends
    <2>2. Full \/ pc \notin FullStages
      BY DEF Records, FullStages
    <2>3. pc \notin BeforeEvidence \cup Ends /\ ~Current => sources # First
      BY ChangedSources
    <2>4. Results
      BY <1>1, <2>1, <2>2, <2>3
      DEF Parsed, Needed, Resolved, CheckEnvironment, IfGoing, Taken, TakenPlainly,
             Goes, FullStages, BeforeEvidence, BeforeJournal, Ends
    <2> QED
      BY <2>1, <2>4
  <1>2. CASE Loaded
    <2>1. pc = "preflight" /\ pc \notin BeforeJournal \cup Ends
      BY <1>2 DEF Loaded, Taken, TakenPlainly, BeforeJournal, Ends
    <2>2. Full \/ pc \notin FullStages
      BY DEF Records, FullStages
    <2>3. pc \notin BeforeEvidence \cup Ends /\ ~Current => sources # First
      BY ChangedSources
    <2>4. Results
      BY <1>2, <2>1, <2>2, <2>3
      DEF Loaded, Needed, IfGoing, Taken, TakenPlainly, Goes, FullStages, BeforeEvidence,
          BeforeJournal, Ends
    <2> QED
      BY <2>1, <2>4
  <1>3. CASE Depended
    <2>1. pc = "dependency" /\ pc \notin BeforeJournal \cup Ends
      BY <1>3 DEF Depended, Taken, TakenPlainly, BeforeJournal, Ends
    <2>2. Full \/ pc \notin FullStages
      BY DEF Records, FullStages
    <2>3. pc \notin BeforeEvidence \cup Ends /\ ~Current => sources # First
      BY ChangedSources
    <2>4. Results
      BY <1>3, <2>1, <2>2, <2>3
      DEF Depended, Tolerated, Taken, TakenPlainly, Goes, FullStages, BeforeEvidence,
          BeforeJournal, Ends
    <2> QED
      BY <2>1, <2>4
  <1>4. CASE Called
    <2>1. pc = "callers" /\ pc \notin BeforeJournal \cup Ends
      BY <1>4 DEF Called, Taken, TakenPlainly, BeforeJournal, Ends
    <2>2. Full \/ pc \notin FullStages
      BY DEF Records, FullStages
    <2>3. pc \notin BeforeEvidence \cup Ends /\ ~Current => sources # First
      BY ChangedSources
    <2>4. Results
      BY <1>4, <2>1, <2>2, <2>3
      DEF Called, Tolerated, Collected, StubEnds, BeginExecution, IfGoing, Taken,
             TakenPlainly, Goes, FullStages, BeforeEvidence, BeforeJournal, Ends
    <2> QED
      BY <2>1, <2>4
  <1>5. CASE Traced
    <2>1. pc = "trace" /\ pc \notin BeforeJournal \cup Ends
      BY <1>5 DEF Traced, Taken, TakenPlainly, BeforeJournal, Ends
    <2>2. Full \/ pc \notin FullStages
      BY DEF Records, FullStages
    <2>3. pc \notin BeforeEvidence \cup Ends /\ ~Current => sources # First
      BY ChangedSources
    <2>4. Results
      BY <1>5, <2>1, <2>2, <2>3
      DEF Traced, Tolerated, Collected, StubEnds, BeginExecution, IfGoing, Taken,
             TakenPlainly, Goes, FullStages, BeforeEvidence, BeforeJournal, Ends
    <2> QED
      BY <2>1, <2>4
  <1>6. CASE Covered
    <2>1. pc = "coverage" /\ pc \notin BeforeJournal \cup Ends
      BY <1>6 DEF Covered, Taken, TakenPlainly, BeforeJournal, Ends
    <2>2. Full \/ pc \notin FullStages
      BY DEF Records, FullStages
    <2>3. pc \notin BeforeEvidence \cup Ends /\ ~Current => sources # First
      BY ChangedSources
    <2>4. Results
      BY <1>6, <2>1, <2>2, <2>3
      DEF Covered, AskAnalyst, IfCurrent, IfAllowed, IfGoing, Taken, TakenPlainly, Goes,
             FullStages, BeforeEvidence, BeforeJournal, Ends
    <2> QED
      BY <2>1, <2>4
  <1>7. CASE Planned
    <2>1. pc = "planning" /\ pc \notin BeforeJournal \cup Ends
      BY <1>7 DEF Planned, Replied, BeforeJournal, Ends
    <2>2. Full \/ pc \notin FullStages
      BY DEF Records, FullStages
    <2>3. pc \notin BeforeEvidence \cup Ends /\ ~Current => sources # First
      BY ChangedSources
    <2>4. Results
      BY <1>7, <2>1, <2>2, <2>3
      DEF Planned, PlanTaken, ToTheRounds, Charge, IfCurrent, IfAllowed, IfGoing,
             Replied, Goes, FullStages, BeforeEvidence, BeforeJournal, Ends
    <2> QED
      BY <2>1, <2>4
  <1>8. CASE Supplemented
    <2>1. pc = "supplement" /\ pc \notin BeforeJournal \cup Ends
      BY <1>8 DEF Supplemented, Taken, TakenPlainly, BeforeJournal, Ends
    <2>2. Full \/ pc \notin FullStages
      BY DEF Records, FullStages
    <2>3. pc \notin BeforeEvidence \cup Ends /\ ~Current => sources # First
      BY ChangedSources
    <2>4. Results
      BY <1>8, <2>1, <2>2, <2>3
      DEF Supplemented, Tolerated, ToTheRounds, Taken, TakenPlainly, Goes, FullStages,
          BeforeEvidence, BeforeJournal, Ends
    <2> QED
      BY <2>1, <2>4
  <1>9. CASE RoundsEnd
    <2>1. pc = "rounds" /\ pc \notin BeforeEvidence \cup Ends \cup BeforeJournal /\ Full
      BY <1>9 DEF RoundsEnd, BeforeEvidence, BeforeJournal, Ends, Records
    <2>2. ~Current => sources # First
      BY <2>1, ChangedSources
    <2>3. CASE /\ ~cancelled /\ Current
               /\ \E s \in {"passed", "stagnated", "round-limit"} : Publish(s, None)
      <3>1. PICK s \in {"passed", "stagnated", "round-limit"} : Publish(s, None)
        BY <2>3
      <3>2. s \in StatusValues \ {None} /\ Reached(s, None)
        BY DEF StatusValues, None, Reached
      <3> QED
        BY <2>1, <3>1, <3>2, SettlesTruly
    <2>4. CASE \E why \in RoundErrors :
                 \E s \in IF ~Current THEN {"source-changed"} ELSE
                          IF cancelled THEN {"cancelled"} ELSE
                          {"failed", "review-blocked", "retained-after-failure"} : Publish(s, why)
      <3>1. PICK why \in RoundErrors,
                 s \in IF ~Current THEN {"source-changed"} ELSE
                       IF cancelled THEN {"cancelled"} ELSE
                       {"failed", "review-blocked", "retained-after-failure"} : Publish(s, why)
        BY <2>4
      <3>2. why \in Whys /\ Reason(why)
        BY <2>1, RoundTruly
      <3>3. s \in StatusValues \ {None} /\ s # "execution-passed"
        BY DEF StatusValues, None
      <3>4. Reached(s, why)
        BY <2>1, <2>2, <3>2, <3>3 DEF Reached
      <3> QED
        BY <2>1, <3>1, <3>2, <3>3, <3>4, SettlesTruly
    <2>5. CASE \E why \in RoundErrors : Fail(why)
      BY <2>1, <2>5, RoundTruly DEF FailsTruly
    <2>6. CASE cancelled /\ Publish("running", None)
      <3>1. "running" \in StatusValues \ {None} /\ Reached("running", None)
        BY DEF StatusValues, None, Reached
      <3> QED
        BY <2>1, <2>6, <3>1, SettlesTruly
    <2>7. CASE ~cancelled /\ ~Current /\ Publish("source-changed", None)
      <3>1. "source-changed" \in StatusValues \ {None} /\ Reached("source-changed", None)
        BY <2>2, <2>7 DEF StatusValues, None, Reached
      <3> QED
        BY <2>1, <2>7, <3>1, SettlesTruly
    <2> QED
      BY <1>9, <2>1, <2>3, <2>4, <2>5, <2>6, <2>7 DEF RoundsEnd
  <1>10. CASE Scaffolded
    <2>1. pc = "mocks" /\ pc \notin BeforeJournal \cup Ends
      BY <1>10 DEF Scaffolded, Taken, TakenPlainly, BeforeJournal, Ends
    <2>2. Full \/ pc \notin FullStages
      BY DEF Records, FullStages
    <2>3. pc \notin BeforeEvidence \cup Ends /\ ~Current => sources # First
      BY ChangedSources
    <2>4. Results
      BY <1>10, <2>1, <2>2, <2>3
      DEF Scaffolded, HandOver, Generate, FirstAttempt, Validate, StructureFails,
             Charge, NextAttempt, Attempt, BeginRevision, IfCurrent, IfAllowed, IfGoing,
             Taken, TakenPlainly, Goes, FullStages, BeforeEvidence, BeforeJournal, Ends
    <2> QED
      BY <2>1, <2>4
  <1>11. CASE Written
    <2>1. pc = "writing" /\ pc \notin BeforeJournal \cup Ends
      BY <1>11 DEF Written, Replied, BeforeJournal, Ends
    <2>2. Full \/ pc \notin FullStages
      BY DEF Records, FullStages
    <2>3. pc \notin BeforeEvidence \cup Ends /\ ~Current => sources # First
      BY ChangedSources
    <2>4. Results
      BY <1>11, <2>1, <2>2, <2>3
      DEF Written, FirstAttempt, Validate, StructureFails, Charge, NextAttempt, Attempt,
             BeginRevision, IfCurrent, IfAllowed, IfGoing, Replied, Goes, FullStages,
             BeforeEvidence, BeforeJournal, Ends
    <2> QED
      BY <2>1, <2>4
  <1>12. CASE Validated
    <2>1. pc = "validating" /\ pc \notin BeforeJournal \cup Ends
      BY <1>12 DEF Validated, Taken, TakenPlainly, Judged, BeforeJournal, Ends
    <2>2. Full \/ pc \notin FullStages
      BY DEF Records, FullStages
    <2>3. pc \notin BeforeEvidence \cup Ends /\ ~Current => sources # First
      BY ChangedSources
    <2>4. Results
      BY <1>12, <2>1, <2>2, <2>3
      DEF Validated, Judged, Needed, Charge, NextAttempt, Attempt, BeginRevision,
             IfCurrent, IfAllowed, IfGoing, Taken, TakenPlainly, Goes, FullStages,
             BeforeEvidence, BeforeJournal, Ends
    <2> QED
      BY <2>1, <2>4
  <1>13. CASE CallsChecked
    <2>1. pc = "calling" /\ pc \notin BeforeJournal \cup Ends
      BY <1>13 DEF CallsChecked, Taken, TakenPlainly, Judged, BeforeJournal, Ends
    <2>2. Full \/ pc \notin FullStages
      BY DEF Records, FullStages
    <2>3. pc \notin BeforeEvidence \cup Ends /\ ~Current => sources # First
      BY ChangedSources
    <2>4. Results
      BY <1>13, <2>1, <2>2, <2>3
      DEF CallsChecked, Judged, Needed, Charge, NextAttempt, Attempt, BeginRevision,
             IfCurrent, IfAllowed, IfGoing, Taken, TakenPlainly, Goes, FullStages,
             BeforeEvidence, BeforeJournal, Ends
    <2> QED
      BY <2>1, <2>4
  <1>14. CASE Tested
    <2>1. pc = "testing" /\ pc \notin BeforeJournal \cup BeforeEvidence \cup Ends
      BY <1>14 DEF Tested, Taken, TakenPlainly, BeforeJournal, BeforeEvidence, Ends
    <2>2. ~Current => sources # First
      BY <2>1, ChangedSources
    <2>3. ~cancelled /\ Current /\ outcome = "ok" /\ Accept => EndsTruly
      <3>1. "execution-passed" \in StatusValues \ {None}
        BY DEF StatusValues, None
      <3>2. ~cancelled /\ Current /\ outcome = "ok" => Reached("execution-passed", None)
        BY <2>1 DEF Reached
      <3> QED
        BY <3>1, <3>2, SettlesTruly DEF Accept
    <2>4. Results
      BY <1>14, <2>1, <2>2, <2>3
      DEF Tested, Charge, NextAttempt, Attempt, BeginRevision, IfCurrent,
             IfAllowed, IfGoing, Taken, Goes, FullStages, BeforeJournal, Ends
    <2> QED
      BY <2>1, <2>4
  <1>15. CASE Hinted
    <2>1. pc = "hints" /\ pc \notin BeforeJournal \cup Ends
      BY <1>15 DEF Hinted, Taken, TakenPlainly, BeforeJournal, Ends
    <2>2. Full \/ pc \notin FullStages
      BY DEF Records, FullStages
    <2>3. pc \notin BeforeEvidence \cup Ends /\ ~Current => sources # First
      BY ChangedSources
    <2>4. Results
      BY <1>15, <2>1, <2>2, <2>3
      DEF Hinted, BeginRevision, IfCurrent, IfGoing, Taken, TakenPlainly, Goes,
             FullStages, BeforeEvidence, BeforeJournal, Ends
    <2> QED
      BY <2>1, <2>4
  <1>16. CASE Revised
    <2>1. pc = "revising" /\ pc \notin BeforeJournal \cup Ends
      BY <1>16 DEF Revised, Replied, BeforeJournal, Ends
    <2>2. Full \/ pc \notin FullStages
      BY DEF Records, FullStages
    <2>3. pc \notin BeforeEvidence \cup Ends /\ ~Current => sources # First
      BY ChangedSources
    <2>4. Results
      BY <1>16, <2>1, <2>2, <2>3
      DEF Revised, Validate, StructureFails, Charge, NextAttempt, Attempt,
             BeginRevision, IfCurrent, IfAllowed, IfGoing, Replied, Goes, FullStages,
             BeforeEvidence, BeforeJournal, Ends
    <2> QED
      BY <2>1, <2>4
  <1>17. CASE Measured
    <2>1. pc = "scope" /\ pc \notin BeforeJournal \cup Ends
      BY <1>17 DEF Measured, Taken, TakenPlainly, BeforeJournal, Ends
    <2>2. Full \/ pc \notin FullStages
      BY DEF Records, FullStages
    <2>3. pc \notin BeforeEvidence \cup Ends /\ ~Current => sources # First
      BY ChangedSources
    <2>4. Results
      BY <1>17, <2>1, <2>2, <2>3
      DEF Measured, Validate, StructureFails, Charge, NextAttempt, Attempt,
             BeginRevision, IfCurrent, IfAllowed, IfGoing, Taken, TakenPlainly, Goes,
             FullStages, BeforeEvidence, BeforeJournal, Ends
    <2> QED
      BY <2>1, <2>4
  <1>18. CASE Reply
    <2>1. PICK role \in Requests : RequestFails(role)
      BY <1>18 DEF Reply
    <2>2. pc = role /\ pc \notin BeforeEvidence \cup Ends \cup BeforeJournal
      BY <2>1 DEF RequestFails, Replied, Requests, BeforeEvidence, BeforeJournal, Ends
    <2>3. PICK why \in RequestErrors : IF role = "revising" THEN IfCurrent(Fail(why)) ELSE Fail(why)
      BY <2>1 DEF RequestFails
    <2>4. why \in Whys /\ Reason(why)
      BY <2>2, RequestTruly
    <2>5. Fail(why) => FailsTruly
      BY <2>4 DEF FailsTruly
    <2>6. ~Current => sources # First
      BY <2>2, ChangedSources
    <2> QED
      BY <2>2, <2>3, <2>5, <2>6 DEF IfCurrent, IfGoing
  <1> QED
    BY <1>1, <1>2, <1>3, <1>4, <1>5, <1>6, <1>7, <1>8, <1>9, <1>10, <1>11, <1>12, <1>13, <1>14, <1>15,
       <1>16, <1>17, <1>18
    DEF Collect, Lead, Execute

-----------------------------------------------------------------------------
(* What is written down stays true.                                         *)

Steady == UNCHANGED <<opt, sources, cancelled, late>>

\* The first reason of an error that is thrown once.
LEMMA ReasonOf ==
  ASSUME stop = None, NEW why \in Whys \cup StatusValues
  PROVE  /\ StopReason(why) = "budget-exhausted" <=> why = "target-budget"
         /\ StopReason(why) = "failure-limit" <=> why = "failure-limit"
  BY DEF StopReason, None, Whys, StatusValues

(* An error after the journal was created.                                  *)
LEMMA FailRecorded ==
  ASSUME Records, status # None, stop = None, attached = opt.batch, FailsTruly, Steady
  PROVE  Records'
  <1>1. PICK why \in Whys : Reason(why) /\ Fail(why)
    BY DEF FailsTruly
  <1>2. /\ pc' = "done" /\ error' = why /\ stop' = StopReason(why) /\ attached' = attached
        /\ status' = IF cancelled THEN "cancelled" ELSE
                     IF why = "source-changed" THEN why ELSE "failed"
        /\ report' = status'
    BY <1>1 DEF Fail
  <1>3. /\ StopReason(why) = "budget-exhausted" <=> why = "target-budget"
        /\ StopReason(why) = "failure-limit" <=> why = "failure-limit"
    BY ReasonOf
  <1>4. status' \notin {"running", None, "execution-passed"} /\ why # None
    BY <1>2 DEF None, Whys
  <1>5. ReportIsTrue'
    BY <1>1, <1>2, <1>3, <1>4 DEF ReportIsTrue, Reason, Full, Steady, Records, Options
  <1> QED
    BY <1>2, <1>5 DEF Records, Steady, BeforeJournal, Ends

(* An end that was reached.                                                 *)
LEMMA SettleRecorded ==
  ASSUME Records, attached = opt.batch, stop = None, Steady,
         NEW reached \in StatusValues \ {None}, NEW thrown \in Whys \cup {None},
         thrown # None => Full,
         thrown = "target-budget" => late,
         reached = "execution-passed" => thrown = None,
         reached = "cancelled" => cancelled,
         reached = "source-changed" => sources # First,
         Settle(reached, thrown)
  PROVE  Records'
  <1>1. /\ pc' = "done" /\ error' = thrown /\ attached' = attached /\ report' = status'
        /\ status' = IF reached # "running" THEN reached ELSE
                     IF cancelled THEN "cancelled" ELSE "incomplete"
        /\ stop' = StopReason(IF thrown # None THEN thrown ELSE status')
    BY DEF Settle
  <1>2. status' \in StatusValues \ {None, "running"}
    BY <1>1 DEF StatusValues, None
  <1>3. CASE thrown = None
    <2>1. stop' # "budget-exhausted" /\ stop' # "failure-limit" /\ stop' = StopReason(status')
      BY <1>1, <1>2, <1>3 DEF StopReason, StatusValues, None
    <2>2. ReportIsTrue'
      BY <1>1, <1>2, <1>3, <2>1 DEF ReportIsTrue, Full, Steady, Records, Options, None
    <2> QED
      BY <1>1, <2>2 DEF Records, Steady, BeforeJournal, Ends
  <1>4. CASE thrown # None
    <2>1. /\ stop' = "budget-exhausted" <=> thrown = "target-budget"
          /\ stop' = "failure-limit" <=> thrown = "failure-limit"
      BY <1>1, <1>4, ReasonOf
    <2>2. ReportIsTrue'
      BY <1>1, <1>2, <1>4, <2>1 DEF ReportIsTrue, Full, Steady, Records, Options, None
    <2> QED
      BY <1>1, <2>2 DEF Records, Steady, BeforeJournal, Ends
  <1> QED
    BY <1>3, <1>4

(* A stage behind the journal.                                              *)
LEMMA ResultsRecorded ==
  ASSUME Records, pc \notin BeforeJournal \cup Ends, Results, Steady
  PROVE  Records'
  <1>1. status = "running" /\ attached = opt.batch /\ error = None /\ stop = None /\ status # None
    BY DEF Records, Ends, None
  <1>2. CASE Goes
    BY <1>1, <1>2 DEF Goes, Records, FullStages, Full, resultVars, Ends, ReportIsTrue, Steady
  <1>3. CASE FailsTruly
    BY <1>1, <1>3, FailRecorded
  <1>4. CASE EndsTruly
    <2>1. PICK reached \in StatusValues \ {None}, thrown \in Whys \cup {None} :
             Reached(reached, thrown) /\ (Settle(reached, thrown) \/ Publish(reached, thrown))
      BY <1>4 DEF EndsTruly
    <2>2. /\ thrown # None => Full
          /\ thrown = "target-budget" => late
          /\ reached = "execution-passed" => thrown = None
          /\ reached = "cancelled" => cancelled
          /\ reached = "source-changed" => sources # First
      BY <2>1 DEF Reached, Reason, None
    <2>3. CASE Settle(reached, thrown)
      BY <1>1, <2>2, <2>3, SettleRecorded
    <2>4. CASE ~opt.batch /\ Publish(reached, thrown)
      <3>1. /\ pc' = "opening" /\ error' = thrown /\ status' = reached /\ report' = reached
            /\ attached' = attached /\ stop' = stop
        BY <2>4 DEF Publish
      <3>2. Held'
        BY <2>2, <3>1 DEF Held, Full, Steady
      <3> QED
        BY <1>1, <2>4, <3>1, <3>2
        DEF Records, Steady, BeforeJournal, Ends, ReportIsTrue, Options
    <2> QED
      BY <2>1, <2>3, <2>4 DEF Publish
  <1> QED
    BY <1>2, <1>3, <1>4 DEF Results

(* An error before there is a journal.                                      *)
LEMMA FailUnrecorded ==
  ASSUME Records, pc \in BeforeJournal, Steady, NEW why \in Whys, Reason(why),
         why # "failure-limit", Fail(why)
  PROVE  Records'
  <1>1. status = None /\ report = None /\ attached = FALSE /\ stop = None /\ opt.batch \in BOOLEAN
    BY DEF Records, BeforeJournal, Ends, Options
  <1>2. pc' = "done" /\ error' = why /\ EarlyEnd(why)
    BY <1>1 DEF Fail
  <1>3. CASE why = "target-budget"
    <2>1. /\ stop' = "budget-exhausted" /\ late /\ status' = "failed" /\ report' = "failed"
          /\ attached' = opt.batch
      BY <1>1, <1>2, <1>3 DEF EarlyEnd, StopReason, Reason
    <2>2. ReportIsTrue'
      BY <1>1, <1>2, <1>3, <2>1 DEF ReportIsTrue, Steady, None
    <2> QED
      BY <1>2, <2>2 DEF Records, Steady, BeforeJournal, Ends
  <1>4. CASE why # "target-budget"
    <2>1. status' = None /\ report' = None /\ attached' = FALSE /\ stop' = None /\ why # None
      BY <1>1, <1>2, <1>4 DEF EarlyEnd, Whys, None
    <2>2. ReportIsTrue'
      BY <1>2, <1>4, <2>1 DEF ReportIsTrue, Steady, None
    <2> QED
      BY <1>2, <2>2 DEF Records, Steady, BeforeJournal, Ends
  <1> QED
    BY <1>3, <1>4

LEMMA OpenRecorded ==
  ASSUME Records, pc \in BeforeJournal, Steady, Open
  PROVE  Records'
  <1>1. status = None /\ report = None /\ attached = FALSE /\ stop = None /\ error = None
    BY DEF Records, BeforeJournal, Ends
  <1>2. CASE sources["target"] = 0 \/ cancelled
    <2>1. {"ast-trace", "cancelled"} \subseteq Whys /\ Reason("ast-trace") /\ Reason("cancelled")
      BY DEF Whys, Reason
    <2> QED
      BY <1>2, <2>1, FailUnrecorded DEF Open
  <1>3. CASE CreateDirectory /\ CreateJournal /\ pc' = "ast" /\ UNCHANGED <<report, error, stop>>
    BY <1>1, <1>3
    DEF CreateDirectory, CreateJournal, Records, BeforeJournal, Ends, Steady, ReportIsTrue
  <1>4. CASE CreateDirectory /\ ContextRefused
    <2>1. /\ pc' = "done" /\ attached' = opt.batch /\ status' = "failed" /\ report' = "failed"
          /\ error' = "model-runtime" /\ stop' = "model-runtime"
      BY <1>1, <1>4 DEF CreateDirectory, ContextRefused, StopReason
    <2>2. ReportIsTrue'
      BY <2>1 DEF ReportIsTrue, None, Steady, Records, Options
    <2> QED
      BY <2>1, <2>2 DEF Records, BeforeJournal, Ends, Steady
  <1> QED
    BY <1>2, <1>3, <1>4 DEF Open

(* The steps before there is a journal.                                     *)
LEMMA EarlyRecorded ==
  ASSUME IInv, Records, Begin \/ Skip \/ Assessed
  PROVE  Records'
  <1>0. pc \in BeforeJournal /\ Steady
    BY
    DEF Begin, Skip, Assessed, Taken, Consume, BeforeJournal, Steady, settingVars, sourceVars,
        workerVars
  <1>1. status = None /\ report = None /\ attached = FALSE /\ stop = None /\ error = None
    BY <1>0 DEF Records, BeforeJournal, Ends
  <1>2. "cancelled" \in Whys /\ Reason("cancelled")
    BY DEF Whys, Reason
  <1>3. CASE Begin
    <2>1. CASE Go("complexity")
      BY <1>0, <1>1, <2>1 DEF Go, resultVars, Records, BeforeJournal, Ends, Steady, ReportIsTrue
    <2>2. CASE Fail("cancelled")
      BY <1>0, <1>2, <2>2, FailUnrecorded
    <2> QED
      BY <1>0, <1>3, <2>1, <2>2, OpenRecorded DEF Begin, IfGoing
  <1>4. CASE Skip
    <2>1. /\ pc' = "done" /\ attached' = opt.batch /\ status' = "dummy-skipped" /\ report' = status'
          /\ stop' = None /\ error' = None
      BY <1>1, <1>4 DEF Skip
    <2>2. ReportIsTrue'
      BY <1>0, <2>1 DEF ReportIsTrue, None, Steady, Records, Options
    <2> QED
      BY <1>0, <2>1, <2>2 DEF Records, BeforeJournal, Ends, Steady
  <1>5. CASE Assessed
    <2>1. Thrown \in Whys /\ Reason(Thrown) /\ Thrown # "failure-limit"
      BY DEF Thrown, Whys, Reason, IInv, CallInv
    <2> QED
      BY <1>0, <1>5, <2>1, FailUnrecorded, OpenRecorded DEF Assessed
  <1> QED
    BY <1>3, <1>4, <1>5

(* A published result, shown or not.                                        *)
LEMMA ShownRecorded ==
  ASSUME Records, Opened \/ Shown
  PROVE  Records'
  <1>1. /\ pc \in {"opening", "showing"} /\ ~opt.batch /\ attached = FALSE
        /\ report = status /\ Held
        /\ stop = None /\ status # None /\ attached = opt.batch
    BY DEF Records, Opened, Shown, Held, Options
  <1>2. Steady
    BY DEF Opened, Shown, Steady, workerVars, settingVars, sourceVars
  <1>3. CASE Go("showing")
    BY <1>1, <1>2, <1>3
    DEF Go, resultVars, Records, BeforeJournal, Ends, Steady, ReportIsTrue, Held, Full
  <1>4. CASE Fail("cancelled") \/ Fail("pipeline")
    BY <1>1, <1>2, <1>4, FailsPlainly, FailRecorded DEF Whys
  <1>5. CASE Settle(status, error)
    BY <1>1, <1>2, <1>5, SettleRecorded DEF Held
  <1> QED
    BY <1>3, <1>4, <1>5 DEF Opened, Shown, IfGoing

(* What happens around the analysis.                                        *)
LEMMA OutsideRecorded ==
  ASSUME IInv, Records, UNCHANGED <<opt, pc, failures, attached, status, report, error, stop>>,
         cancelled => cancelled', late => late', sources # First => sources' # First
  PROVE  Records'
  BY DEF Records, ReportIsTrue, Held, Full

LEMMA RecordsStep ==
  ASSUME IInv, Records, [Next]_vars
  PROVE  Records'
  <1> USE DEF rest, resultVars, settingVars, workerVars
  <1>1. CASE Begin \/ Skip \/ Assessed
    BY <1>1, EarlyRecorded
  <1>2. CASE Collect \/ Lead \/ Execute \/ Reply
    <2>1. Results /\ pc \notin BeforeJournal \cup Ends
      BY <1>2, WorkResults
    <2>2. Moves \/ StartWorker
      BY <1>2, ProgramShape DEF Program, IInv
    <2>3. CASE Moves
      <3>1. Steady
        BY <2>3 DEF Moves, Steady, sourceVars
      <3> QED
        BY <2>1, <3>1, ResultsRecorded
    <2>4. CASE StartWorker
      BY <2>4, OutsideRecorded DEF StartWorker, Start, Refused, Spawned, sourceVars
    <2> QED
      BY <2>2, <2>3, <2>4
  <1>3. CASE Opened \/ Shown
    BY <1>3, ShownRecorded
  <1>4. CASE StartWorker
    BY <1>4, OutsideRecorded DEF StartWorker, Start, Refused, Spawned, sourceVars
  <1>5. CASE WorkerRuns \/ WorkerLeaves
    BY <1>5, OutsideRecorded
    DEF WorkerRuns, WorkerLeaves, Load, Exit, Interrupted, Terminate, WorkerSettles, Killed,
        SpawnFails, Closed, Settled, Disposed, HeirsLeave, sourceVars, callVars, childVars
  <1>6. CASE Cancel
    BY <1>6, OutsideRecorded DEF Cancel, CancelWorkers, sourceVars
  <1>7. CASE Deadline
    BY <1>7, OutsideRecorded DEF Deadline, Expires, sourceVars
  <1>8. CASE Edit
    <2>1. sources # First => sources' # First
      BY <1>8 DEF Edit, IInv, Versions, First
    <2> QED
      BY <1>8, <2>1, OutsideRecorded DEF Edit
  <1>9. CASE UNCHANGED vars
    BY <1>9, OutsideRecorded DEF vars, sourceVars
  <1> QED
    BY <1>1, <1>2, <1>3, <1>4, <1>5, <1>6, <1>7, <1>8, <1>9 DEF Next, Program

(* What an ended analysis leaves is true: its report, its status, its error *)
(* and its reason agree with each other and with what happened              *)
(* (orchestrator.ts, targetStopPolicy.ts).                                  *)
THEOREM ReportsAreTrue == Spec => []ReportIsTrue
  <1>1. Init => Records
    BY DEF Init, Records, BeforeJournal, Ends, None, ReportIsTrue
  <1>2. IInv /\ Records /\ [Next]_vars => Records'
    BY RecordsStep
  <1>3. Records => ReportIsTrue
    BY DEF Records
  <1> QED
    BY <1>1, <1>2, <1>3, Invariance, PTL DEF Spec

-----------------------------------------------------------------------------
(* What is published.                                                       *)

Publishes == status' = "execution-passed" /\ status # status'

(* What was bound, parsed and read in this order, and is there when the     *)
(* first of it is, is the same throughout.                                  *)
LEMMA SameThroughout ==
  ASSUME IInv, pc = "testing", outcome = "ok", Current
  PROVE  saw = sources /\ parsed = hash
  <1>1. HasRead /\ pc \notin BeforeEvidence \cup BeforeJournal \cup Ends
    BY DEF HasRead, BeforeEvidence, BeforeJournal, Ends
  <1>2. /\ NoLater(hash, parsed) /\ NoLater(parsed, sources["target"])
        /\ AllNoLater(versions, saw) /\ AllNoLater(saw, sources)
    BY <1>1 DEF IInv, Binding, Reading, BeforeEvidence
  <1>3. parsed = hash
    BY <1>2 DEF NoLater, Current, IInv, Versions
  <1>4. \A f \in Files : saw[f] = sources[f]
    BY <1>2 DEF AllNoLater, NoLater, Current, IInv, Versions
  <1> QED
    BY <1>3, <1>4 DEF IInv, Versions

(* A status an error or a published result leaves is not a new pass.        *)
LEMMA FailPublishesNothing ==
  ASSUME Records, NEW why, why # "execution-passed", Fail(why)
  PROVE  ~Publishes
  BY DEF Fail, EarlyEnd, Publishes

LEMMA ResultsPublish ==
  ASSUME IInv, Records, pc \notin BeforeJournal \cup Ends, Results, Publishes
  PROVE  pc = "testing" /\ outcome = "ok" /\ ~cancelled /\ Current
  <1>1. ~Goes
    BY DEF Goes, Publishes, resultVars
  <1>2. ~FailsTruly
    BY FailPublishesNothing DEF FailsTruly, Whys
  <1>3. PICK reached \in StatusValues \ {None}, thrown \in Whys \cup {None} :
           Reached(reached, thrown) /\ (Settle(reached, thrown) \/ Publish(reached, thrown))
    BY <1>1, <1>2 DEF Results, EndsTruly
  <1>4. reached = "execution-passed"
    BY <1>3 DEF Settle, Publish, Publishes
  <1> QED
    BY <1>3, <1>4 DEF Reached

LEMMA PublishStep ==
  ASSUME IInv, Records, Next, Publishes
  PROVE  ~cancelled /\ Current /\ saw = sources /\ parsed = hash
  <1> USE DEF rest, resultVars
  <1>1. ~(Begin \/ Skip \/ Assessed)
    <2>1. ~Fail("cancelled") /\ ~Fail("ast-trace") /\ ~Fail(Thrown)
      BY FailPublishesNothing DEF Thrown
    <2>2. ~Open
      BY <2>1 DEF Open, CreateDirectory, CreateJournal, ContextRefused, Publishes
    <2> QED
      BY <2>1, <2>2 DEF Begin, Skip, Assessed, IfGoing, Go, Publishes
  <1>2. ~(Opened \/ Shown)
    <2>1. ~Fail("cancelled") /\ ~Fail("pipeline")
      BY FailPublishesNothing
    <2>2. ~Go("showing") /\ ~Settle(status, error)
      BY DEF Go, Settle, Publishes
    <2> QED
      BY <2>1, <2>2 DEF Opened, Shown, IfGoing
  <1>3. ~(StartWorker \/ WorkerRuns \/ WorkerLeaves \/ Cancel \/ Deadline \/ Edit)
    BY DEF StartWorker, WorkerRuns, WorkerLeaves, Cancel, Deadline, Edit, Publishes
  <1>4. Results /\ pc \notin BeforeJournal \cup Ends
    BY <1>1, <1>2, <1>3, WorkResults DEF Next, Program
  <1> QED
    BY <1>4, ResultsPublish, SameThroughout

(* A test that is published as executed ran on the sources there are now,   *)
(* and so were the AST, the evidence and the journal, although files are    *)
(* edited while workers and roles are at work (executionVerification.ts).   *)
THEOREM PublishedOnCurrentSources == Spec => PublishedIsCurrent
  <1>1. Init => Records
    BY DEF Init, Records, BeforeJournal, Ends, None, ReportIsTrue
  <1>2. IInv /\ Records /\ [Next]_vars => Records'
    BY RecordsStep
  <1>3. IInv /\ Records /\ [Next]_vars =>
          [status' = "execution-passed" /\ status # status' =>
              ~cancelled /\ Current /\ saw = sources /\ parsed = hash]_vars
    BY PublishStep DEF Publishes
  <1> QED
    BY <1>1, <1>2, <1>3, Invariance, PTL DEF Spec, PublishedIsCurrent

-----------------------------------------------------------------------------
(* Types: the rejected answers are counted up to the limit, where the       *)
(* analysis ends.                                                           *)

Counts ==
    \/ failures' = failures
    \/ failures' = failures + 1 /\ (failures' = FailureLimit => pc' = "done")

Counted ==
    /\ failures \in 0 .. FailureLimit
    /\ pc \notin Ends => failures < FailureLimit

LEMMA ProgramCounts ==
  ASSUME Program
  PROVE  Counts /\ (failures' # failures => pc \notin Ends)
  <1>1. \A why : Fail(why) => pc' = "done"
    BY DEF Fail
  <1>2. \A then : Charge(then) => Counts
    BY <1>1 DEF Charge, Counts, IfAllowed, IfGoing
  <1>3. Planned \/ Written \/ Validated \/ CallsChecked \/ Tested \/ Revised \/ Measured => Counts
    BY <1>2
    DEF Planned, Written, Validated, CallsChecked, Tested, Revised, Measured, Judged,
        FirstAttempt,
        Validate, StructureFails, Counts
  <1>4. Scaffolded => Counts
    BY <1>2 DEF Scaffolded, HandOver, Generate, FirstAttempt, Validate, StructureFails, Counts
  <1>5. Execute \/ Planned => pc \notin Ends
    BY
    DEF Execute, Planned, Scaffolded, Written, Validated, CallsChecked, Tested, Hinted, Revised,
        Measured,
           Judged, Taken, TakenPlainly, Replied, Ends
  <1>6. Begin \/ Skip \/ StartWorker \/ Assessed \/ Collect \/ Supplemented \/ RoundsEnd \/ Hinted
           \/ Reply \/ Opened \/ Shown => failures' = failures
    BY
    DEF Begin, Skip, StartWorker, Assessed, Collect, Parsed, Loaded, Depended, Called, Traced,
        Covered,
           Supplemented, RoundsEnd, Hinted, Reply, RequestFails, Opened, Shown, TakenPlainly
  <1> QED
    BY <1>3, <1>4, <1>5, <1>6 DEF Program, Lead, Execute, Counts

Values == attached \in BOOLEAN /\ {status, report} \subseteq StatusValues

LEMMA FailValues ==
  ASSUME Values, opt \in Options, NEW why, Fail(why)
  PROVE  Values'
  BY DEF Values, Fail, EarlyEnd, StatusValues, Options

LEMMA SettleValues ==
  ASSUME Values, NEW reached \in StatusValues, NEW thrown,
         Settle(reached, thrown) \/ Publish(reached, thrown)
  PROVE  Values'
  BY DEF Values, Settle, Publish, StatusValues

LEMMA ValuesStep ==
  ASSUME IInv, Records, Values, [Next]_vars
  PROVE  Values'
  <1> USE FailValues DEF rest, resultVars, Records
  <1>1. CASE Begin \/ Skip \/ Assessed
    <2>1. Open => Values'
      BY DEF Open, CreateDirectory, CreateJournal, ContextRefused, Values, StatusValues, Options
    <2> QED
      BY <1>1, <2>1 DEF Begin, Skip, Assessed, IfGoing, Go, Values, StatusValues, Options
  <1>2. CASE Collect \/ Lead \/ Execute \/ Reply
    <2>1. Results
      BY <1>2, WorkResults
    <2> QED
      BY <2>1, SettleValues DEF Results, Goes, FailsTruly, EndsTruly, Values
  <1>3. CASE Opened \/ Shown
    BY <1>3, SettleValues DEF Opened, Shown, IfGoing, Go, Values
  <1>4. CASE \/ StartWorker \/ WorkerRuns \/ WorkerLeaves \/ Cancel \/ Deadline \/ Edit
             \/ UNCHANGED vars
    BY <1>4 DEF StartWorker, WorkerRuns, WorkerLeaves, Cancel, Deadline, Edit, vars, Values
  <1> QED
    BY <1>1, <1>2, <1>3, <1>4 DEF Next, Program

LEMMA CountedStep ==
  ASSUME pc \in PcValues, Counted, IInv, IInv', [Next]_vars
  PROVE  Counted'
  <1> USE LimitIsPositive
  <1>1. CASE Program
    <2>1. Counts /\ (failures' # failures => pc \notin Ends)
      BY <1>1, ProgramCounts
    <2>2. pc \in Ends => pc' \in Ends
      BY <1>1, ProgramShape DEF IInv, Moves, Onward, StartWorker, Ends, BeforeJournal
    <2> QED
      BY <2>1, <2>2 DEF Counted, Counts, Ends
  <1>2. CASE ~Program
    BY <1>2 DEF Next, WorkerRuns, WorkerLeaves, Cancel, Deadline, Edit, rest, vars, Counted
  <1> QED
    BY <1>1, <1>2

\* The versions there can be.
Bounded ==
    /\ {sources, saw, versions} \subseteq [Files -> 0 .. MaxEdits + 1]
    /\ {hash, parsed} \subseteq 0 .. MaxEdits + 1 /\ edits \in 0 .. MaxEdits

LEMMA BoundedStep ==
  ASSUME IInv, Bounded, [Next]_vars
  PROVE  Bounded'
  <1> USE EditsNat DEF Bounded, sourceVars, evidenceVars
  <1>1. CASE Program
    <2>1. CASE StartWorker
      BY <2>1 DEF StartWorker
    <2>2. CASE Moves
      <3>1. \A v \in [Files -> 0 .. MaxEdits + 1] : v["target"] \in 0 .. MaxEdits + 1
        BY DEF Files
      <3> QED
        BY <2>2, <3>1 DEF Moves, Onward
    <2> QED
      BY <1>1, <2>1, <2>2, ProgramShape DEF IInv
  <1>2. CASE Edit
    <2>1. PICK f \in Files, v \in {0, edits + 2} :
             sources[f] # 0 /\ sources' = [sources EXCEPT ![f] = v]
      BY <1>2 DEF Edit
    <2> QED
      BY <1>2, <2>1 DEF Edit, rest
  <1>3. CASE WorkerRuns \/ WorkerLeaves \/ Cancel \/ Deadline \/ UNCHANGED vars
    BY <1>3 DEF WorkerRuns, WorkerLeaves, Cancel, Deadline, rest, vars
  <1> QED
    BY <1>1, <1>2, <1>3 DEF Next

(* Every variable of the analysis has its type: no more answers are         *)
(* rejected than the limit allows (targetStopPolicy.ts).                    *)
THEOREM TypeCorrect == Spec => []TypeOK
  <1>1. Init => Records /\ Values /\ Counted /\ Bounded
    <2>1. Init => Records
      BY DEF Init, Records, BeforeJournal, Ends, None, ReportIsTrue
    <2>2. Init => Values
      BY DEF Init, None, Values, StatusValues
    <2>3. Init => Counted
      BY LimitIsPositive DEF Init, Counted
    <2>4. Init => Bounded
      BY EditsNat DEF Init, Bounded, First, Nothing
    <2> QED
      BY <2>1, <2>2, <2>3, <2>4
  <1>2. IInv /\ Records /\ [Next]_vars => Records'
    BY RecordsStep
  <1>3. IInv /\ Records /\ Values /\ [Next]_vars => Values'
    BY ValuesStep
  <1>4. IInv /\ IInv' /\ Counted /\ [Next]_vars => Counted'
    BY CountedStep DEF IInv
  <1>5. IInv /\ Bounded /\ [Next]_vars => Bounded'
    BY BoundedStep
  <1>6. IInv /\ Records /\ Values /\ Counted /\ Bounded => TypeOK
    BY DEF IInv, CallInv, Records, Values, Counted, Bounded, TypeOK
  <1> QED
    BY <1>1, <1>2, <1>3, <1>4, <1>5, <1>6, Invariance, PTL DEF Spec

=============================================================================
