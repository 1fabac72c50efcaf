-------------------------- MODULE WriterRoundProofs --------------------------
(***************************************************************************)
(* Safety of the single-pass generation loop, and of the whole round it is *)
(* part of, for every set of texts and replies, failure limit and request  *)
(* budget.                                                                 *)
(***************************************************************************)
EXTENDS WriterRound, TLAPS

\* The failure that reaches the limit has thrown, so the head of the loop
\* always finds one left; what is validated or planned is a text.
Control ==
    /\ failures = FailureLimit => pc = "thrown"
    /\ pc \in {"validating", "planning"} => candidate \in Codes
    /\ pc = "planning" => candidate \in rejected
    /\ pc = "composing" => plan # NoCode
    /\ charged => pc \in {"head", "planning", "thrown"}

\* The transport error is forgiven once, and nothing is charged between the
\* head and the end of the iteration that then counts.
Forgiven == IF llmRetry = 0 THEN 0 ELSE 1
Sent == MaxRequests - requests

Paid ==
    /\ plan = NoCode => llmRetry <= failures + Forgiven
    /\ pc = "planning" /\ plan = NoCode => llmRetry <= failures - 1 + Forgiven

\* Every iteration sends.
Counted ==
    /\ llmRetry <= Sent
    /\ pc \in {"waiting", "composing", "preparing", "validating", "planning"} => llmRetry < Sent

IInv == TypeOK /\ Control /\ OnlyValidatedLeaves /\ Paid /\ Counted

-----------------------------------------------------------------------------
(* The invariant holds at the start.                                        *)
LEMMA InitInv == Init => IInv
  <1> SUFFICES ASSUME Init PROVE IInv
    OBVIOUS
  <1> USE NoCodeIsNone, LimitPositive, RequestsNat DEF Init
  <1>1. /\ failures \in 0 .. FailureLimit /\ failures < FailureLimit
        /\ llmRetry \in 0 .. MaxRequests /\ requests \in 0 .. MaxRequests
        /\ Sent = 0 /\ Forgiven = 0
    BY DEF Forgiven, Sent
  <1>2. TypeOK
    BY <1>1 DEF TypeOK, PcValues
  <1>3. Control /\ OnlyValidatedLeaves
    BY <1>1 DEF Control, OnlyValidatedLeaves
  <1>4. Paid /\ Counted
    BY <1>1 DEF Paid, Counted
  <1> QED
    BY <1>2, <1>3, <1>4 DEF IInv

(* What a rejection does, wherever it is made: one failure more and, at the *)
(* limit, an exception.                                                     *)
LEMMA RejectCharges ==
  ASSUME TypeOK, failures < FailureLimit, ~charged,
         NEW c \in Codes \cup {NoCode}, NEW there \in PcValues, Reject(c, there)
  PROVE  /\ failures' = failures + 1 /\ failures' \in 0 .. FailureLimit
         /\ charged' = TRUE /\ rejected' \subseteq Codes
         /\ rejected' = rejected \cup ({c} \ {NoCode})
         /\ pc' = IF failures' = FailureLimit THEN "thrown" ELSE there
  <1>1. /\ rejected' = rejected \cup ({c} \ {NoCode})
        /\ charged' = TRUE /\ failures' = failures + 1
        /\ pc' = IF failures' = FailureLimit THEN "thrown" ELSE there
    BY DEF Reject, Charge
  <1>2. rejected' \subseteq Codes
    BY <1>1 DEF TypeOK
  <1>3. failures' \in 0 .. FailureLimit
    BY <1>1, LimitPositive DEF TypeOK
  <1> QED
    BY <1>1, <1>2, <1>3

(* A request that is sent makes room for one more iteration.                *)
LEMMA SendCounts ==
  ASSUME NEW m \in Nat, NEW r \in 0 .. m, NEW q \in 0 .. r - 1,
         NEW k \in Nat, k <= m - r
  PROVE  q \in 0 .. m /\ k < m - q /\ k <= m - q
  OBVIOUS

(* The invariant is preserved, action by action.                            *)
LEMMA NextInv == IInv /\ [Next]_vars => IInv'
  <1> SUFFICES ASSUME IInv, [Next]_vars
               PROVE  IInv'
    OBVIOUS
  <1> USE NoCodeIsNone, LimitPositive, RequestsNat
          DEF IInv, TypeOK, Control, OnlyValidatedLeaves, Paid, Counted, Forgiven, Sent,
              PcValues, Ended
  <1>a. pc # "thrown" => failures < FailureLimit
    OBVIOUS
  <1>1. CASE BeginAttempt
    <2>1. pc = "head" /\ pc' = "requesting"
      BY <1>1, <1>a DEF BeginAttempt
    <2> QED
      BY <1>1, <2>1 DEF BeginAttempt
  <1>2. CASE Send
    <2> HIDE DEF IInv, Control, OnlyValidatedLeaves, Paid, Counted
    <2>1. /\ pc = "requesting" /\ pc' = "waiting" /\ requests' \in 0 .. requests - 1
          /\ UNCHANGED <<seedPending, llmRetry, candidate, valid, plan, rejected, failures, charged>>
      BY <1>2 DEF Send, codeVars, policyVars
    <2>2. TypeOK /\ Control /\ Paid /\ Counted
      BY DEF IInv
    <2>3. llmRetry \in Nat /\ llmRetry <= MaxRequests - requests /\ requests \in 0 .. MaxRequests
      BY <2>2 DEF Counted
    <2>4. /\ requests' \in 0 .. MaxRequests
          /\ llmRetry < MaxRequests - requests' /\ llmRetry <= MaxRequests - requests'
      BY <2>1, <2>3, SendCounts
    <2>5. TypeOK'
      BY <2>1, <2>2, <2>4
    <2>6. Control' /\ OnlyValidatedLeaves'
      BY <2>1, <2>2 DEF Control, OnlyValidatedLeaves
    <2>7. Paid'
      BY <2>1, <2>2 DEF Paid
    <2>8. Counted'
      <3>1. llmRetry' = llmRetry
        BY <2>1
      <3> QED
        BY <3>1, <2>4, Zenon DEF Counted
    <2> QED
      BY <2>5, <2>6, <2>7, <2>8 DEF IInv
  <1>3. CASE BadReply
    <2>1. /\ failures' = failures + 1 /\ failures' \in 0 .. FailureLimit
          /\ charged' = TRUE /\ rejected' \subseteq Codes
          /\ pc' = IF failures' = FailureLimit THEN "thrown" ELSE "head"
      BY <1>3, <1>a, RejectCharges DEF BadReply
    <2> QED
      BY <1>3, <2>1 DEF BadReply, NextIteration
  <1>4. CASE AskAgain
    <2> HIDE DEF IInv, Control, OnlyValidatedLeaves, Paid, Counted
    <2>1. /\ pc = "waiting" /\ failures < FailureLimit /\ ~charged
      BY <1>4, <1>a DEF AskAgain, IInv, Control
    <2>2. TypeOK /\ Control /\ Paid /\ Counted
      BY DEF IInv
    <2>3. /\ failures' = failures + 1 /\ failures' \in 0 .. FailureLimit
          /\ UNCHANGED <<seedPending, llmRetry, candidate, valid, plan, rejected, requests>>
      BY <1>4, <2>1, <2>2 DEF AskAgain, codeVars
    <2>4. \/ failures' = FailureLimit /\ charged' = TRUE /\ pc' = "thrown"
          \/ failures' < FailureLimit /\ charged' = FALSE /\ pc' = "requesting"
      BY <1>4 DEF AskAgain
    <2>5. TypeOK'
      BY <2>2, <2>3, <2>4
    <2>6. Control' /\ OnlyValidatedLeaves'
      BY <2>2, <2>3, <2>4 DEF Control, OnlyValidatedLeaves
    <2>7. Paid'
      BY <2>2, <2>3, <2>4 DEF Paid
    <2>8. Counted'
      BY <2>2, <2>3, <2>4 DEF Counted
    <2> QED
      BY <2>5, <2>6, <2>7, <2>8 DEF IInv
  <1>5. CASE TransportFails
    BY <1>5 DEF TransportFails, NextIteration, codeVars, policyVars
  <1>6. CASE ReplyArrives
    BY <1>6 DEF ReplyArrives, codeVars, policyVars
  <1>7. CASE EditMalformed
    <2>1. /\ failures' = failures + 1 /\ failures' \in 0 .. FailureLimit
          /\ charged' = TRUE /\ rejected' \subseteq Codes
          /\ pc' = IF failures' = FailureLimit THEN "thrown" ELSE "head"
      BY <1>7, <1>a, RejectCharges DEF EditMalformed
    <2> QED
      BY <1>7, <2>1 DEF EditMalformed, NextIteration
  <1>8. CASE EditMissing
    BY <1>8 DEF EditMissing, NextIteration, codeVars, policyVars
  <1>9. CASE EditOutOfScope
    <2> HIDE DEF IInv, Control, OnlyValidatedLeaves, Paid, Counted
    <2>1. /\ pc = "composing" /\ failures < FailureLimit /\ ~charged
      BY <1>9, <1>a DEF EditOutOfScope, IInv, Control
    <2>2. TypeOK /\ Control /\ Paid /\ Counted
      BY DEF IInv
    <2>3. /\ pc' = "thrown"
          /\ UNCHANGED <<seedPending, llmRetry, candidate, valid, plan, rejected, requests>>
      BY <1>9 DEF EditOutOfScope, codeVars
    <2>4. \/ failures' = failures + 1 /\ charged' = TRUE
          \/ UNCHANGED <<failures, charged>>
      BY <1>9, <2>1 DEF EditOutOfScope, Charge, policyVars
    <2>5. failures' \in 0 .. FailureLimit
      BY <2>1, <2>2, <2>4
    <2>6. TypeOK'
      BY <2>2, <2>3, <2>4, <2>5
    <2>7. Control' /\ OnlyValidatedLeaves'
      BY <2>2, <2>3, <2>4 DEF Control, OnlyValidatedLeaves
    <2>8. Paid'
      BY <2>2, <2>3, <2>4 DEF Paid
    <2>9. Counted'
      BY <2>2, <2>3, <2>4 DEF Counted
    <2> QED
      BY <2>6, <2>7, <2>8, <2>9 DEF IInv
  <1>10. CASE EditApplied
    BY <1>10 DEF EditApplied, codeVars, policyVars
  <1>11. ASSUME NEW c \in Codes \cup {NoCode}, Unusable(c) PROVE IInv'
    <2>1. /\ failures' = failures + 1 /\ failures' \in 0 .. FailureLimit
          /\ charged' = TRUE /\ rejected' \subseteq Codes
          /\ pc' = IF failures' = FailureLimit THEN "thrown" ELSE "head"
      BY <1>11, <1>a, RejectCharges DEF Unusable
    <2> QED
      BY <1>11, <2>1 DEF Unusable, NextIteration
  <1>12. ASSUME NEW c \in Codes, Prepared(c) PROVE IInv'
    BY <1>12 DEF Prepared, policyVars
  <1>13. CASE Accepted
    BY <1>13 DEF Accepted, policyVars
  <1>14. CASE Invalid
    <2>1. /\ failures' = failures + 1 /\ failures' \in 0 .. FailureLimit
          /\ charged' = TRUE /\ rejected' \subseteq Codes
          /\ pc' = IF failures' = FailureLimit THEN "thrown" ELSE "head"
      BY <1>14, <1>a, RejectCharges DEF Invalid
    <2> QED
      BY <1>14, <2>1 DEF Invalid, NextIteration
  <1>15. CASE UndefinedName
    <2>1. /\ failures' = failures + 1 /\ failures' \in 0 .. FailureLimit
          /\ charged' = TRUE /\ rejected' \subseteq Codes
          /\ rejected' = rejected \cup ({candidate} \ {NoCode})
          /\ pc' = IF failures' = FailureLimit THEN "thrown" ELSE "planning"
      BY <1>15, <1>a, RejectCharges DEF UndefinedName
    <2>2. candidate \in rejected'
      BY <1>15, <2>1 DEF UndefinedName
    <2> QED
      BY <1>15, <2>1, <2>2 DEF UndefinedName
  <1>16. CASE Planned
    BY <1>16 DEF Planned, NextIteration, policyVars
  <1>17. CASE Throw
    BY <1>17 DEF Throw, codeVars, policyVars
  <1>18. CASE UNCHANGED vars
    BY <1>18 DEF vars, codeVars, policyVars
  <1> QED
    BY <1>1, <1>2, <1>3, <1>4, <1>5, <1>6, <1>7, <1>8, <1>9, <1>10, <1>11, <1>12,
       <1>13, <1>14, <1>15, <1>16, <1>17, <1>18 DEF Next

(* The inductive invariant holds throughout.                                *)
THEOREM Inductive == Spec => []IInv
  BY InitInv, NextInv, PTL DEF Spec

(* Type correctness, for every limit and budget.                            *)
THEOREM TypeCorrect == Spec => []TypeOK
  <1>1. IInv => TypeOK
    BY DEF IInv
  <1> QED
    BY <1>1, Inductive, PTL

(* No text that was rejected leaves the loop, whatever was charged before   *)
(* and however the attempts went.                                           *)
THEOREM ValidatedOnly == Spec => []OnlyValidatedLeaves
  <1>1. IInv => OnlyValidatedLeaves
    BY DEF IInv
  <1> QED
    BY <1>1, Inductive, PTL

(* The iterations are paid for, for every limit.                            *)
THEOREM PaidFor == Spec => []IterationsArePaidFor
  <1>1. IInv => IterationsArePaidFor
    BY DEF IInv, TypeOK, Paid, Forgiven, IterationsArePaidFor
  <1> QED
    BY <1>1, Inductive, PTL

(* A name binding repair never widens.                                      *)
THEOREM ScopeKept == Spec => ScopeNeverWidens
  <1>1. IInv /\ [Next]_vars =>
          [/\ plan # NoCode => plan' # NoCode
           /\ plan' # plan => plan' \in rejected]_vars
    <2> SUFFICES ASSUME IInv, [Next]_vars
                 PROVE  \/ UNCHANGED plan
                        \/ plan' # NoCode /\ plan' \in rejected
      BY DEF vars, codeVars
    <2>1. CASE Planned
      BY <2>1, NoCodeIsNone DEF Planned, IInv, TypeOK, Control
    <2>2. CASE UNCHANGED vars
      BY <2>2 DEF vars, codeVars
    <2>3. CASE Next /\ ~Planned
      BY <2>3 DEF Next, BeginAttempt, Send, BadReply, AskAgain, TransportFails, ReplyArrives,
           EditMalformed, EditMissing, EditOutOfScope, EditApplied, Unusable, Prepared,
           Accepted, Invalid, UndefinedName, Throw, codeVars
    <2> QED
      BY <2>1, <2>2, <2>3
  <1> QED
    BY <1>1, Inductive, PTL DEF Spec, ScopeNeverWidens

-----------------------------------------------------------------------------
(***************************************************************************)
(* The whole round, for every set of texts and replies.                    *)
(***************************************************************************)
Early == {"scaffolding", "filling", "dividing", "generating", "composing"}
Piped == {"head", "asking", "validating", "running", "reviewing", "accepted"}
Feedback == [testHash : Codes \cup {NoCode}, findings : Replies \cup {{}}]

RoundTexts ==
    /\ hook \in Early \cup Piped \cup {"over"}
    /\ code \in Codes \cup {NoCode} /\ retained \in Codes \cup {NoCode}
    /\ executable \in Codes \cup {NoCode} /\ best \in Codes \cup {NoCode}
    /\ hook \in Piped => code \in Codes /\ retained \in Codes
    /\ hook = "reviewing" => retained = code

RoundMaps ==
    /\ work \in [Codes -> Feedback] /\ edits \in [Codes -> Feedback] /\ adds \in [Codes -> Feedback]
    /\ scoped \in [Codes -> SUBSET Methods]
    /\ ask \in [mode : {"none", "fix", "edit", "add", "whole"}, text : Codes \cup {NoCode},
                feedback : Feedback]

RoundTypes == RoundTexts /\ RoundMaps

\* A limit that is reached has thrown, so the loop never hands over for it.
Limited ==
    /\ failures \in Nat /\ failures <= FailureLimit
    /\ failures < FailureLimit \/ pc = "thrown"

\* Nothing has thrown where the round asks for parts.
InParts == hook \in {"scaffolding", "filling", "dividing", "composing"} => pc \in {"head", "requesting"}

\* What is validated, or handed over, is a text.
HasText ==
    /\ candidate \in Codes \cup {NoCode} /\ valid \in BOOLEAN
    /\ pc \in {"validating", "planning"} => candidate \in Codes
    /\ OnlyValidatedLeaves

\* What is kept for a text was accepted for this text.
Answers(t, feedback) ==
    feedback = NoFeedback \/ (feedback.testHash = t /\ Assesses(t, feedback.findings))
Remembered ==
    /\ \A t \in Codes : Answers(t, work[t]) /\ Answers(t, edits[t]) /\ Answers(t, adds[t])
    /\ hook = "asking" => ask.text = code /\ Answers(ask.text, ask.feedback)

\* The scope goes with the text at hand and with the one that is retained; a
\* text it does not fit is refused before it runs.
Narrowed ==
    /\ \A t \in Codes : scoped[t] \in {{}, Inventory(t)}
    /\ narrow # {} =>
        /\ hook \in {"head", "asking", "validating", "running"}
        /\ scoped[retained] = narrow
        /\ scoped[code] = narrow \/ (hook = "validating" /\ code \in refused)
        /\ hook = "asking" => ask.mode # "fix"

\* The last checkpoint keeps all earlier ones, what runs keeps the last.
Checkpointed ==
    /\ owed \subseteq Codes
    /\ owed # {} => executable \in owed
    /\ executable # NoCode => executable \in owed
    /\ \A t \in owed : Preserves(t, executable, Methods)
    /\ hook \in {"running", "reviewing", "accepted"} /\ executable # NoCode =>
        Preserves(executable, code, Methods)

RoundInv == RoundTypes /\ InParts /\ Limited /\ HasText /\ Remembered /\ Narrowed /\ Checkpointed

-----------------------------------------------------------------------------
(* A text keeps itself, and what keeps a text that kept another one keeps   *)
(* that one too.                                                            *)
LEMMA PreservesItself == \A t \in Texts : Preserves(t, t, Methods)
  BY DEF Preserves, Keeps

LEMMA PreservesOn ==
  ASSUME NEW r \in Texts, NEW s \in Texts, NEW t \in Texts,
         Preserves(r, s, Methods), Preserves(s, t, Methods)
  PROVE  Preserves(r, t, Methods)
  BY DEF Preserves, Keeps, Inventory

-----------------------------------------------------------------------------
(* The kinds of step the proofs go through.                                 *)
Begins ==
    \/ AskForScaffold \/ NoScaffold \/ BeginFamily \/ CaseFails \/ CaseRejected \/ CaseComposed
    \/ PartFails \/ PartRejected \/ PartWritten \/ PartsConflict
HandsOver == HandOver \/ ScaffoldFilled \/ PartsMerged
Asks == AskBugFixer \/ AskForEdit \/ AskForAddition \/ AskForWhole
Answered == \E c \in Codes : Repeats(c) \/ Revises(c)
NoReply == BadFormat \/ NotPython
Checks == TurnedDown \/ AlreadyRan \/ Runs
Executes == \E o \in Outcomes : Regresses(o) \/ Fails(o) \/ Succeeds(o)
Reviews == Approved \/ \E reply \in Replies : ReviewRejected(reply) \/ Assessed(reply)

LEMMA Steps ==
  ASSUME [RoundNext]_allVars
  PROVE  \/ Begins \/ Generate \/ HandsOver \/ Asks \/ Answered \/ NoReply
         \/ Checks \/ Executes \/ Reviews \/ Abandon \/ UNCHANGED allVars
  BY DEF RoundNext, Begins, HandsOver, Asks, Answered, NoReply, Checks, Executes, Reviews

(* No feedback is a feedback.                                               *)
LEMMA NoFeedbackIsOne == NoFeedback \in Feedback
  BY DEF NoFeedback, Feedback

(* The single-pass loop starts below its limit, with no text.               *)
LEMMA InitLimited == Init => Limited /\ HasText
  <1>1. Init => Limited
    BY LimitPositive DEF Init, Limited
  <1>2. Init => HasText
    BY DEF Init, HasText, OnlyValidatedLeaves
  <1> QED
    BY <1>1, <1>2

(* The invariant holds at the start.                                        *)
LEMMA RoundInitInv == RoundInit => RoundInv
  <1> SUFFICES ASSUME RoundInit PROVE RoundInv
    OBVIOUS
  <1> USE NoCodeIsNone, LimitPositive, StartsAreCodes DEF RoundInit, IdleLoop
  <1>1. /\ hook \in {"scaffolding", "dividing", "generating"}
        /\ executable \in Codes \cup {NoCode} /\ best \in Codes \cup {NoCode}
        /\ code = NoCode /\ retained = NoCode
    OBVIOUS
  <1>2. RoundTypes
    <2>1. work = Nothing /\ edits = Nothing /\ adds = Nothing /\ scoped = NoMethods /\ ask = NoAsk
      OBVIOUS
    <2>2. RoundMaps
      BY <2>1, NoFeedbackIsOne DEF RoundMaps, Nothing, NoMethods, NoAsk
    <2>3. RoundTexts
      BY <1>1 DEF RoundTexts, Early, Piped
    <2> QED
      BY <2>2, <2>3 DEF RoundTypes
  <1>3. Limited /\ HasText
    BY InitLimited
  <1>7. InParts
    BY DEF InParts, Init
  <1>4. Remembered
    BY <1>1 DEF Remembered, Answers, Nothing
  <1>5. Narrowed
    BY DEF Narrowed, NoMethods
  <1>6. Checkpointed
    BY <1>1, PreservesItself, CodesAreTexts DEF Checkpointed
  <1> QED
    BY <1>2, <1>3, <1>4, <1>5, <1>6, <1>7 DEF RoundInv

(* How the texts stay texts.                                                *)
LEMMA TextsInv ==
  ASSUME RoundTexts, HasText, [RoundNext]_allVars
  PROVE  RoundTexts'
  <1> USE DEF RoundTexts, Early, Piped
  <1>1. CASE Begins
    BY <1>1 DEF Begins, AskForScaffold, NoScaffold, BeginFamily, AskForCase, CaseFails,
         CaseRejected,
       CaseComposed, AskForPart, PartFails, PartRejected, PartWritten, PartsConflict, roundVars,
       pipelineVars, targetVars, loopVars, feedbackVars, historyVars, partVars
  <1>2. CASE Generate
    BY <1>2 DEF Generate, pipelineVars, targetVars, loopVars, feedbackVars, historyVars
  <1>3. CASE HandsOver
    BY <1>3 DEF HandsOver, HandOver, ScaffoldFilled, PartsMerged, StartPipeline, Baseline,
       feedbackVars, historyVars, targetVars, HasText, OnlyValidatedLeaves
  <1>4. CASE Asks
    BY <1>4 DEF Asks, Request, AskBugFixer, AskForEdit, AskForAddition, AskForWhole, loopVars,
         targetVars
  <1>5. CASE Answered
    BY <1>5 DEF Answered, Repeats, Revises, Reply, Miss, loopVars, targetVars
  <1>6. CASE NoReply
    BY <1>6 DEF NoReply, BadFormat, NotPython, ReplyIsNoText, Miss, loopVars, targetVars
  <1>7. CASE Checks
    BY <1>7 DEF Checks, TurnedDown, AlreadyRan, Runs, Miss, loopVars, targetVars
  <1>8. CASE Executes
    BY <1>8 DEF Executes, Ran, Regresses, Fails, Succeeds, Miss, loopVars, targetVars
  <1>9. CASE Reviews
    BY <1>9 DEF Reviews, Approved, AskReviewer, ReviewRejected, Assessed, loopVars, targetVars
  <1>10. CASE Abandon
    BY <1>10 DEF Abandon, targetVars
  <1>11. CASE UNCHANGED allVars
    BY <1>11 DEF allVars, roundVars, pipelineVars, targetVars, loopVars
  <1> QED
    BY <1>1, <1>2, <1>3, <1>4, <1>5, <1>6, <1>7, <1>8, <1>9, <1>10, <1>11, Steps

(* How what is kept for the texts stays so.                                 *)
LEMMA MapsInv ==
  ASSUME RoundTypes, [RoundNext]_allVars
  PROVE  RoundMaps'
  <1> USE NoFeedbackIsOne DEF RoundMaps
  <1>0. RoundTexts /\ RoundMaps
    BY DEF RoundTypes
  <1>1. CASE Begins
    BY <1>0, <1>1 DEF Begins, AskForScaffold, NoScaffold, BeginFamily, AskForCase, CaseFails,
         CaseRejected,
       CaseComposed, AskForPart, PartFails, PartRejected, PartWritten, PartsConflict,
       pipelineVars, feedbackVars
  <1>2. CASE Generate
    BY <1>0, <1>2 DEF Generate, pipelineVars, feedbackVars
  <1>3. CASE HandsOver
    BY <1>0, <1>3 DEF HandsOver, HandOver, ScaffoldFilled, PartsMerged, feedbackVars
  <1>4. CASE Asks
    <2>1. hook = "head" /\ code \in Codes
      BY <1>0, <1>4 DEF Asks, AskBugFixer, AskForEdit, AskForAddition, AskForWhole, Request,
           RoundTexts, Piped
    <2>2. Matched \in Feedback /\ EditPlan \in Feedback /\ Additions \in Feedback
      BY <1>0, <2>1 DEF Matched, EditPlan, Additions
    <2>3. ASSUME NEW mode \in {"fix", "edit", "add", "whole"}, NEW feedback \in Feedback,
                 Request(mode, feedback)
          PROVE  /\ ask' \in [mode : {"none", "fix", "edit", "add", "whole"},
                              text : Codes \cup {NoCode}, feedback : Feedback]
                 /\ work' \in [Codes -> Feedback] /\ scoped' = scoped
      BY <1>0, <2>1, <2>3 DEF Request
    <2>4. CASE AskBugFixer
      BY <1>0, <2>3, <2>4 DEF AskBugFixer
    <2>5. CASE AskForEdit
      BY <1>0, <2>1, <2>2, <2>3, <2>5 DEF AskForEdit
    <2>6. CASE AskForAddition
      BY <1>0, <2>1, <2>2, <2>3, <2>6 DEF AskForAddition
    <2>7. CASE AskForWhole
      BY <1>0, <2>2, <2>3, <2>7 DEF AskForWhole
    <2> QED
      BY <1>4, <2>4, <2>5, <2>6, <2>7 DEF Asks
  <1>5. CASE Answered
    <2>1. PICK c \in Codes : Reply(c)
      BY <1>5 DEF Answered, Repeats, Revises
    <2>2. hook = "asking" /\ ask.text \in Codes \cup {NoCode} /\ UNCHANGED <<work, edits, adds>>
      BY <1>0, <2>1 DEF Reply
    <2>3. scoped' \in [Codes -> SUBSET Methods]
      BY <1>0, <2>1 DEF Reply, Inventory
    <2>4. ask' = NoAsk
      BY <2>1 DEF Reply
    <2> QED
      BY <1>0, <2>2, <2>3, <2>4 DEF NoAsk
  <1>6. CASE NoReply
    BY <1>0, <1>6 DEF NoReply, BadFormat, NotPython, ReplyIsNoText, NoAsk, feedbackVars
  <1>7. CASE Checks
    BY <1>0, <1>7 DEF Checks, TurnedDown, AlreadyRan, Runs, LoopOnly, feedbackVars
  <1>8. CASE Executes
    BY <1>0, <1>8 DEF Executes, Ran, Regresses, Fails, Succeeds, feedbackVars, RoundTexts, Piped
  <1>9. CASE Reviews
    <2>1. AskReviewer
      BY <1>9 DEF Reviews, Approved, ReviewRejected, Assessed
    <2>2. hook = "reviewing" /\ code \in Codes /\ UNCHANGED <<ask, edits, adds>>
      BY <1>0, <2>1 DEF AskReviewer, RoundTexts, Piped
    <2>3. CASE UNCHANGED <<work, scoped>>
      BY <1>0, <2>2, <2>3
    <2>4. ASSUME NEW reply \in Replies, Assessed(reply)
          PROVE  work' \in [Codes -> Feedback] /\ scoped' \in [Codes -> SUBSET Methods]
      BY <1>0, <2>2, <2>4 DEF Assessed, Feedback, Inventory
    <2> QED
      BY <1>0, <1>9, <2>2, <2>3, <2>4 DEF Reviews, Approved, ReviewRejected
  <1>10. CASE Abandon
    BY <1>0, <1>10 DEF Abandon, NoAsk, Nothing, NoMethods
  <1>11. CASE UNCHANGED allVars
    BY <1>0, <1>11 DEF allVars, roundVars, pipelineVars, feedbackVars
  <1> QED
    BY <1>1, <1>2, <1>3, <1>4, <1>5, <1>6, <1>7, <1>8, <1>9, <1>10, <1>11, Steps

(* The parts of a round are asked for from where nothing has thrown.        *)
LEMMA InPartsInv ==
  ASSUME InParts, [RoundNext]_allVars
  PROVE  InParts'
  <1> USE DEF InParts
  <1>1. CASE Begins
    BY <1>1 DEF Begins, AskForScaffold, NoScaffold, BeginFamily, AskForCase, CaseFails,
         CaseRejected,
       CaseComposed, AskForPart, PartFails, PartRejected, PartWritten, PartsConflict, vars
  <1>2. CASE Generate \/ HandsOver
    BY <1>2 DEF Generate, HandsOver, HandOver, ScaffoldFilled, PartsMerged, StartPipeline
  <1>3. CASE Asks \/ Answered \/ NoReply \/ Checks
    BY <1>3 DEF Asks, Request, AskBugFixer, AskForEdit, AskForAddition, AskForWhole, Answered,
         Repeats,
       Revises, Reply, NoReply, BadFormat, NotPython, ReplyIsNoText, Checks, TurnedDown, AlreadyRan, Runs, Miss
  <1>4. CASE Executes \/ Reviews
    BY <1>4 DEF Executes, Ran, Regresses, Fails, Succeeds, Reviews, Approved, AskReviewer,
         ReviewRejected,
       Assessed, Miss
  <1>5. CASE Abandon
    BY <1>5 DEF Abandon
  <1>6. CASE UNCHANGED allVars
    BY <1>6 DEF allVars, roundVars, vars
  <1> QED
    BY <1>1, <1>2, <1>3, <1>4, <1>5, <1>6, Steps

(* A charge adds one failure at most, and a rejection that reaches the      *)
(* limit throws.                                                            *)
LEMMA ChargeAdds ==
  ASSUME Limited, Charge
  PROVE  failures' = failures \/ failures' = failures + 1
  BY DEF Charge

LEMMA RejectLimits ==
  ASSUME Limited, pc # "thrown", NEW c, NEW there, Reject(c, there)
  PROVE  Limited'
  <1>1. /\ failures' = failures \/ failures' = failures + 1
        /\ pc' = IF failures' = FailureLimit THEN "thrown" ELSE there
    BY ChargeAdds DEF Reject
  <1> QED
    BY <1>1, LimitPositive DEF Limited

LEMMA MissLimits ==
  ASSUME Limited, NEW there, Miss(there)
  PROVE  Limited'
  BY ChargeAdds, LimitPositive DEF Limited, Miss

(* The limit of the failures.                                               *)
LEMMA LimitedInv ==
  ASSUME InParts, Limited, [RoundNext]_allVars
  PROVE  Limited'
  <1>1. CASE Begins
    <2>1. CASE CaseFails \/ CaseComposed \/ PartFails \/ PartWritten
      <3>1. failures' = failures /\ pc # "thrown"
        BY <2>1 DEF InParts, AskForCase, CaseFails, CaseComposed, AskForPart, PartFails, PartWritten
      <3> QED
        BY <3>1 DEF Limited
    <2>2. CASE CaseRejected \/ PartRejected
      <3>1. failures' = failures + 1 /\ failures' < FailureLimit
        BY <2>2 DEF CaseRejected, PartRejected
      <3> QED
        BY <3>1, LimitPositive DEF Limited
    <2>3. CASE AskForScaffold \/ NoScaffold \/ BeginFamily \/ PartsConflict
      BY <2>3 DEF Limited, AskForScaffold, NoScaffold, BeginFamily, PartsConflict, vars, policyVars
    <2> QED
      BY <1>1, <2>1, <2>2, <2>3 DEF Begins
  <1>2. CASE Generate
    <2>1. CASE BeginAttempt \/ AcceptFile \/ ComposeFile \/ ComposeEdit \/ AskForFile \/ TransportFails
              \/ ReplyArrives \/ EditMissing \/ EditApplied \/ Planned
      <3>1. failures' = failures /\ pc # "thrown"
        BY <2>1 DEF BeginAttempt, AcceptFile, Accepted, ComposeFile, ComposeEdit, Prepared,
             AskForFile,
           Send, TransportFails, ReplyArrives, EditMissing, EditApplied, Planned, policyVars
      <3> QED
        BY <3>1 DEF Limited
    <2>2. CASE BadReply \/ EditMalformed \/ RefuseAddition \/ NoFile \/ RejectFile
      <3>1. pc # "thrown" /\ \E c \in Codes \cup {NoCode, candidate}, there \in PcValues : Reject(c, there)
        BY <2>2 DEF BadReply, EditMalformed, RefuseAddition, NoFile, Unusable, RejectFile, Invalid,
           UndefinedName, PcValues
      <3> QED
        BY <3>1, RejectLimits
    <2>3. CASE AskAgain
      BY <2>3, LimitPositive DEF Limited, AskAgain
    <2>4. CASE EditOutOfScope
      <3>1. pc = "composing" /\ pc' = "thrown" /\ (failures' = failures \/ failures' = failures + 1)
        BY <2>4, ChargeAdds DEF EditOutOfScope, policyVars
      <3> QED
        BY <3>1, LimitPositive DEF Limited
    <2> QED
      BY <1>2, <2>1, <2>2, <2>3, <2>4 DEF Generate
  <1>3. CASE HandsOver
    <2>1. CASE HandOver \/ PartsMerged
      <3>1. failures' = failures /\ pc # "thrown"
        BY <2>1 DEF InParts, HandOver, PartsMerged
      <3> QED
        BY <3>1 DEF Limited
    <2>2. CASE ScaffoldFilled
      <3>1. failures' < FailureLimit /\ (failures' = failures \/ failures' = failures + 1)
        BY <2>2 DEF ScaffoldFilled, Limited
      <3> QED
        BY <3>1, LimitPositive DEF Limited
    <2> QED
      BY <1>3, <2>1, <2>2 DEF HandsOver
  <1>4. CASE Asks
    BY <1>4 DEF Limited, Asks, Request, AskBugFixer, AskForEdit, AskForAddition, AskForWhole
  <1>5. CASE Answered
    <2>1. CASE \E c \in Codes : Repeats(c)
      BY <2>1, MissLimits DEF Repeats
    <2>2. CASE \E c \in Codes : Revises(c)
      BY <2>2 DEF Limited, Revises, Reply
    <2> QED
      BY <1>5, <2>1, <2>2 DEF Answered
  <1>6. CASE NoReply
    BY <1>6, MissLimits DEF NoReply, BadFormat, NotPython, ReplyIsNoText
  <1>7. CASE Checks
    <2>1. CASE TurnedDown \/ AlreadyRan
      BY <2>1, MissLimits DEF TurnedDown, AlreadyRan
    <2>2. CASE Runs
      BY <2>2 DEF Limited, Runs, LoopOnly
    <2> QED
      BY <1>7, <2>1, <2>2 DEF Checks
  <1>8. CASE Executes
    <2>1. CASE \E o \in Outcomes : Regresses(o) \/ Fails(o)
      BY <2>1, MissLimits DEF Regresses, Fails
    <2>2. CASE \E o \in Outcomes : Succeeds(o)
      BY <2>2 DEF Limited, Succeeds, Ran
    <2> QED
      BY <1>8, <2>1, <2>2 DEF Executes
  <1>9. CASE Reviews
    BY <1>9, LimitPositive DEF Limited, Reviews, Approved, AskReviewer, ReviewRejected, Assessed
  <1>10. CASE Abandon
    BY <1>10 DEF Limited, Abandon
  <1>11. CASE UNCHANGED allVars
    BY <1>11 DEF Limited, allVars, vars, policyVars
  <1> QED
    BY <1>1, <1>2, <1>3, <1>4, <1>5, <1>6, <1>7, <1>8, <1>9, <1>10, <1>11, Steps

(* What the loop hands over is a text that passed its checks.               *)
LEMMA TextInv ==
  ASSUME Limited, HasText, [RoundNext]_allVars
  PROVE  HasText'
  <1> USE NoCodeIsNone DEF HasText, OnlyValidatedLeaves
  <1>1. CASE Begins
    BY <1>1 DEF Begins, AskForScaffold, NoScaffold, BeginFamily, AskForCase, CaseFails,
         CaseRejected,
       CaseComposed, AskForPart, PartFails, PartRejected, PartWritten, PartsConflict, vars, codeVars, genVars
  <1>2. CASE Generate
    <2>1. CASE BeginAttempt
      <3>1. pc' = "requesting" /\ candidate' = candidate /\ valid' = FALSE
        BY <2>1 DEF BeginAttempt, Limited
      <3> QED
        BY <3>1
    <2>2. CASE AcceptFile \/ ComposeFile \/ ComposeEdit
      BY <2>2 DEF AcceptFile, Accepted, ComposeFile, ComposeEdit, Prepared
    <2>3. CASE RefuseAddition \/ NoFile
      BY <2>3 DEF RefuseAddition, NoFile, Unusable, Reject
    <2>4. CASE RejectFile
      BY <2>4 DEF RejectFile, Invalid, UndefinedName, Reject
    <2>5. CASE AskForFile \/ TransportFails \/ ReplyArrives \/ EditMissing \/ EditApplied \/ Planned
      BY <2>5 DEF AskForFile, Send, TransportFails, ReplyArrives, EditMissing, EditApplied,
           Planned, codeVars
    <2>6. CASE BadReply \/ EditMalformed \/ AskAgain \/ EditOutOfScope
      BY <2>6 DEF BadReply, EditMalformed, AskAgain, EditOutOfScope, Reject, codeVars
    <2> QED
      BY <1>2, <2>1, <2>2, <2>3, <2>4, <2>5, <2>6 DEF Generate
  <1>3. CASE HandsOver
    BY <1>3 DEF HandsOver, HandOver, ScaffoldFilled, PartsMerged, StartPipeline
  <1>4. CASE Asks \/ Answered \/ NoReply \/ Checks
    BY <1>4 DEF Asks, Request, AskBugFixer, AskForEdit, AskForAddition, AskForWhole, Answered,
         Repeats,
       Revises, Reply, NoReply, BadFormat, NotPython, ReplyIsNoText, Checks, TurnedDown, AlreadyRan, Runs,
       LoopOnly, genVars
  <1>5. CASE Executes \/ Reviews
    BY <1>5 DEF Executes, Ran, Regresses, Fails, Succeeds, Reviews, Approved, AskReviewer,
         ReviewRejected,
       Assessed, genVars
  <1>6. CASE Abandon
    BY <1>6 DEF Abandon
  <1>7. CASE UNCHANGED allVars
    BY <1>7 DEF allVars, vars, codeVars
  <1> QED
    BY <1>1, <1>2, <1>3, <1>4, <1>5, <1>6, <1>7, Steps

(* What is kept for a text stays what was accepted for it: each attempt     *)
(* asks with what the text at hand was assessed with.                       *)
LEMMA RememberedInv ==
  ASSUME RoundTypes, Remembered, [RoundNext]_allVars
  PROVE  Remembered'
  <1>0. RoundTexts /\ RoundMaps
    BY DEF RoundTypes
  <1>n. \A t : Answers(t, NoFeedback)
    BY DEF Answers
  <1>s. ASSUME UNCHANGED <<work, edits, adds>>, hook' # "asking" PROVE Remembered'
    BY <1>s DEF Remembered
  <1>1. CASE Begins \/ Generate \/ HandsOver
    <2>1. UNCHANGED <<work, edits, adds>> /\ hook' # "asking"
      BY <1>1 DEF Begins, AskForScaffold, NoScaffold, BeginFamily, AskForCase, CaseFails,
           CaseRejected,
         CaseComposed, AskForPart, PartFails, PartRejected, PartWritten, PartsConflict, Generate,
         HandsOver, HandOver, ScaffoldFilled, PartsMerged, StartPipeline, pipelineVars, feedbackVars
    <2> QED
      BY <2>1, <1>s
  <1>2. CASE Asks
    <2>1. hook = "head" /\ code \in Codes
      BY <1>0, <1>2 DEF Asks, AskBugFixer, AskForEdit, AskForAddition, AskForWhole, Request,
           RoundTexts, Piped
    <2>2. Answers(code, Matched) /\ Answers(code, EditPlan) /\ Answers(code, Additions)
      BY <1>n, <2>1 DEF Remembered, Matched, EditPlan, Additions
    <2>3. ASSUME NEW mode, NEW feedback, Request(mode, feedback), Answers(code, feedback)
          PROVE  /\ \A t \in Codes : Answers(t, work'[t])
                 /\ ask'.text = code' /\ Answers(ask'.text, ask'.feedback)
      BY <1>0, <1>n, <2>1, <2>3 DEF Request, Remembered, RoundMaps, loopVars
    <2>4. CASE AskBugFixer
      BY <1>n, <2>3, <2>4 DEF AskBugFixer, Remembered
    <2>5. CASE AskForEdit
      BY <1>0, <2>1, <2>2, <2>3, <2>5 DEF AskForEdit, Remembered, RoundMaps
    <2>6. CASE AskForAddition
      BY <1>0, <2>1, <2>2, <2>3, <2>6 DEF AskForAddition, Remembered, RoundMaps
    <2>7. CASE AskForWhole
      BY <2>2, <2>3, <2>7 DEF AskForWhole, Remembered
    <2> QED
      BY <1>2, <2>4, <2>5, <2>6, <2>7 DEF Asks
  <1>3. CASE Answered \/ NoReply \/ Checks
    <2>1. UNCHANGED <<work, edits, adds>> /\ hook' # "asking"
      BY <1>3 DEF Answered, Repeats, Revises, Reply, NoReply, BadFormat, NotPython, ReplyIsNoText,
           Checks,
         TurnedDown, AlreadyRan, Runs, Miss, LoopOnly, feedbackVars
    <2> QED
      BY <2>1, <1>s
  <1>4. CASE Executes
    <2>1. CASE \E o \in Outcomes : Regresses(o) \/ Fails(o)
      <3>1. UNCHANGED <<work, edits, adds>> /\ hook' # "asking"
        BY <2>1 DEF Regresses, Fails, Miss, feedbackVars
      <3> QED
        BY <3>1, <1>s
    <2>2. CASE \E o \in Outcomes : Succeeds(o)
      BY <1>0, <1>n, <2>2 DEF Succeeds, Ran, Remembered, RoundTexts, RoundMaps, Piped
    <2> QED
      BY <1>4, <2>1, <2>2 DEF Executes
  <1>5. CASE Reviews
    <2>1. hook = "reviewing" /\ hook' # "asking" /\ code \in Codes /\ UNCHANGED <<edits, adds>>
      BY <1>0, <1>5 DEF Reviews, Approved, ReviewRejected, Assessed, AskReviewer, RoundTexts, Piped
    <2>2. CASE UNCHANGED work
      BY <1>s, <2>1, <2>2
    <2>3. ASSUME NEW reply \in Replies, Assessed(reply) PROVE Remembered'
      <3>1. /\ Assesses(code, reply)
            /\ work' = [work EXCEPT ![code] = [testHash |-> code, findings |-> reply]]
        BY <2>3 DEF Assessed
      <3>2. \A t \in Codes : Answers(t, work'[t])
        BY <1>0, <2>1, <3>1 DEF Remembered, RoundMaps, Answers
      <3> QED
        BY <2>1, <3>2 DEF Remembered
    <2> QED
      BY <1>5, <2>2, <2>3 DEF Reviews, Approved, ReviewRejected
  <1>6. CASE Abandon
    BY <1>n, <1>6 DEF Abandon, Remembered, Nothing
  <1>7. CASE UNCHANGED allVars
    BY <1>7 DEF allVars, roundVars, pipelineVars, loopVars, feedbackVars, Remembered
  <1> QED
    BY <1>1, <1>2, <1>3, <1>4, <1>5, <1>6, <1>7, Steps

(* The scope of corrections goes with the texts that are made of it.        *)
LEMMA NarrowedInv ==
  ASSUME RoundTypes, Remembered, Narrowed, [RoundNext]_allVars
  PROVE  Narrowed'
  <1>0. RoundTexts /\ RoundMaps
    BY DEF RoundTypes
  <1>s. ASSUME UNCHANGED scoped, narrow' = {} PROVE Narrowed'
    BY <1>s DEF Narrowed
  <1>1. CASE Begins \/ Generate \/ HandsOver
    <2>1. UNCHANGED <<scoped, narrow>> /\ hook \notin {"head", "asking", "validating", "running"}
      BY <1>1 DEF Begins, AskForScaffold, NoScaffold, BeginFamily, AskForCase, CaseFails,
           CaseRejected,
         CaseComposed, AskForPart, PartFails, PartRejected, PartWritten, PartsConflict, Generate,
         HandsOver, HandOver, ScaffoldFilled, PartsMerged, pipelineVars, feedbackVars, historyVars
    <2> QED
      BY <2>1, <1>s DEF Narrowed
  <1>2. CASE Asks
    <2>1. CASE AskBugFixer
      BY <2>1, <1>s DEF AskBugFixer, Request
    <2>2. CASE AskForEdit \/ AskForAddition \/ AskForWhole
      <3>1. /\ hook = "head" /\ hook' = "asking" /\ ask'.mode \in {"edit", "add", "whole"}
            /\ UNCHANGED <<scoped, narrow, code, retained>>
        BY <2>2 DEF AskForEdit, AskForAddition, AskForWhole, Request, loopVars
      <3> QED
        BY <3>1 DEF Narrowed
    <2> QED
      BY <1>2, <2>1, <2>2 DEF Asks
  <1>3. CASE Answered
    <2>1. PICK c \in Codes : Repeats(c) \/ Revises(c)
      BY <1>3 DEF Answered
    <2>2. /\ hook = "asking" /\ narrow' = narrow /\ retained' = retained
          /\ scoped' = IF Scope = Inventory(c) THEN [scoped EXCEPT ![c] = Scope] ELSE scoped
          /\ Scope \notin {{}, Inventory(c)} => c \in refused'
      BY <2>1 DEF Repeats, Revises, Reply, historyVars
    <2>3. code \in Codes /\ retained \in Codes /\ ask.text = code
      BY <1>0, <2>2 DEF RoundTexts, Piped, Remembered
    <2>4. \A t \in Codes : scoped'[t] \in {{}, Inventory(t)}
      BY <1>0, <2>2 DEF RoundMaps, Narrowed
    <2>5. CASE narrow = {}
      BY <2>2, <2>4, <2>5 DEF Narrowed
    <2>6. CASE narrow # {}
      <3>1. Scope = narrow /\ scoped[retained] = narrow
        BY <2>2, <2>3, <2>6 DEF Narrowed, Scope
      <3>2. scoped'[retained] = narrow
        BY <1>0, <2>2, <2>3, <3>1 DEF RoundMaps
      <3>3. CASE Repeats(c)
        BY <2>2, <2>4, <3>2, <3>3 DEF Repeats, Miss, Narrowed
      <3>4. CASE Revises(c)
        <4>1. hook' = "validating" /\ code' = c
          BY <3>4 DEF Revises
        <4>2. scoped'[c] = narrow \/ c \in refused'
          BY <1>0, <2>2, <2>6, <3>1 DEF RoundMaps
        <4> QED
          BY <2>2, <2>4, <3>2, <4>1, <4>2 DEF Narrowed
      <3> QED
        BY <2>1, <3>3, <3>4
    <2> QED
      BY <2>5, <2>6
  <1>4. CASE NoReply
    BY <1>4 DEF NoReply, BadFormat, NotPython, ReplyIsNoText, Miss, loopVars, feedbackVars,
         historyVars, Narrowed
  <1>5. CASE Checks
    BY <1>5 DEF Checks, TurnedDown, AlreadyRan, Runs, Passes, Miss, LoopOnly, loopVars,
         feedbackVars,
       historyVars, Narrowed
  <1>6. CASE Executes
    <2>1. CASE \E o \in Outcomes : Regresses(o) \/ Fails(o)
      BY <2>1 DEF Regresses, Fails, Ran, Miss, feedbackVars, historyVars, Narrowed
    <2>2. CASE \E o \in Outcomes : Succeeds(o)
      BY <1>0, <2>2 DEF Succeeds, Ran, Narrowed, RoundTexts, RoundMaps, Piped
    <2> QED
      BY <1>6, <2>1, <2>2 DEF Executes
  <1>7. CASE Reviews
    <2>1. /\ hook = "reviewing" /\ code \in Codes /\ retained = code /\ UNCHANGED <<code, retained>>
      BY <1>0, <1>7 DEF Reviews, Approved, ReviewRejected, Assessed, AskReviewer, RoundTexts, Piped
    <2>2. narrow = {}
      BY <2>1 DEF Narrowed
    <2>3. CASE UNCHANGED <<scoped, narrow>>
      BY <1>s, <2>2, <2>3
    <2>4. ASSUME NEW reply \in Replies, Assessed(reply) PROVE Narrowed'
      BY <1>0, <2>1, <2>2, <2>4 DEF Assessed, RoundMaps, Narrowed
    <2> QED
      BY <1>7, <2>3, <2>4 DEF Reviews, Approved, ReviewRejected
  <1>8. CASE Abandon
    BY <1>8 DEF Abandon, Narrowed, NoMethods
  <1>9. CASE UNCHANGED allVars
    BY <1>9 DEF allVars, roundVars, pipelineVars, loopVars, feedbackVars, historyVars, Narrowed
  <1> QED
    BY <1>1, <1>2, <1>3, <1>4, <1>5, <1>6, <1>7, <1>8, <1>9, Steps

(* What runs keeps the last checkpoint, which keeps all the others.         *)
LEMMA CheckpointedInv ==
  ASSUME RoundTypes, Checkpointed, [RoundNext]_allVars
  PROVE  Checkpointed'
  <1>0. RoundTexts
    BY DEF RoundTypes
  <1>s. ASSUME UNCHANGED <<executable, owed>>, hook' \notin {"running", "reviewing", "accepted"}
        PROVE  Checkpointed'
    BY <1>s DEF Checkpointed
  <1>k. ASSUME UNCHANGED <<executable, owed, code>>, hook \in {"running", "reviewing", "accepted"}
        PROVE  Checkpointed'
    BY <1>k DEF Checkpointed
  <1>1. CASE Begins \/ Generate \/ HandsOver
    <2>1. UNCHANGED <<executable, owed>> /\ hook' \notin {"running", "reviewing", "accepted"}
      BY <1>1 DEF Begins, AskForScaffold, NoScaffold, BeginFamily, AskForCase, CaseFails,
           CaseRejected,
         CaseComposed, AskForPart, PartFails, PartRejected, PartWritten, PartsConflict, Generate,
         HandsOver, HandOver, ScaffoldFilled, PartsMerged, StartPipeline, pipelineVars, historyVars, targetVars
    <2> QED
      BY <2>1, <1>s
  <1>2. CASE Asks \/ Answered \/ NoReply
    <2>1. UNCHANGED <<executable, owed>> /\ hook' \notin {"running", "reviewing", "accepted"}
      BY <1>2 DEF Asks, Request, AskBugFixer, AskForEdit, AskForAddition, AskForWhole, Answered,
           Repeats,
         Revises, Reply, NoReply, BadFormat, NotPython, ReplyIsNoText, Miss, historyVars, targetVars
    <2> QED
      BY <2>1, <1>s
  <1>3. CASE Checks
    <2>1. CASE TurnedDown \/ AlreadyRan
      BY <2>1, <1>s DEF TurnedDown, AlreadyRan, Miss, LoopOnly, historyVars, targetVars
    <2>2. CASE Runs
      <3>1. /\ UNCHANGED <<executable, owed, code>>
            /\ executable # NoCode => Preserves(executable, code, Methods)
        BY <2>2 DEF Runs, Passes, Kept, Baseline, LoopOnly, loopVars, historyVars
      <3> QED
        BY <3>1 DEF Checkpointed
    <2> QED
      BY <1>3, <2>1, <2>2 DEF Checks
  <1>4. CASE Executes
    <2>1. CASE \E o \in Outcomes : Regresses(o) \/ Fails(o)
      BY <2>1, <1>s DEF Regresses, Fails, Miss, historyVars
    <2>2. CASE \E o \in Outcomes : Succeeds(o)
      <3>1. /\ hook = "running" /\ executable' = code /\ code' = code /\ owed' = owed \cup {code}
            /\ code \in Codes /\ code \in Texts
        BY <1>0, <2>2, CodesAreTexts DEF Succeeds, Ran, RoundTexts, Piped
      <3>2. Preserves(code, code, Methods)
        BY <3>1, PreservesItself
      <3>3. ASSUME NEW t \in owed PROVE Preserves(t, code, Methods)
        <4>1. executable \in Texts /\ t \in Texts /\ executable # NoCode
          BY <3>3, CodesAreTexts, NoCodeIsNone DEF Checkpointed
        <4>2. Preserves(t, executable, Methods) /\ Preserves(executable, code, Methods)
          BY <3>1, <4>1 DEF Checkpointed
        <4> QED
          BY <3>1, <4>1, <4>2, PreservesOn
      <3> QED
        BY <3>1, <3>2, <3>3 DEF Checkpointed
    <2> QED
      BY <1>4, <2>1, <2>2 DEF Executes
  <1>5. CASE Reviews
    <2>1. hook = "reviewing" /\ UNCHANGED <<executable, owed, code>>
      BY <1>5 DEF Reviews, Approved, ReviewRejected, Assessed, AskReviewer, targetVars
    <2> QED
      BY <2>1, <1>k
  <1>6. CASE Abandon
    BY <1>6, <1>s DEF Abandon, targetVars
  <1>7. CASE UNCHANGED allVars
    BY <1>7 DEF allVars, roundVars, pipelineVars, loopVars, historyVars, targetVars, Checkpointed
  <1> QED
    BY <1>1, <1>2, <1>3, <1>4, <1>5, <1>6, <1>7, Steps

(* The invariant of the round holds throughout.                             *)
THEOREM RoundInductive == RoundSpec => []RoundInv
  <1>1. RoundInv /\ [RoundNext]_allVars => RoundInv'
    <2> SUFFICES ASSUME RoundInv, [RoundNext]_allVars PROVE RoundInv'
      OBVIOUS
    <2>1. RoundTypes'
      BY TextsInv, MapsInv DEF RoundInv, RoundTypes
    <2>2. InParts' /\ Limited' /\ HasText'
      BY InPartsInv, LimitedInv, TextInv DEF RoundInv
    <2>3. Remembered' /\ Narrowed' /\ Checkpointed'
      BY RememberedInv, NarrowedInv, CheckpointedInv DEF RoundInv
    <2> QED
      BY <2>1, <2>2, <2>3 DEF RoundInv
  <1> QED
    BY <1>1, RoundInitInv, PTL DEF RoundSpec

(* Type correctness of the round, for every set of texts and replies.       *)
THEOREM RoundTypeCorrect == RoundSpec => []RoundTypes
  <1>1. RoundInv => RoundTypes
    BY DEF RoundInv
  <1> QED
    BY <1>1, RoundInductive, PTL

(* In the whole round as well, families and additions included, the loop    *)
(* hands over no text but one that passed the checks of its last attempt.   *)
THEOREM RoundValidatedOnly == RoundSpec => []OnlyValidatedLeaves
  <1>1. RoundInv => OnlyValidatedLeaves
    BY DEF RoundInv, HasText
  <1> QED
    BY <1>1, RoundInductive, PTL

(* A revision answers findings that were accepted for the text it starts    *)
(* from, whatever was kept and over how many attempts.                      *)
THEOREM FeedbackAgrees == RoundSpec => []FeedbackIsTrue
  <1>1. RoundInv => FeedbackIsTrue
    BY DEF RoundInv, Remembered, Answers, FeedbackIsTrue
  <1> QED
    BY <1>1, RoundInductive, PTL

(* Corrections run with the methods of the reviewed text, for every set of  *)
(* texts and every review.                                                  *)
THEOREM CorrectionsNarrow == RoundSpec => []CorrectionsStayNarrow
  <1>1. RoundInv => CorrectionsStayNarrow
    <2> SUFFICES ASSUME RoundInv, hook = "running", narrow # {}
                 PROVE  Inventory(code) = narrow
      BY DEF CorrectionsStayNarrow
    <2>1. code \in Codes /\ scoped[code] = narrow
      BY DEF RoundInv, RoundTypes, RoundTexts, Piped, Narrowed
    <2> QED
      BY <2>1 DEF RoundInv, Narrowed
  <1> QED
    BY <1>1, RoundInductive, PTL

(* No text runs or is accepted that lost anything of a checkpoint.          *)
THEOREM CheckpointsKept == RoundSpec => []CheckpointsAreKept
  <1>1. RoundInv => CheckpointsAreKept
    <2> SUFFICES ASSUME RoundInv, hook \in {"running", "reviewing", "accepted"}, NEW t \in owed
                 PROVE  Preserves(t, code, Methods)
      BY DEF CheckpointsAreKept
    <2>1. /\ t \in Codes /\ executable \in Codes /\ executable # NoCode /\ code \in Codes
          /\ Preserves(t, executable, Methods) /\ Preserves(executable, code, Methods)
      BY NoCodeIsNone DEF RoundInv, RoundTypes, RoundTexts, Piped, Checkpointed
    <2> QED
      BY <2>1, CodesAreTexts, PreservesOn
  <1> QED
    BY <1>1, RoundInductive, PTL
=============================================================================
