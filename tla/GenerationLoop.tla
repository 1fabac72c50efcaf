--------------------------- MODULE GenerationLoop ---------------------------
(***************************************************************************)
(* The loop that turns the Writer's replies into the first candidate of a  *)
(* round: request, compose, extract, validate, ask again (the single-pass  *)
(* loop of runAnalysis in src/orchestrator.ts, with requestBudgeted,       *)
(* recordRejected, planBindingRevision and applyBindingRevision there,     *)
(* validation/writerMethodEdits.ts, pipeline/stopPolicy.ts and             *)
(* pipeline/targetBudget.ts).                                              *)
(*                                                                         *)
(* A candidate whose only fault is an undefined name is not written anew:  *)
(* a plan fixes one method of it, and from then on only replacements of    *)
(* that method are asked for.  A step is what runs between two awaits.     *)
(***************************************************************************)
EXTENDS Integers

CONSTANTS
    Codes,         \* candidate test files
    NoCode,
    FailureLimit,  \* StopPolicySettings.failureLimit
    MaxRequests    \* logical requests the target's budget still allows

ASSUME NoCodeIsNone == NoCode \notin Codes
ASSUME LimitPositive == FailureLimit \in Nat \ {0}
ASSUME RequestsNat == MaxRequests \in Nat

VARIABLES
    pc,          \* the await the loop stands at
    seedPending, \* no seed of this target was checkpointed yet
    llmRetry,    \* iterations of the loop that ended in another one
    candidate,   \* sanitizedCode
    valid,       \* this attempt's validation and trace evidence are good
    plan,        \* the baseline of generationBindingEdit
    rejected,    \* candidates given to recordRejected
    failures,    \* TargetStopPolicy.failureCount
    charged,     \* the current attempt is one of failedAttempts
    requests     \* logical requests left

codeVars == <<candidate, valid, plan, rejected>>
policyVars == <<failures, charged>>
vars == <<pc, seedPending, llmRetry, codeVars, policyVars, requests>>

Ended == {"left", "thrown"}
PcValues == {"head", "requesting", "waiting", "composing", "preparing",
             "validating", "planning"} \cup Ended

Init ==
    /\ pc = "head" /\ seedPending \in BOOLEAN /\ llmRetry = 0
    /\ candidate = NoCode /\ valid = FALSE /\ plan = NoCode /\ rejected = {}
    /\ failures \in 0 .. FailureLimit - 1 /\ charged = FALSE
    /\ requests = MaxRequests

(***************************************************************************)
(* recordRejected, for the reasons it charges: the first rejection of an   *)
(* attempt counts, the one that uses up the limit throws.                  *)
(***************************************************************************)
Charge ==
    /\ failures' = IF charged THEN failures ELSE failures + 1
    /\ charged' = TRUE

\* Mutant of Reject: the limit does not throw, the loop's condition ends it.
Reject_Quiet(c, there) ==
    /\ Charge /\ rejected' = rejected \cup ({c} \ {NoCode})
    /\ pc' = there
Reject(c, there) ==
    /\ Charge /\ rejected' = rejected \cup ({c} \ {NoCode})
    /\ pc' = IF failures' = FailureLimit THEN "thrown" ELSE there

\* llmRetry++, where the body continued.
NextIteration == llmRetry' = IF pc' = "head" THEN llmRetry + 1 ELSE llmRetry

\* The head of the for loop and beginAttempt.
BeginAttempt ==
    /\ pc = "head"
    /\ pc' = IF failures < FailureLimit THEN "requesting" ELSE "left"
    /\ charged' = FALSE /\ valid' = FALSE
    /\ UNCHANGED <<seedPending, llmRetry, candidate, plan, rejected, failures, requests>>

(***************************************************************************)
(* requestBudgeted, or requestBindingRevision once there is a plan.        *)
(***************************************************************************)
\* consumeModelRequest, once at least: the cases of a focused family, and the
\* probes of a larger context, are requests of the same await.
Send ==
    /\ pc = "requesting" /\ requests > 0
    /\ requests' \in 0 .. requests - 1 /\ pc' = "waiting"
    /\ UNCHANGED <<seedPending, llmRetry, codeVars, policyVars>>

\* The reply is cut off or has no usable format.
BadReply ==
    /\ pc = "waiting" /\ Reject(NoCode, "head") /\ NextIteration
    /\ UNCHANGED <<seedPending, candidate, valid, plan, requests>>

\* A whole-file reply that was cut off, or a case of a family that is not
\* accepted, is charged and asked for again there: an attempt of its own.
AskAgain ==
    /\ pc = "waiting" /\ plan = NoCode
    /\ failures' = IF charged THEN failures ELSE failures + 1
    /\ \/ /\ failures' = FailureLimit /\ charged' = TRUE /\ pc' = "thrown"
       \/ /\ failures' < FailureLimit /\ charged' = FALSE /\ pc' = "requesting"
    /\ UNCHANGED <<seedPending, llmRetry, codeVars, requests>>

\* An error that is no stage error: forgiven in the first iteration only.
TransportFails ==
    /\ pc = "waiting"
    /\ pc' = IF llmRetry = 0 THEN "head" ELSE "thrown"
    /\ NextIteration
    /\ UNCHANGED <<seedPending, codeVars, policyVars, requests>>

ReplyArrives ==
    /\ pc = "waiting"
    /\ pc' = IF plan # NoCode THEN "composing" ELSE "preparing"
    /\ UNCHANGED <<seedPending, llmRetry, codeVars, policyVars, requests>>

(***************************************************************************)
(* applyBindingRevision.                                                   *)
(***************************************************************************)
\* Empty, not Python, a method twice, nothing changed.
EditMalformed ==
    /\ pc = "composing" /\ Reject(NoCode, "head") /\ NextIteration
    /\ UNCHANGED <<seedPending, candidate, valid, plan, requests>>

\* Mutant of EditMissing: the same reply is composed again.
EditMissing_SameReply ==
    /\ pc = "composing" /\ pc' = "waiting"
    /\ UNCHANGED <<seedPending, llmRetry, codeVars, policyVars, requests>>
\* `edit-method-missing': a format failure as well, yet recordRejected leaves
\* out every reason that begins with `edit-' but one.
EditMissing ==
    /\ pc = "composing" /\ pc' = "head" /\ NextIteration
    /\ UNCHANGED <<seedPending, codeVars, policyVars, requests>>

\* Outside the planned method: some reasons are charged, all of them throw.
EditOutOfScope ==
    /\ pc = "composing" /\ pc' = "thrown"
    /\ Charge \/ UNCHANGED policyVars
    /\ UNCHANGED <<seedPending, llmRetry, codeVars, requests>>

EditApplied ==
    /\ pc = "composing" /\ pc' = "preparing"
    /\ UNCHANGED <<seedPending, llmRetry, codeVars, policyVars, requests>>

(***************************************************************************)
(* prepareWriterCandidate up to the rescue.                                *)
(***************************************************************************)
\* Nothing left of the reply, an addition that does not merge, no Python,
\* a copy of the source, or nothing to rescue: sanitizedCode keeps the text.
Unusable(c) ==
    /\ pc = "preparing" /\ candidate' = c
    /\ Reject(c, "head") /\ NextIteration
    /\ UNCHANGED <<seedPending, valid, plan, requests>>

Prepared(c) ==
    /\ pc = "preparing" /\ candidate' = c /\ pc' = "validating"
    /\ UNCHANGED <<seedPending, llmRetry, valid, plan, rejected, policyVars, requests>>

(***************************************************************************)
(* validateGeneratedTestCode and validateTraceEvidence.                    *)
(***************************************************************************)
Accepted ==
    /\ pc = "validating" /\ valid' = TRUE /\ pc' = "left"
    /\ UNCHANGED <<seedPending, llmRetry, candidate, plan, rejected, policyVars, requests>>

\* A plan that is there stays, whatever the composed text was rejected for.
Invalid ==
    /\ pc = "validating" /\ Reject(candidate, "head") /\ NextIteration
    /\ candidate' = NoCode
    /\ UNCHANGED <<seedPending, valid, plan, requests>>

UndefinedName ==
    /\ pc = "validating" /\ seedPending /\ Reject(candidate, "planning")
    /\ UNCHANGED <<seedPending, llmRetry, candidate, valid, plan, requests>>

\* planBindingRevision, for the exact text that was rejected.
Planned ==
    /\ pc = "planning" /\ pc' = "head" /\ NextIteration
    /\ plan' = candidate /\ candidate' = NoCode
    /\ UNCHANGED <<seedPending, valid, rejected, policyVars, requests>>

\* Cancellation, an exhausted budget, a changed source, a broken tool, no
\* method to plan: any await can throw.
Throw ==
    /\ pc \notin Ended /\ pc' = "thrown"
    /\ UNCHANGED <<seedPending, llmRetry, codeVars, policyVars, requests>>

Next ==
    \/ BeginAttempt \/ Send \/ BadReply \/ AskAgain \/ TransportFails \/ ReplyArrives
    \/ EditMalformed \/ EditMissing \/ EditOutOfScope \/ EditApplied
    \/ \E c \in Codes \cup {NoCode} : Unusable(c)
    \/ \E c \in Codes : Prepared(c)
    \/ Accepted \/ Invalid \/ UndefinedName \/ Planned \/ Throw

Spec == Init /\ [][Next]_vars

-----------------------------------------------------------------------------
TypeOK ==
    /\ pc \in PcValues
    /\ seedPending \in BOOLEAN /\ valid \in BOOLEAN /\ charged \in BOOLEAN
    /\ candidate \in Codes \cup {NoCode} /\ plan \in Codes \cup {NoCode}
    /\ rejected \subseteq Codes
    /\ failures \in 0 .. FailureLimit
    /\ llmRetry \in 0 .. MaxRequests /\ requests \in 0 .. MaxRequests

(* The loop is left with a text that passed its checks in the last attempt. *)
(* Its condition, which asks only for remaining failures, never ends it     *)
(* with a text that was rejected and is still in sanitizedCode.             *)
OnlyValidatedLeaves == pc = "left" => candidate \in Codes /\ valid

(* A name binding repair never widens: once a method is planned no whole    *)
(* file is asked for again, and the file it belongs to is one that the      *)
(* Checker rejected as it is.                                               *)
ScopeNeverWidens ==
    [][/\ plan # NoCode => plan' # NoCode
       /\ plan' # plan => plan' \in rejected]_vars

(* While whole files are asked for, each iteration after the first one has  *)
(* a failure that pays for it, except the one that follows the transport    *)
(* error that is forgiven: no path back to the head is free, although the   *)
(* charge is made in other places than the `continue'.                      *)
IterationsArePaidFor == plan = NoCode => llmRetry <= failures + 1
=============================================================================
