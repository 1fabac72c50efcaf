--------------------------- MODULE ReviewContract ---------------------------
(***************************************************************************)
(* Which replies of the Reviewer the host takes for an assessment of a     *)
(* text that was executed.                                                 *)
(*                                                                         *)
(*   src/roles/testReviewer.ts         normalizeReview,                    *)
(*                                     reviewConstraintDiagnostics         *)
(*   src/roles/reviewEvidenceBasis.ts  reviewEvidenceBasisDiagnostic       *)
(*   src/roles/reviewFacts.ts          (the facts themselves)              *)
(*                                                                         *)
(* A reply is a set of findings, the empty one an approval.  A finding     *)
(* cites a line, of a test method or outside of them ("setup"), has a      *)
(* category, says what it is based on ("garbled": its format is wrong),    *)
(* and claims something.  How prose is recognised as such a claim is left  *)
(* out, and so is severity.                                                *)
(***************************************************************************)
EXTENDS CandidateText, Naturals

CONSTANT Replies   \* replies the Reviewer may give

Categories == {"missing-scenario", "correction"}
Bases == {"judgment", "verified", "unknown", "requirement", "garbled"}
Claims == {"concrete", "exception", "other-outcome", "weaker", "no-op",
           "not-there", "mock-target", "edit-target", "bare"}
Lines == Methods \cup {"setup"}
Findings == [category : Categories, at : Lines, basis : Bases, claim : Claims]

(***************************************************************************)
(* The facts about an executed text.  The outcome a trace observed is      *)
(* verified for the assertions the first text had, nobody observed what    *)
(* another body asserts.                                                   *)
(***************************************************************************)
Observation(t, m) == IF t[m] = "other" THEN "unknown" ELSE "verified"

Verified(t, f) == f.at \in Inventory(t) /\ Observation(t, f.at) = "verified"

(***************************************************************************)
(* reviewEvidenceBasisDiagnostic.  The orchestrator registers no           *)
(* requirements, so a finding that is based on one is not accepted.        *)
(***************************************************************************)
\* factAppliesToLine: observations are facts of lines in test methods.
Applies(t, f) == f.at \in Inventory(t)

Based(t, f) ==
    \/ f.basis = "judgment"
    \/ f.basis \in {"verified", "unknown"} /\ Applies(t, f) /\ Observation(t, f.at) = f.basis

(***************************************************************************)
(* reviewConstraintDiagnostics: claims that the facts or the execution     *)
(* contradict.                                                             *)
(***************************************************************************)
\* A return value that was observed shall become an exception.
DeniesReturn(t, f) == f.claim = "exception" /\ Verified(t, f)

\* The action is what the file says already.
ChangesNothing(t, f) == f.claim = "no-op" /\ f.at \in Inventory(t) \cup {"setup"}

\* An import, class, assertion or guard that executed is said to be missing.
DeniesExecution(t, f) == f.claim = "not-there" /\ f.at \in Inventory(t) \cup {"setup"}

\* The observed outcome is wrong, not fixed, or of another type.
DeniesOutcome(t, f) == f.claim = "other-outcome" /\ Verified(t, f)

Weakens(t, f) == f.claim = "weaker" /\ f.at \in Inventory(t)

\* The target shall be mocked, or the source be changed.
TouchesTarget(f) == f.claim \in {"mock-target", "edit-target"}

\* A verdict without a cause, on a line the facts know.
BareVerdict(t, f) == f.claim = "bare" /\ f.at \in Inventory(t) \cup {"setup"}

Contradicted(t, f) ==
    \/ DeniesReturn(t, f) \/ ChangesNothing(t, f) \/ DeniesExecution(t, f) \/ DeniesOutcome(t, f)
    \/ Weakens(t, f) \/ TouchesTarget(f) \/ BareVerdict(t, f)

\* A finding cites a line of this very text.
Cites(t, f) == f.at \in Inventory(t) \cup {"setup"}

\* One finding that is not accepted, and the whole reply is not.
FindingLimit == 5
Assesses(t, reply) ==
    /\ Cardinality(reply) <= FindingLimit
    /\ \A f \in reply : Cites(t, f) /\ Based(t, f) /\ ~Contradicted(t, f)
=============================================================================
