---------------------------- MODULE CandidateText ----------------------------
(***************************************************************************)
(* What the host knows of a test file: which test methods it has and how   *)
(* each of them relates to the one the first executed file had.            *)
(*                                                                         *)
(*   src/pipeline/candidateMethodInventory.ts  the methods of a text       *)
(*   src/pipeline/passingTestPreservation.ts   what may change in them     *)
(*   src/validation/testMerger.ts              additions to a text         *)
(*   src/validation/writerMethodEdits.ts       edits of planned methods    *)
(*   src/roles/bugFixer.ts                     replacement of one method   *)
(*                                                                         *)
(* A text is a function from methods to what stands there: nothing, the    *)
(* body "base", that body with assertions added or made stricter           *)
(* ("strong"), or any other body.                                          *)
(***************************************************************************)
EXTENDS FiniteSets

CONSTANT Methods   \* identities of test methods, class and name

Bodies == {"absent", "base", "strong", "other"}

Texts == [Methods -> Bodies]

Inventory(t) == {m \in Methods : t[m] # "absent"}

(***************************************************************************)
(* validatePassingTestPreservation: a protected method keeps its           *)
(* statements; assertions may be added or made stricter, nothing else.     *)
(***************************************************************************)
Keeps(old, new) == new = old \/ (old = "base" /\ new = "strong")

Preserves(previous, t, protected) ==
    \A m \in protected \cap Inventory(previous) : Keeps(previous[m], t[m])

(***************************************************************************)
(* mergeWriterTestAddition.                                                *)
(***************************************************************************)
\* `existing-test-method-changed'
Conflicts(onto, addition) ==
    \E m \in Inventory(onto) \cap Inventory(addition) : onto[m] # addition[m]

Fresh(onto, addition) == Inventory(addition) \ Inventory(onto)

Merged(onto, addition) ==
    [m \in Methods |-> IF m \in Inventory(onto) THEN onto[m] ELSE addition[m]]

(***************************************************************************)
(* applyWriterMethodEdits: exactly the planned methods are replaced, all   *)
(* of them are there, one of them at least is another one now.             *)
(***************************************************************************)
Edited(t, planned, new) ==
    /\ \A m \in Methods \ planned : new[m] = t[m]
    /\ planned \subseteq Inventory(new)
    /\ new # t

(***************************************************************************)
(* mergeBugFixReplacementDetailed: the one failing method is replaced, by  *)
(* the same body if the model returns it.                                  *)
(***************************************************************************)
Replaced(t, m, new) ==
    /\ \A n \in Methods \ {m} : new[n] = t[n]
    /\ m \in Inventory(new)

(***************************************************************************)
(* validateWriterSeedContract: one method; what it calls with which input  *)
(* is not visible here.                                                    *)
(***************************************************************************)
SeedShape(t) == Cardinality(Inventory(t)) = 1

\* assessQualityCandidateNovelty
Novel(previous, t) == \E m \in Inventory(t) : t[m] # previous[m]
=============================================================================
