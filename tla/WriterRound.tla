----------------------------- MODULE WriterRound -----------------------------
(***************************************************************************)
(* One round of a target with the texts themselves: the Writer's file or   *)
(* addition, the composition the host makes of it, what the hooks of the   *)
(* candidate pipeline ask of a text, and the feedback a revision gets.     *)
(*                                                                         *)
(*   src/orchestrator.ts  requestBudgeted (the addition baseline),         *)
(*                        prepareWriterCandidate, the divided generation,  *)
(*                        candidateHooks: validate, review, revise,        *)
(*                        validateRevision, execute, executable            *)
(*   src/pipeline/testCandidatePipeline.ts  the loop that calls the hooks  *)
(*   src/roles/reviewContractRepair.ts      reviewWithContractRepair       *)
(*   src/validation/repairFeedback.ts       RepairFeedback                 *)
(*                                                                         *)
(* The single-pass loop that asks for the first text is GenerationLoop's;  *)
(* CandidateText says how texts are composed and compared, ReviewContract  *)
(* which reviews are accepted.  The maps of runAnalysis that are keyed by  *)
(* the hash of a text are functions of the text, and "map[code]" is a look *)
(* up by the text at hand.                                                 *)
(*                                                                         *)
(* A step is what runs between two awaits that other code can observe;     *)
(* wherever the code throws, or a budget, a deadline, a cancellation or a  *)
(* changed source can make it throw, the round may end (Abandon).          *)
(***************************************************************************)
EXTENDS GenerationLoop, ReviewContract, Sequences

CONSTANTS
    Parts,   \* callers a divided generation, cases a family asks for
    Starts,  \* texts an earlier round may have left as the baseline
    Tried,   \* texts earlier rounds ran without a checkpoint
    Qualified   \* roles the model may play: mayUseModelAuthoredReview, -Repair

ASSUME CodesAreTexts == Codes \subseteq Texts
ASSUME StartsAreCodes == Starts \subseteq Codes /\ Tried \subseteq Codes
ASSUME QualifiedRoles == Qualified \subseteq {"reviewer", "bug-fixer"}
ASSUME PartsPositive == Parts \in Nat \ {0}

VARIABLES
    hook,        \* scaffolding, filling, dividing, generating, composing; then, in the
                 \* pipeline, head, asking, validating, running, reviewing;
                 \* accepted or over
    snippets,    \* subSnippets
    focus,       \* a focused family under way: its draft, its composed cases; and
                 \* whether the loop asks for a revision (generationRevisionCode)
    onto,        \* writerAdditionBaseline
    refused,     \* additionRejections
    code,        \* the pipeline's candidate
    retained,    \* its retainedCode
    role,        \* its role
    failing,     \* tests lastFailure shows as failed; "load": the file itself
    shown,       \* the same of RepairFeedback.output
    passing,     \* RepairFeedback.passing
    seen,        \* RepairFeedback.seen
    passed,      \* passingExecutions
    work,        \* reviewerRevisionWorkloads
    edits,       \* reviewerMethodEdits
    adds,        \* reviewerAdditions
    scoped,      \* reviewerCorrectionScopes
    ask,         \* the revision that is asked for
    executable,  \* checkpoints.executable
    best,        \* bestCode
    ran,         \* TargetStopPolicy.executedCandidates
    owed,        \* texts that were checkpointed, the baseline among them
    narrow       \* methods of the text corrections were last asked for

loopVars == <<code, retained, role, failing, shown, passing, seen, passed>>
feedbackVars == <<work, edits, adds, scoped>>
targetVars == <<executable, best, ran>>
historyVars == <<owed, narrow>>
pipelineVars == <<loopVars, feedbackVars, ask, historyVars>>
partVars == <<snippets, focus>>
roundVars == <<hook, partVars, onto, refused, pipelineVars, targetVars>>
allVars == <<vars, roundVars>>

NoFeedback == [testHash |-> NoCode, findings |-> {}]
NoAsk == [mode |-> "none", text |-> NoCode, feedback |-> NoFeedback]
Nothing == [t \in Codes |-> NoFeedback]
NoMethods == [t \in Codes |-> {}]
NoFamily == [family |-> FALSE, revising |-> FALSE, draft |-> NoCode, cases |-> 0]

\* checkpoints.executable?.code || retainedCode: a best text was checkpointed.
Baseline == executable

IdleLoop ==
    /\ code = NoCode /\ retained = NoCode /\ role = "writer" /\ failing = {} /\ shown = {}
    /\ passing = {} /\ seen = {} /\ passed = NoMethods

\* activeQualityTaskEvidence: several inputs that a surviving mutant led to were
\* observed, in a plain function.  While mutants survive nothing is divided.
Focused == best # NoCode /\ focus = [NoFamily EXCEPT !.family = TRUE]

RoundInit ==
    /\ Init /\ IdleLoop
    /\ \/ /\ seedPending /\ executable = NoCode /\ best = NoCode /\ ran = {}
          /\ hook \in {"scaffolding", "generating"}
          /\ focus = NoFamily
       \/ /\ ~seedPending /\ executable \in Starts /\ best \in {NoCode, executable}
          /\ ran = Tried \cup {executable}
          /\ \/ focus = NoFamily /\ hook \in {"scaffolding", "dividing", "generating"}
             \/ Focused /\ hook = "generating"
    /\ snippets = <<>> /\ onto = NoCode /\ refused = {}
    /\ work = Nothing /\ edits = Nothing /\ adds = Nothing /\ scoped = NoMethods
    /\ ask = NoAsk /\ owed = {executable} \ {NoCode} /\ narrow = {}

-----------------------------------------------------------------------------
(* Composition: prepareWriterCandidate.                                     *)

\* What a whole-file reply a becomes: itself for a seed, otherwise an addition
\* to `onto', if it merges.
Composes(a, c) ==
    IF onto = NoCode THEN c = a ELSE ~Conflicts(onto, a) /\ c = Merged(onto, a)

\* A seed of another shape is recorded as a rejection; so is a text whose
\* inputs are not those of the selected case, or of the quality focus.
Fits(c) == seedPending /\ onto = NoCode => SeedShape(c)
Judged(c) == refused' = refused \cup {c} \/ (Fits(c) /\ refused' = refused)

\* A reply that was rejected before, or does not merge, stays what it is.
Spoilt(a) == onto # NoCode /\ (a \in refused \/ Conflicts(onto, a))

(***************************************************************************)
(* The single-pass loop, with the texts it composes.                       *)
(***************************************************************************)
\* requestBudgeted: with a focus, a request of the role `writer' is a family's.
AsksForFamily == focus.family /\ ~focus.revising

\* requestBudgetedOne: a request of the role `writer' sets the baseline.
AskForFile ==
    /\ ~AsksForFamily /\ Send /\ onto' = IF plan = NoCode THEN Baseline ELSE onto
    /\ UNCHANGED <<refused, focus>>

\* What a family composed is the reply.
IsReply(a) == focus.draft \in {NoCode, a}

ComposeFile ==
    /\ plan = NoCode
    /\ \E a, c \in Codes :
        /\ IsReply(a) /\ ~Spoilt(a) /\ Composes(a, c) /\ Prepared(c) /\ Judged(c)
        /\ onto # NoCode => c \notin refused'
    /\ focus' = [focus EXCEPT !.draft = NoCode] /\ UNCHANGED onto

\* The composed file of a name binding repair: one method is another one.
ComposeEdit ==
    /\ plan # NoCode
    /\ \E c \in Codes, m \in Inventory(plan) : Edited(plan, {m}, c) /\ Prepared(c) /\ Judged(c)
    /\ UNCHANGED <<onto, focus>>

\* An addition that does not merge, or merges to a refused text, is not
\* validated: the loop asks for another one.
RefuseAddition ==
    /\ onto # NoCode /\ plan = NoCode
    /\ \E a \in Codes, c \in Codes :
        /\ IsReply(a) /\ Unusable(c) /\ refused' = refused \cup {c}
        /\ IF Spoilt(a) THEN c = a ELSE Composes(a, c)
    /\ focus' = [focus EXCEPT !.draft = NoCode, !.revising = focus.family] /\ UNCHANGED onto

\* Some of these replies are revised, others are asked for anew.
NoFile ==
    /\ focus.draft = NoCode /\ Unusable(NoCode)
    /\ \E revising \in {focus.revising, focus.family} : focus' = [focus EXCEPT !.revising = revising]
    /\ UNCHANGED <<onto, refused>>

AcceptFile == Accepted /\ candidate \notin refused /\ UNCHANGED <<onto, refused, focus>>

RejectFile ==
    /\ Invalid \/ (UndefinedName /\ candidate \notin refused)
    /\ focus' = [focus EXCEPT !.revising = focus.family] /\ UNCHANGED <<onto, refused>>

Generate ==
    /\ hook = "generating"
    /\ \/ AskForFile \/ ComposeFile \/ ComposeEdit \/ RefuseAddition \/ NoFile
       \/ AcceptFile \/ RejectFile
       \/ /\ \/ BeginAttempt \/ BadReply \/ AskAgain \/ TransportFails \/ ReplyArrives
             \/ EditMalformed \/ EditMissing \/ EditOutOfScope \/ EditApplied \/ Planned
          /\ UNCHANGED <<onto, refused, focus>>
    /\ UNCHANGED <<hook, snippets, pipelineVars, targetVars>>

-----------------------------------------------------------------------------
(***************************************************************************)
(* The cases of a family (composeFocusedWriterAdditions): one method for   *)
(* each, with attempts of its own, on the draft of the cases before.       *)
(***************************************************************************)
BeginFamily ==
    /\ hook = "generating" /\ pc = "requesting" /\ AsksForFamily
    /\ hook' = "composing" /\ onto' = Baseline /\ focus' = [focus EXCEPT !.draft = Baseline]
    /\ UNCHANGED <<vars, snippets, refused, pipelineVars, targetVars>>

AskForCase ==
    /\ hook = "composing" /\ requests > 0 /\ requests' = requests - 1
    /\ UNCHANGED <<seedPending, codeVars, snippets, onto, refused, pipelineVars, targetVars>>

\* No stage error: the composed cases are lost with it.
CaseFails ==
    /\ AskForCase /\ charged' = FALSE /\ UNCHANGED failures
    /\ pc' = IF llmRetry = 0 THEN "head" ELSE "thrown"
    /\ NextIteration /\ hook' = "generating"
    /\ focus' = [focus EXCEPT !.draft = NoCode, !.cases = 0]

\* Cut off, empty, does not merge, adds another number of methods or asserts
\* another case: asked for again on the same draft.
CaseRejected ==
    /\ AskForCase /\ failures' = failures + 1 /\ failures' < FailureLimit /\ charged' = TRUE
    /\ UNCHANGED <<pc, llmRetry, hook, focus>>

\* The last one returns the draft, which is prepared like any reply.
CaseComposed ==
    /\ AskForCase /\ charged' = FALSE /\ UNCHANGED <<llmRetry, failures>>
    /\ \E a \in Codes :
        LET draft == Merged(focus.draft, a)
            last == focus.cases + 1 = Parts IN
        /\ ~Conflicts(focus.draft, a) /\ Cardinality(Fresh(focus.draft, a)) = 1 /\ draft \in Codes
        /\ focus' = [focus EXCEPT !.draft = draft, !.cases = IF last THEN 0 ELSE @ + 1]
        /\ hook' = IF last THEN "generating" ELSE "composing"
        /\ pc' = IF last THEN "preparing" ELSE pc

-----------------------------------------------------------------------------
(***************************************************************************)
(* validateTestCandidate: its start, and a rejection it goes on after.     *)
(***************************************************************************)
StartPipeline(c) ==
    /\ hook' = "validating" /\ pc' = "handed" /\ charged' = FALSE
    /\ candidate' = NoCode /\ valid' = FALSE /\ plan' = NoCode /\ rejected' = {} /\ llmRetry' = 0
    /\ code' = c /\ retained' = IF Baseline = NoCode THEN c ELSE Baseline
    /\ seen' = {retained'} /\ passing' = IF Baseline = NoCode THEN {} ELSE Inventory(Baseline)
    /\ role' = "writer" /\ failing' = {} /\ shown' = {} /\ passed' = NoMethods

HandOver ==
    /\ hook = "generating" /\ pc = "left" /\ StartPipeline(candidate)
    /\ focus' = NoFamily
    /\ UNCHANGED <<seedPending, failures, requests, snippets, onto, refused, feedbackVars, ask,
                   historyVars, targetVars>>

genVars == <<llmRetry, candidate, valid, plan, rejected>>

\* The rejection that reaches the limit throws: that is Abandon.
Miss(there) == Charge /\ failures' < FailureLimit /\ hook' = there

\* The await that throws, for whatever reason: the locals of the call go.
Abandon ==
    /\ hook \notin {"accepted", "over"} /\ pc # "thrown"
    /\ hook' = "over" /\ pc' = "thrown" /\ charged' = FALSE
    /\ candidate' = NoCode /\ valid' = FALSE /\ plan' = NoCode /\ rejected' = {} /\ llmRetry' = 0
    /\ code' = NoCode /\ retained' = NoCode /\ role' = "writer" /\ failing' = {} /\ shown' = {}
    /\ passing' = {} /\ seen' = {} /\ passed' = NoMethods
    /\ ask' = NoAsk /\ narrow' = {} /\ snippets' = <<>> /\ focus' = NoFamily
    /\ work' = Nothing /\ edits' = Nothing /\ adds' = Nothing /\ scoped' = NoMethods
    /\ UNCHANGED <<seedPending, failures, requests, onto, refused, owed, targetVars>>

-----------------------------------------------------------------------------
(***************************************************************************)
(* Tier 3: the Writer fills a scaffold.  What is made of the reply goes to *)
(* the pipeline without the checks of the single-pass loop.                *)
(***************************************************************************)
AskForScaffold ==
    /\ hook = "scaffolding" /\ hook' = "filling"
    /\ requests > 0 /\ requests' = requests - 1 /\ onto' = Baseline
    /\ UNCHANGED <<pc, seedPending, genVars, policyVars, partVars, refused, pipelineVars, targetVars>>

\* An addition that does not merge is charged, and handed over as it is.
ScaffoldFilled ==
    /\ hook = "filling"
    /\ \E a, c \in Codes :
        /\ StartPipeline(c)
        /\ IF Spoilt(a)
           THEN c = a /\ refused' = refused \cup {c} /\ failures' = failures + (IF a \in refused THEN 0 ELSE 1)
           ELSE Composes(a, c) /\ Judged(c) /\ UNCHANGED failures
    /\ failures' < FailureLimit
    /\ UNCHANGED <<seedPending, requests, partVars, onto, feedbackVars, ask, historyVars, targetVars>>

\* No scaffold, a request that failed, nothing left of the reply.
NoScaffold ==
    /\ hook \in {"scaffolding", "filling"} /\ hook' = "generating"
    /\ UNCHANGED <<vars, partVars, onto, refused, pipelineVars, targetVars>>

-----------------------------------------------------------------------------
(***************************************************************************)
(* The divided generation: one caller after the other, each with attempts  *)
(* of its own, then mergeTestSnippetsPreservingBaseline.                   *)
(***************************************************************************)
AskForPart == 
    /\ hook = "dividing" /\ Len(snippets) < Parts
    /\ requests > 0 /\ requests' = requests - 1 /\ onto' = Baseline
    /\ UNCHANGED <<pc, seedPending, genVars, focus, pipelineVars, targetVars>>

\* No stage error: asked again without a charge.
PartFails == 
    /\ AskForPart /\ charged' = FALSE
    /\ UNCHANGED <<failures, hook, snippets, refused>>

\* Cut off, empty, does not merge or does not validate.
PartRejected ==
    /\ AskForPart /\ failures' = failures + 1 /\ failures' < FailureLimit /\ charged' = TRUE
    /\ \/ refused' = refused
       \/ \E a \in Codes : Conflicts(Baseline, a) /\ refused' = refused \cup {a}
    /\ UNCHANGED <<hook, snippets>>

\* The classes of two snippets are kept apart, and so are their methods.
PartWritten ==
    /\ AskForPart /\ charged' = FALSE
    /\ \E a \in Codes :
        LET c == Merged(Baseline, a) IN
        /\ a \notin refused /\ ~Conflicts(Baseline, a) /\ c \in Codes \ refused
        /\ \A i \in DOMAIN snippets : Fresh(Baseline, snippets[i]) \cap Fresh(Baseline, c) = {}
        /\ snippets' = Append(snippets, c)
    /\ UNCHANGED <<failures, hook, refused>>

MergedParts ==
    [m \in Methods |->
        IF m \in Inventory(Baseline) \/ \A i \in DOMAIN snippets : snippets[i][m] = "absent"
        THEN Baseline[m]
        ELSE snippets[CHOOSE i \in DOMAIN snippets : snippets[i][m] # "absent"][m]]

\* What the parts were validated for is not checked again for the whole.
PartsMerged ==
    /\ hook = "dividing" /\ Len(snippets) = Parts /\ MergedParts \in Codes
    /\ StartPipeline(MergedParts) /\ snippets' = <<>>
    /\ UNCHANGED <<seedPending, failures, requests, focus, onto, refused, feedbackVars, ask, historyVars,
                   targetVars>>

\* A fixture, an import or a reference conflicts: the single-pass loop.
PartsConflict ==
    /\ hook = "dividing" /\ Len(snippets) = Parts
    /\ hook' = "generating" /\ snippets' = <<>>
    /\ UNCHANGED <<vars, focus, onto, refused, pipelineVars, targetVars>>

-----------------------------------------------------------------------------
(***************************************************************************)
(* candidateHooks.revise up to its request.                                *)
(***************************************************************************)
\* selectedFailureMethod: one failing method of this text, and no failure of
\* the file, a fixture or a name.
Fixable == \E m \in Inventory(code) : failing = {m}
ToBugFixer == role = "bug-fixer" /\ Fixable /\ "bug-fixer" \in Qualified

Request(mode, feedback) ==
    /\ hook = "head" /\ hook' = "asking" /\ charged' = FALSE
    /\ requests > 0 /\ requests' = requests - 1
    /\ ask' = [mode |-> mode, text |-> code, feedback |-> feedback]
    /\ work' = [work EXCEPT ![code] = NoFeedback]
    /\ UNCHANGED <<pc, seedPending, genVars, failures, partVars, refused, loopVars, scoped, owed, targetVars>>

AskBugFixer ==
    /\ Request("fix", NoFeedback) /\ ToBugFixer /\ narrow' = {}
    /\ UNCHANGED <<onto, edits, adds>>

Matched == work[code]

\* Mutant of EditPlan: the plan is not looked up by the text.
EditPlan_AnyText ==
    IF \E t \in Codes : edits[t] # NoFeedback
    THEN edits[CHOOSE t \in Codes : edits[t] # NoFeedback]
    ELSE IF scoped[code] # {} THEN Matched ELSE NoFeedback
\* The plan of the text at hand, or a new one for corrections only.
EditPlan ==
    IF edits[code] # NoFeedback THEN edits[code]
    ELSE IF scoped[code] # {} THEN Matched ELSE NoFeedback
InMethods(feedback) == \A f \in feedback.findings : f.at \in Methods

AskForEdit ==
    /\ Request("edit", EditPlan) /\ ~ToBugFixer /\ EditPlan # NoFeedback /\ InMethods(EditPlan)
    /\ edits' = [edits EXCEPT ![code] = EditPlan]
    /\ UNCHANGED <<onto, adds, narrow>>

Additions ==
    IF Matched # NoFeedback /\ \A f \in Matched.findings : f.category = "missing-scenario"
    THEN Matched ELSE adds[code]

\* From now on the addition baseline is the reviewed text.
AskForAddition ==
    /\ Request("add", Additions) /\ ~ToBugFixer /\ EditPlan = NoFeedback /\ Additions # NoFeedback
    /\ adds' = [adds EXCEPT ![code] = Additions] /\ onto' = code
    /\ UNCHANGED <<edits, narrow>>

AskForWhole ==
    /\ Request("whole", Matched) /\ ~ToBugFixer /\ EditPlan = NoFeedback /\ Additions = NoFeedback
    /\ UNCHANGED <<onto, edits, adds, narrow>>

(***************************************************************************)
(* The reply: what candidateHooks.revise returns, and what the loop makes  *)
(* of it.                                                                  *)
(***************************************************************************)
PlannedMethods == {f.at : f \in ask.feedback.findings}

\* The text, and whether its preparation rejects it.  Edits outside of the
\* plan throw; so does a fragment a reviewed text has no use for, unless it is
\* a text that was tried.  A fix that changes no method counts as such a text.
Composed(c, bad) ==
    \/ /\ ask.mode = "edit" /\ Edited(ask.text, PlannedMethods, c) /\ (bad \/ Fits(c))
    \/ /\ ask.mode = "add" /\ c # ask.text
       /\ \E a \in Codes : ~Conflicts(ask.text, a) /\ c = Merged(ask.text, a)
    \/ /\ ask.mode = "add" /\ ~bad /\ c \in seen
       /\ Conflicts(ask.text, c) \/ Fresh(ask.text, c) = {}
    \/ /\ ask.mode = "whole"
       /\ \E a \in Codes : IF Spoilt(a) THEN c = a /\ bad ELSE Composes(a, c) /\ (bad \/ Fits(c))
    \/ /\ ask.mode = "fix" /\ ~bad /\ \E m \in failing : Replaced(ask.text, m, c)

\* Mutant of Scope: it stays with the reviewed text.
Scope_NotCopied == {}
\* The scope of a correction goes with the text the Writer made of it.
Scope == IF ask.mode = "fix" THEN {} ELSE scoped[ask.text]

Reply(c) ==
    /\ hook = "asking" /\ ask' = NoAsk
    /\ \E bad \in BOOLEAN :
        /\ Composed(c, bad)
        /\ refused' = IF bad \/ Scope \notin {{}, Inventory(c)} THEN refused \cup {c} ELSE refused
    /\ scoped' = IF Scope = Inventory(c) THEN [scoped EXCEPT ![c] = Scope] ELSE scoped
    /\ UNCHANGED <<pc, seedPending, genVars, requests, partVars, onto, work, edits, adds, historyVars,
                   targetVars>>

\* RepairFeedback.consider: this text was tried before.
Repeats(c) ==
    /\ Reply(c) /\ c \in seen /\ Miss("head")
    /\ code' = retained /\ role' = "writer" /\ shown' = failing
    /\ UNCHANGED <<retained, failing, passing, seen, passed>>

\* validateRevision: what passed in the text before is kept, or it throws.  (The revision
\* for a name the text does not define is left out.)
Revises(c) ==
    /\ Reply(c) /\ c \notin seen /\ Preserves(code, c, passed[code])
    /\ hook' = "validating" /\ code' = c /\ seen' = seen \cup {c}
    /\ UNCHANGED <<charged, failures, retained, role, failing, shown, passing, passed>>

ReplyIsNoText(there) ==
    /\ hook = "asking" /\ ask' = NoAsk /\ Miss(there)
    /\ UNCHANGED <<pc, seedPending, genVars, requests, partVars, onto, refused, feedbackVars, historyVars,
                   targetVars>>

\* The request is repeated for the same text, an edit with the same plan.
BadFormat == ReplyIsNoText("head") /\ UNCHANGED loopVars

\* Not Python, which the check of what passed finds first.
NotPython ==
    /\ ask.mode \in {"whole", "fix"} /\ passed[code] # {} /\ ReplyIsNoText("head")
    /\ code' = retained /\ role' = "bug-fixer" /\ failing' = shown
    /\ UNCHANGED <<retained, shown, passing, seen, passed>>

-----------------------------------------------------------------------------
(***************************************************************************)
(* candidateHooks.validate.                                                *)
(***************************************************************************)
\* Mutant of Kept: the best measured text is what counts.
Kept_Best == best # NoCode => Preserves(best, code, Methods)
Kept == Baseline # NoCode => Preserves(Baseline, code, Methods)
Passes ==
    /\ code \notin refused /\ Kept
    /\ best # NoCode /\ ~seedPending => Novel(best, code)

LoopOnly == UNCHANGED <<pc, seedPending, genVars, requests, partVars, onto, refused, feedbackVars, ask,
                        historyVars>>

\* Refused, nothing new, or the structure or the trace evidence is wrong.
TurnedDown ==
    /\ hook = "validating" /\ (code \in refused \/ Kept) /\ Miss("head") /\ LoopOnly
    /\ code' = retained /\ role' = "writer" /\ failing' = {}
    /\ UNCHANGED <<retained, shown, passing, seen, passed, targetVars>>

\* firstExecution is FALSE: the text stays the candidate.
AlreadyRan ==
    /\ hook = "validating" /\ Passes /\ code \in ran /\ Miss("head") /\ LoopOnly
    /\ role' = "writer" /\ failing' = {}
    /\ UNCHANGED <<code, retained, shown, passing, seen, passed, targetVars>>

Runs ==
    /\ hook = "validating" /\ Passes /\ code \notin ran /\ ran' = ran \cup {code}
    /\ hook' = "running" /\ LoopOnly
    /\ UNCHANGED <<charged, failures, loopVars, executable, best>>

(***************************************************************************)
(* candidateHooks.execute, RepairFeedback.record and the checkpoint.       *)
(***************************************************************************)
\* The file did not load, or the tests in `good' passed.
Outcomes == [good : SUBSET Methods, bad : SUBSET (Methods \cup {"load"})]
Outcome(o) ==
    \/ o = [good |-> {}, bad |-> {"load"}]
    \/ o.good \subseteq Inventory(code) /\ o.bad = Inventory(code) \ o.good

Ran(o) ==
    /\ hook = "running" /\ Outcome(o)
    /\ passed' = IF "load" \in o.bad THEN passed ELSE [passed EXCEPT ![code] = o.good]
    /\ UNCHANGED <<pc, genVars, requests, partVars, onto, refused, ask, seen, best, ran>>

\* A test that passed before failed or is gone: the text before is retained.
Regresses(o) ==
    /\ Ran(o) /\ ~(passing \subseteq o.good) /\ Miss("head")
    /\ code' = retained /\ role' = "bug-fixer" /\ shown' = o.bad \cup shown /\ failing' = shown'
    /\ UNCHANGED <<seedPending, retained, passing, feedbackVars, historyVars, executable>>

Fails(o) ==
    /\ Ran(o) /\ passing \subseteq o.good /\ o.bad # {} /\ Miss("head")
    /\ retained' = code /\ passing' = o.good /\ shown' = o.bad /\ failing' = o.bad /\ role' = "bug-fixer"
    /\ UNCHANGED <<seedPending, code, feedbackVars, historyVars, executable>>

\* The checkpoint, then the review forgets what it knew of this text.
Succeeds(o) ==
    /\ Ran(o) /\ passing \subseteq o.good /\ o.bad = {} /\ hook' = "reviewing"
    /\ retained' = code /\ passing' = o.good /\ shown' = {} /\ failing' = {}
    /\ executable' = code /\ seedPending' = FALSE /\ owed' = owed \cup {code} /\ narrow' = {}
    /\ work' = [work EXCEPT ![code] = NoFeedback] /\ edits' = [edits EXCEPT ![code] = NoFeedback]
    /\ adds' = [adds EXCEPT ![code] = NoFeedback] /\ scoped' = [scoped EXCEPT ![code] = {}]
    /\ UNCHANGED <<code, role, charged, failures>>

(***************************************************************************)
(* candidateHooks.review: reviewWithContractRepair, whose requests are     *)
(* attempts of their own, and what is made of the assessment.              *)
(***************************************************************************)
AskReviewer ==
    /\ hook = "reviewing" /\ "reviewer" \in Qualified
    /\ requests > 0 /\ requests' = requests - 1
    /\ UNCHANGED <<pc, seedPending, genVars, partVars, onto, refused, ask, edits, adds, owed, targetVars,
                   code, retained, shown, passing, seen, passed>>

ReviewRejected(reply) ==
    /\ AskReviewer /\ ~Assesses(code, reply)
    /\ failures' = failures + 1 /\ failures' < FailureLimit /\ charged' = TRUE
    /\ UNCHANGED <<hook, role, failing, work, scoped, narrow>>

Approved ==
    /\ AskReviewer /\ {} \in Replies /\ hook' = "accepted" /\ charged' = FALSE
    /\ UNCHANGED <<failures, role, failing, work, scoped, narrow>>

CorrectionsOnly(reply) == \A f \in reply : f.category # "missing-scenario"

Assessed(reply) ==
    /\ AskReviewer /\ Assesses(code, reply) /\ reply # {}
    /\ failures' = failures + 1 /\ failures' < FailureLimit /\ charged' = TRUE /\ hook' = "head"
    /\ work' = [work EXCEPT ![code] = [testHash |-> code, findings |-> reply]]
    /\ scoped' = IF CorrectionsOnly(reply) THEN [scoped EXCEPT ![code] = Inventory(code)] ELSE scoped
    /\ narrow' = IF CorrectionsOnly(reply) THEN Inventory(code) ELSE {}
    /\ role' = "writer" /\ failing' = {}

-----------------------------------------------------------------------------
RoundNext ==
    \/ AskForScaffold \/ ScaffoldFilled \/ NoScaffold \/ Generate \/ HandOver
    \/ BeginFamily \/ CaseFails \/ CaseRejected \/ CaseComposed
    \/ PartFails \/ PartRejected \/ PartWritten \/ PartsMerged \/ PartsConflict
    \/ AskBugFixer \/ AskForEdit \/ AskForAddition \/ AskForWhole
    \/ \E c \in Codes : Repeats(c) \/ Revises(c)
    \/ BadFormat \/ NotPython
    \/ TurnedDown \/ AlreadyRan \/ Runs
    \/ \E o \in Outcomes : Regresses(o) \/ Fails(o) \/ Succeeds(o)
    \/ \E reply \in Replies : ReviewRejected(reply) \/ Assessed(reply)
    \/ Approved \/ Abandon

RoundSpec == RoundInit /\ [][RoundNext]_allVars

\* Every await settles: requests and tools have timeouts.
FairRound == RoundSpec /\ WF_allVars(RoundNext)

-----------------------------------------------------------------------------
(* The findings a revision is asked to answer were accepted for the very    *)
(* text it starts from: feedback that is kept for a later attempt, a plan   *)
(* or missing scenarios, never comes with another text, whose lines and     *)
(* facts are other ones.                                                    *)
FeedbackIsTrue ==
    hook = "asking" /\ ask.feedback # NoFeedback =>
        ask.feedback.testHash = ask.text /\ Assesses(ask.text, ask.feedback.findings)

(* After a review that asks for corrections only, nothing the Writer makes  *)
(* of it runs with other methods than the reviewed text had, over rejected  *)
(* replies, failed runs and texts that ran before, until it is reviewed or  *)
(* the Bug Fixer gets it.                                                   *)
CorrectionsStayNarrow == hook = "running" /\ narrow # {} => Inventory(code) = narrow

(* No text runs or is accepted that lost a test or weakened an assertion of *)
(* any text that was checkpointed before, whoever wrote it and whatever it  *)
(* was composed from.                                                       *)
CheckpointsAreKept ==
    hook \in {"running", "reviewing", "accepted"} =>
        \A t \in owed : Preserves(t, code, Methods)

(* Whatever the models answer, the round accepts a text or throws.          *)
RoundEnds == <>(hook = "accepted" \/ pc = "thrown")
=============================================================================
