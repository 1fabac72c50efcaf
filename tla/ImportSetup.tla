---------------------------- MODULE ImportSetup ----------------------------
(***************************************************************************)
(* Setting up what a project's modules need to be imported in isolation:   *)
(* scan, show the proposed settings, save them when the user agrees, scan  *)
(* once more, report.  Every dialog, document and scan is an await, during *)
(* which sources, settings and the interpreter may change.                 *)
(*                                                                         *)
(*   src/environment/importSetupController.ts    ImportSetupController     *)
(*   src/environment/importSetupSession.ts       saveImportSetupSession    *)
(*   src/environment/initializationPlanning.ts   inspectPreparedProjectImports *)
(*   src/environment/projectImportCheck.ts       inspectProjectImports     *)
(*   src/environment/resourceSetupController.ts  configureTestResources    *)
(*   src/pipeline/importFixtures.ts              the settings and plans    *)
(*                                                                         *)
(* The project has a selected file, "target", and a file it imports,       *)
(* "helper"; a file is the version of its content, which a hash tells      *)
(* apart.  The settings are one rule: its kind, and the version of the     *)
(* target it was approved for.  Lease and start-up refusals are            *)
(* AnalysisSession's.                                                      *)
(***************************************************************************)
EXTENDS Integers

CONSTANTS
    V,         \* versions of a source file's content
    Initial,   \* settings a behaviour may start with
    MaxEdits   \* bound on what the user changes during one behaviour

ASSUME Bounds == V \in Nat \ {0} /\ MaxEdits \in Nat

VARIABLES
    src,        \* version of each file's content
    user,       \* the user's settings: importFixtureRoot and importFixtures
    override,   \* the settings the workspace defines itself
    python,     \* the interpreter configured for the project
    draft,      \* the resource draft on disk
    edits,      \* changes made from outside so far
    cancelled,  \* the calling batch was aborted
    stopped,    \* the setup's own execution was cancelled
    pc,         \* the await the program stands at
    caller,     \* who waits for the scan: the batch, or the setup
    scan,       \* inputs of the scan under way
    closure,    \* the file contents the static planner read (planningSources)
    observed,   \* the scan imported the modules before its proposals
    check,      \* the last completed scan of the caller (ImportCheck)
    offer,      \* the settings that were last shown for approval
    saved,      \* how far saving them got
    reason,     \* ImportSetupReason
    applied,    \* the approved settings are in force
    result,     \* ImportSetupResult
    report      \* status that can be read from import_setup.json

scanVars == <<scan, closure, observed>>
outcome == <<applied, result, report>>
outside == <<src, override, python, draft, edits, cancelled>>
vars == <<outside, user, stopped, pc, caller, scanVars, check, offer, saved, reason, outcome>>

Files == {"target", "helper"}
Pythons == {"py1", "py2"}
Keys == {"root", "rules"}

(***************************************************************************)
(* Rules and plans.                                                        *)
(*   "entry"     start-up calls to skip, bound to line numbers             *)
(*   "resource"  isolated directories, texts and databases                 *)
(*   "bare"      a rule that is bound to no version                        *)
(***************************************************************************)
Bound == [kind: {"entry", "resource"}, at: 1 .. V]
NoRules == [kind |-> "none", at |-> 0]
Bare == [kind |-> "bare", at |-> 0]
Rule == Bound \cup {NoRules, Bare}
Roots == {"none", "here", "there"}
Settings == [root: Roots, rules: Rule]
ASSUME InitialSettings == Initial \subseteq Settings
NoPlan == [rules |-> NoRules, at |-> 0]

\* VS Code's effective value: the workspace's before the user's.
OfWorkspace == [root |-> "here", rules |-> Bare]
Effective == [k \in Keys |-> IF k \in override THEN OfWorkspace[k] ELSE user[k]]

\* selectImportFixtureRules: rules bound to another project do not apply.
Selected(s) == IF s.root = "there" THEN NoRules ELSE s.rules
Expired(r, version) == r \in Bound /\ r.at # version
\* createImportFixturePlan throws for a rule approved for another version.
PlanFails(s, version) == Expired(Selected(s), version)
PlanOf(s, version) ==
    IF Selected(s) = NoRules THEN NoPlan ELSE [rules |-> Selected(s), at |-> version]
\* The plan of the settings in force.
InForce(plan) == ~PlanFails(Effective, src["target"]) /\ PlanOf(Effective, src["target"]) = plan

\* refreshEntryPointApprovals withdraws an expired line approval from a scan.
Refreshed(r, version) == IF r.kind = "entry" /\ r.at # version THEN Bare ELSE r

(***************************************************************************)
(* The state.                                                              *)
(***************************************************************************)
ScanPcs == {"planning", "observing", "schema", "loading", "scanned"}
Reasons == {"error", "interrupted", "initial-check", "recheck", "no-targets", "proposal-declined"}
Statuses == {"none", "ready", "blocked", "cancelled", "declined", "failed", "no-targets"}
Rows == {"empty", "planned", "blocked", "partial", "loaded"}

NoClosure == [f \in Files |-> 0]
NoScan == [target |-> 1, python |-> "py1", saved |-> [root |-> "none", rules |-> NoRules],
           rules |-> NoRules, files |-> FALSE]
\* "planned" rows wait for a confirmation and were not imported.
NoCheck == [scan |-> NoScan, rows |-> "empty", proposed |-> NoRules, plan |-> NoPlan,
            closure |-> NoClosure, round |-> 0]
NoOffer == [rules |-> NoRules, plan |-> NoPlan, before |-> NoScan.saved, draft |-> NoRules,
            edits |-> 0]
NoResult == [status |-> "none", actual |-> FALSE, plan |-> NoPlan, applied |-> FALSE]

WorldInit ==
    /\ src = [f \in Files |-> 1] /\ python = "py1"
    /\ user \in Initial /\ override \in {{}, {"root"}}
    /\ draft = [kind |-> "resource", at |-> 1]
    /\ edits = 0 /\ cancelled = FALSE /\ stopped = FALSE

SetupInit ==
    /\ scan = NoScan /\ closure = NoClosure /\ observed = FALSE
    /\ check = NoCheck /\ offer = NoOffer /\ saved = "nothing"
    /\ reason = "error" /\ applied = FALSE /\ result = NoResult /\ report = "none"

\* A setup command of its own, or one for the draft of resources.
Init ==
    /\ WorldInit /\ SetupInit
    /\ pc \in {"discovering", "draft-preview"} /\ caller = "setup"

(***************************************************************************)
(* Errors.  A scan's error goes to whoever asked for the scan; the setup   *)
(* catches its own, warns and goes on to its report; an error of           *)
(* configureTestResources or of the batch ends it.                         *)
(***************************************************************************)
Interrupted == IF caller = "setup" THEN stopped ELSE cancelled

Caught ==
    /\ reason' = IF stopped THEN "interrupted" ELSE "error"
    /\ pc' = "warned"
    /\ UNCHANGED <<outside, user, stopped, caller, scanVars, check, offer, saved, outcome>>

Dropped ==
    /\ pc' = "ended"
    /\ UNCHANGED <<outside, user, stopped, caller, scanVars, check, offer, saved, reason, outcome>>

Throws == IF caller = "setup" THEN Caught ELSE Dropped

(***************************************************************************)
(* A scan.                                                                 *)
(***************************************************************************)
\* scan(): approvals that expired are left out of it.
BeginScan(files) ==
    LET rules == Refreshed(Selected(Effective), src["target"])
    IN  /\ ~Interrupted /\ ~Expired(rules, src["target"])
        /\ scan' = [target |-> src["target"], python |-> scan.python, saved |-> Effective,
                    rules |-> rules, files |-> files]
        /\ closure' = NoClosure /\ observed' = FALSE
        /\ pc' = IF files THEN "planning" ELSE "loading"
        /\ UNCHANGED <<outside, user, stopped, caller, check, offer, saved, reason, outcome>>

\* Approvals the scan had to leave out.
ExpiredRules == scan.rules # Selected(scan.saved)

\* The static planner reads every file the targets reach; its answer counts
\* only while they do not change.  When it cannot complete the closure there
\* are no static proposals.
PlanTool ==
    /\ pc = "planning" /\ ~Interrupted
    /\ closure' = src /\ pc' \in {"observing", "schema", "loading"}
    /\ UNCHANGED <<outside, user, stopped, caller, scan, observed, check, offer, saved, reason, outcome>>

Unchanged == closure \in {NoClosure, src}

\* A guarded import where a directory's path is only known at run time.
Observe ==
    /\ pc = "observing" /\ ~Interrupted /\ Unchanged
    /\ observed' = TRUE /\ pc' = "schema"
    /\ UNCHANGED <<outside, user, stopped, caller, scan, closure, check, offer, saved, reason, outcome>>

\* A proposal is bound to the version it was made for; without one the
\* expired approvals are proposed for removal.
NoProposal == IF ExpiredRules THEN scan.rules ELSE NoRules
NewProposals == [kind: {"entry", "resource"}, at: {src["target"]}]

ScanEnds(rows, proposed) ==
    /\ check' = [scan |-> scan, rows |-> rows, proposed |-> proposed,
                 plan |-> PlanOf([scan.saved EXCEPT !.rules = scan.rules],
                                 IF rows = "planned" THEN scan.target ELSE src["target"]),
                 closure |-> closure, round |-> check.round + 1]
    /\ pc' = "scanned" /\ scan' = [NoScan EXCEPT !.python = scan.python, !.files = scan.files]
    /\ closure' = NoClosure /\ observed' = FALSE
    /\ UNCHANGED <<outside, user, stopped, caller, offer, saved, reason, outcome>>

Imported == {"blocked", "partial", "loaded"}

\* Static proposals are shown before anything else is imported; without any
\* the import that was already observed counts.
PlanSchema ==
    /\ pc = "schema" /\ ~Interrupted /\ Unchanged
    /\ \/ \E p \in NewProposals : ScanEnds("planned", p)
       \/ observed /\ \E rows \in Imported : ScanEnds(rows, NoProposal)
       \/ /\ ~observed /\ pc' = "loading"
          /\ UNCHANGED <<outside, user, stopped, caller, scanVars, check, offer, saved, reason, outcome>>

\* inspectProjectImports: one guarded import per file, what blocks one may be
\* proposed.
Load ==
    /\ pc = "loading" /\ ~Interrupted /\ Unchanged /\ ~Expired(scan.rules, src["target"])
    /\ IF ~scan.files THEN ScanEnds("empty", NoProposal) ELSE
       \E rows \in Imported :
       \E p \in {NoProposal} \cup (IF rows = "loaded" THEN {} ELSE NewProposals) :
           ScanEnds(rows, p)

ScanFails == pc \in ScanPcs \ {"scanned"} /\ Throws

Scanning == PlanTool \/ Observe \/ PlanSchema \/ Load \/ ScanFails

(***************************************************************************)
(* ImportSetupController.prepare                                           *)
(***************************************************************************)
\* validateFinalCheck
FinalCheckHolds ==
    /\ ~stopped /\ check.closure \in {NoClosure, src}
    /\ (check.scan.files => src["target"] = check.scan.target)
    /\ Effective = check.scan.saved /\ python = check.scan.python /\ InForce(check.plan)

Settled(why) == why \notin {"interrupted", "error", "proposal-declined"}
\* observedCandidate: a completed scan that really imported the modules.
ObservedCandidate(why) == Settled(why) /\ check.rows \in Imported
\* readyCandidate
ReadyCandidate(why) == Settled(why) /\ check.rows = "loaded" /\ check.proposed = NoRules

\* prepare() has the lease and reads the interpreter it will scan with.
StartSetup ==
    /\ scan' = [NoScan EXCEPT !.python = python] /\ closure' = NoClosure /\ observed' = FALSE
    /\ check' = NoCheck /\ offer' = NoOffer /\ saved' = "nothing"
    /\ reason' = "error" /\ applied' = FALSE
    /\ pc' = "discovering" /\ caller' = "setup"
    /\ UNCHANGED <<outside, user, stopped, result, report>>

\* No file with a function to test: the scan has no rows.
Discover == pc = "discovering" /\ \E files \in BOOLEAN : BeginScan(files)
Rescan == pc = "rescan" /\ BeginScan(scan.files)
BeginFails == pc \in {"discovering", "rescan"} /\ Caught

\* saveImportSetupSession
SessionStatus(why) ==
    IF why = "interrupted" THEN "cancelled" ELSE
    IF why \in {"error", "no-targets"} \/ check.rows = "empty" THEN "incomplete" ELSE
    IF check.rows # "loaded" THEN "blocked" ELSE
    IF check.proposed # NoRules THEN "incomplete" ELSE "ready"

\* Whatever goes wrong while the session file is written is swallowed: it is
\* left with the new status, with the one it had, or torn.
SaveSession(why) == report' \in {SessionStatus(why), report, "none"}

\* The work is over; the report is written and opened.
ToReport(why) ==
    /\ reason' = why /\ SaveSession(why) /\ pc' = "report"
    /\ UNCHANGED <<outside, user, stopped, caller, scanVars, check, offer, saved, applied, result>>

\* Only the first scan can lead to a preview.
Offered == check.round = 1 /\ check.rows # "empty" /\ check.proposed # NoRules

SetupPreviews ==
    /\ pc = "scanned" /\ caller = "setup" /\ ~stopped /\ Offered
    /\ offer' = [rules |-> check.proposed, before |-> check.scan.saved, draft |-> NoRules,
                 plan |-> [rules |-> check.proposed, at |-> check.closure["target"]], edits |-> 0]
    /\ reason' = "initial-check" /\ pc' = "preview"
    /\ UNCHANGED <<outside, user, stopped, caller, scanVars, check, saved, outcome>>

SetupScanned ==
    LET why == IF check.rows = "empty" THEN "no-targets" ELSE
               IF check.round = 1 THEN "initial-check" ELSE "recheck"
    IN  /\ pc = "scanned" /\ caller = "setup" /\ ~stopped /\ ~Offered
        /\ (ObservedCandidate(why) => FinalCheckHolds)
        /\ ToReport(why)

SetupScanFails == pc = "scanned" /\ caller = "setup" /\ Caught

\* The reports are open; the question is asked.
Ask ==
    /\ pc = "preview" /\ ~stopped /\ pc' = "dialog"
    /\ UNCHANGED <<outside, user, stopped, caller, scanVars, check, offer, saved, reason, outcome>>

Decline == pc = "dialog" /\ ~stopped /\ ToReport("proposal-declined")

\* The list that was shown is compared with the sources and settings of now.
StartSaving ==
    /\ offer' = [offer EXCEPT !.edits = edits] /\ reason' = "error" /\ pc' = "save-root"
    /\ UNCHANGED <<outside, user, stopped, caller, scanVars, check, saved, outcome>>

Approve ==
    /\ pc = "dialog" /\ ~stopped
    /\ check.closure = src /\ ~Expired(offer.rules, src["target"])
    /\ offer.plan.at = src["target"] /\ Effective = offer.before
    /\ StartSaving

AskFails == pc \in {"preview", "dialog"} /\ Caught

(***************************************************************************)
(* Saving: two settings, two writes.  offer.draft says who saves.          *)
(***************************************************************************)
SavingFails == IF offer.draft = NoRules THEN Caught ELSE Dropped

SaveRoot ==
    /\ pc = "save-root" /\ user' = [user EXCEPT !.root = "here"]
    /\ saved' = "root" /\ pc' = "save-rules"
    /\ UNCHANGED <<outside, stopped, caller, scanVars, check, offer, reason, outcome>>

SaveRootFails == pc = "save-root" /\ SavingFails

\* The settings are saved; whether they are in force is another question.
SaveRules ==
    /\ pc = "save-rules" /\ user' = [user EXCEPT !.rules = offer.rules]
    /\ saved' = "both" /\ pc' = "saved"
    /\ UNCHANGED <<outside, stopped, caller, scanVars, check, offer, reason, outcome>>

SaveRulesFails ==
    /\ pc = "save-rules" /\ pc' = "rollback"
    /\ UNCHANGED <<outside, user, stopped, caller, scanVars, check, offer, saved, reason, outcome>>

\* Mutant of Undone: the root is not what it was, but unset.
Undone_Unset == [user EXCEPT !.root = "none"]
Undone == [user EXCEPT !.root = offer.before.root]

\* The first write is taken back, if that write works.
Rollback ==
    /\ pc = "rollback" /\ user' = Undone /\ saved' = "undone" /\ pc' = "undone"
    /\ UNCHANGED <<outside, stopped, caller, scanVars, check, offer, reason, outcome>>

RollbackFails == pc \in {"rollback", "undone"} /\ SavingFails

\* The workspace does not hide what was saved.
TakesEffect ==
    /\ pc = "saved" /\ InForce(offer.plan)
    /\ IF offer.draft = NoRules THEN applied' = TRUE /\ pc' = "rescan"
       ELSE pc' = "draft-applied" /\ UNCHANGED applied
    /\ UNCHANGED <<outside, user, stopped, caller, scanVars, check, offer, saved, reason, result, report>>

HasNoEffect == pc = "saved" /\ ~InForce(offer.plan) /\ SavingFails

Saving == \/ SaveRoot \/ SaveRootFails \/ SaveRules \/ SaveRulesFails
          \/ Rollback \/ RollbackFails \/ TakesEffect \/ HasNoEffect

(***************************************************************************)
(* The end of prepare(): opening the report is an await, after which the   *)
(* evidence is looked at once more.                                        *)
(***************************************************************************)
Warned == pc = "warned" /\ ToReport(reason)

ResultStatus(why) ==
    IF why = "interrupted" THEN "cancelled" ELSE
    IF why = "error" THEN "failed" ELSE
    IF why = "proposal-declined" THEN "declined" ELSE
    IF check.rows = "empty" THEN "no-targets" ELSE
    IF ReadyCandidate(why) THEN "ready" ELSE "blocked"

\* The last look takes back what was said: the setup was stopped, or the
\* evidence it stands on no longer holds.
Withdrawn == stopped \/ (ObservedCandidate(reason) /\ ~FinalCheckHolds)

\* Mutant of LastLook: what was valid before the report was opened still is.
LastLook_Skipped == reason
LastLook ==
    IF stopped THEN "interrupted" ELSE
    IF Withdrawn THEN "error" ELSE reason

Return ==
    /\ pc = "report" /\ reason' = LastLook
    /\ IF Withdrawn THEN SaveSession(reason') ELSE UNCHANGED report
    /\ result' = [status |-> ResultStatus(reason'), actual |-> ObservedCandidate(reason'),
                  plan |-> check.plan, applied |-> applied]
    /\ pc' = "returned"
    /\ UNCHANGED <<outside, user, stopped, caller, scanVars, check, offer, saved, applied>>

(***************************************************************************)
(* configureTestResources: the saved draft, shown and confirmed; then the  *)
(* modules are checked with it.                                            *)
(***************************************************************************)
PreviewDraft ==
    /\ pc = "draft-preview"
    /\ ~Expired(draft, src["target"])
    /\ offer' = [rules |-> draft, plan |-> [rules |-> draft, at |-> src["target"]],
                 before |-> Effective, draft |-> draft, edits |-> 0]
    /\ pc' = "draft-dialog"
    /\ UNCHANGED <<outside, user, stopped, caller, scanVars, check, saved, reason, outcome>>

\* Approved again for the sources of now, to be previewed another time.
RefreshDraft ==
    /\ pc = "draft-preview" /\ draft' = [draft EXCEPT !.at = src["target"]] /\ pc' = "ended"
    /\ UNCHANGED <<src, override, python, edits, cancelled, user, stopped, caller, scanVars,
                   check, offer, saved, reason, outcome>>

ConfirmDraft ==
    /\ pc = "draft-dialog" /\ draft = offer.draft /\ Effective = offer.before
    /\ offer.plan.at = src["target"]
    /\ StartSaving

DropDraft == pc \in {"draft-preview", "draft-dialog"} /\ Dropped
CheckDraft == pc = "draft-applied" /\ StartSetup

Drafting == PreviewDraft \/ RefreshDraft \/ ConfirmDraft \/ DropDraft \/ CheckDraft

Setup == \/ Discover \/ Rescan \/ BeginFails \/ SetupPreviews \/ SetupScanned \/ SetupScanFails
         \/ Ask \/ Decline \/ Approve \/ AskFails \/ Warned \/ Return

Program == Scanning \/ Setup \/ Saving \/ Drafting

(***************************************************************************)
(* The outside: the user edits sources and settings, and gives up.         *)
(***************************************************************************)
Busy == pc \notin {"ended", "dispatched"}
Edit == Busy /\ edits < MaxEdits /\ edits' = edits + 1
Rest == <<cancelled, stopped, pc, caller, scanVars, check, offer, saved, reason, outcome>>

EditSource(f) ==
    /\ Edit /\ \E v \in (1 .. V) \ {src[f]} : src' = [src EXCEPT ![f] = v]
    /\ UNCHANGED <<user, override, python, draft, Rest>>
\* Rules written by hand are bound to no version.
EditSettings ==
    /\ Edit
    /\ \/ \E root \in Roots \ {user.root} : user' = [user EXCEPT !.root = root]
       \/ \E r \in {NoRules, Bare} \ {user.rules} : user' = [user EXCEPT !.rules = r]
    /\ UNCHANGED <<src, override, python, draft, Rest>>
EditWorkspace ==
    /\ Edit /\ override' \in {{}, {"root"}, Keys} \ {override} /\ UNCHANGED <<src, user, python, draft, Rest>>
SelectPython ==
    /\ Edit /\ python' \in Pythons \ {python} /\ UNCHANGED <<src, user, override, draft, Rest>>
EditDraft ==
    /\ Edit /\ pc \in {"draft-preview", "draft-dialog"}
    /\ \E v \in (1 .. V) \ {draft.at} : draft' = [draft EXCEPT !.at = v]
    /\ UNCHANGED <<src, user, override, python, Rest>>

\* dispose(), and the end of the batch the setup belongs to.
Stop ==
    /\ Busy /\ caller = "setup" /\ ~stopped /\ stopped' = TRUE
    /\ UNCHANGED <<outside, user, pc, caller, scanVars, check, offer, saved, reason, outcome>>

Edits == \/ \E f \in Files : EditSource(f)
         \/ EditSettings \/ EditWorkspace \/ SelectPython \/ EditDraft

Next == Program \/ Edits \/ Stop
Spec == Init /\ [][Next]_vars

\* Every await settles: a tool ends or times out, a dialog is answered.
FairSpec == Spec /\ WF_vars(Program)

-----------------------------------------------------------------------------
TypeOK ==
    /\ src \in [Files -> 1 .. V] /\ python \in Pythons /\ override \subseteq Keys
    /\ user \in Settings /\ draft \in Bound
    /\ edits \in 0 .. MaxEdits /\ cancelled \in BOOLEAN /\ stopped \in BOOLEAN
    /\ reason \in Reasons /\ applied \in BOOLEAN /\ check.rows \in Rows
    /\ check.proposed \in Rule /\ check.round \in 0 .. 2 /\ result.status \in Statuses
    /\ saved \in {"nothing", "root", "both", "undone"}

(* What prepare() returns is true of the project as it is when it returns:  *)
(* a result that stands on real imports was made with the sources, the      *)
(* interpreter and the settings of now, settings that were only previewed   *)
(* are none of them, and ready is never said without it.  The session file  *)
(* does not contradict a ready result; it says ready only of modules that   *)
(* all loaded with nothing left to confirm, never of settings alone, and,   *)
(* when the result is not ready, only because the last look withdrew it and *)
(* the correction could not be saved.                                       *)
ReturnIsTrue ==
    [][pc' = "returned" /\ pc # "returned" =>
         /\ result'.status = "ready" => result'.actual /\ report' \in {"ready", "none"}
         /\ report' = "ready" =>
              /\ check.rows = "loaded" /\ check.proposed = NoRules
              /\ result'.status = "ready" \/ reason' # reason
         /\ result'.actual =>
              /\ ~stopped /\ check.closure = src /\ check.scan.python = python
              /\ check.scan.rules = Selected(Effective)
              /\ result'.plan = PlanOf(Effective, src["target"])]_vars

(* Saving is two writes.  When the second fails and the first is taken      *)
(* back, and when nothing was written, the settings in force are those the  *)
(* list was shown for, unless the user changed them since.                  *)
HalfSavedIsUndone ==
    pc \in {"save-root", "undone", "warned", "report", "returned", "ended"}
    /\ reason = "error" /\ saved \in {"nothing", "undone"} /\ offer # NoOffer /\ edits = offer.edits
        => Effective = offer.before
=============================================================================
