--------------------------- MODULE BatchSetupProofs ---------------------------
(***************************************************************************)
(* Safety of a batch and the setup it may ask for, for any settings to     *)
(* start with and any number of versions and edits.                        *)
(***************************************************************************)
EXTENDS BatchSetup, TLAPS

-----------------------------------------------------------------------------
(* The inductive invariant.                                                 *)

Types ==
    /\ TypeOK
    /\ scan.rules \in Rule /\ scan.saved.root \in Roots /\ check.scan.saved.root \in Roots
    /\ DOMAIN offer = {"rules", "plan", "before", "draft", "edits"}
    /\ offer.rules \in Rule /\ offer.before.root \in Roots
    /\ offer.edits \in 0 .. edits

\* A setup scans twice at most.
Rounds ==
    /\ check.round \in 0 .. 2
    /\ pc \in {"planning", "observing", "schema", "loading", "rescan", "preview", "dialog",
              "save-root", "save-rules", "saved"} => check.round \in 0 .. 1
    /\ pc \in {"scope", "finding", "discovering", "draft-preview", "draft-dialog"} =>
          check.round = 0

\* The scan under way: what it has read, and the rules it is made with.
Reads ==
    /\ pc \in {"observing", "schema"} => closure # NoClosure
    /\ pc = "loading" /\ scan.files => closure # NoClosure
    /\ scan.saved.root = "there" => scan.rules = NoRules
    /\ DOMAIN scan.saved = Keys

\* The last scan: its plan has its rules, and what it imported it had read.
Checks ==
    /\ check.plan.rules = check.scan.rules
    /\ check.rows \in Imported => check.closure # NoClosure

\* What the end of a setup goes by.
Reports ==
    /\ pc = "warned" => reason \in {"interrupted", "error"}
    /\ pc \in {"preview", "dialog"} => check.proposed # NoRules
    /\ pc \notin {"report", "returned", "ended", "dispatched"} => report = "none"
    /\ pc = "report" => /\ report \in {"none", SessionStatus(reason)}
                        /\ reason = "no-targets" => check.rows = "empty"
                        /\ reason = "proposal-declined" => check.proposed # NoRules

\* The batch's own scan, until it asks for a setup.
Scope ==
    /\ scope \in [target : Nat, python : Pythons]
    /\ pc \in {"scope", "finding", "opening", "deciding", "verifying"} => caller = "batch"
    /\ caller = "batch" /\ pc # "dispatched" => scan.python = scope.python
    /\ caller = "batch" /\ pc = "scanned" => check.scan.python = scope.python
    /\ pc \in {"opening", "deciding", "verifying"} =>
          /\ check.rows = first.rows /\ check.closure = first.closure
          /\ check.scan.python = scope.python

\* As long as the user changes nothing, the settings are those of the scan, of
\* the list that was shown, or, between the two writes, of its other parts.
Saves ==
    /\ edits = 0 /\ pc \in {"planning", "observing", "schema", "loading"} => scan.saved = Effective
    /\ edits = 0 /\ pc = "scanned" => check.scan.saved = Effective
    /\ offer # NoOffer /\ saved \in {"nothing", "undone"} /\ edits = offer.edits =>
          Effective = offer.before
    /\ pc = "save-root" /\ edits = offer.edits => Effective = offer.before
    /\ pc \in {"save-rules", "rollback"} /\ edits = offer.edits =>
          \E s \in Settings : /\ user = [s EXCEPT !.root = "here"]
                              /\ offer.before =
                                   [k \in Keys |-> IF k \in override THEN OfWorkspace[k] ELSE s[k]]

IInv == Types /\ Rounds /\ Reads /\ Checks /\ Reports /\ Scope /\ Saves

-----------------------------------------------------------------------------
(* Each part is kept, by scans, the setup, its two writes, the draft of     *)
(* resources, the batch, and what the user does meanwhile.                  *)

LEMMA PlanRules == \A s, v : PlanOf(s, v).rules = Selected(s)
  BY DEF PlanOf, NoPlan

\* The steps of a scan: on its way, and to its end.
ToLoading ==
    /\ pc = "schema" /\ ~observed /\ pc' = "loading"
    /\ UNCHANGED <<outside, user, stopped, caller, scanVars, check, offer, saved, reason, outcome>>
Walking == PlanTool \/ Observe \/ ToLoading \/ ScanFails
Ending ==
    \E rows \in Rows, proposed \in Rule :
        /\ pc \in {"schema", "loading"} /\ ScanEnds(rows, proposed)
        /\ rows \in Imported => closure # NoClosure

LEMMA ScanningShape ==
  ASSUME Types, Reads, Scanning
  PROVE  Walking \/ Ending
  <1>1. NoProposal \in Rule /\ NewProposals \subseteq Rule
    BY DEF NoProposal, NewProposals, Types, TypeOK, Rule, Bound, Files
  <1>2. Imported \subseteq Rows /\ {"planned", "empty"} \subseteq Rows
    BY DEF Imported, Rows
  <1>3. CASE PlanSchema
    BY <1>1, <1>2, <1>3 DEF PlanSchema, Walking, ToLoading, Ending, Imported, Reads
  <1>4. CASE Load
    <2>1. CASE ~scan.files
      BY <1>1, <1>2, <1>4, <2>1 DEF Load, Ending, Imported, NoProposal, Rule
    <2>2. CASE scan.files
      BY <1>1, <1>2, <1>4, <2>2 DEF Load, Ending, Reads
    <2> QED
      BY <2>1, <2>2
  <1> QED
    BY <1>3, <1>4 DEF Scanning, Walking

\* A plan is made with the rules of its scan.
LEMMA PlannedRules ==
  ASSUME Reads, NEW v
  PROVE  PlanOf([scan.saved EXCEPT !.rules = scan.rules], v).rules = scan.rules
  BY PlanRules DEF Reads, Selected, Keys

\* The last scan is kept, and what it was made with is not.
LEMMA ScanOver ==
  ASSUME Reads, NEW rows, NEW proposed, ScanEnds(rows, proposed)
  PROVE  /\ pc' = "scanned" /\ closure' = NoClosure
         /\ scan'.saved = NoScan.saved /\ scan'.rules = NoRules /\ scan'.python = scan.python
         /\ check'.scan = scan /\ check'.rows = rows /\ check'.proposed = proposed
         /\ check'.closure = closure /\ check'.round = check.round + 1
         /\ check'.plan.rules = scan.rules
         /\ UNCHANGED <<outside, user, stopped, caller, offer, saved, reason, outcome>>
  BY PlannedRules DEF ScanEnds, NoScan

LEMMA SetupStarts ==
  ASSUME StartSetup
  PROVE  /\ pc' = "discovering" /\ closure' = NoClosure /\ caller' = "setup"
         /\ scan'.saved = NoScan.saved /\ scan'.rules = NoRules /\ scan'.python = python
         /\ check' = NoCheck /\ offer' = NoOffer /\ saved' = "nothing" /\ reason' = "error"
         /\ applied' = FALSE
         /\ UNCHANGED <<outside, user, stopped, result, report>>
  BY DEF StartSetup, NoScan

\* What there is before a scan.
LEMMA NothingRead ==
  /\ NoScan.saved.root = "none" /\ DOMAIN NoScan.saved = Keys
  /\ NoScan.saved = [root |-> "none", rules |-> NoRules]
  /\ NoCheck.scan = NoScan /\ NoCheck.rows = "empty" /\ NoCheck.proposed = NoRules
  /\ NoCheck.plan.rules = NoRules /\ NoCheck.closure = NoClosure /\ NoCheck.round = 0
  /\ NoScan.rules = NoRules
  BY DEF NoScan, NoCheck, Keys, NoPlan

\* The settings in force, which the workspace may have hidden.
LEMMA EffectiveTypes ==
  ASSUME user \in Settings
  PROVE  /\ Effective.root \in Roots /\ Effective.rules \in Rule
         /\ DOMAIN Effective = Keys /\ Selected(Effective) \in Rule
         /\ \A v : Refreshed(Selected(Effective), v) \in Rule
  BY DEF Effective, Settings, OfWorkspace, Keys, Roots, Rule, Selected, Refreshed, Bare, NoRules

\* The kinds of steps.
Aside == UNCHANGED <<scope, first>>
Walks == Walking /\ Aside
Ends == Ending /\ Aside
Begins == (Discover \/ Rescan) /\ Aside
SetsUp ==
    /\ \/ BeginFails \/ SetupPreviews \/ SetupScanned \/ SetupScanFails \/ Ask \/ Decline
       \/ Approve \/ AskFails \/ Warned \/ Return
    /\ Aside
Stores == Saving /\ Aside
Drafts == Drafting /\ Aside
Looks == SelectScope \/ Inspect \/ Inspected
Leads == GoOn \/ Verify \/ Resume \/ ResumeFails \/ BatchStops
Around == Abort \/ ((Edits \/ Stop) /\ Aside) \/ UNCHANGED batchVars

LEMMA Steps ==
  ASSUME Types, Reads, [BatchNext]_batchVars
  PROVE  \/ Walks \/ Ends \/ Begins \/ SetsUp \/ Stores \/ Drafts
         \/ Looks \/ AskForSetup \/ Leads \/ Around
  <1>1. CASE Program /\ UNCHANGED <<scope, first>>
    BY <1>1, ScanningShape
    DEF Program, Setup, Walks, Ends, Begins, SetsUp, Stores, Drafts, Aside
  <1>2. CASE ~(Program /\ UNCHANGED <<scope, first>>)
    BY <1>2 DEF BatchNext, BatchProgram, Looks, Leads, Around, Aside
  <1> QED
    BY <1>1, <1>2

LEMMA RoundsStep ==
  ASSUME Types, Reads, Rounds, [BatchNext]_batchVars
  PROVE  Rounds'
  <1> USE DEF scanVars, outcome, outside, Aside
  <1>1. CASE Walks
    BY <1>1
    DEF Walks, Walking, PlanTool, Observe, ToLoading, ScanFails, Throws, Caught, Dropped,
        Rounds, Offered
  <1>2. CASE Ends
    BY <1>2, ScanOver, NothingRead
    DEF Ends, Ending, Rounds, Offered
  <1>3. CASE Begins
    BY <1>3
    DEF Begins, Discover, Rescan, BeginScan, Rounds, Offered
  <1>4. CASE SetsUp
    BY <1>4
    DEF SetsUp, BeginFails, SetupPreviews, SetupScanned, SetupScanFails, Ask, Decline, Approve,
        AskFails, Warned, Return, Caught, ToReport, StartSaving, Rounds, Offered
  <1>5. CASE Stores
    BY <1>5
    DEF Stores, Saving, SaveRoot, SaveRootFails, SaveRules, SaveRulesFails, Rollback,
        RollbackFails, TakesEffect, HasNoEffect, SavingFails, Caught, Dropped, Rounds, Offered
  <1>6. CASE Drafts
    <2>1. CASE CheckDraft
      BY <2>1, SetupStarts, NothingRead DEF CheckDraft, Rounds
    <2>2. CASE PreviewDraft \/ RefreshDraft \/ ConfirmDraft \/ DropDraft
      BY <2>2
      DEF PreviewDraft, RefreshDraft, ConfirmDraft, StartSaving, DropDraft, Dropped, Rounds
    <2> QED
      BY <1>6, <2>1, <2>2 DEF Drafts, Drafting
  <1>7. CASE Looks
    BY <1>7
    DEF Looks, SelectScope, Inspect, BeginScan, Inspected, Rounds, Offered
  <1>8. CASE AskForSetup
    BY <1>8, SetupStarts, NothingRead
    DEF AskForSetup, Rounds, Offered
  <1>9. CASE Leads
    BY <1>9
    DEF Leads, GoOn, Verify, Resume, ResumeFails, BatchStops, HandOut, Dropped, Rounds, Offered
  <1>10. CASE Around
    BY <1>10
    DEF Around, Abort, Edits, Edit, EditSource, EditSettings, EditWorkspace, SelectPython,
        EditDraft, Rest, Stop, batchVars, vars, Rounds, Offered
  <1> QED
    BY <1>1, <1>2, <1>3, <1>4, <1>5, <1>6, <1>7, <1>8, <1>9, <1>10, Steps

LEMMA ReadsStep ==
  ASSUME src \in [Files -> 1 .. V], Bounds, Types, Reads, [BatchNext]_batchVars
  PROVE  Reads'
  <1> USE DEF scanVars, outcome, outside, Aside
  <1>b. src # NoClosure
    BY DEF NoClosure, Files, Bounds
  <1>a. DOMAIN Effective = Keys
    BY EffectiveTypes DEF Types, TypeOK
  <1>1. CASE Walks
    BY <1>1, <1>b
    DEF Walks, Walking, PlanTool, Observe, ToLoading, ScanFails, Throws, Caught, Dropped, Reads
  <1>2. CASE Ends
    BY <1>2, ScanOver, NothingRead
    DEF Ends, Ending, Reads
  <1>3. CASE Begins
    BY <1>3, <1>a
    DEF Begins, Discover, Rescan, BeginScan, Reads, Refreshed, Selected, NoRules
  <1>4. CASE SetsUp
    BY <1>4
    DEF SetsUp, BeginFails, SetupPreviews, SetupScanned, SetupScanFails, Ask, Decline, Approve,
        AskFails, Warned, Return, Caught, ToReport, StartSaving, Reads
  <1>5. CASE Stores
    BY <1>5
    DEF Stores, Saving, SaveRoot, SaveRootFails, SaveRules, SaveRulesFails, Rollback,
        RollbackFails, TakesEffect, HasNoEffect, SavingFails, Caught, Dropped, Reads
  <1>6. CASE Drafts
    BY <1>6, SetupStarts, NothingRead
    DEF Drafts, Drafting, PreviewDraft, RefreshDraft, ConfirmDraft, StartSaving, DropDraft,
        CheckDraft, Dropped, Reads
  <1>7. CASE Looks
    BY <1>7, <1>a
    DEF Looks, SelectScope, Inspect, BeginScan, Inspected, Reads, Refreshed, Selected, NoRules
  <1>8. CASE AskForSetup
    BY <1>8, SetupStarts, NothingRead
    DEF AskForSetup, Reads
  <1>9. CASE Leads
    BY <1>9
    DEF Leads, GoOn, Verify, Resume, ResumeFails, BatchStops, HandOut, Dropped, Reads
  <1>10. CASE Around
    BY <1>10
    DEF Around, Abort, Edits, Edit, EditSource, EditSettings, EditWorkspace, SelectPython,
        EditDraft, Rest, Stop, batchVars, vars, Reads
  <1> QED
    BY <1>1, <1>2, <1>3, <1>4, <1>5, <1>6, <1>7, <1>8, <1>9, <1>10, Steps

LEMMA ChecksStep ==
  ASSUME Types, Reads, Checks, [BatchNext]_batchVars
  PROVE  Checks'
  <1> USE DEF scanVars, outcome, outside, Aside
  <1>1. CASE Walks
    BY <1>1
    DEF Walks, Walking, PlanTool, Observe, ToLoading, ScanFails, Throws, Caught, Dropped,
        Checks, Imported
  <1>2. CASE Ends
    BY <1>2, ScanOver, NothingRead
    DEF Ends, Ending, Checks, Imported
  <1>3. CASE Begins
    BY <1>3
    DEF Begins, Discover, Rescan, BeginScan, Checks, Imported
  <1>4. CASE SetsUp
    BY <1>4
    DEF SetsUp, BeginFails, SetupPreviews, SetupScanned, SetupScanFails, Ask, Decline, Approve,
        AskFails, Warned, Return, Caught, ToReport, StartSaving, Checks, Imported
  <1>5. CASE Stores
    BY <1>5
    DEF Stores, Saving, SaveRoot, SaveRootFails, SaveRules, SaveRulesFails, Rollback,
        RollbackFails, TakesEffect, HasNoEffect, SavingFails, Caught, Dropped, Checks, Imported
  <1>6. CASE Drafts
    BY <1>6, SetupStarts, NothingRead
    DEF Drafts, Drafting, PreviewDraft, RefreshDraft, ConfirmDraft, StartSaving, DropDraft,
        CheckDraft, Dropped, Checks, Imported
  <1>7. CASE Looks
    BY <1>7
    DEF Looks, SelectScope, Inspect, BeginScan, Inspected, Checks, Imported
  <1>8. CASE AskForSetup
    BY <1>8, SetupStarts, NothingRead
    DEF AskForSetup, Checks, Imported
  <1>9. CASE Leads
    BY <1>9
    DEF Leads, GoOn, Verify, Resume, ResumeFails, BatchStops, HandOut, Dropped, Checks,
        Imported
  <1>10. CASE Around
    BY <1>10
    DEF Around, Abort, Edits, Edit, EditSource, EditSettings, EditWorkspace, SelectPython,
        EditDraft, Rest, Stop, batchVars, vars, Checks, Imported
  <1> QED
    BY <1>1, <1>2, <1>3, <1>4, <1>5, <1>6, <1>7, <1>8, <1>9, <1>10, Steps

LEMMA ReportsStep ==
  ASSUME Types, Reads, Rounds, Reports, [BatchNext]_batchVars
  PROVE  Reports'
  <1> USE DEF scanVars, outcome, outside, Aside
  <1>1. CASE Walks
    BY <1>1
    DEF Walks, Walking, PlanTool, Observe, ToLoading, ScanFails, Throws, Caught, Dropped,
        Reports, ScanPcs
  <1>2. CASE Ends
    BY <1>2, ScanOver, NothingRead
    DEF Ends, Ending, Reports
  <1>3. CASE Begins
    BY <1>3
    DEF Begins, Discover, Rescan, BeginScan, Reports
  <1>4. CASE SetsUp
    BY <1>4
    DEF SetsUp, BeginFails, SetupPreviews, SetupScanned, SetupScanFails, Ask, Decline, Approve,
        AskFails, Warned, Return, Caught, ToReport, SaveSession, StartSaving, Reports,
        SessionStatus, Offered
  <1>5. CASE Stores
    BY <1>5
    DEF Stores, Saving, SaveRoot, SaveRootFails, SaveRules, SaveRulesFails, Rollback,
        RollbackFails, TakesEffect, HasNoEffect, SavingFails, Caught, Dropped, Reports
  <1>6. CASE Drafts
    BY <1>6, SetupStarts, NothingRead
    DEF Drafts, Drafting, PreviewDraft, RefreshDraft, ConfirmDraft, StartSaving, DropDraft,
        CheckDraft, Dropped, Reports
  <1>7. CASE Looks
    BY <1>7
    DEF Looks, SelectScope, Inspect, BeginScan, Inspected, Reports
  <1>8. CASE AskForSetup
    BY <1>8, SetupStarts, NothingRead
    DEF AskForSetup, Reports
  <1>9. CASE Leads
    BY <1>9
    DEF Leads, GoOn, Verify, Resume, ResumeFails, BatchStops, HandOut, Dropped, Reports
  <1>10. CASE Around
    BY <1>10
    DEF Around, Abort, Edits, Edit, EditSource, EditSettings, EditWorkspace, SelectPython,
        EditDraft, Rest, Stop, batchVars, vars, Reports, SessionStatus
  <1> QED
    BY <1>1, <1>2, <1>3, <1>4, <1>5, <1>6, <1>7, <1>8, <1>9, <1>10, Steps

LEMMA ScopeStep ==
  ASSUME Bounds, Types, Reads, Scope, [BatchNext]_batchVars
  PROVE  Scope'
  <1> USE DEF scanVars, outcome, outside, Aside
  <1>1. CASE Walks
    BY <1>1
    DEF Walks, Walking, PlanTool, Observe, ToLoading, ScanFails, Throws, Caught, Dropped,
        Scope, BatchPcs, ScanPcs
  <1>2. CASE Ends
    BY <1>2, ScanOver, NothingRead
    DEF Ends, Ending, Scope, BatchPcs
  <1>3. CASE Begins
    BY <1>3
    DEF Begins, Discover, Rescan, BeginScan, Scope, BatchPcs
  <1>4. CASE SetsUp
    BY <1>4
    DEF SetsUp, BeginFails, SetupPreviews, SetupScanned, SetupScanFails, Ask, Decline, Approve,
        AskFails, Warned, Return, Caught, ToReport, StartSaving, Scope, BatchPcs
  <1>5. CASE Stores
    BY <1>5
    DEF Stores, Saving, SaveRoot, SaveRootFails, SaveRules, SaveRulesFails, Rollback,
        RollbackFails, TakesEffect, HasNoEffect, SavingFails, Caught, Dropped, Scope, BatchPcs
  <1>6. CASE Drafts
    BY <1>6, SetupStarts, NothingRead
    DEF Drafts, Drafting, PreviewDraft, RefreshDraft, ConfirmDraft, StartSaving, DropDraft,
        CheckDraft, Dropped, Scope, BatchPcs
  <1>7. CASE Looks
    BY <1>7
    DEF Looks, SelectScope, Inspect, BeginScan, Inspected, Scope, BatchPcs, TypeOK, Types,
        Files, Bounds, Pythons
  <1>8. CASE AskForSetup
    BY <1>8, SetupStarts, NothingRead
    DEF AskForSetup, Scope, BatchPcs
  <1>9. CASE Leads
    BY <1>9
    DEF Leads, GoOn, Verify, Resume, ResumeFails, BatchStops, HandOut, Dropped, Scope, BatchPcs
  <1>10. CASE Around
    BY <1>10
    DEF Around, Abort, Edits, Edit, EditSource, EditSettings, EditWorkspace, SelectPython,
        EditDraft, Rest, Stop, batchVars, vars, Scope, BatchPcs
  <1> QED
    BY <1>1, <1>2, <1>3, <1>4, <1>5, <1>6, <1>7, <1>8, <1>9, <1>10, Steps

LEMMA SettingsChange ==
  ASSUME user \in Settings
  PROVE  /\ \A r \in Roots : [user EXCEPT !.root = r] \in Settings
         /\ \A r \in Rule : [user EXCEPT !.rules = r] \in Settings
  BY DEF Settings

LEMMA NothingOffered ==
  /\ DOMAIN NoOffer = {"rules", "plan", "before", "draft", "edits"}
  /\ NoOffer.rules = NoRules /\ NoOffer.before = NoScan.saved /\ NoOffer.edits = 0
  BY DEF NoOffer

LEMMA EffectiveKept == UNCHANGED <<user, override>> => UNCHANGED Effective
  BY DEF Effective

LEMMA TypesStep ==
  ASSUME Bounds, Rounds, Rounds', Reads, Types, [BatchNext]_batchVars
  PROVE  Types'
  <1> USE DEF scanVars, outcome, outside, Aside
  <1>1. CASE Walks
    BY <1>1
    DEF Walks, Walking, PlanTool, Observe, ToLoading, ScanFails, Throws, Caught, Dropped,
        Types, TypeOK, Reasons
  <1>2. CASE Ends
    BY <1>2, ScanOver, NothingRead
    DEF Ends, Ending, Types, TypeOK, Rounds, Roots, Rule, NoRules
  <1>3. CASE Begins
    BY <1>3, EffectiveTypes
    DEF Begins, Discover, Rescan, BeginScan, Types, TypeOK, Reasons
  <1>4. CASE SetsUp
    BY <1>4
    DEF SetsUp, BeginFails, SetupPreviews, SetupScanned, SetupScanFails, Ask, Decline, Approve,
        AskFails, Warned, Return, Caught, ToReport, StartSaving, Types, TypeOK, Reasons,
        Statuses, LastLook, ResultStatus, Roots, Rule, Bound
  <1>5. CASE Stores
    <2>1. CASE SaveRoot
      BY <2>1, SettingsChange DEF SaveRoot, Types, TypeOK, Roots
    <2>2. CASE SaveRules
      BY <2>2, SettingsChange DEF SaveRules, Types, TypeOK
    <2>3. CASE Rollback
      BY <2>3, SettingsChange DEF Rollback, Undone, Types, TypeOK
    <2>4. CASE \/ SaveRootFails \/ SaveRulesFails \/ RollbackFails \/ TakesEffect
               \/ HasNoEffect
      BY <2>4 DEF SaveRootFails, SaveRulesFails, RollbackFails, TakesEffect, HasNoEffect,
        SavingFails, Caught, Dropped, Reasons, Types, TypeOK
    <2> QED
      BY <1>5, <2>1, <2>2, <2>3, <2>4 DEF Stores, Saving
  <1>6. CASE Drafts
    <2>1. CASE PreviewDraft
      BY <2>1, EffectiveTypes DEF PreviewDraft, Types, TypeOK, Rule
    <2>2. CASE RefreshDraft
      BY <2>2 DEF RefreshDraft, Types, TypeOK, Bound, Files
    <2>3. CASE ConfirmDraft
      BY <2>3 DEF ConfirmDraft, StartSaving, Reasons, Types, TypeOK
    <2>4. CASE DropDraft
      BY <2>4 DEF DropDraft, Dropped, Types, TypeOK
    <2>5. CASE CheckDraft
      BY <2>5, SetupStarts, NothingRead, NothingOffered
      DEF CheckDraft, Rounds, Roots, Rows, Rule, NoRules, Reasons, Types, TypeOK
    <2> QED
      BY <1>6, <2>1, <2>2, <2>3, <2>4, <2>5 DEF Drafts, Drafting
  <1>7. CASE Looks
    BY <1>7, EffectiveTypes
    DEF Looks, SelectScope, Inspect, BeginScan, Inspected, Types, TypeOK
  <1>8. CASE AskForSetup
    BY <1>8, SetupStarts, NothingRead, NothingOffered
    DEF AskForSetup, Types, TypeOK, Reasons, Roots, Rounds, Rows, Rule, NoRules
  <1>9. CASE Leads
    BY <1>9
    DEF Leads, GoOn, Verify, Resume, ResumeFails, BatchStops, HandOut, Dropped, Types, TypeOK
  <1>10. CASE Around
    <2>1. CASE \E f \in Files : EditSource(f)
      BY <2>1 DEF EditSource, Edit, Rest, Types, TypeOK
    <2>2. CASE EditSettings
      BY <2>2, SettingsChange DEF EditSettings, Edit, Rest, Types, TypeOK, Rule
    <2>3. CASE EditWorkspace
      BY <2>3 DEF EditWorkspace, Edit, Rest, Types, TypeOK, Keys
    <2>6. CASE SelectPython
      BY <2>6 DEF SelectPython, Edit, Rest, Types, TypeOK
    <2>4. CASE EditDraft
      BY <2>4 DEF EditDraft, Edit, Rest, Types, TypeOK, Bound
    <2>5. CASE Abort \/ Stop \/ UNCHANGED batchVars
      BY <2>5 DEF Abort, Stop, batchVars, vars, Types, TypeOK
    <2> QED
      BY <1>10, <2>1, <2>2, <2>3, <2>4, <2>5, <2>6 DEF Around, Edits
  <1> QED
    BY <1>1, <1>2, <1>3, <1>4, <1>5, <1>6, <1>7, <1>8, <1>9, <1>10, Steps

LEMMA SavesStep ==
  ASSUME Types, Types', Reads, Saves, [BatchNext]_batchVars
  PROVE  Saves'
  <1> USE DEF scanVars, outcome, outside, Aside
  <1>1. CASE Walks
    BY <1>1, EffectiveKept
    DEF Walks, Walking, PlanTool, Observe, ToLoading, ScanFails, Throws, Caught, Dropped, Saves
  <1>2. CASE Ends
    BY <1>2, ScanOver, NothingRead, EffectiveKept
    DEF Ends, Ending, Saves
  <1>3. CASE Begins
    BY <1>3, EffectiveKept
    DEF Begins, Discover, Rescan, BeginScan, Saves
  <1>4. CASE SetsUp
    <2>1. CASE SetupPreviews
      BY <2>1, EffectiveKept DEF SetupPreviews, Saves
    <2>2. CASE Approve
      BY <2>2, EffectiveKept DEF Approve, StartSaving, Saves, Types
    <2>3. CASE \/ BeginFails \/ SetupScanned \/ SetupScanFails \/ Ask \/ Decline \/ AskFails
               \/ Warned \/ Return
      BY <2>3, EffectiveKept
      DEF BeginFails, SetupScanned, SetupScanFails, Ask, Decline, AskFails, Warned, Return,
          Caught,
        ToReport, Saves
    <2> QED
      BY <1>4, <2>1, <2>2, <2>3 DEF SetsUp
  <1>5. CASE Stores
    <2>1. CASE SaveRoot
      <3>1. /\ pc' = "save-rules" /\ saved' = "root"
            /\ UNCHANGED <<override, edits, offer, check, scan>>
            /\ user \in Settings /\ user' = [user EXCEPT !.root = "here"]
        BY <2>1 DEF SaveRoot, Types, TypeOK
      <3>2. edits = offer.edits =>
              offer.before = [k \in Keys |-> IF k \in override THEN OfWorkspace[k] ELSE user[k]]
        BY <2>1 DEF SaveRoot, Saves, Effective
      <3> QED
        BY <3>1, <3>2 DEF Saves
    <2>2. CASE Rollback
      <3>1. /\ pc' = "undone" /\ UNCHANGED <<override, edits, offer, check, scan>>
            /\ user' = [user EXCEPT !.root = offer.before.root]
        BY <2>2 DEF Rollback, Undone
      <3>2. ASSUME edits = offer.edits PROVE Effective' = offer.before
        <4>1. PICK s \in Settings :
                /\ user = [s EXCEPT !.root = "here"]
                /\ offer.before = [k \in Keys |-> IF k \in override THEN OfWorkspace[k] ELSE s[k]]
          BY <2>2, <3>2 DEF Rollback, Saves
        <4>2. \A k \in Keys \ override : user'[k] = s[k]
          BY <3>1, <4>1 DEF Settings, Keys
        <4> QED
          BY <3>1, <4>1, <4>2 DEF Effective
      <3> QED
        BY <3>1, <3>2 DEF Saves
    <2>3. CASE SaveRules
      BY <2>3 DEF SaveRules, Saves
    <2>4. CASE \/ SaveRootFails \/ SaveRulesFails \/ RollbackFails \/ TakesEffect
               \/ HasNoEffect
      BY <2>4, EffectiveKept
      DEF SaveRootFails, SaveRulesFails, RollbackFails, TakesEffect, HasNoEffect,
        SavingFails, Caught, Dropped, Saves
    <2> QED
      BY <1>5, <2>1, <2>2, <2>3, <2>4 DEF Stores, Saving
  <1>6. CASE Drafts
    <2>1. CASE PreviewDraft
      BY <2>1, EffectiveKept DEF PreviewDraft, Saves
    <2>2. CASE RefreshDraft \/ DropDraft
      BY <2>2, EffectiveKept DEF RefreshDraft, DropDraft, Dropped, Saves
    <2>3. CASE ConfirmDraft
      BY <2>3, EffectiveKept DEF ConfirmDraft, StartSaving, Saves, Types
    <2>4. CASE CheckDraft
      BY <2>4, SetupStarts DEF CheckDraft, Saves
    <2> QED
      BY <1>6, <2>1, <2>2, <2>3, <2>4 DEF Drafts, Drafting
  <1>7. CASE Looks
    BY <1>7, EffectiveKept
    DEF Looks, SelectScope, Inspect, BeginScan, Inspected, Saves
  <1>8. CASE AskForSetup
    BY <1>8, SetupStarts, NothingOffered, EffectiveKept
    DEF AskForSetup, Saves
  <1>9. CASE Leads
    BY <1>9, EffectiveKept
    DEF Leads, GoOn, Verify, Resume, ResumeFails, BatchStops, HandOut, Dropped, Saves
  <1>10. CASE Around
    <2>1. CASE Edits
      <3>1. edits' = edits + 1 /\ UNCHANGED offer
        BY <2>1
        DEF Edits, EditSource, EditSettings, EditWorkspace, SelectPython, EditDraft, Edit, Rest
      <3>2. edits' # 0 /\ edits' # offer'.edits
        BY <3>1 DEF Types, TypeOK
      <3> QED
        BY <3>2 DEF Saves
    <2>2. CASE Abort \/ Stop \/ UNCHANGED batchVars
      BY <2>2, EffectiveKept DEF Abort, Stop, batchVars, vars, Saves
    <2> QED
      BY <1>10, <2>1, <2>2 DEF Around
  <1> QED
    BY <1>1, <1>2, <1>3, <1>4, <1>5, <1>6, <1>7, <1>8, <1>9, <1>10, Steps

-----------------------------------------------------------------------------
(* The invariant holds throughout.                                          *)

LEMMA InitInv == BatchInit => IInv
  <1> SUFFICES ASSUME BatchInit PROVE IInv
    OBVIOUS
  <1> USE NothingRead, NothingOffered DEF BatchInit, WorldInit, SetupInit
  <1>1. Types
    <2>1. src \in [Files -> 1 .. V] /\ edits \in 0 .. MaxEdits
      BY Bounds
    <2>2. user \in Settings /\ draft \in Bound /\ override \subseteq Keys
      BY InitialSettings, Bounds DEF Bound, Keys
    <2>3. reason \in Reasons /\ result.status \in Statuses /\ check.rows \in Rows
      BY DEF Reasons, Statuses, Rows, NoResult
    <2>4. TypeOK
      <3>1. check.proposed \in Rule /\ check.round \in 0 .. 2
        BY DEF Rule
      <3>2. /\ python \in Pythons /\ saved \in {"nothing", "root", "both", "undone"}
            /\ {cancelled, stopped, applied} \subseteq BOOLEAN
        BY DEF Pythons
      <3> QED
        BY <2>1, <2>2, <2>3, <3>1, <3>2 DEF TypeOK
    <2>5. /\ scan.saved.root \in Roots
            /\ check.scan.saved.root \in Roots /\ offer.before.root \in Roots
      BY DEF Roots
    <2>6. scan.rules \in Rule /\ offer.rules \in Rule
      BY DEF Rule
    <2> QED
      BY <2>4, <2>5, <2>6 DEF Types
  <1>2. Rounds /\ Reads /\ Checks /\ Reports
    BY DEF Rounds, Reads, Checks, Reports, Imported
  <1>3. Scope
    BY DEF Scope, Pythons, NoScan
  <1>4. Saves
    BY DEF Saves
  <1> QED
    BY <1>1, <1>2, <1>3, <1>4 DEF IInv

LEMMA StepInv == IInv /\ [BatchNext]_batchVars => IInv'
  <1> SUFFICES ASSUME IInv, [BatchNext]_batchVars PROVE IInv'
    OBVIOUS
  <1>0. Types /\ Rounds /\ Reads /\ Checks /\ Reports /\ Scope /\ Saves /\ src \in [Files -> 1 .. V]
    BY DEF IInv, Types, TypeOK
  <1>1. Rounds' /\ Reads' /\ Checks' /\ Reports' /\ Scope'
    BY <1>0, RoundsStep, ReadsStep, ChecksStep, ReportsStep, ScopeStep, Bounds
  <1>2. Types'
    BY <1>0, <1>1, TypesStep, Bounds
  <1>3. Saves'
    BY <1>0, <1>2, SavesStep
  <1> QED
    BY <1>1, <1>2, <1>3 DEF IInv

LEMMA Invariance == BatchSpec => []IInv
  BY InitInv, StepInv, PTL DEF BatchSpec

(* Types of the whole state, with two scans of a setup at most              *)
(* (importSetupController.ts).                                              *)
THEOREM TypeCorrect == BatchSpec => []TypeOK
  <1>1. IInv => TypeOK
    BY DEF IInv, Types
  <1> QED
    BY <1>1, Invariance, PTL

(* Of two settings that are saved one after the other no half stays behind: *)
(* when saving failed, what is in force is what the list was shown for,     *)
(* unless the user changed it since (importSetupController.ts).             *)
THEOREM HalfSavesAreUndone == BatchSpec => []HalfSavedIsUndone
  <1>1. IInv => HalfSavedIsUndone
    BY DEF IInv, Saves, HalfSavedIsUndone
  <1> QED
    BY <1>1, Invariance, PTL

-----------------------------------------------------------------------------
(* Settings that give the plan of a scan are its own.                       *)

LEMMA SameRules ==
  ASSUME IInv, InForce(check.plan)
  PROVE  /\ check.scan.rules = Selected(Effective)
         /\ check.plan = PlanOf(Effective, src["target"])
         /\ ~PlanFails(Effective, src["target"])
  BY PlanRules DEF IInv, Checks, InForce

Returns == pc' = "returned" /\ pc # "returned"
Dispatches == pc' = "dispatched" /\ pc # "dispatched"

(* Where a setup returns, and where a batch hands out its targets.          *)
LEMMA ReturnOnly ==
  ASSUME IInv, BatchNext, Returns
  PROVE  Return
  <1> USE DEF Returns, Aside, outcome, outside, scanVars
  <1>1. ~(Walks \/ Ends \/ Begins)
    BY ScanOver
    DEF Walks, Walking, PlanTool, Observe, ToLoading, ScanFails, Throws, Caught, Dropped,
      Ends, Ending, Begins, Discover, Rescan, BeginScan, IInv
  <1>2. SetsUp => Return
    BY DEF SetsUp, BeginFails, SetupPreviews, SetupScanned, SetupScanFails, Ask, Decline, Approve,
      AskFails, Warned, Caught, ToReport, StartSaving
  <1>3. ~(Stores \/ Drafts \/ AskForSetup)
    BY SetupStarts
    DEF Stores, Saving, SaveRoot, SaveRootFails, SaveRules, SaveRulesFails, Rollback,
      RollbackFails, TakesEffect, HasNoEffect, SavingFails, Caught, Dropped, Drafts, Drafting,
      PreviewDraft, RefreshDraft, ConfirmDraft, StartSaving, DropDraft, CheckDraft, AskForSetup
  <1>4. ~(Looks \/ Leads \/ Around)
    BY DEF Looks, SelectScope, Inspect, BeginScan, Inspected, Leads, GoOn, Verify, Resume,
      ResumeFails, BatchStops, HandOut, Dropped, Around, Abort, Edits, EditSource, EditSettings,
      EditWorkspace, SelectPython, EditDraft, Rest, Stop, batchVars, vars
  <1> QED
    BY <1>1, <1>2, <1>3, <1>4, Steps DEF IInv

LEMMA DispatchOnly ==
  ASSUME IInv, BatchNext, Dispatches
  PROVE  Verify \/ Resume
  <1> USE DEF Dispatches, Aside, outcome, outside, scanVars
  <1>1. ~(Walks \/ Ends \/ Begins)
    BY ScanOver
    DEF Walks, Walking, PlanTool, Observe, ToLoading, ScanFails, Throws, Caught, Dropped,
      Ends, Ending, Begins, Discover, Rescan, BeginScan, IInv
  <1>2. ~SetsUp
    BY DEF SetsUp, BeginFails, SetupPreviews, SetupScanned, SetupScanFails, Ask, Decline, Approve,
      AskFails, Warned, Return, Caught, ToReport, StartSaving
  <1>3. ~(Stores \/ Drafts \/ AskForSetup)
    BY SetupStarts
    DEF Stores, Saving, SaveRoot, SaveRootFails, SaveRules, SaveRulesFails, Rollback,
      RollbackFails, TakesEffect, HasNoEffect, SavingFails, Caught, Dropped, Drafts, Drafting,
      PreviewDraft, RefreshDraft, ConfirmDraft, StartSaving, DropDraft, CheckDraft, AskForSetup
  <1>4. ~(Looks \/ Around) /\ (Leads => Verify \/ Resume)
    BY
    DEF Looks, SelectScope, Inspect, BeginScan, Inspected, Leads, GoOn, ResumeFails, BatchStops,
      Dropped, Around, Abort, Edits, EditSource, EditSettings, EditWorkspace, SelectPython,
      EditDraft, Rest, Stop, batchVars, vars
  <1> QED
    BY <1>1, <1>2, <1>3, <1>4, Steps DEF IInv

(* What a setup returns is true of the project as it is then, although the  *)
(* user edits sources and settings while it scans, asks and shows its       *)
(* report (importSetupController.ts).                                       *)
THEOREM ReturnsAreTrue == BatchSpec => ReturnIsTrue
  <1>1. ASSUME IInv, BatchNext, Returns
        PROVE  /\ result'.status = "ready" => result'.actual /\ report' \in {"ready", "none"}
               /\ report' = "ready" =>
                    /\ check.rows = "loaded" /\ check.proposed = NoRules
                    /\ result'.status = "ready" \/ reason' # reason
               /\ result'.actual =>
                    /\ ~stopped /\ check.closure = src /\ check.scan.python = python
                    /\ check.scan.rules = Selected(Effective)
                    /\ result'.plan = PlanOf(Effective, src["target"])
    <2>1. /\ pc = "report" /\ reason' = LastLook /\ UNCHANGED check
          /\ Withdrawn => report' \in {SessionStatus(reason'), report, "none"}
          /\ ~Withdrawn => report' = report
          /\ result'.status = ResultStatus(reason') /\ result'.actual = ObservedCandidate(reason')
          /\ result'.plan = check.plan
      BY <1>1, ReturnOnly DEF Return, SaveSession
    <2>2. /\ report \in {"none", SessionStatus(reason)}
          /\ reason = "no-targets" => check.rows = "empty"
          /\ reason = "proposal-declined" => check.proposed # NoRules
      BY <1>1, <2>1 DEF IInv, Reports
    <2>3. /\ Withdrawn => reason' \in {"interrupted", "error"}
          /\ ~Withdrawn => reason' = reason
      BY <2>1 DEF LastLook, Withdrawn
    <2>4. report' \in {"none", SessionStatus(reason), SessionStatus(reason')}
      BY <2>1, <2>2
    <2>5. result'.status = "ready" => result'.actual /\ report' \in {"ready", "none"}
      <3>1. SUFFICES ASSUME result'.status = "ready"
                     PROVE  result'.actual /\ report' \in {"ready", "none"}
        OBVIOUS
      <3>2. ReadyCandidate(reason')
        BY <2>1, <3>1 DEF ResultStatus
      <3>3. result'.actual
        BY <2>1, <3>2 DEF ReadyCandidate, ObservedCandidate, Imported
      <3>4. reason' = reason
        BY <2>3, <3>2 DEF ReadyCandidate, Settled
      <3>5. SessionStatus(reason) = "ready"
        BY <2>2, <3>2, <3>4 DEF SessionStatus, ReadyCandidate, Settled
      <3> QED
        BY <2>4, <3>3, <3>4, <3>5
    <2>6. ASSUME report' = "ready"
          PROVE  /\ check.rows = "loaded" /\ check.proposed = NoRules
                 /\ result'.status = "ready" \/ reason' # reason
      <3>1. SessionStatus(reason) = "ready" \/ SessionStatus(reason') = "ready"
        BY <2>4, <2>6
      <3>2. check.rows = "loaded" /\ check.proposed = NoRules
        BY <3>1 DEF SessionStatus
      <3>3. ASSUME reason' = reason PROVE result'.status = "ready"
        <4>1. SessionStatus(reason) = "ready"
          BY <3>1, <3>3
        <4> QED
          BY <2>1, <2>2, <3>2, <3>3, <4>1 DEF SessionStatus, ResultStatus, ReadyCandidate, Settled
      <3> QED
        BY <3>2, <3>3
    <2>7. ASSUME result'.actual
          PROVE  FinalCheckHolds /\ check.closure # NoClosure
      <3>1. ObservedCandidate(reason')
        BY <2>1, <2>7
      <3>2. ~Withdrawn /\ reason' = reason
        BY <2>3, <3>1 DEF ObservedCandidate, Settled
      <3> QED
        BY <1>1, <3>1, <3>2 DEF Withdrawn, ObservedCandidate, IInv, Checks
    <2> QED
      BY <1>1, <2>1, <2>5, <2>6, <2>7, SameRules DEF FinalCheckHolds
  <1>2. IInv /\ [BatchNext]_batchVars =>
         [pc' = "returned" /\ pc # "returned" =>
            /\ result'.status = "ready" => result'.actual /\ report' \in {"ready", "none"}
            /\ report' = "ready" =>
                 /\ check.rows = "loaded" /\ check.proposed = NoRules
                 /\ result'.status = "ready" \/ reason' # reason
            /\ result'.actual =>
                 /\ ~stopped /\ check.closure = src /\ check.scan.python = python
                 /\ check.scan.rules = Selected(Effective)
                 /\ result'.plan = PlanOf(Effective, src["target"])]_vars
    BY <1>1 DEF Returns, batchVars, vars
  <1> QED
    BY <1>2, Invariance, PTL DEF BatchSpec, ReturnIsTrue

(* Targets are handed out only on imports that were made with the files,    *)
(* the interpreter and the settings of now, the batch's own or those of the *)
(* setup it asked for (orchestrator.ts, batchSetupContinuity.ts).           *)
THEOREM NothingStaleIsDispatched == BatchSpec => NeverDispatchesStale
  <1>1. ASSUME IInv, BatchNext, Dispatches
        PROVE  /\ ~cancelled /\ check.rows \in {"partial", "loaded"}
               /\ check.closure = src /\ src["target"] = scope.target
               /\ check.scan.python = python
               /\ check.scan.rules = Selected(Effective)
               /\ ~PlanFails(Effective, src["target"])
    <2>1. /\ ~cancelled /\ check.rows \in {"partial", "loaded"}
          /\ src["target"] = scope.target /\ python = scope.python /\ InForce(check.plan)
          /\ check.scan.python = scope.python
          /\ check.closure # NoClosure
      BY <1>1, DispatchOnly
      DEF Verify, Resume, HandOut, StillValid, IInv, Scope, Checks, Imported
    <2>2. check.closure = src
      BY <1>1, <2>1, DispatchOnly
      DEF Verify, Resume, HandOut, StillValid, SameScope, IInv, Scope, Imported
    <2> QED
      BY <1>1, <2>1, <2>2, SameRules
  <1> QED
    BY <1>1, Invariance, PTL DEF BatchSpec, NeverDispatchesStale, Dispatches

=============================================================================
