---------------------------- MODULE ModelRequest ----------------------------
(***************************************************************************)
(* One budgeted request of a role to a local model, as the targets of a    *)
(* batch make them one after the other (orchestrator.ts                    *)
(* `requestBudgetedOne').  A prompt that does not fit grows the context;   *)
(* the roles are then qualified again at the new context, or found in the  *)
(* store that a batch keeps of such evidence (batchRuntimeQualification.ts,*)
(* runtimeQualificationSession.ts).  A reply that is cut off is asked for  *)
(* once more.  The user cancels, deadlines pass, and sources change at the *)
(* awaits; the code between two awaits is one step, or several that        *)
(* nothing else can come between.                                          *)
(***************************************************************************)
EXTENDS RoleQualification

CONSTANTS
    Needs,       \* estimated prompts, in tokens
    Surplus,     \* what a prompt may turn out to need beyond its estimate
    ProbePrompt, \* the tokens of a role probe
    ProbeReply,  \* ... and of its reply: 1024
    Targets, CallsPerTarget, MaxRequests,
    MaxDrifts    \* bound: changes to sources and dependencies

ASSUME Amounts == Needs \subseteq Nat /\ {Surplus, MaxRequests} \subseteq Nat

VARIABLES
    opt,       \* [required, full]: role policy, full workflow
    pc,
    world,     \* the versions of the batch's sources and of a dependency
    drifts,
    store,     \* BatchRuntimeQualification
    target, calls, context, roles, may, learned,
    engine,    \* the target's mutation engine: none, selected, failed
    stopped,   \* no, deadline, cancelled
    requests,  \* logical requests left to the target
    call,      \* [role, estimate, observed, attempt, cut, then]
    probe,     \* [role, running, roles, fixer, context]
    outcome

vars == <<qualificationVars, opt, pc, world, drifts, store, target, calls, context, roles, may,
          learned, engine, stopped, requests, call, probe, outcome>>

NoStore == [invalid |-> FALSE, bound |-> None, results |-> [c \in {} |-> Unprobed], preferred |-> 0]
NoCall == [role |-> "none", estimate |-> 0, observed |-> 0, attempt |-> 0, cut |-> 0, then |-> "none"]
NoProbe == [role |-> "none", running |-> FALSE, roles |-> Unprobed, fixer |-> FALSE, context |-> 0]

-----------------------------------------------------------------------------
(* The batch's evidence                                                     *)

Current(s) == ~s.invalid /\ world.source = 0 /\ s.bound \in {None, world.dependency}
Cleared == [NoStore EXCEPT !.invalid = TRUE, !.bound = store.bound]

\* What the store is after current(): evidence of another state is revoked for good.
Checked == IF Current(store) THEN store ELSE Cleared

\* Mutant of BindDependencies: the preflight's versions replace the bound ones unchecked.
BindDependencies_Overwriting(version) == [store EXCEPT !.bound = version]
BindDependencies(version) ==
    IF Current(store) /\ version = world.dependency
    THEN [store EXCEPT !.bound = version] ELSE Cleared

\* session.get: a result serves a caller that needs the Fixer only with its verdict.
Found(s, c, fixer) ==
    /\ c \in DOMAIN s.results
    /\ fixer => s.results[c].fixer # "missing"

\* session.set: complete Writer and Reviewer verdicts only; an old Fixer verdict stays.
WithResult(s, c, profile) ==
    IF "missing" \in {profile.writer, profile.reviewer} THEN s
    ELSE LET kept == IF profile.fixer = "missing" /\ c \in DOMAIN s.results
                     THEN [profile EXCEPT !.fixer = s.results[c].fixer] ELSE profile
         IN [s EXCEPT !.results = [d \in DOMAIN @ \cup {c} |-> IF d = c THEN kept ELSE @[d]]]

Usable(role, profile) ==
    opt.required =>
        /\ profile.writer = "verified"
        /\ opt.full => profile.reviewer = "verified"
        /\ profile[role] = "verified"

-----------------------------------------------------------------------------
(* What the prompt needs and may get                                        *)

Need == Larger(call.estimate, call.observed) + IF call.attempt > 0 THEN Headroom ELSE 0
Output == OutputTokens(call.role, context, learned)
NeedFits == Fits(call.role, context, learned, Need)
Grown == IF known THEN GrownContext(call.role, context, learned, Need, Limit) ELSE 0
NeedsFixer == call.role = "fixer" \/ roles.fixer = "verified"

\* The execution-only workflow ends before any review.
Asked == IF opt.full THEN may ELSE may \ {"reviewer"}

End(result) ==
    /\ outcome' = result
    /\ pc' = "ready"
    /\ probe' = NoProbe

-----------------------------------------------------------------------------
Init ==
    /\ QualificationInit
    /\ opt \in [required : BOOLEAN, full : BOOLEAN]
    /\ pc = "idle"
    /\ world = [source |-> 0, dependency |-> 0] /\ drifts = 0
    /\ store = NoStore
    /\ target = 0 /\ calls = 0 /\ context = 0 /\ roles = Unprobed /\ may = {} /\ learned = 0
    /\ engine = "none" /\ stopped = "no" /\ requests = 0
    /\ call = NoCall /\ probe = NoProbe /\ outcome = "none"

\* A run works on a snapshot of the settings and profiles; later tests do not reach it.
BeginBatch ==
    /\ pc = "idle"
    /\ context' = Resolved
    /\ roles' = AppliedTo(saved, context')
    /\ Usable("writer", roles')
    /\ proven' = {p \in proven : p[2] = context'}
    /\ saved' = Stored(context', roles')
    /\ test' = [t \in Tests |-> Idle] /\ setting' = 0
    /\ pc' = "ready"
    /\ UNCHANGED <<known, opt, world, drifts, store, target, calls, may, learned, engine, stopped,
                   requests, call, probe, outcome>>

\* The preferred context of the batch is taken with its evidence, or not at all.
BeginTarget ==
    /\ pc = "ready" /\ calls = 0 /\ target < Targets /\ stopped # "cancelled"
    /\ LET s == IF known THEN Checked ELSE store
           reused == /\ known
                     /\ s.preferred > saved.context /\ s.preferred <= Limit
                     /\ Found(s, s.preferred, FALSE)
       IN /\ store' = s
          /\ context' = IF reused THEN s.preferred ELSE saved.context
          /\ roles' = IF reused THEN s.results[s.preferred] ELSE saved.roles
          /\ may' = Authorized(opt.required, roles')
    /\ target' = target + 1
    /\ learned' = 0 /\ engine' = "none" /\ stopped' = "no" /\ requests' = MaxRequests
    /\ call' = NoCall /\ outcome' = "none"
    /\ pc' = "preflight"
    /\ UNCHANGED <<qualificationVars, opt, world, drifts, calls, probe>>

\* preflightTargetModule read the dependency some time before it answers.
Preflight ==
    /\ pc = "preflight"
    /\ \E version \in {0, 1} : store' = BindDependencies(version)
    /\ calls' = IF {"writer"} \cup (IF opt.full THEN {"reviewer"} ELSE {}) \subseteq may
                THEN CallsPerTarget ELSE 0
    /\ pc' = "ready"
    /\ UNCHANGED <<qualificationVars, opt, world, drifts, target, context, roles, may, learned, engine,
                   stopped, requests, call, probe, outcome>>

\* The prompt is put together: the task, the evidence, the resources, the
\* method to add.  Its size is all that the rest of the call looks at.
Prompted(role) == {[NoCall EXCEPT !.role = role, !.estimate = estimate] : estimate \in Needs}

BeginCall ==
    /\ pc = "ready" /\ calls > 0
    /\ calls' = calls - 1
    /\ \E role \in Asked : call' \in Prompted(role)
    /\ outcome' = "none"
    /\ pc' = "attempt"
    /\ UNCHANGED <<qualificationVars, opt, world, drifts, store, target, context, roles, may, learned,
                   engine, stopped, requests, probe>>

\* importResourcePrompt: what the preflight saw of the resources does not
\* describe the sources any more, or cannot be told whole.
ResourcesRefused == (drifts > 0 /\ End("source-changed")) \/ End("failed")

\* writerAdditionMethodInstruction: the methods of the baseline cannot be read.
MethodsUnknown == opt.full /\ "writer" \in may /\ End("failed")

PromptRefused ==
    /\ pc = "ready" /\ calls > 0 /\ Asked # {}
    /\ calls' = calls - 1 /\ call' = NoCall
    /\ ResourcesRefused \/ MethodsUnknown
    /\ UNCHANGED <<qualificationVars, opt, world, drifts, store, target, context, roles, may, learned,
                   engine, stopped, requests>>

\* The head of an attempt: the whole prompt fits, or a larger context would hold it.
Attempt ==
    /\ pc = "attempt"
    /\ store' = IF stopped = "no" THEN Checked ELSE store
    /\ IF stopped # "no" THEN End("stopped") /\ UNCHANGED call
       ELSE IF ~Current(store) THEN End("source-changed") /\ UNCHANGED call
       ELSE IF ~NeedFits /\ Grown = 0 THEN End("prompt-budget") /\ UNCHANGED call
       ELSE /\ call' = [call EXCEPT !.then = IF NeedFits THEN "send" ELSE "grow"]
            /\ pc' = "engine"
            /\ UNCHANGED <<outcome, probe>>
    /\ UNCHANGED <<qualificationVars, opt, world, drifts, target, calls, context, roles, may, learned,
                   engine, stopped, requests>>

(***************************************************************************)
(* ensureMutationSelection.  The engine is selected once for the target,   *)
(* its failure is the target's; after the await everything is looked at    *)
(* again.                                                                  *)
(***************************************************************************)
\* Mutant of StillAllowed: what was true before the engine was selected still is.
StillAllowed_Assumed == TRUE
StillAllowed == stopped = "no" /\ Current(store)

SelectEngine ==
    /\ pc = "engine"
    /\ IF ~opt.full
       THEN pc' = call.then /\ UNCHANGED <<engine, store, outcome, probe>>
       ELSE \E works \in IF engine = "none" THEN BOOLEAN ELSE {engine = "selected"} :
              LET goesOn == works /\ StillAllowed
              IN /\ engine' = IF goesOn \/ engine = "selected" THEN "selected" ELSE "failed"
                 /\ IF works THEN store' = IF stopped = "no" THEN Checked ELSE store
                    ELSE UNCHANGED store
                 /\ IF goesOn THEN pc' = call.then /\ UNCHANGED <<outcome, probe>>
                    ELSE End(IF ~works THEN "engine" ELSE IF stopped # "no" THEN "stopped"
                             ELSE "source-changed")
    /\ UNCHANGED <<qualificationVars, opt, world, drifts, target, calls, context, roles, may, learned,
                   stopped, requests, call>>

-----------------------------------------------------------------------------
(* Growth of the context                                                    *)

\* The context and its evidence are taken together, and remembered for later targets.
Adopt(s, c, profile) ==
    IF Usable(call.role, profile)
    THEN /\ context' = c
         /\ roles' = profile
         /\ may' = (may \ {"fixer"}) \cup (Authorized(opt.required, profile) \cap {"fixer"})
         /\ store' = [s EXCEPT !.preferred = c]
         /\ call' = [call EXCEPT !.then = "send"]
         /\ pc' = "engine"
         /\ probe' = NoProbe
         /\ UNCHANGED outcome
    ELSE /\ store' = s
         /\ End("role-qualification")
         /\ UNCHANGED <<context, roles, may, call>>

Grow ==
    /\ pc = "grow"
    /\ IF opt.required /\ ~Found(store, Grown, NeedsFixer)
       THEN /\ pc' = "ask"
            /\ probe' = [NoProbe EXCEPT !.role = "writer", !.fixer = NeedsFixer, !.context = Grown]
            /\ UNCHANGED <<context, roles, may, store, call, outcome>>
       ELSE Adopt(store, Grown, IF opt.required THEN store.results[Grown] ELSE Unprobed)
    /\ UNCHANGED <<qualificationVars, opt, world, drifts, target, calls, learned, engine, stopped, requests>>

Ask ==
    /\ pc = "ask"
    /\ IF stopped # "no" THEN End("stopped") /\ UNCHANGED requests
       ELSE IF ProbePrompt > probe.context - Smaller(ProbeReply, DefaultReserve(probe.context))
            THEN End("role-qualification") /\ UNCHANGED requests
       ELSE IF requests = 0 THEN End("budget") /\ UNCHANGED requests
       ELSE /\ requests' = requests - 1
            /\ pc' = "probing"
            /\ UNCHANGED <<outcome, probe>>
    /\ UNCHANGED <<qualificationVars, opt, world, drifts, store, target, calls, context, roles, may, learned,
                   engine, stopped, call>>

\* Unlike the test connection, all roles are asked; the Fixer only where it is needed.
ProbeEnds(status, shown) ==
    LET next == IF probe.role = "writer" THEN "reviewer"
                ELSE IF probe.role = "reviewer" /\ probe.fixer THEN "fixer" ELSE "none"
    IN /\ probe' = [probe EXCEPT !.role = next, !.running = FALSE, !.roles[probe.role] = status]
       /\ pc' = IF next = "none" THEN "requalify" ELSE "ask"
       /\ proven' = IF status = "verified" /\ shown
                    THEN proven \cup {<<probe.role, probe.context, store.bound>>} ELSE proven
       /\ UNCHANGED outcome

\* The reply, its run, or the error of the transport, which ends the call.
Probing ==
    /\ pc = "probing"
    /\ \/ /\ ~probe.running
          /\ "run" \in RepliesTo(probe.role)
          /\ probe' = [probe EXCEPT !.running = TRUE]
          /\ UNCHANGED <<pc, proven, outcome>>
       \/ /\ ~probe.running
          /\ \E status \in RepliesTo(probe.role) \cap Statuses : ProbeEnds(status, TRUE)
       \/ /\ ~probe.running
          /\ End("failed")
          /\ UNCHANGED proven
       \/ /\ probe.running
          /\ \E run \in RunVerdicts(probe.role) : ProbeEnds(run.status, run.shown)
    /\ UNCHANGED <<known, setting, test, saved, opt, world, drifts, store, target, calls, context, roles, may,
                   learned, engine, stopped, requests, call>>

Requalify ==
    /\ pc = "requalify"
    /\ IF stopped # "no"
       THEN End("stopped") /\ UNCHANGED <<context, roles, may, store, call>>
       ELSE IF ~Current(store)
       THEN End("source-changed") /\ store' = Cleared /\ UNCHANGED <<context, roles, may, call>>
       ELSE Adopt(WithResult(store, probe.context, probe.roles), probe.context, probe.roles)
    /\ UNCHANGED <<qualificationVars, opt, world, drifts, target, calls, learned, engine, stopped, requests>>

-----------------------------------------------------------------------------
(* The request and its reply                                                *)

\* A second attempt may be refused for lack of time.
Send ==
    /\ pc = "send"
    /\ \/ /\ NeedFits /\ stopped = "no" /\ requests > 0
          /\ requests' = requests - 1
          /\ pc' = "waiting"
          /\ UNCHANGED <<outcome, probe>>
       \/ /\ ~NeedFits
          /\ End("prompt-budget") /\ UNCHANGED requests
       \/ /\ NeedFits
          /\ stopped # "no" \/ requests = 0
          /\ End(IF stopped # "no" THEN "stopped" ELSE "budget") /\ UNCHANGED requests
       \/ /\ NeedFits /\ call.attempt > 0
          /\ End("output-limit") /\ UNCHANGED requests
    /\ UNCHANGED <<qualificationVars, opt, world, drifts, store, target, calls, context, roles, may, learned,
                   engine, stopped, call>>

Answered ==
    /\ pc = "waiting"
    /\ \E result \in {"answered", "failed", "output-limit"} : End(result)
    /\ UNCHANGED <<qualificationVars, opt, world, drifts, store, target, calls, context, roles, may, learned,
                   engine, stopped, requests, call>>

\* A reply without tests is asked for in another way, which takes a longer prompt.
CorrectFormat ==
    /\ pc = "waiting" /\ call.role = "writer" /\ call.attempt = 0
    /\ \E estimate \in Needs :
          /\ estimate >= call.estimate
          /\ call' = [call EXCEPT !.estimate = estimate, !.observed = 0, !.attempt = 1]
    /\ pc' = "attempt"
    /\ UNCHANGED <<qualificationVars, opt, world, drifts, store, target, calls, context, roles, may, learned,
                   engine, stopped, requests, probe, outcome>>

\* A cut-off reply is asked for once more, longer; the target keeps what it learned.
GrowOutput ==
    /\ pc = "waiting" /\ call.role = "writer" /\ call.attempt = 0
    /\ \E observed \in {0, call.estimate, call.estimate + Surplus} :
         \E output \in GrownOutputs(Output, Larger(call.estimate, observed),
                                    IF known THEN Limit ELSE context) :
            /\ output > learned
            /\ learned' = output
            /\ call' = [call EXCEPT !.observed = observed, !.attempt = 1, !.cut = Output]
    /\ pc' = "attempt"
    /\ UNCHANGED <<qualificationVars, opt, world, drifts, store, target, calls, context, roles, may,
                   engine, stopped, requests, probe, outcome>>

-----------------------------------------------------------------------------
(* The environment, at the awaits                                           *)

Awaiting ==
    \/ pc \in {"ready", "preflight", "probing", "waiting"}
    \/ pc = "engine" /\ opt.full /\ engine = "none"

Drift ==
    /\ Awaiting /\ drifts < MaxDrifts
    /\ drifts' = drifts + 1
    /\ \E part \in DOMAIN world : world' = [world EXCEPT ![part] = 1 - @]
    /\ UNCHANGED <<qualificationVars, opt, pc, store, target, calls, context, roles, may, learned, engine,
                   stopped, requests, call, probe, outcome>>

Stop ==
    /\ Awaiting /\ stopped = "no" /\ target > 0
    /\ stopped' \in {"deadline", "cancelled"}
    /\ UNCHANGED <<qualificationVars, opt, pc, world, drifts, store, target, calls, context, roles, may,
                   learned, engine, requests, call, probe, outcome>>

TestConnection ==
    /\ pc = "idle"
    /\ QualificationNext
    /\ UNCHANGED <<opt, pc, world, drifts, store, target, calls, context, roles, may, learned, engine,
                   stopped, requests, call, probe, outcome>>

\* Everything the run itself does, at the latest when an await times out.
Proceed == Attempt \/ SelectEngine \/ Grow \/ Ask \/ Probing \/ Requalify \/ Send \/ Answered

Next ==
    \/ TestConnection \/ BeginBatch \/ BeginTarget \/ Preflight \/ BeginCall \/ PromptRefused
    \/ Proceed \/ CorrectFormat \/ GrowOutput
    \/ Drift \/ Stop

Spec == Init /\ [][Next]_vars

-----------------------------------------------------------------------------
(* Properties                                                               *)

(***************************************************************************)
(* Every request that leaves, a probe or a role's own, is paid for, leaves *)
(* while neither the user nor a deadline has stopped the target, and in    *)
(* the full workflow only with the engine that its tests will be measured  *)
(* with.  A role's own leaves only while the evidence of the batch holds.  *)
(***************************************************************************)
SendsAreAllowed ==
    [][ pc' \in {"probing", "waiting"} /\ pc \in {"ask", "send"} =>
            /\ stopped = "no" /\ requests' = requests - 1
            /\ opt.full => engine = "selected"
            /\ pc = "send" => Current(store) ]_vars

(***************************************************************************)
(* Where qualification is required, a role is asked only at a context at   *)
(* which a probe verified it: the test connection's, or one of this batch  *)
(* that saw the dependencies the batch is bound to.  The reply that was    *)
(* verified held tests that tell the probe's function from wrong ones.     *)
(***************************************************************************)
QualifiedForRole ==
    pc = "waiting" /\ opt.required =>
        \E version \in {None, store.bound} : <<call.role, context, version>> \in proven

(***************************************************************************)
(* A prompt is refused as too large only when no context the model is      *)
(* known to have would hold it with the reply its role may write.          *)
(***************************************************************************)
RefusalIsTrue ==
    outcome = "prompt-budget" =>
        \A c \in context .. IF known THEN Limit ELSE context :
            ~Fits(call.role, c, learned, Need)

(***************************************************************************)
(* A reply that was cut off is asked for again with room for more of it,   *)
(* also where its longer prompt needed a larger context in between.        *)
(***************************************************************************)
RetryIsLonger ==
    pc = "waiting" /\ call.cut > 0 => Output >= call.cut + MinGain
=============================================================================
