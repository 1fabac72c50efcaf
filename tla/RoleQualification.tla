------------------------- MODULE RoleQualification -------------------------
(***************************************************************************)
(* What a probe says of the model in each role, and the test connection    *)
(* that establishes it before a run (ui/SidebarProvider.ts `testConnection',*)
(* llm/connectionQualification.ts, llm/roleQualification.ts).  A test      *)
(* belongs to the context setting it began with: the user may change the   *)
(* setting, cancel, or start a second test while the first one probes.     *)
(***************************************************************************)
EXTENDS ModelCapacity, RoleProbe

CONSTANTS
    Tests,    \* test connections that may be under way at once
    Settings, \* the contexts a user may ask for; 0 leaves it to the extension
    Limit,    \* the context length of the model, where the provider reports it
    Unknown,  \* UNKNOWN_CONTEXT_WINDOW
    None      \* the dependency version of evidence that is bound to no source

ASSUME Contexts == Settings \subseteq Nat /\ Limit \in Nat \ {0} /\ Unknown \in Nat \ {0}

Roles == {"writer", "reviewer", "fixer"}

\* verified, a complete negative verdict, or no verdict (not run, unavailable).
Statuses == {"verified", "failed", "missing"}
Unprobed == [r \in Roles |-> "missing"]
NoProfile == [context |-> 0, roles |-> Unprobed]

VARIABLES
    known,   \* contextLengthKnown
    setting, \* llmUnitTest.runtimeContextTokens, or the preference of the side bar
    test,    \* per test: the role it probes, whether its code runs, its context and verdicts
    saved,   \* storedModelProfiles' entry of this model
    proven   \* ghost: <<role, context, dependency version>> that a probe verified
             \* whose reply showed what the probe is about

qualificationVars == <<known, setting, test, saved, proven>>

Idle == [role |-> "none", running |-> FALSE, context |-> 0, roles |-> Unprobed]

(***************************************************************************)
(* One probe.  A reply that breaks its contract is a verdict.  The         *)
(* Reviewer's contract is all there is to it; the Writer's and the Fixer's *)
(* code runs.                                                              *)
(***************************************************************************)
RepliesTo(role) == {"failed"} \cup IF role = "reviewer" THEN {"verified"} ELSE {"run"}
RunVerdicts(role) == IF role = "writer" THEN WriterVerdicts ELSE FixerVerdicts

\* The entry of the model in storedModelProfiles is replaced as a whole.
Stored(context, roles) == [context |-> context, roles |-> roles]

(***************************************************************************)
(* qualificationAppliesToRequest, qualifiedRole, runtimeRoleAuthorization: *)
(* evidence of another context is evidence of nothing.                     *)
(***************************************************************************)
AppliedTo(profile, context) ==
    IF profile.context = context THEN profile.roles ELSE Unprobed
Authorized(required, roles) ==
    IF required THEN {r \in Roles : roles[r] = "verified"} ELSE Roles

(***************************************************************************)
(* resolveLocalRuntimeContext: a user's choice, half of what the model is  *)
(* known to have, or what it was last qualified at.                        *)
(***************************************************************************)
Resolved ==
    IF setting > 0 THEN setting
    ELSE IF known THEN Larger(1, Limit \div 2)
    ELSE IF saved.context > 0 THEN saved.context ELSE Unknown

QualificationInit ==
    /\ known \in BOOLEAN
    /\ setting \in Settings
    /\ test = [t \in Tests |-> Idle]
    /\ saved = NoProfile
    /\ proven = {}

SetContext(context) ==
    /\ setting' = context
    /\ UNCHANGED <<known, test, saved, proven>>

\* The old verdicts are gone before the first probe is sent.
StartTest(t) ==
    /\ test[t].role = "none"
    /\ test' = [test EXCEPT ![t] = [Idle EXCEPT !.role = "writer", !.context = Resolved]]
    /\ saved' = NoProfile
    /\ UNCHANGED <<known, setting, proven>>

\* Roles are probed in order; the first that is not verified ends the test.
NextRole == [writer |-> "reviewer", reviewer |-> "fixer", fixer |-> "none"]

Verdict(t, status, shown) ==
    LET role == test[t].role
        roles == [test[t].roles EXCEPT ![role] = status]
        next == IF status = "verified" THEN NextRole[role] ELSE "none"
    IN /\ test' = [test EXCEPT ![t] = IF next = "none" THEN Idle
                                     ELSE [@ EXCEPT !.role = next, !.running = FALSE, !.roles = roles]]
       /\ saved' = IF next = "none" THEN Stored(test[t].context, roles) ELSE saved
       /\ proven' = IF status = "verified" /\ shown
                    THEN proven \cup {<<role, test[t].context, None>>} ELSE proven
       /\ UNCHANGED <<known, setting>>

\* The role's reply, or none: a timeout, a transport failure, the user's cancellation.
TestReplies(t) ==
    /\ test[t].role # "none"
    /\ ~test[t].running
    /\ \/ /\ "run" \in RepliesTo(test[t].role)
          /\ test' = [test EXCEPT ![t].running = TRUE]
          /\ UNCHANGED <<known, setting, saved, proven>>
       \/ \E status \in RepliesTo(test[t].role) \cap Statuses : Verdict(t, status, TRUE)
       \/ Verdict(t, "missing", FALSE)

TestRuns(t) ==
    /\ test[t].running
    /\ \E run \in RunVerdicts(test[t].role) : Verdict(t, run.status, run.shown)

QualificationNext ==
    \/ \E context \in Settings : SetContext(context)
    \/ \E t \in Tests : StartTest(t) \/ TestReplies(t) \/ TestRuns(t)
=============================================================================
