------------------------- MODULE EnvironmentPrepare -------------------------
(***************************************************************************)
(* Preparing a Python environment: look at the interpreters the machine    *)
(* has, take the best, and install what it lacks, every installer run      *)
(* after a list the user has seen and confirmed.                           *)
(*                                                                         *)
(*   src/environment/pythonEnvironmentSetup.ts       preparePythonEnvironment *)
(*   src/environment/pythonInstallationPlan.ts       PythonInstallationPlan *)
(*   src/environment/pythonInstallationPreview.ts    confirmPythonInstallation *)
(*   src/environment/pythonEnvironmentController.ts  PythonEnvironmentController *)
(*                                                                         *)
(* An interpreter is the set of needed modules it has, whether it has the  *)
(* test tools (or they are not required), and whether importing them is    *)
(* possible at all.  pip may change any of this, in whatever it installs.  *)
(* AnalysisSession lends the environment to one preparation at a time.     *)
(***************************************************************************)
EXTENDS Integers, Sequences, FiniteSets

CONSTANTS
    Pythons,       \* interpreters, by the path they report of themselves
    Candidates,    \* the interpreters in the order they are looked at
    Modules,       \* modules the target imports from other projects
    Odd,           \* those whose name cannot be a package's
    Names,         \* names of packages
    Unsafe,        \* names the installation plan refuses
    V,             \* versions of the project's requirements file
    MaxCandidates, MaxRevisions, MaxAttempts,  \* 32, 64, 20
    None,
    Found, Mapped, \* environments and mappings a behaviour may start with
    MaxEdits       \* bound on the edits of the requirements file

ASSUME Sets ==
    /\ Candidates \in Seq(Pythons) /\ Odd \subseteq Modules /\ Unsafe \subseteq Names
    /\ Modules \subseteq Names /\ None \notin Pythons \cup Names \cup Modules
    /\ {"requirements", "tools"} \cap Names = {} /\ {"first", "tools"} \cap Modules = {}
ASSUME Bounds ==
    /\ V \in Nat \ {0} /\ MaxEdits \in Nat
    /\ {MaxCandidates, MaxRevisions, MaxAttempts} \subseteq Nat

VARIABLES
    scope,      \* "file", or "folder" for a folder or the whole project
    files,      \* how many requirements files there are: "none", "one", "several"
    env,        \* what each interpreter really has
    reqs,       \* version of the requirements file on disk
    edits,
    aborted,    \* controller.signal.aborted
    pythonPath, \* the setting
    mappings,   \* the setting packageMappings, as read when the preparation began
    stage,
    queue,      \* candidates still to be looked at
    looked,     \* what the candidates were like: seen
    python,     \* the interpreter selected
    current,    \* the inspection the plan is made for
    requirements, \* the requirements file is authoritative
    plan,       \* the plan that is shown
    revision,   \* how often it was revised
    pending,    \* the names the user entered
    edited,     \* editedMappings
    names,      \* approvedMappings
    approved,   \* approvedOperations: by operation, the file version of its plan
    after,      \* what the plan is needed for: "first", a missing module, "tools"
    tried,      \* missingAttempts
    op,         \* the installer running
    confirmed,  \* how often each operation was confirmed,
    basis,      \* by which version of the file the last time,
    ran         \* and how often it was run

world == <<scope, files, env, reqs, edits, aborted, pythonPath, mappings>>
choice == <<queue, looked, python>>
listing == <<current, requirements, plan, revision, pending, edited>>
consent == <<names, approved, confirmed, basis>>
runs == <<tried, op, ran>>
prepareVars == <<world, stage, choice, listing, consent, after, runs>>

Ops == Names \cup {"requirements", "tools"}
NotApproved == -1
NoView == [python |-> None, status |-> "none", missing |-> {}, tools |-> FALSE]
NoPlan == [ops |-> {}, names |-> [m \in Modules |-> None], editable |-> {}, files |-> 0,
           blocked |-> FALSE]
NoNames == [m \in Modules |-> None]

Mapping == [Modules -> Names \cup {None}]
Environment == [has: SUBSET Modules, tools: BOOLEAN, health: {"ok", "blocked", "dead"}]
ASSUME Initial == Found \subseteq Environment /\ Mapped \subseteq Mapping

PrepareInit ==
    /\ scope \in {"file", "folder"} /\ files \in {"none", "one", "several"}
    /\ env \in [Pythons -> Found] /\ reqs = 1 /\ edits = 0 /\ aborted = FALSE
    /\ pythonPath \in Pythons \cup {None}
    /\ mappings \in Mapped
    /\ stage = "discover" /\ queue = <<>> /\ looked = {} /\ python = None
    /\ current = NoView /\ requirements = FALSE /\ plan = NoPlan /\ revision = 0
    /\ pending = NoNames /\ edited = NoNames /\ names = NoNames
    /\ approved = [o \in Ops |-> NotApproved] /\ after = "first" /\ tried = {} /\ op = None
    /\ confirmed = [o \in Ops |-> 0] /\ basis = [o \in Ops |-> 0] /\ ran = [o \in Ops |-> 0]

(***************************************************************************)
(* Looking.  inspectPython's answer follows from what the interpreter has; *)
(* loading a file stops at the first import that fails, scanning a folder  *)
(* lists them all.                                                         *)
(***************************************************************************)
Status(e) == IF e.health # "ok" THEN "blocked" ELSE IF e.has = Modules THEN "ready" ELSE "missing"
Lacking(e) ==
    IF Status(e) # "missing" THEN {{}} ELSE
    IF scope = "folder" THEN {Modules \ e.has} ELSE {{m} : m \in Modules \ e.has}
Views(p) ==
    IF env[p].health = "dead" THEN {} ELSE
    {[python |-> p, status |-> Status(env[p]), missing |-> l, tools |-> env[p].tools] : l \in Lacking(env[p])}

NeedsTools(v) == ~v.tools
Works(v) == v.status = "ready" /\ ~NeedsTools(v)

\* discoverPythonCandidates: an interpreter in the settings is the only one.
Discover ==
    /\ stage = "discover" /\ ~aborted
    /\ queue' = IF pythonPath # None THEN <<pythonPath>>
                ELSE SubSeq(Candidates, 1, IF Len(Candidates) < MaxCandidates THEN Len(Candidates) ELSE MaxCandidates)
    /\ stage' = "candidates"
    /\ UNCHANGED <<world, looked, python, listing, consent, after, runs>>

Preferred(v) ==
    \/ Works(v) \/ current = NoView
    \/ v.status = "ready" /\ current.status # "ready"
    \/ v.status = "missing" /\ current.status \notin {"missing", "ready"}

\* An interpreter reached by two paths is looked at once.
Look ==
    /\ stage = "candidates" /\ queue # <<>> /\ ~aborted
    /\ \E v \in Views(Head(queue)) :
        /\ v.python \notin {seen.python : seen \in looked}
        /\ looked' = looked \cup {v}
        /\ current' = IF Preferred(v) THEN v ELSE current
        /\ queue' = IF Works(v) THEN <<>> ELSE Tail(queue)
    /\ UNCHANGED <<world, stage, python, requirements, plan, revision, pending, edited, consent, after, runs>>

\* No Python, an answer that does not parse, a timeout, or a known one.
SkipCandidate ==
    /\ stage = "candidates" /\ queue # <<>> /\ ~aborted /\ queue' = Tail(queue)
    /\ UNCHANGED <<world, stage, looked, python, listing, consent, after, runs>>

\* A usable one is taken; what it lacks leads to a list.
Select ==
    /\ stage = "candidates" /\ queue = <<>> /\ ~aborted
    /\ current.status \in {"ready", "missing"}
    /\ python' = current.python
    /\ stage' = IF Works(current) THEN "inspect" ELSE IF files = "several" THEN "choosing" ELSE "planning"
    /\ requirements' = (~Works(current) /\ files = "one")
    /\ UNCHANGED <<world, queue, looked, current, plan, revision, pending, edited, consent, after, runs>>

Choose ==
    /\ stage = "choosing" /\ ~aborted /\ requirements' = TRUE /\ stage' = "planning"
    /\ UNCHANGED <<world, choice, current, plan, revision, pending, edited, consent, after, runs>>

(***************************************************************************)
(* approve(): a plan is made, shown, revised as often as the user enters   *)
(* other names, and confirmed.                                             *)
(***************************************************************************)
\* A name from this session, from the settings, or the module's own.
NameOf(m) == IF edited[m] # None THEN edited[m] ELSE IF mappings[m] # None THEN mappings[m] ELSE m
Mappable == IF requirements THEN {} ELSE {m \in current.missing \ Odd : NameOf(m) \notin Unsafe}

\* createPythonInstallationPlan; a requirements file may be unreadable.
Plan(unreadable) ==
    [ops |-> {NameOf(m) : m \in Mappable}
             \cup (IF requirements /\ current.missing # {} THEN {"requirements"} ELSE {})
             \cup (IF NeedsTools(current) THEN {"tools"} ELSE {}),
     names |-> [m \in Modules |-> IF m \in Mappable THEN NameOf(m) ELSE None],
     editable |-> IF requirements THEN {} ELSE current.missing \ Odd,
     files |-> IF requirements THEN reqs ELSE 0,
     blocked |-> \/ unreadable \/ current.missing \cap Odd # {}
                 \/ (~requirements /\ \E m \in current.missing \ Odd : NameOf(m) \in Unsafe)]

MakePlan ==
    /\ stage = "planning" /\ ~aborted
    /\ \E unreadable \in {FALSE, requirements} : plan' = Plan(unreadable)
    /\ stage' = "confirm"
    /\ UNCHANGED <<world, choice, current, requirements, revision, pending, edited, consent, after, runs>>

\* validateInstallationMappings
EnterNames ==
    /\ stage = "confirm" /\ ~aborted
    /\ \E ms \in SUBSET plan.editable \ {{}} : \E f \in [ms -> Names \ Unsafe] :
           pending' = [m \in Modules |-> IF m \in ms THEN f[m] ELSE None]
    /\ stage' = "saving-names"
    /\ UNCHANGED <<world, choice, current, requirements, plan, revision, edited, consent, after, runs>>

\* Mutant of Revised: every revision counts as the first.
Revised_Never == revision
Revised == revision + 1

Override(old, new) == [m \in Modules |-> IF new[m] # None THEN new[m] ELSE old[m]]

\* Entered names only ask for another plan.  They are also written to the setting, which
\* this preparation does not read again.
SaveNames ==
    /\ stage = "saving-names" /\ ~aborted
    /\ edited' = Override(edited, pending)
    /\ pending' = NoNames /\ plan' = NoPlan /\ revision' = Revised
    /\ stage' = IF revision' < MaxRevisions THEN "planning" ELSE "ended"
    /\ UNCHANGED <<world, choice, current, requirements, consent, after, runs>>

(***************************************************************************)
(* Installing.                                                             *)
(***************************************************************************)
\* Mutant of Spent: an approval is good for any number of runs.
Spent_Never(table, o) == table
Spent(table, o) == [table EXCEPT ![o] = NotApproved]

\* install(): only what the table holds, while its files are those of the plan.
StartInstall(table, o) ==
    /\ table[o] \in {0, reqs}
    /\ approved' = Spent(table, o)
    /\ op' = o /\ ran' = [ran EXCEPT ![o] = @ + 1] /\ stage' = "install"

\* An approval of an earlier plan that is not used yet stays.
Confirm ==
    LET table == [o \in Ops |-> IF o \in plan.ops THEN plan.files ELSE approved[o]]
    IN  /\ stage = "confirm" /\ ~aborted /\ ~plan.blocked /\ plan.files \in {0, reqs}
        /\ names' = Override(names, plan.names)
        /\ confirmed' = [o \in Ops |-> IF o \in plan.ops THEN confirmed[o] + 1 ELSE confirmed[o]]
        /\ basis' = [o \in Ops |-> IF o \in plan.ops THEN plan.files ELSE basis[o]]
        /\ plan' = NoPlan /\ revision' = 0
        /\ \/ /\ after = "first" /\ requirements /\ current.status = "missing"
              /\ StartInstall(table, "requirements")
           \/ /\ after = "first" /\ ~(requirements /\ current.status = "missing")
              /\ approved' = table /\ stage' = "inspect" /\ UNCHANGED <<op, ran>>
           \/ after = "tools" /\ StartInstall(table, "tools")
           \/ after \in Modules /\ names'[after] # None /\ StartInstall(table, names'[after])
        /\ UNCHANGED <<world, choice, current, requirements, pending, edited, after, tried>>

\* The installer has exited, as it wanted, after its time, or killed by an abort.
InstallEnds ==
    /\ stage = "install"
    /\ \E e \in [has: SUBSET Modules, tools: BOOLEAN, health: {"ok", "blocked"}] :
           env' = [env EXCEPT ![python] = e]
    /\ op' = None
    /\ \/ ~aborted /\ stage' = IF op = "tools" THEN "check" ELSE "inspect"
       \/ stage' = "ended"
    /\ UNCHANGED <<scope, files, reqs, edits, aborted, pythonPath, mappings, choice, listing, consent,
                   after, tried, ran>>

(***************************************************************************)
(* The loop over what is still missing, one module and one try each.  A    *)
(* requirements file that did not bring it is not second-guessed.          *)
(***************************************************************************)
InspectMissing ==
    /\ stage = "inspect" /\ ~aborted /\ ~requirements
    /\ \E v \in Views(python) : \E m \in v.missing \ (Odd \cup tried) :
        /\ Cardinality(tried) < MaxAttempts
        /\ tried' = tried \cup {m} /\ after' = m /\ current' = v
        /\ \/ names[m] = None /\ stage' = "planning" /\ UNCHANGED <<approved, op, ran>>
           \/ names[m] # None /\ StartInstall(approved, names[m])
    /\ UNCHANGED <<world, choice, requirements, plan, revision, pending, edited, names, confirmed, basis>>

\* All modules are there; the test tools may still be missing.
InspectReady ==
    /\ stage = "inspect" /\ ~aborted
    /\ \E v \in Views(python) :
        /\ v.status = "ready" /\ current' = v
        /\ \/ ~NeedsTools(v) /\ stage' = "check" /\ UNCHANGED <<approved, op, ran, after>>
           \/ /\ NeedsTools(v) /\ approved["tools"] = NotApproved
              /\ stage' = "planning" /\ after' = "tools" /\ UNCHANGED <<approved, op, ran>>
           \/ /\ NeedsTools(v) /\ approved["tools"] # NotApproved
              /\ StartInstall(approved, "tools") /\ UNCHANGED after
    /\ UNCHANGED <<world, choice, requirements, plan, revision, pending, edited, names, confirmed, basis, tried>>

\* pip check
Check ==
    /\ stage = "check" /\ ~aborted /\ stage' = "final"
    /\ UNCHANGED <<world, choice, listing, consent, after, runs>>

\* Mutant of Verified: the tools were installed, so they are there.
Verified_ModulesOnly(v) == v.status = "ready"
Verified(v) == Works(v)

\* The last look; then the interpreter is saved.
Final ==
    /\ stage = "final" /\ ~aborted /\ \E v \in Views(python) : Verified(v)
    /\ stage' = "saving"
    /\ UNCHANGED <<world, choice, listing, consent, after, runs>>

\* A cancellation while the setting is written comes too late.
Save ==
    /\ stage = "saving" /\ pythonPath' = python /\ stage' = "ended"
    /\ UNCHANGED <<scope, files, env, reqs, edits, aborted, mappings, choice, listing, consent, after, runs>>

\* A refusal of the user's, a tool that fails, a guard that does not hold;
\* while candidates are left only a cancellation.
Throw ==
    /\ stage \notin {"ended", "install"} /\ (stage = "candidates" /\ queue # <<>> => aborted)
    /\ stage' = "ended"
    /\ UNCHANGED <<world, choice, listing, consent, after, runs>>

Program == \/ Discover \/ Look \/ SkipCandidate \/ Select \/ Choose
           \/ MakePlan \/ EnterNames \/ SaveNames \/ Confirm \/ InstallEnds
           \/ InspectMissing \/ InspectReady \/ Check \/ Final \/ Save \/ Throw

\* The user cancels, or edits the requirements file.
CancelPrepare ==
    /\ stage # "ended" /\ ~aborted /\ aborted' = TRUE
    /\ UNCHANGED <<scope, files, env, reqs, edits, pythonPath, mappings, stage, choice, listing, consent, after, runs>>
EditRequirements ==
    /\ stage # "ended" /\ files # "none" /\ edits < MaxEdits /\ edits' = edits + 1
    /\ reqs' \in (1 .. V) \ {reqs}
    /\ UNCHANGED <<scope, files, env, aborted, pythonPath, mappings, stage, choice, listing, consent, after, runs>>

PrepareNext == Program \/ CancelPrepare \/ EditRequirements
PrepareSpec == PrepareInit /\ [][PrepareNext]_prepareVars

\* Dialogs are answered, and child processes exit or are killed when their
\* time is up.
FairPrepare == PrepareSpec /\ WF_prepareVars(Program)

-----------------------------------------------------------------------------
View == [python: Pythons \cup {None}, status: {"none", "ready", "missing", "blocked"},
         missing: SUBSET Modules, tools: BOOLEAN]

PrepareTypeOK ==
    /\ scope \in {"file", "folder"} /\ files \in {"none", "one", "several"}
    /\ env \in [Pythons -> Environment] /\ reqs \in 1 .. V /\ edits \in 0 .. MaxEdits
    /\ aborted \in BOOLEAN /\ pythonPath \in Pythons \cup {None} /\ mappings \in Mapping
    /\ stage \in {"discover", "candidates", "choosing", "planning", "confirm", "saving-names",
               "install", "inspect", "check", "final", "saving", "ended"}
    /\ queue \in Seq(Pythons) /\ looked \subseteq View /\ python \in Pythons \cup {None}
    /\ current \in View /\ requirements \in BOOLEAN /\ revision \in Nat
    /\ plan \in [ops: SUBSET Ops, names: Mapping, editable: SUBSET Modules, files: 0 .. V, blocked: BOOLEAN]
    /\ {pending, edited, names} \subseteq Mapping
    /\ approved \in [Ops -> {NotApproved} \cup 0 .. V]
    /\ after \in Modules \cup {"first", "tools"} /\ tried \subseteq Modules /\ op \in Ops \cup {None}
    /\ confirmed \in [Ops -> Nat] /\ basis \in [Ops -> 0 .. V] /\ ran \in [Ops -> Nat]

(* Nothing is installed the user did not agree to: an installer starts only *)
(* before a cancellation, each of its runs has a confirmation of its own,   *)
(* however many plans were shown, revised and confirmed in between, and the *)
(* requirements on disk are those of the plan that confirmed it last.       *)
InstallsAreConfirmed ==
    [][\A o \in Ops : ran'[o] # ran[o] =>
         ~aborted /\ ran'[o] <= confirmed'[o] /\ basis'[o] \in {0, reqs}]_prepareVars

(* What is saved is ready: the interpreter has all modules and the tools at *)
(* the moment it is saved, whatever the installers did to it on the way,    *)
(* and it does not take the place of another one the user had set.          *)
SavedIsReady ==
    [][pythonPath' # pythonPath =>
         /\ env[pythonPath'] = [has |-> Modules, tools |-> TRUE, health |-> "ok"]
         /\ pythonPath = None]_prepareVars

(* The preparation ends, however often names are revised and modules are    *)
(* missing again.                                                           *)
PreparationEnds == <>(stage = "ended")
=============================================================================
