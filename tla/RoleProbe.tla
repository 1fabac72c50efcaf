----------------------------- MODULE RoleProbe -----------------------------
(***************************************************************************)
(* The fixed probe of the Writer and of the Bug Fixer: tests of a function *)
(* `increment' that the runner provides.  Which replies run at all, and    *)
(* what their run says (llm/testGenerationQualification.ts,                *)
(* llm/modelProbeExecution.ts, llm/roleQualification.ts,                   *)
(* llm/localRuntimeRequalification.ts).                                    *)
(*                                                                         *)
(* A text is a sequence of lines: what the line is, its indentation, and   *)
(* the two words it is about: the sides of an assertion or an assignment,  *)
(* the name of a class or a method.  "f(1)" and "f(-1)" are the calls of   *)
(* the fixture, "2" and "0" the numbers, other words are variables.        *)
(***************************************************************************)
EXTENDS Integers, Sequences

LOCAL INSTANCE SequencesExt

CONSTANTS
    ProbeTexts, \* replies of the Writer to its probe
    Names       \* variables in them

Line(kind, indent, left, right) == [kind |-> kind, indent |-> indent, left |-> left, right |-> right]

(***************************************************************************)
(* hasProbeBehaviorAssertions: both cases are asserted, each against its   *)
(* number, directly or through variables of the same method.               *)
(***************************************************************************)
NoMethod == 0 - 1
NoValue == [kind |-> "none", value |-> 0]
NoValues == [n \in Names |-> NoValue]

ValueOf(values, word) ==
    CASE word = "f(1)"  -> [kind |-> "result", value |-> 2]
      [] word = "f(-1)" -> [kind |-> "result", value |-> 0]
      [] word = "2"     -> [kind |-> "expected", value |-> 2]
      [] word = "0"     -> [kind |-> "expected", value |-> 0]
      [] OTHER          -> values[word]

\* Two numbers or two results of the target say nothing of its behaviour.
Observes(actual, expected) ==
    /\ NoValue \notin {actual, expected}
    /\ actual.kind # expected.kind /\ actual.value = expected.value

Read(s, line) ==
    LET leaves == line.kind \in {"class", "test", "fixture"} \/ line.indent <= s.method
        t == IF leaves THEN [s EXCEPT !.method = NoMethod, !.values = NoValues] ELSE s
        left == ValueOf(t.values, line.left)
    IN CASE line.kind = "test" /\ line.indent > 0 -> [t EXCEPT !.method = line.indent]
         [] line.kind = "assign" /\ t.method # NoMethod ->
                [t EXCEPT !.values[line.left] = ValueOf(NoValues, line.right)]
         [] /\ line.kind = "assert" /\ t.method # NoMethod
            /\ Observes(left, ValueOf(t.values, line.right)) -> [t EXCEPT !.cases = @ \cup {left.value}]
         [] OTHER -> t

AssertsBehavior(text) ==
    FoldLeft(Read, [method |-> NoMethod, values |-> NoValues, cases |-> {}], text).cases = {2, 0}

(***************************************************************************)
(* hasExecutableProbeScopes: classes at the top, tests directly in them,   *)
(* every statement where it is executed.                                   *)
(***************************************************************************)
Block(kind, indent) == [kind |-> kind, indent |-> indent, body |-> 0, methods |-> {}]

\* May the line stand in `parent', and in the text so far?
Allowed(s, parent, line) ==
    CASE line.kind = "class"   -> parent.kind = "top" /\ line.left \notin s.classes
      [] line.kind = "test"    -> parent.kind = "class" /\ line.left \notin parent.methods
      [] line.kind = "fixture" -> parent.kind = "top" /\ ~s.fixture
      [] line.kind = "guard"   -> parent.kind = "top"
      [] line.kind \in {"assert", "assign"} -> parent.kind = "test"
      [] line.kind = "return"  -> parent.kind = "fixture"
      [] line.kind = "main"    -> parent.kind \in {"top", "guard"}
      [] line.kind = "import"  -> parent.kind = "top" /\ s.classes = {}
      [] line.kind = "string"  -> TRUE
      [] OTHER                 -> FALSE

Enclose(s, line) ==
    LET around == SelectSeq(s.blocks, LAMBDA b : b.indent < line.indent)
        depth == Len(around)
        parent == IF depth = 0 THEN Block("top", NoMethod) ELSE around[depth]
        within == IF depth = 0 THEN around
                  ELSE [around EXCEPT ![depth].body = line.indent,
                                      ![depth].methods = IF line.kind = "test" THEN @ \cup {line.left} ELSE @]
        placed == line.indent = parent.body \/ (depth > 0 /\ parent.body = 0)
        opens == line.kind \in {"class", "test", "guard"} \/ (line.kind = "fixture" /\ line.right = "open")
    IN [s EXCEPT !.ok = @ /\ placed /\ Allowed(s, parent, line),
                 !.blocks = IF opens THEN Append(within, Block(line.kind, line.indent)) ELSE within,
                 !.classes = IF line.kind = "class" THEN @ \cup {line.left} ELSE @,
                 !.fixture = @ \/ line.kind = "fixture"]

Executable(text) ==
    FoldLeft(Enclose, [ok |-> TRUE, blocks |-> <<>>, classes |-> {}, fixture |-> FALSE], text).ok

\* Only such a reply runs.
Runnable(text) == AssertsBehavior(text) /\ Executable(text)

(***************************************************************************)
(* The run, with `f' for what increment does: the runner's is Increment.   *)
(***************************************************************************)
Increment == [one |-> 2, minus |-> 0]
Unbound == 0 - 1

Computed(f, env, word) ==
    CASE word = "f(1)"  -> f.one
      [] word = "f(-1)" -> f.minus
      [] word = "2"     -> 2
      [] word = "0"     -> 0
      [] OTHER          -> env[word]

Executed(f, s, line) ==
    CASE line.kind = "test"   -> [s EXCEPT !.env = [n \in Names |-> Unbound]]
      [] line.kind = "assign" -> [s EXCEPT !.env[line.left] = Computed(f, s.env, line.right)]
      [] line.kind = "assert" ->
            LET left == Computed(f, s.env, line.left) IN
            [s EXCEPT !.ok = @ /\ left # Unbound /\ left = Computed(f, s.env, line.right)]
      [] OTHER -> s

Passes(text, f) ==
    FoldLeft(LAMBDA s, line : Executed(f, s, line),
             [ok |-> TRUE, env |-> [n \in Names |-> Unbound]], text).ok

\* unittest.main() that is not guarded ends the process before the runner has
\* loaded a test; what it exits with then depends on the version of Python.
EndsEarly(text) == \E i \in DOMAIN text : text[i].kind = "main" /\ text[i].indent = 0

\* What the text shows whatever is made of it: its tests tell increment from a
\* function that is wrong for 1 or for -1.
Distinguishes(text) ==
    \A f \in [one : {2, 0, 3}, minus : {2, 0, 3}] \ {Increment} : ~Passes(text, f)

\* A run that could not take place is no verdict.
Verdicts(text) ==
    {[status |-> status, shown |-> Distinguishes(text)] :
        status \in {"missing"} \cup
            IF EndsEarly(text) THEN {"verified", "failed"}
            ELSE IF Passes(text, Increment) THEN {"verified"} ELSE {"failed"}}

WriterVerdicts == UNION {Verdicts(text) : text \in {t \in ProbeTexts : Runnable(t)}}

\* The Bug Fixer's file differs from this one in a number; no other edit runs.
Repaired ==
    << Line("import", 0, "unittest", "unittest"), Line("class", 0, "TestRepair", "TestCase"),
       Line("test", 4, "test_increment", "self"), Line("assert", 8, "f(1)", "2"),
       Line("test", 4, "test_keep", "self"), Line("assert", 8, "f(-1)", "0") >>

FixerVerdicts == Verdicts(Repaired)

(***************************************************************************)
(* What the checks of a reply are for: one that is verified, though only   *)
(* its run was looked at, holds tests that tell increment from wrong ones. *)
(***************************************************************************)
VerdictsTell ==
    \A run \in WriterVerdicts \cup FixerVerdicts : run.status = "verified" => run.shown
=============================================================================
