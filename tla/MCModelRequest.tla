---------------------------- MODULE MCModelRequest ----------------------------
(* An instance of ModelRequest for TLC: the Writer answers its probe with a   *)
(* test class of one method and up to three more lines.                      *)
EXTENDS ModelRequest

Head3 == << Line("import", 0, "unittest", "unittest"), Line("class", 0, "TestA", "TestCase"),
            Line("test", 1, "test_a", "self") >>

Assert(left, right) == Line("assert", 2, left, right)
Assign(word) == Line("assign", 2, "x", word)

Telling ==
    {Assert("f(1)", "2"), Assert("0", "f(-1)"), Assert("x", "2"), Assert("f(-1)", "x"), Assert("f(1)", "0"),
     Assign("f(1)"), Assign("0"), Line("test", 1, "test_b", "self"), Line("main", 0, "main", "main")}
Others ==
    {Assert(l, r) : l \in {"f(1)", "f(-1)", "x", "2"}, r \in {"f(1)", "f(-1)", "2", "0", "x"}}
    \cup {Assert("0", "0"), Line("test", 1, "test_a", "self"), Line("class", 0, "TestB", "TestCase"),
          Line("assert", 1, "f(1)", "2"), Line("string", 2, "text", "text"),
          Line("fixture", 0, "increment", "whole"), Line("fixture", 0, "increment", "open"),
          Line("return", 1, "value", "value"), Line("guard", 0, "name", "main"), Line("main", 1, "main", "main"),
          Line("other", 2, "if", "if")}

MCProbeTexts ==
    {Head3 \o <<a, b>> : a \in Telling \cup Others, b \in Telling \cup Others}
    \cup {Head3 \o <<a, b, c>> : a \in Telling, b \in Telling, c \in Telling}

\* What the proof of QualifiedForRole takes for granted is a fact about these texts.
ASSUME TextsTell == VerdictsTell
=============================================================================
