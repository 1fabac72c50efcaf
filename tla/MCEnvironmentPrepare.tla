------------------------ MODULE MCEnvironmentPrepare ------------------------
(* An instance of EnvironmentPrepare for TLC: two interpreters, one of them *)
(* reached by two paths, two modules and a third package that may bring     *)
(* both of them.                                                            *)
EXTENDS EnvironmentPrepare
CONSTANTS py1, py2, m1, m2, other
E(has, tools, health) == [has |-> has, tools |-> tools, health |-> health]
MCFound == {E({}, FALSE, "dead"), E({m1}, TRUE, "blocked"), E({}, FALSE, "ok"), E({m1}, TRUE, "ok"),
            E(Modules, FALSE, "ok"), E(Modules, TRUE, "ok")}
MCMapped == {[m \in Modules |-> None], [m \in Modules |-> other]}
MCCandidates == <<py1, py2, py1>>
=============================================================================
