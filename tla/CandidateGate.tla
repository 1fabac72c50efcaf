---------------------------- MODULE CandidateGate ----------------------------
(***************************************************************************)
(* What the candidate pipeline promises to whoever reads the test file it  *)
(* leaves: a candidate enters the file at most once in the life of a       *)
(* target, only a passing run makes it the executable baseline, and the    *)
(* accepted candidate is at once the file, the baseline and the text the   *)
(* Reviewer approved (when a review is asked for).  How candidates are     *)
(* written, repaired or counted is left out.                               *)
(***************************************************************************)
CONSTANTS Codes, NoCode

VARIABLES
    reviewed,    \* whether acceptance takes the Reviewer's approval
    file,        \* the code the test file holds
    tried,       \* every code that ever was in it
    executable,  \* the last checkpointed code
    approved,    \* the code the Reviewer approved
    outcome      \* "open", "accepted" or "failed"

gateVars == <<reviewed, file, tried, executable, approved, outcome>>

GateInit ==
    /\ reviewed \in BOOLEAN
    /\ file = NoCode /\ approved = NoCode /\ outcome = "open"
    /\ tried \subseteq Codes
    /\ executable \in tried \cup {NoCode}

Try(c) ==
    /\ outcome = "open" /\ c \notin tried
    /\ file' = c /\ tried' = tried \cup {c}
    /\ UNCHANGED <<reviewed, executable, approved, outcome>>

Checkpoint ==
    /\ outcome = "open" /\ file # NoCode
    /\ executable' = file
    /\ UNCHANGED <<reviewed, file, tried, approved, outcome>>

\* Acceptance leaves nothing to be done: it may come with the checkpoint.
Accept ==
    /\ outcome = "open" /\ file # NoCode
    /\ executable' = file
    /\ reviewed => executable = file
    /\ approved' = IF reviewed THEN file ELSE NoCode
    /\ outcome' = "accepted"
    /\ UNCHANGED <<reviewed, file, tried>>

Fail ==
    /\ outcome = "open" /\ outcome' = "failed"
    /\ UNCHANGED <<reviewed, file, tried, executable, approved>>

GateNext == (\E c \in Codes : Try(c)) \/ Checkpoint \/ Accept \/ Fail

GateSpec == GateInit /\ [][GateNext]_gateVars
=============================================================================
