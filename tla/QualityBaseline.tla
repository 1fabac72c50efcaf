--------------------------- MODULE QualityBaseline ---------------------------
(***************************************************************************)
(* What a target's run promises about the quality it publishes: the        *)
(* baseline is a candidate that ran, a later baseline leaves open no gap   *)
(* the earlier one closed, the published score is the newest baseline's,   *)
(* it can only be withdrawn, and a run that passed shows a baseline with   *)
(* enough quality.                                                         *)
(***************************************************************************)
CONSTANTS Codes, NoCode, OpenGaps, Enough(_)

VARIABLES
    tried,     \* codes that were executed
    code,      \* the baseline
    open,      \* the gaps measured in it
    scored,    \* the code whose score is published
    outcome    \* "open", "ended" or "passed"

baselineVars == <<tried, code, open, scored, outcome>>

BaselineInit ==
    /\ tried = {} /\ code = NoCode /\ scored = NoCode
    /\ open = OpenGaps /\ outcome = "open"

Execute(c) ==
    /\ outcome = "open" /\ tried' = tried \cup {c}
    /\ UNCHANGED <<code, open, scored, outcome>>

Publish(c) ==
    /\ outcome = "open" /\ c \in tried
    /\ code' = c /\ open' \in SUBSET open /\ scored' = c
    /\ UNCHANGED <<tried, outcome>>

Withdraw ==
    /\ outcome = "open" /\ scored' = NoCode
    /\ UNCHANGED <<tried, code, open, outcome>>

Finish(passed) ==
    /\ outcome = "open"
    /\ passed => scored = code /\ code # NoCode /\ Enough(open)
    /\ outcome' = IF passed THEN "passed" ELSE "ended"
    /\ UNCHANGED <<tried, code, open, scored>>

BaselineNext ==
    \/ \E c \in Codes : Execute(c)
    \/ \E c \in Codes : Publish(c)
    \/ Withdraw
    \/ \E passed \in BOOLEAN : Finish(passed)

BaselineSpec == BaselineInit /\ [][BaselineNext]_baselineVars
=============================================================================
