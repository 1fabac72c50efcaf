--------------------------- MODULE EnvironmentLock ---------------------------
(***************************************************************************)
(* What PythonEnvironmentActivity promises, without its counter, its flag  *)
(* or its release closures: a Python environment is either read by any     *)
(* number of users or changed by exactly one setup.  A user may hand its   *)
(* share over to the setup it starts (AnalysisEnvironmentLease.withSetup). *)
(***************************************************************************)
CONSTANTS Actors,   \* whoever may use or change the environment
          Nobody    \* no setup is changing the environment

VARIABLES readers,  \* the actors using the environment
          writer    \* the actor changing it, or Nobody

lockVars == <<readers, writer>>

LockInit == readers = {} /\ writer = Nobody

StartUse(a) ==
    /\ writer = Nobody
    /\ readers' = readers \cup {a}
    /\ UNCHANGED writer

EndUse(a) ==
    /\ readers' = readers \ {a}
    /\ UNCHANGED writer

StartSetup(a) ==
    /\ writer = Nobody
    /\ readers = {}
    /\ writer' = a
    /\ UNCHANGED readers

\* The only reader trades its share for the exclusive right to change.
TurnIntoSetup(a) ==
    /\ writer = Nobody
    /\ readers = {a}
    /\ writer' = a
    /\ readers' = {}

EndSetup(a) ==
    /\ writer = a
    /\ writer' = Nobody
    /\ UNCHANGED readers

LockNext == \E a \in Actors :
    StartUse(a) \/ EndUse(a) \/ StartSetup(a) \/ TurnIntoSetup(a) \/ EndSetup(a)

LockSpec == LockInit /\ [][LockNext]_lockVars
=============================================================================
