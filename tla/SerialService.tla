---------------------------- MODULE SerialService ----------------------------
(***************************************************************************)
(* What the request queue promises its callers: one request at a time is   *)
(* worked on, in the order of arrival, and each is settled once, whether   *)
(* it was worked on or not.                                                *)
(***************************************************************************)
EXTENDS Naturals

CONSTANTS Requests, NoRequest

VARIABLES arrival,  \* when a request came, 0 before it did
          active,   \* the request that is worked on
          over      \* the settled ones

vars == <<arrival, active, over>>

Arrived == {r \in Requests : arrival[r] > 0}

Init == arrival = [r \in Requests |-> 0] /\ active = NoRequest /\ over = {}

\* One that comes too late may be settled at once.
Arrive(r) ==
    /\ arrival[r] = 0
    /\ \A q \in Requests : arrival[q] < arrival'[r]
    /\ arrival' = [arrival EXCEPT ![r] = arrival'[r]]
    /\ over' \in {over, over \cup {r}} /\ UNCHANGED active

\* Waiting ones are given up, never the one that is worked on.
GiveUp ==
    /\ over \subseteq over' /\ over' \subseteq Arrived /\ active \notin over'
    /\ UNCHANGED <<arrival, active>>

Start(r) ==
    /\ active = NoRequest /\ r \in Arrived \ over
    /\ \A q \in Arrived : arrival[q] < arrival[r] => q \in over
    /\ active' = r /\ UNCHANGED <<arrival, over>>

End ==
    /\ active # NoRequest
    /\ over' = over \cup {active} /\ active' = NoRequest /\ UNCHANGED arrival

Next == (\E r \in Requests : Arrive(r) \/ Start(r)) \/ GiveUp \/ End

Spec == Init /\ [][Next]_vars
=============================================================================
