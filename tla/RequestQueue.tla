---------------------------- MODULE RequestQueue ----------------------------
(***************************************************************************)
(* Model requests of an analysis: the queue all roles share                *)
(* (llm/serialRequestQueue.ts), the caller around it and the HTTP work     *)
(* behind it (requestLlmApi and requestLlmApiUnlocked in orchestrator.ts,  *)
(* llm/connectionTimeout.ts, llm/modelTransport.ts, GoogleThinkingSession  *)
(* in llm/cloudApi.ts).                                                    *)
(*                                                                         *)
(* A request waits for its turn in a chain of promises, while its deadline *)
(* and the cancellation of the analysis may take it out; once started it   *)
(* keeps its turn until its work has ended, through retries and fallbacks. *)
(* A provider need not answer at all.                                      *)
(***************************************************************************)
EXTENDS Naturals

CONSTANTS
    Requests,
    NoRequest,
    MaxAttempts  \* GENERATION_RETRY_MAX_ATTEMPTS

ASSUME NoRequestIsNone == NoRequest \notin Requests
ASSUME AttemptsPositive == MaxAttempts \in Nat \ {0}

VARIABLES
    links,      \* run() calls so far: the length of the chain behind `tail'
    place,      \* a request's place in the chain, 0 before its run()
    waiting,    \* its flag `waiting'
    drained,    \* its link of the chain has settled
    settled,    \* what its caller got
    phase,      \* where its HTTP work stands
    attempt,    \* the attempt of the current retry loop
    fallbacks,  \* what it may still leave out: thinkingConfig, the format
    expired,    \* deadlines that have passed
    cancelled   \* the analysis was cancelled

queueVars == <<links, place, waiting, drained, settled>>
httpVars == <<phase, attempt, fallbacks>>
requestVars == <<queueVars, httpVars, expired, cancelled>>

Fallbacks == {"thinking", "format"}
Outcomes == {"none", "timeout", "cancelled", "answer", "failed"}
Phases == {"off", "wire", "backoff", "read"}

QueueInit ==
    /\ links = 0 /\ place = [r \in Requests |-> 0]
    /\ waiting = {} /\ drained = {} /\ settled = [r \in Requests |-> "none"]
    /\ phase = [r \in Requests |-> "off"] /\ attempt = [r \in Requests |-> 0]
    /\ fallbacks = [r \in Requests |-> {}]
    /\ expired = {} /\ cancelled = FALSE

Stopped(r) == cancelled \/ r \in expired

(***************************************************************************)
(* SerialRequestQueue.                                                     *)
(***************************************************************************)
\* run: the signal, then the deadline, may end the wait before it begins.
Enqueue(r) ==
    /\ place[r] = 0
    /\ links' = links + 1 /\ place' = [place EXCEPT ![r] = links + 1]
    /\ waiting' = IF Stopped(r) THEN waiting ELSE waiting \cup {r}
    /\ settled' = [settled EXCEPT ![r] = IF cancelled THEN "cancelled"
                                         ELSE IF r \in expired THEN "timeout" ELSE "none"]
    /\ UNCHANGED <<drained, httpVars, expired, cancelled>>

\* armDeadline's timer.
DeadlineTimer(r) ==
    /\ r \in waiting \cap expired
    /\ waiting' = waiting \ {r} /\ settled' = [settled EXCEPT ![r] = "timeout"]
    /\ UNCHANGED <<links, place, drained, httpVars, expired, cancelled>>

\* ExecutionContext.cancel: every controller aborts, every waiting one stops.
Cancel ==
    /\ ~cancelled /\ cancelled' = TRUE
    /\ waiting' = {}
    /\ settled' = [r \in Requests |-> IF r \in waiting THEN "cancelled" ELSE settled[r]]
    /\ UNCHANGED <<links, place, drained, httpVars, expired>>

\* The clock passes a deadline.
Expire(r) ==
    /\ r \notin expired /\ expired' = expired \cup {r}
    /\ UNCHANGED <<queueVars, httpVars, cancelled>>

\* Mutant of LinkSettled: the chain continues when the caller got its result.
LinkSettled_Result(q) == settled[q] # "none"
\* `current' of a request: its worker has ended or was skipped.
LinkSettled(q) == q \in drained

\* The promise chain reaches a request.
Reached(r) ==
    /\ place[r] > 0 /\ r \notin drained /\ phase[r] = "off"
    /\ \A q \in Requests : place[q] > 0 /\ place[q] + 1 = place[r] => LinkSettled(q)

\* execute of a request that no longer waits.
Skip(r) ==
    /\ Reached(r) /\ r \notin waiting
    /\ drained' = drained \cup {r}
    /\ UNCHANGED <<links, place, waiting, settled, httpVars, expired, cancelled>>

\* The deadline has passed and its timer has not fired yet.
Late(r) ==
    /\ Reached(r) /\ r \in waiting \cap expired
    /\ waiting' = waiting \ {r} /\ settled' = [settled EXCEPT ![r] = "timeout"]
    /\ drained' = drained \cup {r}
    /\ UNCHANGED <<links, place, httpVars, expired, cancelled>>

(***************************************************************************)
(* The task: requestLlmApiUnlocked.                                        *)
(***************************************************************************)
\* The task settles, and with it its link of the chain; its locals are gone.
Settle(r, o) ==
    /\ settled' = [settled EXCEPT ![r] = o] /\ drained' = drained \cup {r}
    /\ phase' = [phase EXCEPT ![r] = "off"] /\ attempt' = [attempt EXCEPT ![r] = 0]
    /\ fallbacks' = [fallbacks EXCEPT ![r] = {}]

\* Mutant of Dispatch: fetchModelResponse does not look at signal and deadline.
Dispatch_Blind(r, n, left) ==
    /\ phase' = [phase EXCEPT ![r] = "wire"] /\ attempt' = [attempt EXCEPT ![r] = n]
    /\ fallbacks' = [fallbacks EXCEPT ![r] = left]
    /\ UNCHANGED <<drained, settled>>
\* fetchModelResponse: the n-th attempt of a retry loop goes on the wire.
Dispatch(r, n, left) ==
    /\ ~Stopped(r)
    /\ phase' = [phase EXCEPT ![r] = "wire"] /\ attempt' = [attempt EXCEPT ![r] = n]
    /\ fallbacks' = [fallbacks EXCEPT ![r] = left]
    /\ UNCHANGED <<drained, settled>>

\* `send' of the retry loop: charging the transport attempt may throw, and
\* fetchModelResponse may refuse.
Try(r, n, left) == Dispatch(r, n, left) \/ Settle(r, "failed")

\* The provider and the format of the request say what it can do without.
Start(r) ==
    /\ Reached(r) /\ r \in waiting \ expired
    /\ waiting' = waiting \ {r}
    /\ \E left \in SUBSET Fallbacks : Try(r, 1, left)
    /\ UNCHANGED <<links, place, expired, cancelled>>

\* A retryable status or a network error before the last attempt.
Transient(r) ==
    /\ phase[r] = "wire" /\ attempt[r] < MaxAttempts
    /\ phase' = [phase EXCEPT ![r] = "backoff"]
    /\ UNCHANGED <<queueVars, attempt, fallbacks, expired, cancelled>>

BackoffEnds(r) ==
    /\ phase[r] = "backoff" /\ Try(r, attempt[r] + 1, fallbacks[r])
    /\ UNCHANGED <<links, place, waiting, expired, cancelled>>

\* GoogleThinkingSession.send, and the text format after a refusal or an
\* answer that is not usable: sent once more, with attempts of its own.
FallBack(r, f) ==
    /\ phase[r] = "wire" \/ (phase[r] = "read" /\ f = "format")
    /\ f \in fallbacks[r] /\ Try(r, 1, fallbacks[r] \ {f})
    /\ UNCHANGED <<links, place, waiting, expired, cancelled>>

Headers(r) ==
    /\ phase[r] = "wire" /\ phase' = [phase EXCEPT ![r] = "read"]
    /\ UNCHANGED <<queueVars, attempt, fallbacks, expired, cancelled>>

\* An answer that comes with or after the stop is not taken.
Answer(r) ==
    /\ phase[r] = "read" /\ ~Stopped(r) /\ Settle(r, "answer")
    /\ UNCHANGED <<links, place, waiting, expired, cancelled>>

\* Mutant of Fail: reading the body is not raced against the abort.
Fail_WhileOnWire(r) ==
    /\ phase[r] = "wire" /\ Settle(r, "failed")
    /\ UNCHANGED <<links, place, waiting, expired, cancelled>>
\* An error status, a broken connection, an unusable answer, an abort.
Fail(r) ==
    /\ phase[r] \in {"wire", "read"} /\ Settle(r, "failed")
    /\ UNCHANGED <<links, place, waiting, expired, cancelled>>

Turn(r) == Skip(r) \/ Late(r) \/ Start(r)

QueueNext ==
    \/ \E r \in Requests :
         \/ Enqueue(r) \/ DeadlineTimer(r) \/ Expire(r) \/ Turn(r)
         \/ Transient(r) \/ BackoffEnds(r) \/ Headers(r) \/ Answer(r) \/ Fail(r)
         \/ \E f \in Fallbacks : FallBack(r, f)
    \/ Cancel

QueueSpec == QueueInit /\ [][QueueNext]_requestVars

\* The abort that follows a stop ends a fetch and the read of its body.
AbortEnds(r) == Stopped(r) /\ Fail(r)

\* Time passes, timers fire and promises settle; no answer is assumed.
QueueFairness ==
    \A r \in Requests :
        WF_requestVars(Expire(r)) /\ WF_requestVars(DeadlineTimer(r)) /\ WF_requestVars(Turn(r))
        /\ WF_requestVars(BackoffEnds(r)) /\ WF_requestVars(AbortEnds(r))
FairQueue == QueueSpec /\ QueueFairness

-----------------------------------------------------------------------------
QueueTypeOK ==
    /\ links \in Nat /\ place \in [Requests -> Nat]
    /\ waiting \subseteq Requests /\ drained \subseteq Requests /\ expired \subseteq Requests
    /\ settled \in [Requests -> Outcomes] /\ phase \in [Requests -> Phases]
    /\ attempt \in [Requests -> 0 .. MaxAttempts]
    /\ fallbacks \in [Requests -> SUBSET Fallbacks]
    /\ cancelled \in BOOLEAN

(* The queue is a serial service: whoever times out or is cancelled while   *)
(* waiting, and however long cancelled work drains, no two requests are     *)
(* worked on at once, they start in order, and each is settled once.        *)
Active == IF \E r \in Requests : phase[r] # "off"
            THEN CHOOSE r \in Requests : phase[r] # "off" ELSE NoRequest
Service == INSTANCE SerialService WITH
    arrival <- place, active <- Active, over <- {r \in Requests : settled[r] # "none"}
SerialRefinement == Service!Spec

(* No retry and no fallback puts a request on the wire after its deadline   *)
(* or after the analysis was cancelled.                                     *)
NoSendAfterStop ==
    [][\A r \in Requests :
         phase'[r] = "wire" => \/ ~Stopped(r)
                               \/ /\ phase[r] = "wire" /\ attempt'[r] = attempt[r]
                                  /\ fallbacks'[r] = fallbacks[r]]_requestVars

(* A request that was queued is settled, though no provider ever answers.   *)
AllSettle == \A r \in Requests : place[r] > 0 ~> settled[r] # "none"
=============================================================================
