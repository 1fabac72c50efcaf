--------------------------- MODULE RequestProofs ---------------------------
(***************************************************************************)
(* Safety of a model request.  First the queue and the transport, for      *)
(* every set of requests and number of attempts, and that the queue is a   *)
(* serial service; then the budgeted request of a role, for every split of *)
(* a context, prompt, batch and number of calls.                           *)
(***************************************************************************)
EXTENDS RequestQueue, ModelRequest, TLAPS

Before(q, r) == place[q] > 0 /\ place[q] < place[r]

\* The places are those of a chain, and it settles from its beginning: a link
\* looks only at the one before it, so this is what makes turns exclusive.
Chain ==
    /\ \A r \in Requests : place[r] <= links
    /\ \A q, r \in Requests : place[q] > 0 /\ place[q] = place[r] => q = r
    /\ \A n \in 1 .. links : \E r \in Requests : place[r] = n
    /\ \A r \in drained : place[r] > 0
    /\ \A q, r \in Requests : r \in drained /\ Before(q, r) => q \in drained

\* Where a request is, and what its caller knows.
Places ==
    /\ \A r \in Requests : place[r] = 0 => settled[r] = "none"
    /\ \A r \in waiting : place[r] > 0 /\ settled[r] = "none" /\ phase[r] = "off"
    /\ \A r \in drained : settled[r] # "none" /\ phase[r] = "off"
    /\ \A r \in Requests : place[r] > 0 /\ settled[r] = "none" => r \in waiting \/ phase[r] # "off"
    /\ \A r \in Requests : phase[r] # "off" =>
         /\ place[r] > 0 /\ settled[r] = "none"
         /\ \A q \in Requests : Before(q, r) => q \in drained

Attempts == \A r \in Requests : phase[r] = "backoff" => attempt[r] < MaxAttempts

QueueInv == QueueTypeOK /\ Chain /\ Places /\ Attempts

-----------------------------------------------------------------------------
(* The invariant holds at the start.                                        *)
LEMMA InitInv == QueueInit => QueueInv
  <1> SUFFICES ASSUME QueueInit PROVE QueueInv
    OBVIOUS
  <1> USE AttemptsPositive DEF QueueInit
  <1>1. QueueTypeOK
    <2>1. 0 \in 0 .. MaxAttempts /\ 0 \in Nat /\ "none" \in Outcomes /\ "off" \in Phases
      BY DEF Outcomes, Phases
    <2>2. attempt \in [Requests -> 0 .. MaxAttempts]
      BY <2>1
    <2>3. settled \in [Requests -> Outcomes] /\ phase \in [Requests -> Phases]
      BY <2>1
    <2>4. fallbacks \in [Requests -> SUBSET Fallbacks]
      OBVIOUS
    <2> QED
      BY <2>1, <2>2, <2>3, <2>4 DEF QueueTypeOK
  <1>2. Chain
    BY DEF Chain, Before
  <1>3. Places /\ Attempts
    BY DEF Places, Attempts, Before
  <1> QED
    BY <1>1, <1>2, <1>3 DEF QueueInv

(* A request whose turn has come has nobody unsettled before it.            *)
LEMMA ReachedIsFirst ==
  ASSUME QueueTypeOK, Chain, NEW r \in Requests, Reached(r)
  PROVE  \A q \in Requests : Before(q, r) => q \in drained
  <1> SUFFICES ASSUME NEW q \in Requests, Before(q, r)
               PROVE  q \in drained
    OBVIOUS
  <1>1. /\ place[q] \in Nat /\ place[r] \in Nat /\ links \in Nat
        /\ place[q] > 0 /\ place[q] < place[r] /\ place[r] <= links
    BY DEF QueueTypeOK, Chain, Before
  <1>2. place[r] - 1 \in 1 .. links
    BY <1>1
  <1>3. PICK p \in Requests : place[p] = place[r] - 1
    BY <1>2 DEF Chain
  <1>4. place[p] > 0 /\ place[p] + 1 = place[r] /\ (place[q] = place[p] \/ place[q] < place[p])
    BY <1>1, <1>2, <1>3
  <1>5. p \in drained
    BY <1>4 DEF Reached, LinkSettled
  <1>6. CASE place[q] = place[p]
    BY <1>1, <1>5, <1>6 DEF Chain
  <1>7. CASE place[q] < place[p]
    BY <1>1, <1>5, <1>7 DEF Chain, Before
  <1> QED
    BY <1>4, <1>6, <1>7

(* Types, and the attempts of a loop.                                       *)
LEMMA TypeInv == QueueTypeOK /\ Attempts /\ [QueueNext]_requestVars => QueueTypeOK' /\ Attempts'
  <1> SUFFICES ASSUME QueueTypeOK, Attempts, [QueueNext]_requestVars
               PROVE  QueueTypeOK' /\ Attempts'
    OBVIOUS
  <1> USE AttemptsPositive DEF QueueTypeOK, Attempts
  <1>s. ASSUME NEW r \in Requests, NEW o \in Outcomes, Settle(r, o)
        PROVE  /\ drained' \subseteq Requests /\ settled' \in [Requests -> Outcomes]
               /\ phase' \in [Requests -> Phases] /\ attempt' \in [Requests -> 0 .. MaxAttempts]
               /\ fallbacks' \in [Requests -> SUBSET Fallbacks] /\ Attempts'
    BY <1>s DEF Settle, Phases
  <1>d. ASSUME NEW r \in Requests, NEW n \in 0 .. MaxAttempts, NEW left \in SUBSET Fallbacks,
               Dispatch(r, n, left)
        PROVE  /\ drained' \subseteq Requests /\ settled' \in [Requests -> Outcomes]
               /\ phase' \in [Requests -> Phases] /\ attempt' \in [Requests -> 0 .. MaxAttempts]
               /\ fallbacks' \in [Requests -> SUBSET Fallbacks] /\ Attempts'
    BY <1>d DEF Dispatch, Phases
  <1>t. ASSUME NEW r \in Requests, NEW n \in 0 .. MaxAttempts, NEW left \in SUBSET Fallbacks,
               Try(r, n, left)
        PROVE  /\ drained' \subseteq Requests /\ settled' \in [Requests -> Outcomes]
               /\ phase' \in [Requests -> Phases] /\ attempt' \in [Requests -> 0 .. MaxAttempts]
               /\ fallbacks' \in [Requests -> SUBSET Fallbacks] /\ Attempts'
    <2>1. "failed" \in Outcomes
      BY DEF Outcomes
    <2> QED
      BY <1>t, <1>s, <1>d, <2>1 DEF Try
  <1>1. ASSUME NEW r \in Requests, Enqueue(r) PROVE QueueTypeOK' /\ Attempts'
    BY <1>1 DEF Enqueue, httpVars, Outcomes
  <1>2. ASSUME NEW r \in Requests, DeadlineTimer(r) PROVE QueueTypeOK' /\ Attempts'
    BY <1>2 DEF DeadlineTimer, httpVars, Outcomes
  <1>3. ASSUME NEW r \in Requests, Expire(r) PROVE QueueTypeOK' /\ Attempts'
    BY <1>3 DEF Expire, queueVars, httpVars
  <1>4. ASSUME NEW r \in Requests, Skip(r) PROVE QueueTypeOK' /\ Attempts'
    BY <1>4 DEF Skip, httpVars
  <1>5. ASSUME NEW r \in Requests, Late(r) PROVE QueueTypeOK' /\ Attempts'
    BY <1>5 DEF Late, httpVars, Outcomes
  <1>6. ASSUME NEW r \in Requests, Start(r) PROVE QueueTypeOK' /\ Attempts'
    <2>1. PICK left \in SUBSET Fallbacks : Try(r, 1, left)
      BY <1>6 DEF Start
    <2>2. 1 \in 0 .. MaxAttempts
      OBVIOUS
    <2> QED
      BY <1>6, <1>t, <2>1, <2>2 DEF Start
  <1>7. ASSUME NEW r \in Requests, Transient(r) PROVE QueueTypeOK' /\ Attempts'
    BY <1>7 DEF Transient, queueVars, Phases
  <1>8. ASSUME NEW r \in Requests, BackoffEnds(r) PROVE QueueTypeOK' /\ Attempts'
    <2>1. attempt[r] + 1 \in 0 .. MaxAttempts
      BY <1>8 DEF BackoffEnds
    <2> QED
      BY <1>8, <1>t, <2>1 DEF BackoffEnds
  <1>9. ASSUME NEW r \in Requests, Headers(r) PROVE QueueTypeOK' /\ Attempts'
    BY <1>9 DEF Headers, queueVars, Phases
  <1>10. ASSUME NEW r \in Requests, Answer(r) PROVE QueueTypeOK' /\ Attempts'
    <2>1. "answer" \in Outcomes
      BY DEF Outcomes
    <2> QED
      BY <1>10, <1>s, <2>1 DEF Answer
  <1>11. ASSUME NEW r \in Requests, Fail(r) PROVE QueueTypeOK' /\ Attempts'
    <2>1. "failed" \in Outcomes
      BY DEF Outcomes
    <2> QED
      BY <1>11, <1>s, <2>1 DEF Fail
  <1>12. ASSUME NEW r \in Requests, NEW f \in Fallbacks, FallBack(r, f) PROVE QueueTypeOK' /\ Attempts'
    <2>1. 1 \in 0 .. MaxAttempts /\ fallbacks[r] \ {f} \in SUBSET Fallbacks
      OBVIOUS
    <2> QED
      BY <1>12, <1>t, <2>1 DEF FallBack
  <1>13. CASE Cancel
    BY <1>13 DEF Cancel, httpVars, Outcomes
  <1>14. CASE UNCHANGED requestVars
    BY <1>14 DEF requestVars, queueVars, httpVars
  <1> QED
    BY <1>1, <1>2, <1>3, <1>4, <1>5, <1>6, <1>7, <1>8, <1>9, <1>10, <1>11, <1>12, <1>13,
       <1>14 DEF QueueNext, Turn

(* A link that settles when all before it have leaves a chain that is       *)
(* settled from its beginning.                                              *)
LEMMA DrainKeepsChain ==
  ASSUME QueueTypeOK, Chain, NEW r \in Requests, place[r] > 0,
         \A q \in Requests : Before(q, r) => q \in drained,
         drained' = drained \cup {r}, UNCHANGED <<links, place>>
  PROVE  Chain'
  <1> SUFFICES ASSUME NEW q \in Requests, NEW p \in Requests, p \in drained', Before(q, p)'
               PROVE  q \in drained'
    BY DEF Chain, QueueTypeOK
  <1>1. Before(q, p)
    BY DEF Before
  <1> QED
    BY <1>1 DEF Chain

(* A new link is the last of the chain and has not settled.                 *)
LEMMA EnqueueKeepsChain ==
  ASSUME QueueTypeOK, Chain, NEW r \in Requests, Enqueue(r)
  PROVE  Chain' /\ (\A q \in Requests : place[q] < place'[r])
  <1> USE DEF QueueTypeOK
  <1>1. /\ links \in Nat /\ links' = links + 1 /\ drained' = drained /\ place[r] = 0
        /\ place'[r] = links + 1 /\ \A q \in Requests \ {r} : place'[q] = place[q]
    BY DEF Enqueue
  <1>2. \A q \in Requests : place[q] \in Nat /\ place[q] <= links
    BY DEF Chain
  <1>3. r \notin drained
    BY <1>1, <1>2 DEF Chain
  <1>4. \A q \in Requests : place'[q] <= links'
    BY <1>1, <1>2
  <1>5. \A q, p \in Requests : place'[q] > 0 /\ place'[q] = place'[p] => q = p
    <2> SUFFICES ASSUME NEW q \in Requests, NEW p \in Requests, place'[q] > 0, place'[q] = place'[p]
                 PROVE  q = p
      OBVIOUS
    <2>1. CASE q = r
      BY <2>1, <1>1, <1>2
    <2>2. CASE p = r
      BY <2>2, <1>1, <1>2
    <2>3. CASE q # r /\ p # r
      BY <2>3, <1>1 DEF Chain
    <2> QED
      BY <2>1, <2>2, <2>3
  <1>6. \A n \in 1 .. links' : \E q \in Requests : place'[q] = n
    <2> SUFFICES ASSUME NEW n \in 1 .. links' PROVE \E q \in Requests : place'[q] = n
      OBVIOUS
    <2>1. CASE n = links + 1
      BY <2>1, <1>1
    <2>2. CASE n # links + 1
      <3>1. n \in 1 .. links /\ n > 0
        BY <2>2, <1>1
      <3>2. PICK q \in Requests : place[q] = n
        BY <3>1 DEF Chain
      <3>3. q # r
        BY <3>1, <3>2, <1>1
      <3> QED
        BY <3>2, <3>3, <1>1
    <2> QED
      BY <2>1, <2>2
  <1>7. \A q \in drained' : place'[q] > 0
    BY <1>1, <1>3 DEF Chain
  <1>8. ASSUME NEW q \in Requests, NEW p \in Requests, p \in drained', Before(q, p)'
        PROVE  q \in drained'
    <2>1. p # r /\ p \in drained /\ place'[p] = place[p] /\ place'[q] < place[p]
      BY <1>1, <1>3, <1>8 DEF Before
    <2>2. q # r
      BY <2>1, <1>1, <1>2
    <2>3. Before(q, p)
      BY <2>1, <2>2, <1>1, <1>8 DEF Before
    <2> QED
      BY <2>1, <2>3, <1>1 DEF Chain
  <1>9. \A q \in Requests : place[q] < place'[r]
    BY <1>1, <1>2
  <1> QED
    BY <1>4, <1>5, <1>6, <1>7, <1>8, <1>9 DEF Chain

(* The task of the request whose turn it is goes on the wire or settles: in *)
(* both cases nobody else is touched.                                       *)
LEMMA TaskKeepsOrder ==
  ASSUME QueueTypeOK, Chain, Places, NEW r \in Requests, place[r] > 0, settled[r] = "none",
         \A q \in Requests : Before(q, r) => q \in drained,
         waiting' = waiting \ {r}, UNCHANGED <<links, place>>,
         \/ \E n, left : Dispatch(r, n, left)
         \/ \E o \in Outcomes \ {"none"} : Settle(r, o)
  PROVE  Chain' /\ Places'
  <1> USE DEF QueueTypeOK
  <1>0. \A q, p \in Requests : Before(q, p)' <=> Before(q, p)
    BY DEF Before
  <1>1. CASE \E n, left : Dispatch(r, n, left)
    <2>1. PICK n, left : Dispatch(r, n, left)
      BY <1>1
    <2>2. drained' = drained /\ settled' = settled /\ phase' = [phase EXCEPT ![r] = "wire"]
      BY <2>1 DEF Dispatch
    <2>3. r \notin drained
      BY DEF Places
    <2>4. Chain'
      BY <1>0, <2>2 DEF Chain
    <2>5. Places'
      BY <1>0, <2>2, <2>3 DEF Places
    <2> QED
      BY <2>4, <2>5
  <1>2. CASE \E o \in Outcomes \ {"none"} : Settle(r, o)
    <2>1. PICK o \in Outcomes \ {"none"} : Settle(r, o)
      BY <1>2
    <2>2. /\ drained' = drained \cup {r} /\ settled' = [settled EXCEPT ![r] = o]
          /\ phase' = [phase EXCEPT ![r] = "off"]
      BY <2>1 DEF Settle
    <2>3. Chain'
      BY <2>2, DrainKeepsChain
    <2>4. Places'
      BY <1>0, <2>2 DEF Places
    <2> QED
      BY <2>3, <2>4
  <1> QED
    BY <1>1, <1>2

(* Order in the queue.                                                      *)
LEMMA OrderInv == QueueInv /\ [QueueNext]_requestVars => Chain' /\ Places'
  <1> SUFFICES ASSUME QueueTypeOK, Chain, Places, [QueueNext]_requestVars
               PROVE  Chain' /\ Places'
    BY DEF QueueInv
  <1> USE DEF QueueTypeOK
  <1>0. ASSUME UNCHANGED place
        PROVE  \A q, p \in Requests : Before(q, p)' <=> Before(q, p)
    BY <1>0 DEF Before
  <1>f. "failed" \in Outcomes \ {"none"} /\ "answer" \in Outcomes \ {"none"}
    BY DEF Outcomes
  <1>w. ASSUME NEW r \in Requests, phase[r] # "off"
        PROVE  /\ place[r] > 0 /\ settled[r] = "none" /\ waiting = waiting \ {r}
               /\ \A q \in Requests : Before(q, r) => q \in drained
    BY <1>w DEF Places
  <1>1. ASSUME NEW r \in Requests, Enqueue(r) PROVE Chain' /\ Places'
    <2>1. Chain' /\ \A q \in Requests : place[q] < place'[r]
      BY <1>1, EnqueueKeepsChain
    <2>2. /\ place[r] = 0 /\ drained' = drained /\ phase' = phase /\ place'[r] = links + 1
          /\ \A q \in Requests \ {r} : place'[q] = place[q] /\ settled'[q] = settled[q]
          /\ waiting' = (IF Stopped(r) THEN waiting ELSE waiting \cup {r})
          /\ settled'[r] = "none" <=> ~Stopped(r)
      BY <1>1 DEF Enqueue, httpVars, Stopped
    <2>3. r \notin waiting /\ r \notin drained /\ phase[r] = "off" /\ place'[r] > 0
      BY <2>2 DEF Places, Chain
    <2>4. \A q, p \in Requests : p # r /\ Before(q, p)' => Before(q, p)
      BY <2>1, <2>2 DEF Before
    <2>5. \A q \in Requests : place'[q] = 0 => settled'[q] = "none"
      BY <2>2, <2>3 DEF Places
    <2>6. \A q \in waiting' : place'[q] > 0 /\ settled'[q] = "none" /\ phase'[q] = "off"
      BY <2>2, <2>3 DEF Places
    <2>7. \A q \in drained' : settled'[q] # "none" /\ phase'[q] = "off"
      BY <2>2, <2>3 DEF Places
    <2>8. \A q \in Requests : place'[q] > 0 /\ settled'[q] = "none"
                             => q \in waiting' \/ phase'[q] # "off"
      BY <2>2, <2>3 DEF Places
    <2>9. \A p \in Requests : phase'[p] # "off" =>
            /\ place'[p] > 0 /\ settled'[p] = "none"
            /\ \A q \in Requests : Before(q, p)' => q \in drained'
      BY <2>2, <2>3, <2>4 DEF Places
    <2> QED
      BY <2>1, <2>5, <2>6, <2>7, <2>8, <2>9 DEF Places
  <1>2. ASSUME NEW r \in Requests, DeadlineTimer(r) PROVE Chain' /\ Places'
    BY <1>0, <1>2 DEF DeadlineTimer, httpVars, Chain, Places
  <1>3. ASSUME NEW r \in Requests, Expire(r) PROVE Chain' /\ Places'
    BY <1>0, <1>3 DEF Expire, queueVars, httpVars, Chain, Places
  <1>4. ASSUME NEW r \in Requests, Skip(r) PROVE Chain' /\ Places'
    <2>1. Chain'
      BY <1>4, ReachedIsFirst, DrainKeepsChain DEF Skip, Reached
    <2> QED
      BY <1>0, <1>4, <2>1 DEF Skip, Reached, httpVars, Places
  <1>5. ASSUME NEW r \in Requests, Late(r) PROVE Chain' /\ Places'
    <2>1. Chain'
      BY <1>5, ReachedIsFirst, DrainKeepsChain DEF Late, Reached
    <2> QED
      BY <1>0, <1>5, <2>1 DEF Late, Reached, httpVars, Places
  <1>6. ASSUME NEW r \in Requests, Start(r) PROVE Chain' /\ Places'
    <2>1. /\ \A q \in Requests : Before(q, r) => q \in drained
          /\ place[r] > 0 /\ settled[r] = "none"
      BY <1>6, ReachedIsFirst DEF Start, Places, Reached
    <2>2. (\E n, left : Dispatch(r, n, left)) \/ Settle(r, "failed")
      BY <1>6 DEF Start, Try
    <2>3. waiting' = waiting \ {r} /\ UNCHANGED <<links, place>>
      BY <1>6 DEF Start
    <2> QED
      BY <1>f, <2>1, <2>2, <2>3, TaskKeepsOrder
  <1>7. ASSUME NEW r \in Requests, Transient(r) \/ Headers(r) PROVE Chain' /\ Places'
    <2>1. phase[r] # "off" /\ UNCHANGED <<links, place, waiting, drained, settled>>
      BY <1>7 DEF Transient, Headers, queueVars
    <2>2. \A q \in Requests : phase'[q] # "off" <=> phase[q] # "off"
      BY <1>7 DEF Transient, Headers
    <2> QED
      BY <1>0, <2>1, <2>2 DEF Chain, Places
  <1>8. ASSUME NEW r \in Requests, BackoffEnds(r) \/ (\E f \in Fallbacks : FallBack(r, f))
        PROVE  Chain' /\ Places'
    <2>1. phase[r] # "off" /\ UNCHANGED <<links, place, waiting>>
      BY <1>8 DEF BackoffEnds, FallBack
    <2>2. (\E n, left : Dispatch(r, n, left)) \/ Settle(r, "failed")
      BY <1>8 DEF BackoffEnds, FallBack, Try
    <2> QED
      BY <1>f, <1>w, <2>1, <2>2, TaskKeepsOrder
  <1>9. ASSUME NEW r \in Requests, Answer(r) \/ Fail(r) PROVE Chain' /\ Places'
    <2>1. phase[r] # "off" /\ UNCHANGED <<links, place, waiting>>
      BY <1>9 DEF Answer, Fail
    <2>2. Settle(r, "answer") \/ Settle(r, "failed")
      BY <1>9 DEF Answer, Fail
    <2> QED
      BY <1>f, <1>w, <2>1, <2>2, TaskKeepsOrder
  <1>10. CASE Cancel
    BY <1>0, <1>10 DEF Cancel, httpVars, Chain, Places
  <1>11. CASE UNCHANGED requestVars
    BY <1>0, <1>11 DEF requestVars, queueVars, httpVars, Chain, Places
  <1> QED
    BY <1>1, <1>2, <1>3, <1>4, <1>5, <1>6, <1>7, <1>8, <1>9, <1>10, <1>11 DEF QueueNext, Turn

-----------------------------------------------------------------------------
(* The strengthened invariant is inductive.                                 *)
THEOREM Inductive == QueueSpec => []QueueInv
  <1>1. QueueInv /\ [QueueNext]_requestVars => QueueInv'
    BY TypeInv, OrderInv DEF QueueInv
  <1> QED
    BY InitInv, <1>1, PTL DEF QueueSpec

(* Types, for every number of requests and of attempts: no retry loop makes *)
(* more attempts than it may.                                               *)
THEOREM TypeCorrect == QueueSpec => []QueueTypeOK
  <1>1. QueueInv => QueueTypeOK
    BY DEF QueueInv
  <1> QED
    BY Inductive, <1>1, PTL

(* Nothing is put on the wire after the stop.                               *)
THEOREM SendsStop == QueueSpec => NoSendAfterStop
  <1> DEFINE Sends == \A r \in Requests :
         phase'[r] = "wire" => \/ ~Stopped(r)
                               \/ /\ phase[r] = "wire" /\ attempt'[r] = attempt[r]
                                  /\ fallbacks'[r] = fallbacks[r]
  <1>1. QueueTypeOK /\ [QueueNext]_requestVars => [Sends]_requestVars
    <2> SUFFICES ASSUME QueueTypeOK, QueueNext PROVE Sends
      OBVIOUS
    <2> USE DEF QueueTypeOK
    <2>t. ASSUME NEW r \in Requests, NEW n, NEW left, Try(r, n, left) PROVE Sends
      BY <2>t DEF Try, Dispatch, Settle
    <2>1. ASSUME NEW r \in Requests, Enqueue(r) \/ DeadlineTimer(r) \/ Expire(r) \/ Skip(r) \/ Late(r)
          PROVE  Sends
      BY <2>1 DEF Enqueue, DeadlineTimer, Expire, Skip, Late, httpVars
    <2>2. ASSUME NEW r \in Requests,
                 Start(r) \/ BackoffEnds(r) \/ (\E f \in Fallbacks : FallBack(r, f))
          PROVE  Sends
      <3> HIDE DEF Sends
      <3> QED
        BY <2>2, <2>t DEF Start, BackoffEnds, FallBack
    <2>3. ASSUME NEW r \in Requests, Transient(r) \/ Headers(r) PROVE Sends
      BY <2>3 DEF Transient, Headers
    <2>4. ASSUME NEW r \in Requests, Answer(r) \/ Fail(r) PROVE Sends
      BY <2>4 DEF Answer, Fail, Settle
    <2>5. CASE Cancel
      BY <2>5 DEF Cancel, httpVars
    <2> QED
      <3> HIDE DEF Sends
      <3> QED
        BY <2>1, <2>2, <2>3, <2>4, <2>5 DEF QueueNext, Turn
  <1> QED
    BY TypeCorrect, <1>1, PTL DEF QueueSpec, NoSendAfterStop

-----------------------------------------------------------------------------
Over == {r \in Requests : settled[r] # "none"}

(* Only one request is worked on: of two, the later would have waited until *)
(* the earlier's link had settled.                                          *)
LEMMA OneTask ==
  ASSUME QueueTypeOK, Chain, Places, NEW q \in Requests, NEW r \in Requests,
         phase[q] # "off", phase[r] # "off"
  PROVE  q = r
  <1>1. place[q] \in Nat /\ place[r] \in Nat /\ place[q] > 0 /\ place[r] > 0
    BY DEF QueueTypeOK, Places
  <1>2. ~Before(q, r) /\ ~Before(r, q)
    BY DEF Places
  <1>3. place[q] = place[r]
    BY <1>1, <1>2 DEF Before
  <1> QED
    BY <1>1, <1>3 DEF Chain

LEMMA ActiveIs ==
  ASSUME QueueTypeOK, Chain, Places, NEW r \in Requests, phase[r] # "off"
  PROVE  Active = r
  <1>1. \A q \in Requests : phase[q] # "off" => q = r
    BY OneTask
  <1> QED
    BY <1>1 DEF Active

LEMMA ActiveNone ==
  ASSUME \A r \in Requests : phase[r] = "off"
  PROVE  Active = NoRequest
  BY DEF Active

(* The queue does, step by step, what the serial service does.              *)
LEMMA StepRefines == QueueInv /\ QueueInv' /\ [QueueNext]_requestVars => [Service!Next]_(Service!vars)
  <1> SUFFICES ASSUME QueueTypeOK, Chain, Places, QueueTypeOK', Chain', Places', [QueueNext]_requestVars
               PROVE  Service!Next \/ UNCHANGED <<place, Active, Over>>
    BY DEF QueueInv, Service!vars, Over
  <1> USE DEF QueueTypeOK
  <1>a. ASSUME UNCHANGED phase PROVE Active' = Active
    BY <1>a DEF Active
  <1>o. ASSUME UNCHANGED settled PROVE Over' = Over
    BY <1>o DEF Over
  <1>n. NoRequest \notin Requests
    BY NoRequestIsNone
  <1>v. Over = {r \in Requests : settled[r] # "none"} /\ Over \subseteq Service!Arrived
    BY DEF Over, Places, Service!Arrived
  <1>b. Active \notin Over
    <2>1. CASE \E r \in Requests : phase[r] # "off"
      <3>1. PICK r \in Requests : phase[r] # "off"
        BY <2>1
      <3>2. Active = r /\ settled[r] = "none"
        BY <3>1, ActiveIs DEF Places
      <3> QED
        BY <3>2 DEF Over
    <2>2. CASE \A r \in Requests : phase[r] = "off"
      BY <2>2, ActiveNone, <1>n DEF Over
    <2> QED
      BY <2>1, <2>2
  \* Waiting ones that get an settled are given up.
  <1>g. ASSUME UNCHANGED <<place, phase>>,
               \A r \in Requests : settled'[r] = settled[r] \/ (r \in waiting /\ settled'[r] # "none")
        PROVE  Service!Next
    <2>1. Over \subseteq Over' /\ Over' \subseteq Over \cup waiting
      BY <1>g DEF Over
    <2>2. Over' \subseteq Service!Arrived
      BY <1>v, <2>1 DEF Places, Service!Arrived
    <2>3. Active' = Active
      BY <1>g, <1>a
    <2>4. Active \notin waiting
      <3>1. CASE \E r \in Requests : phase[r] # "off"
        <4>1. PICK r \in Requests : phase[r] # "off"
          BY <3>1
        <4> QED
          BY <4>1, ActiveIs DEF Places
      <3>2. CASE \A r \in Requests : phase[r] = "off"
        BY <3>2, ActiveNone, <1>n
      <3> QED
        BY <3>1, <3>2
    <2>5. Service!GiveUp
      BY <1>g, <1>b, <2>1, <2>2, <2>3, <2>4 DEF Service!GiveUp, Over
    <2> QED
      BY <2>5 DEF Service!Next
  \* The task that is worked on stays, or ends.
  <1>t. ASSUME NEW r \in Requests, phase[r] # "off", UNCHANGED place,
               \/ \E n, left : Dispatch(r, n, left)
               \/ \E o \in Outcomes \ {"none"} : Settle(r, o)
        PROVE  Service!Next \/ UNCHANGED <<place, Active, Over>>
    <2>1. Active = r
      BY <1>t, ActiveIs
    <2>2. CASE \E n, left : Dispatch(r, n, left)
      <3>1. settled' = settled /\ phase'[r] # "off"
        BY <2>2 DEF Dispatch
      <3>2. Active' = r
        <4>1. \A q \in Requests : phase'[q] # "off" => q = r
          BY <2>2, OneTask, <1>t DEF Dispatch
        <4> QED
          BY <3>1, <4>1 DEF Active
      <3> QED
        BY <1>t, <1>o, <2>1, <3>1, <3>2
    <2>3. CASE \E o \in Outcomes \ {"none"} : Settle(r, o)
      <3>1. PICK o \in Outcomes \ {"none"} : Settle(r, o)
        BY <2>3
      <3>2. settled' = [settled EXCEPT ![r] = o] /\ phase' = [phase EXCEPT ![r] = "off"]
        BY <3>1 DEF Settle
      <3>3. Over' = Over \cup {r}
        BY <3>1, <3>2 DEF Over
      <3>4. \A q \in Requests : phase'[q] = "off"
        BY <1>t, <3>2, OneTask
      <3>5. Active' = NoRequest
        BY <3>4 DEF Active
      <3>6. Service!End
        BY <1>t, <1>n, <2>1, <3>3, <3>5 DEF Service!End, Over
      <3> QED
        BY <3>6 DEF Service!Next
    <2> QED
      BY <1>t, <2>2, <2>3
  <1>f. "failed" \in Outcomes \ {"none"} /\ "answer" \in Outcomes \ {"none"}
    BY DEF Outcomes
  <1>1. ASSUME NEW r \in Requests, Enqueue(r) PROVE Service!Next
    <2>1. \A q \in Requests : place[q] < place'[r]
      BY <1>1, EnqueueKeepsChain
    <2>2. /\ place[r] = 0 /\ place'[r] = links + 1 /\ phase' = phase
          /\ place' = [place EXCEPT ![r] = place'[r]]
          /\ \A q \in Requests \ {r} : settled'[q] = settled[q]
      BY <1>1 DEF Enqueue, httpVars
    <2>3. settled[r] = "none"
      BY <2>2 DEF Places
    <2>4. Over' \in {Over, Over \cup {r}}
      <3>1. CASE settled'[r] = "none"
        BY <2>2, <2>3, <3>1 DEF Over
      <3>2. CASE settled'[r] # "none"
        BY <2>2, <2>3, <3>2 DEF Over
      <3> QED
        BY <3>1, <3>2
    <2>5. Active' = Active
      BY <2>2, <1>a
    <2>6. Service!Arrive(r)
      BY <2>1, <2>2, <2>4, <2>5 DEF Service!Arrive, Over
    <2> QED
      BY <2>6 DEF Service!Next
  <1>2. ASSUME NEW r \in Requests, DeadlineTimer(r) \/ Late(r) PROVE Service!Next
    BY <1>2, <1>g DEF DeadlineTimer, Late, httpVars
  <1>3. ASSUME NEW r \in Requests, Expire(r) PROVE UNCHANGED <<place, Active, Over>>
    BY <1>3, <1>a, <1>o DEF Expire, queueVars, httpVars
  <1>4. ASSUME NEW r \in Requests, Skip(r) PROVE UNCHANGED <<place, Active, Over>>
    BY <1>4, <1>a, <1>o DEF Skip, httpVars
  <1>5. ASSUME NEW r \in Requests, Start(r) PROVE Service!Next
    <2>1. /\ \A q \in Requests : Before(q, r) => q \in drained
          /\ place[r] > 0 /\ settled[r] = "none" /\ phase[r] = "off" /\ r \in waiting
          /\ UNCHANGED place
      BY <1>5, ReachedIsFirst DEF Start, Places, Reached
    <2>2. (\E n, left : Dispatch(r, n, left)) \/ Settle(r, "failed")
      BY <1>5 DEF Start, Try
    \* One that is worked on would be before or behind.
    <2>3. \A q \in Requests : phase[q] = "off"
      <3> SUFFICES ASSUME NEW q \in Requests, phase[q] # "off" PROVE FALSE
        OBVIOUS
      <3>1. place[q] \in Nat /\ place[r] \in Nat /\ place[q] > 0 /\ q # r
        BY <2>1 DEF Places
      <3>2. ~Before(q, r)
        BY <2>1 DEF Places
      <3>3. ~Before(r, q)
        BY <2>1 DEF Places
      <3>4. place[q] = place[r]
        BY <2>1, <3>1, <3>2, <3>3 DEF Before
      <3> QED
        BY <3>1, <3>4 DEF Chain
    <2>4. Active = NoRequest
      BY <2>3, ActiveNone
    <2>5. CASE \E n, left : Dispatch(r, n, left)
      <3>1. settled' = settled /\ phase' = [phase EXCEPT ![r] = "wire"]
        BY <2>5 DEF Dispatch
      <3>2. phase'[r] # "off" /\ \A q \in Requests : phase'[q] # "off" => q = r
        BY <2>3, <3>1
      <3>3. Active' = r
        BY <3>2 DEF Active
      <3>4. \A q \in Service!Arrived : place[q] < place[r] => q \in Over
        BY <2>1 DEF Service!Arrived, Before, Places, Over
      <3>5. r \in Service!Arrived \ Over
        BY <2>1 DEF Service!Arrived, Over
      <3>6. Service!Start(r)
        BY <1>o, <2>1, <2>4, <3>1, <3>3, <3>4, <3>5 DEF Service!Start, Over
      <3> QED
        BY <3>6 DEF Service!Next
    <2>6. CASE Settle(r, "failed")
      <3>1. settled' = [settled EXCEPT ![r] = "failed"] /\ phase' = phase
        BY <2>1, <2>6 DEF Settle
      <3> QED
        BY <1>g, <2>1, <3>1
    <2> QED
      BY <2>2, <2>5, <2>6
  <1>6. ASSUME NEW r \in Requests, Transient(r) \/ Headers(r)
        PROVE  UNCHANGED <<place, Active, Over>>
    <2>1. UNCHANGED <<place, settled>> /\ phase[r] # "off"
      BY <1>6 DEF Transient, Headers, queueVars
    <2>2. phase'[r] # "off" /\ \A q \in Requests : phase'[q] # "off" => q = r
      BY <1>6, <2>1, OneTask DEF Transient, Headers
    <2>3. Active' = r
      BY <2>2 DEF Active
    <2> QED
      BY <1>o, <2>1, <2>3, ActiveIs
  <1>7. ASSUME NEW r \in Requests, BackoffEnds(r) \/ (\E f \in Fallbacks : FallBack(r, f))
        PROVE  Service!Next \/ UNCHANGED <<place, Active, Over>>
    <2>1. phase[r] # "off" /\ UNCHANGED place
      BY <1>7 DEF BackoffEnds, FallBack
    <2>2. (\E n, left : Dispatch(r, n, left)) \/ Settle(r, "failed")
      BY <1>7 DEF BackoffEnds, FallBack, Try
    <2> QED
      BY <1>f, <1>t, <2>1, <2>2
  <1>8. ASSUME NEW r \in Requests, Answer(r) \/ Fail(r)
        PROVE  Service!Next \/ UNCHANGED <<place, Active, Over>>
    <2>1. phase[r] # "off" /\ UNCHANGED place
      BY <1>8 DEF Answer, Fail
    <2>2. Settle(r, "answer") \/ Settle(r, "failed")
      BY <1>8 DEF Answer, Fail
    <2> QED
      BY <1>f, <1>t, <2>1, <2>2
  <1>9. ASSUME Cancel PROVE Service!Next
    <2>1. \A r \in Requests : settled'[r] = settled[r] \/ (r \in waiting /\ settled'[r] # "none")
      BY <1>9 DEF Cancel
    <2>2. UNCHANGED <<place, phase>>
      BY <1>9 DEF Cancel, httpVars
    <2> QED
      BY <1>g, <2>1, <2>2
  <1>10. ASSUME UNCHANGED requestVars PROVE UNCHANGED <<place, Active, Over>>
    BY <1>10, <1>a, <1>o DEF requestVars, queueVars, httpVars
  <1> QED
    BY <1>1, <1>2, <1>3, <1>4, <1>5, <1>6, <1>7, <1>8, <1>9, <1>10 DEF QueueNext, Turn

(* The queue is a serial service for every set of requests.                 *)
THEOREM ImplementsSerial == QueueSpec => SerialRefinement
  <1>1. QueueInit => Service!Init
    BY ActiveNone DEF QueueInit, Service!Init
  <1> QED
    BY Inductive, <1>1, StepRefines, PTL DEF QueueSpec, SerialRefinement, Service!Spec
-----------------------------------------------------------------------------
(* A budgeted request: the invariant of ModelRequest.                       *)

Profiles == [Roles -> Statuses]
Calls ==
    [role : Roles \cup {"none"}, estimate : Nat, observed : Nat, attempt : {0, 1}, cut : Nat,
     then : {"none", "send", "grow"}]
Probes == [role : Roles \cup {"none"}, running : BOOLEAN, roles : Profiles, fixer : BOOLEAN,
           context : Nat]
Connections == [role : Roles \cup {"none"}, running : BOOLEAN, context : Nat, roles : Profiles]
Results == UNION {[contexts -> Profiles] : contexts \in SUBSET Nat}
Stores == [invalid : BOOLEAN, bound : {None, 0, 1}, results : Results, preferred : Nat]

RequestTypes ==
    /\ setting \in Nat /\ saved \in [context : Nat, roles : Profiles]
    /\ test \in [Tests -> Connections]
    /\ \A t \in Tests : test[t].running => test[t].role # "none"
    /\ store \in Stores
    /\ context \in Nat /\ roles \in Profiles /\ may \subseteq Roles /\ learned \in Nat
    /\ requests \in 0 .. MaxRequests
    /\ call \in Calls /\ probe \in Probes

Whereabouts ==
    /\ pc = "idle" => may = {} /\ store = NoStore /\ probe = NoProbe
    /\ pc = "engine" => call.then \in {"send", "grow"}
    /\ outcome = "prompt-budget" => pc = "ready"

\* What was looked at before an await is so where the request goes on.
Allowances ==
    /\ opt.full /\ pc \in {"grow", "ask", "probing", "requalify", "send", "waiting"} =>
           engine = "selected"
    /\ pc \in {"send", "grow"} \/ (pc = "engine" /\ ~opt.full) => Current(store)

\* A prompt goes out where it fits; a context that grows will hold it.
Room ==
    /\ pc = "send" \/ (pc = "engine" /\ call.then = "send") => NeedFits
    /\ pc \in {"grow", "ask", "probing", "requalify"} \/ (pc = "engine" /\ call.then = "grow") =>
           ~NeedFits /\ Grown # 0
    /\ pc \in {"ask", "probing", "requalify"} => probe.context = Grown

\* What a cut-off reply taught outlives the growth of the context.
Longer == call.cut > 0 => call.role = "writer" /\ learned >= call.cut + MinGain

\* Whoever may be asked is verified in the profile that goes with the context.
Entitled ==
    opt.required =>
        /\ \A r \in Asked : roles[r] = "verified"
        /\ pc \notin {"idle", "ready", "preflight"} =>
               call.role \in Roles /\ roles[call.role] = "verified"

RequestInv ==
    RequestTypes /\ Whereabouts /\ Allowances /\ Room /\ RefusalIsTrue /\ Longer /\ Entitled

\* Every verdict, wherever it is kept, was shown by a probe at its context.
Shows(profile, c, versions) ==
    \A r \in Roles : profile[r] = "verified" =>
        \E version \in versions : <<r, c, version>> \in proven
Evidence ==
    /\ Shows(saved.roles, saved.context, {None})
    /\ \A t \in Tests : Shows(test[t].roles, test[t].context, {None})
    /\ \A c \in DOMAIN store.results : Shows(store.results[c], c, {None, store.bound})
    /\ Shows(probe.roles, probe.context, {None, store.bound})
    /\ Shows(roles, context, {None, store.bound})

-----------------------------------------------------------------------------
(* How a context is shared.                                                 *)

(* The shares of a context, and that both grow with it.                     *)
LEMMA Shares ==
  ASSUME NEW c \in Nat, NEW d \in Nat, c <= d
  PROVE  /\ InputBudget(c) \in Nat /\ DefaultReserve(c) \in Nat
         /\ InputBudget(c) <= InputBudget(d) /\ DefaultReserve(c) <= DefaultReserve(d)
  BY DEF InputBudget, DefaultReserve

(* The reply of a role is a number; a larger context gives it no less room, *)
(* nor the prompt.                                                          *)
LEMMA Outputs ==
  ASSUME NEW role, NEW c \in Nat, NEW d \in Nat, c <= d, NEW l \in Nat
  PROVE  /\ OutputTokens(role, c, l) \in Nat
         /\ OutputTokens(role, c, l) <= OutputTokens(role, d, l)
         /\ c - OutputTokens(role, c, l) <= d - OutputTokens(role, d, l)
  <1>1. /\ SeedLimit \in Nat /\ DefaultReserve(c) \in Nat /\ DefaultReserve(d) \in Nat
        /\ DefaultReserve(c) <= DefaultReserve(d)
        /\ DefaultReserve(d) - DefaultReserve(c) <= d - c
    BY Shares, Tokens DEF DefaultReserve
  <1> QED
    BY <1>1 DEF OutputTokens, Larger, Smaller

LEMMA RoundUpBetween ==
  ASSUME NEW c \in Nat, NEW limit \in Nat, c <= limit
  PROVE  RoundUp(c, limit) \in c .. limit
  BY Tokens DEF RoundUp

(* A context that was grown is one the model has, larger than the old one,  *)
(* and holds the prompt with the reply that is asked for there.             *)
LEMMA GrownHolds ==
  ASSUME NEW role, NEW c \in Nat, NEW l \in Nat, NEW need \in Nat, NEW limit \in Nat,
         GrownContext(role, c, l, need, limit) # 0
  PROVE  /\ GrownContext(role, c, l, need, limit) \in c + 1 .. limit
         /\ Fits(role, GrownContext(role, c, l, need, limit), l, need)
  <1> DEFINE output == OutputTokens(role, limit, l)
             spare == limit - output - need
             least == Larger(c + 1, need + Smaller(Headroom, spare) + output)
  <1>1. output \in Nat /\ Headroom \in Nat
    BY Outputs, Tokens
  <1>2. c < limit /\ spare >= 0 /\ GrownContext(role, c, l, need, limit) = RoundUp(least, limit)
    BY <1>1 DEF GrownContext
  <1>3. least \in Nat /\ least >= c + 1 /\ least >= need + output /\ least <= limit
    BY <1>1, <1>2 DEF Larger, Smaller
  <1>4. RoundUp(least, limit) \in least .. limit
    BY <1>3, RoundUpBetween
  <1> DEFINE grown == RoundUp(least, limit)
  <1>5. grown \in Nat /\ grown >= least /\ grown <= limit
    BY <1>3, <1>4
  <1>6. OutputTokens(role, grown, l) \in Nat /\ OutputTokens(role, grown, l) <= output
    BY <1>5, Outputs
  <1>7. Fits(role, grown, l, need)
    <2> HIDE DEF grown, output, least
    <2> QED
      BY <1>1, <1>3, <1>5, <1>6 DEF Fits, Larger
  <1> QED
    BY <1>2, <1>3, <1>5, <1>7

(* Where it was not grown, nothing up to the limit holds the prompt.        *)
LEMMA NothingHolds ==
  ASSUME NEW role, NEW c \in Nat, NEW l \in Nat, NEW need \in Nat, NEW limit \in Nat,
         GrownContext(role, c, l, need, limit) = 0, ~Fits(role, c, l, need)
  PROVE  \A d \in c .. limit : ~Fits(role, d, l, need)
  <1> SUFFICES ASSUME NEW d \in c .. limit, Fits(role, d, l, need)
               PROVE  FALSE
    OBVIOUS
  <1> DEFINE output == OutputTokens(role, limit, l)
             spare == limit - output - need
             least == Larger(c + 1, need + Smaller(Headroom, spare) + output)
  <1>1. output \in Nat /\ Headroom \in Nat /\ d \in Nat /\ c <= d /\ d <= limit
    BY Outputs, Tokens
  <1>2. /\ OutputTokens(role, d, l) \in Nat /\ OutputTokens(role, c, l) \in Nat
        /\ d - OutputTokens(role, d, l) <= limit - output
    BY <1>1, Outputs
  <1>3. need > 0
    BY <1>2 DEF Fits, Larger
  <1>4. need <= limit - output
    BY <1>1, <1>2, <1>3 DEF Fits, Larger
  <1>5. c < limit
    <2>1. c # d
      OBVIOUS
    <2> QED
      BY <1>1, <2>1
  <1>6. GrownContext(role, c, l, need, limit) = RoundUp(least, limit)
    BY <1>1, <1>4, <1>5 DEF GrownContext
  <1>7. least \in Nat /\ least >= c + 1 /\ least <= limit
    BY <1>1, <1>4, <1>5 DEF Larger, Smaller
  <1>8. RoundUp(least, limit) \in least .. limit
    BY <1>7, RoundUpBetween
  <1> QED
    BY <1>6, <1>7, <1>8

-----------------------------------------------------------------------------
(* The batch's evidence as a value.                                         *)

LEMMA ResultsAre ==
  /\ \A contexts \in SUBSET Nat : \A f \in [contexts -> Profiles] : f \in Results
  /\ \A f \in Results : DOMAIN f \in SUBSET Nat /\ f \in [DOMAIN f -> Profiles]
  BY DEF Results

LEMMA NoProfiles == Unprobed \in Profiles
  BY DEF Unprobed, Profiles, Statuses

LEMMA NothingStored ==
  /\ NoStore \in Stores /\ NoStore.results = [c \in {} |-> Unprobed] /\ NoStore.bound = None
  /\ \A version \in {None, 0, 1} :
       /\ [NoStore EXCEPT !.invalid = TRUE, !.bound = version] \in Stores
       /\ [NoStore EXCEPT !.invalid = TRUE, !.bound = version].results = [c \in {} |-> Unprobed]
       /\ [NoStore EXCEPT !.invalid = TRUE, !.bound = version].bound = version
  <1>1. [c \in {} |-> Unprobed] \in Results
    BY ResultsAre
  <1> QED
    BY <1>1 DEF NoStore, Stores

(* What is kept and what is revoked when the evidence is looked at.         *)
LEMMA CheckedStore ==
  ASSUME store \in Stores
  PROVE  /\ Checked \in Stores /\ Checked.bound = store.bound
         /\ Checked.results \in {store.results, [c \in {} |-> Unprobed]}
         /\ Cleared \in Stores /\ Cleared.bound = store.bound
         /\ Cleared.results = [c \in {} |-> Unprobed]
  <1>1. store.bound \in {None, 0, 1}
    BY DEF Stores
  <1> QED
    BY <1>1, NothingStored DEF Checked, Cleared

LEMMA BoundStore ==
  ASSUME store \in Stores, NEW version \in {0, 1}
  PROVE  /\ BindDependencies(version) \in Stores
         /\ {None, store.bound} \subseteq {None, BindDependencies(version).bound}
         /\ BindDependencies(version).results \in {store.results, [c \in {} |-> Unprobed]}
  BY CheckedStore DEF BindDependencies, Current, Stores

(* A result is added at its context; all others stay as they were.          *)
LEMMA ResultStored ==
  ASSUME store \in Stores, NEW c \in Nat, NEW profile \in Profiles
  PROVE  LET s == WithResult(store, c, profile)
         IN /\ s \in Stores /\ s.bound = store.bound /\ s.invalid = store.invalid
            /\ DOMAIN s.results \subseteq DOMAIN store.results \cup {c}
            /\ \A d \in DOMAIN s.results :
                 \/ d \in DOMAIN store.results /\ s.results[d] = store.results[d]
                 \/ d = c /\ s.results[d] = profile
                 \/ /\ d = c /\ c \in DOMAIN store.results
                    /\ s.results[d] = [profile EXCEPT !.fixer = store.results[c].fixer]
  <1> DEFINE s == WithResult(store, c, profile)
             kept == IF profile.fixer = "missing" /\ c \in DOMAIN store.results
                     THEN [profile EXCEPT !.fixer = store.results[c].fixer] ELSE profile
             f == [d \in DOMAIN store.results \cup {c} |-> IF d = c THEN kept ELSE store.results[d]]
  <1>1. store.results \in Results
    BY DEF Stores
  <1>2. DOMAIN store.results \in SUBSET Nat /\ store.results \in [DOMAIN store.results -> Profiles]
    BY <1>1, ResultsAre
  <1>3. CASE "missing" \in {profile.writer, profile.reviewer}
    BY <1>3 DEF WithResult
  <1>4. CASE ~("missing" \in {profile.writer, profile.reviewer})
    <2>1. s = [store EXCEPT !.results = f]
      BY <1>4 DEF WithResult
    <2>2. kept \in Profiles
      <3>1. CASE c \in DOMAIN store.results
        <4>1. store.results[c] \in Profiles
          BY <1>2, <3>1
        <4>2. store.results[c].fixer \in Statuses
          BY <4>1 DEF Profiles, Roles
        <4> QED
          BY <4>2 DEF Profiles
      <3>2. CASE c \notin DOMAIN store.results
        BY <3>2
      <3> QED
        BY <3>1, <3>2
    <2>3. f \in [DOMAIN store.results \cup {c} -> Profiles]
      BY <1>2, <2>2
    <2>4. f \in Results
      <3>1. DOMAIN store.results \cup {c} \in SUBSET Nat
        BY <1>2
      <3> QED
        BY <2>3, <3>1, ResultsAre
    <2>5. s.results = f /\ s \in Stores /\ s.bound = store.bound /\ s.invalid = store.invalid
      BY <2>1, <2>4 DEF Stores
    <2>6. \A d \in DOMAIN f : d # c => f[d] = store.results[d] /\ d \in DOMAIN store.results
      OBVIOUS
    <2>7. f[c] \in {profile, kept}
      OBVIOUS
    <2>8. DOMAIN f = DOMAIN store.results \cup {c}
      OBVIOUS
    <2>9. \/ kept = profile
          \/ /\ c \in DOMAIN store.results
             /\ kept = [profile EXCEPT !.fixer = store.results[c].fixer]
      OBVIOUS
    <2> HIDE DEF f, kept
    <2> QED
      BY <2>5, <2>6, <2>7, <2>8, <2>9
  <1> QED
    BY <1>3, <1>4

LEMMA PreferredStored ==
  ASSUME NEW s \in Stores, NEW c \in Nat
  PROVE  LET t == [s EXCEPT !.preferred = c]
         IN t \in Stores /\ t.bound = s.bound /\ t.invalid = s.invalid /\ t.results = s.results
  BY DEF Stores

-----------------------------------------------------------------------------
(* Types.                                                                   *)

LEMMA RunStatuses ==
  \A role : \A run \in RunVerdicts(role) : run.status \in Statuses
  <1>1. ASSUME NEW text, NEW run \in Verdicts(text) PROVE run.status \in Statuses
    BY <1>1 DEF Verdicts, Statuses
  <1> QED
    BY <1>1 DEF RunVerdicts, WriterVerdicts, FixerVerdicts

LEMMA ResolvedIsNat ==
  RequestTypes => Resolved \in Nat
  <1>1. Limit \in Nat /\ Unknown \in Nat
    BY Contexts
  <1> QED
    BY <1>1 DEF Resolved, Larger, RequestTypes

LEMMA VerdictTypes ==
  ASSUME RequestTypes, NEW t \in Tests, NEW status \in Statuses, NEW shown,
         test[t].role # "none", Verdict(t, status, shown)
  PROVE  /\ saved' \in [context : Nat, roles : Profiles]
         /\ test' \in [Tests -> Connections]
         /\ \A u \in Tests : test'[u].running => test'[u].role # "none"
         /\ setting' = setting
  <1> DEFINE verdicts == [test[t].roles EXCEPT ![test[t].role] = status]
             next == IF status = "verified" THEN NextRole[test[t].role] ELSE "none"
             row == [test[t] EXCEPT !.role = next, !.running = FALSE, !.roles = verdicts]
  <1>1. test[t] \in Connections /\ test[t].role \in Roles /\ test[t].context \in Nat
        /\ test[t].roles \in Profiles
    BY DEF RequestTypes, Connections
  <1>2. verdicts \in Profiles
    BY <1>1 DEF Profiles
  <1>3. next \in Roles \cup {"none"}
    BY <1>1 DEF NextRole, Roles
  <1>4. Idle \in Connections /\ ~Idle.running
    BY NoProfiles DEF Idle, Connections
  <1>5. row \in Connections /\ ~row.running
    BY <1>1, <1>2, <1>3 DEF Connections
  <1>6. /\ test' = [test EXCEPT ![t] = IF next = "none" THEN Idle ELSE row]
        /\ saved' = IF next = "none" THEN Stored(test[t].context, verdicts) ELSE saved
        /\ setting' = setting
    BY DEF Verdict
  <1> HIDE DEF next, row, verdicts
  <1>7. saved' \in [context : Nat, roles : Profiles]
    BY <1>1, <1>2, <1>6 DEF Stored, RequestTypes
  <1> QED
    BY <1>4, <1>5, <1>6, <1>7 DEF RequestTypes

LEMMA ConnectionTypes ==
  ASSUME RequestTypes, QualificationNext
  PROVE  /\ setting' \in Nat /\ saved' \in [context : Nat, roles : Profiles]
         /\ test' \in [Tests -> Connections]
         /\ \A t \in Tests : test'[t].running => test'[t].role # "none"
  <1>1. ASSUME NEW c \in Settings, SetContext(c)
        PROVE  setting' \in Nat /\ UNCHANGED <<saved, test>>
    BY <1>1, Contexts DEF SetContext
  <1>2. ASSUME NEW t \in Tests, StartTest(t)
        PROVE  /\ saved' \in [context : Nat, roles : Profiles] /\ setting' = setting
               /\ test' \in [Tests -> Connections]
               /\ \A u \in Tests : test'[u].running => test'[u].role # "none"
    <2> DEFINE row == [Idle EXCEPT !.role = "writer", !.context = Resolved]
    <2>1. row \in Connections /\ ~row.running
      BY ResolvedIsNat, NoProfiles DEF Idle, Connections, Roles
    <2>2. NoProfile \in [context : Nat, roles : Profiles]
      BY NoProfiles DEF NoProfile
    <2>3. test' = [test EXCEPT ![t] = row] /\ saved' = NoProfile /\ setting' = setting
      BY <1>2 DEF StartTest
    <2> HIDE DEF row
    <2> QED
      BY <2>1, <2>2, <2>3 DEF RequestTypes
  <1>3. ASSUME NEW t \in Tests, TestReplies(t)
        PROVE  /\ saved' \in [context : Nat, roles : Profiles] /\ setting' \in Nat
               /\ test' \in [Tests -> Connections]
               /\ \A u \in Tests : test'[u].running => test'[u].role # "none"
    <2>1. test[t].role # "none"
      BY <1>3 DEF TestReplies
    <2>2. CASE UNCHANGED <<known, setting, saved, proven>> /\ test' = [test EXCEPT ![t].running = TRUE]
      <3>1. test[t] \in Connections
        BY DEF RequestTypes
      <3>2. [test[t] EXCEPT !.running = TRUE] \in Connections
            /\ [test[t] EXCEPT !.running = TRUE].role = test[t].role
        BY <3>1 DEF Connections
      <3> QED
        BY <2>1, <2>2, <3>2 DEF RequestTypes
    <2>3. CASE \E status \in RepliesTo(test[t].role) \cap Statuses : Verdict(t, status, TRUE)
      BY <2>1, <2>3, VerdictTypes DEF RequestTypes
    <2>4. CASE Verdict(t, "missing", FALSE)
      <3>1. "missing" \in Statuses
        BY DEF Statuses
      <3> QED
        BY <2>1, <2>4, <3>1, VerdictTypes DEF RequestTypes
    <2> QED
      BY <1>3, <2>2, <2>3, <2>4 DEF TestReplies
  <1>4. ASSUME NEW t \in Tests, TestRuns(t)
        PROVE  /\ saved' \in [context : Nat, roles : Profiles] /\ setting' \in Nat
               /\ test' \in [Tests -> Connections]
               /\ \A u \in Tests : test'[u].running => test'[u].role # "none"
    <2>1. test[t].role # "none"
      BY <1>4 DEF TestRuns, RequestTypes
    <2>2. PICK run \in RunVerdicts(test[t].role) : Verdict(t, run.status, run.shown)
      BY <1>4 DEF TestRuns
    <2> QED
      BY <2>1, <2>2, RunStatuses, VerdictTypes DEF RequestTypes
  <1> QED
    BY <1>1, <1>2, <1>3, <1>4 DEF QualificationNext, RequestTypes

LEMMA NeedIsNat ==
  ASSUME RequestTypes
  PROVE  Need \in Nat /\ Grown \in Nat /\ Output \in Nat
  <1>1. call.estimate \in Nat /\ call.observed \in Nat /\ context \in Nat /\ learned \in Nat
    BY DEF RequestTypes, Calls
  <1>2. Need \in Nat
    BY <1>1, Tokens DEF Need, Larger
  <1>3. Limit \in Nat
    BY Contexts
  <1>4. GrownContext(call.role, context, learned, Need, Limit) \in Nat
    BY <1>1, <1>2, <1>3, GrownHolds
  <1>5. Output \in Nat
    BY <1>1, Outputs DEF Output
  <1> QED
    BY <1>2, <1>4, <1>5 DEF Grown

LEMMA NoneAreTyped == NoCall \in Calls /\ NoProbe \in Probes
  BY NoProfiles DEF NoCall, NoProbe, Calls, Probes

LEMMA AdoptTypes ==
  ASSUME RequestTypes, NEW s \in Stores, NEW c \in Nat, NEW profile \in Profiles,
         Adopt(s, c, profile)
  PROVE  /\ store' \in Stores /\ context' \in Nat /\ roles' \in Profiles /\ may' \subseteq Roles
         /\ call' \in Calls /\ probe' \in Probes
  <1>1. call \in Calls /\ [call EXCEPT !.then = "send"] \in Calls
    BY DEF RequestTypes, Calls
  <1>2. Authorized(opt.required, profile) \subseteq Roles
    BY DEF Authorized
  <1>3. [s EXCEPT !.preferred = c] \in Stores
    BY PreferredStored
  <1> QED
    BY <1>1, <1>2, <1>3, NoneAreTyped DEF Adopt, End, RequestTypes

LEMMA TypesInv == RequestTypes /\ [Next]_vars => RequestTypes'
  <1> SUFFICES ASSUME RequestTypes, [Next]_vars
               PROVE  RequestTypes'
    OBVIOUS
  <1> USE NoneAreTyped
  <1>1. CASE TestConnection
    BY <1>1, ConnectionTypes DEF TestConnection, RequestTypes
  <1>2. CASE BeginBatch
    <2>1. Resolved \in Nat /\ saved.roles \in Profiles
      BY ResolvedIsNat DEF RequestTypes
    <2>2. AppliedTo(saved, Resolved) \in Profiles
      BY <2>1, NoProfiles DEF AppliedTo
    <2>3. Idle \in Connections /\ ~Idle.running
      BY NoProfiles DEF Idle, Connections
    <2>4. /\ setting' = 0 /\ saved' = [context |-> Resolved, roles |-> AppliedTo(saved, Resolved)]
          /\ test' = [t \in Tests |-> Idle]
          /\ context' = Resolved /\ roles' = AppliedTo(saved, Resolved)
          /\ UNCHANGED <<store, may, learned, requests, call, probe>>
      BY <1>2 DEF BeginBatch, Stored
    <2> QED
      BY <2>1, <2>2, <2>3, <2>4 DEF RequestTypes
  <1>3. CASE BeginTarget
    <2> DEFINE s == IF known THEN Checked ELSE store
               reused == /\ known
                         /\ s.preferred > saved.context /\ s.preferred <= Limit
                         /\ Found(s, s.preferred, FALSE)
    <2>1. s \in Stores
      BY CheckedStore DEF RequestTypes
    <2>2. s.preferred \in Nat /\ s.results \in Results
      BY <2>1 DEF Stores
    <2>3. /\ store' = s
          /\ context' = IF reused THEN s.preferred ELSE saved.context
          /\ roles' = IF reused THEN s.results[s.preferred] ELSE saved.roles
          /\ may' = Authorized(opt.required, roles')
          /\ UNCHANGED qualificationVars
          /\ learned' = 0 /\ requests' = MaxRequests /\ call' = NoCall /\ probe' = probe
      BY <1>3 DEF BeginTarget
    <2>4. reused => s.results[s.preferred] \in Profiles
      BY <2>2, ResultsAre DEF Found
    <2> HIDE DEF s, reused
    <2>5. roles' \in Profiles /\ context' \in Nat /\ store' \in Stores
      BY <2>1, <2>2, <2>3, <2>4 DEF RequestTypes
    <2>6. may' \subseteq Roles
      BY <2>3 DEF Authorized
    <2>7. MaxRequests \in 0 .. MaxRequests
      BY Amounts
    <2> QED
      BY <2>3, <2>5, <2>6, <2>7 DEF RequestTypes, qualificationVars
  <1>4. CASE Preflight
    <2>1. PICK version \in {0, 1} : store' = BindDependencies(version)
      BY <1>4 DEF Preflight
    <2>2. store' \in Stores
      BY <2>1, BoundStore DEF RequestTypes
    <2> QED
      BY <1>4, <2>2 DEF Preflight, RequestTypes, qualificationVars
  <1>5. CASE BeginCall
    <2>1. PICK role \in Asked : call' \in Prompted(role)
      BY <1>5 DEF BeginCall
    <2>2. PICK estimate \in Needs : call' = [NoCall EXCEPT !.role = role, !.estimate = estimate]
      BY <2>1 DEF Prompted
    <2>3. role \in Roles /\ estimate \in Nat
      BY Amounts DEF Asked, RequestTypes
    <2>4. call' \in Calls
      BY <2>2, <2>3 DEF Calls
    <2> QED
      BY <1>5, <2>4 DEF BeginCall, RequestTypes, qualificationVars
  <1>6. CASE PromptRefused
    BY <1>6 DEF PromptRefused, ResourcesRefused, MethodsUnknown, End, RequestTypes,
         qualificationVars
  <1>7. CASE Attempt
    <2>1. \A then \in {"send", "grow"} : [call EXCEPT !.then = then] \in Calls
      BY DEF RequestTypes, Calls
    <2>2. call' \in Calls
      BY <1>7, <2>1 DEF Attempt, RequestTypes
    <2>3. probe' \in Probes
      BY <1>7 DEF Attempt, End, RequestTypes
    <2>4. store' \in Stores
      BY <1>7, CheckedStore DEF Attempt, RequestTypes
    <2> QED
      BY <1>7, <2>2, <2>3, <2>4 DEF Attempt, RequestTypes, qualificationVars
  <1>8. CASE SelectEngine
    <2>1. store' \in Stores
      BY <1>8, CheckedStore DEF SelectEngine, RequestTypes
    <2>2. probe' \in Probes
      BY <1>8 DEF SelectEngine, End, RequestTypes
    <2> QED
      BY <1>8, <2>1, <2>2 DEF SelectEngine, RequestTypes, qualificationVars
  <1>9. CASE Grow
    <2>1. Grown \in Nat
      BY NeedIsNat
    <2>2. CASE opt.required /\ ~Found(store, Grown, NeedsFixer)
      <3>1. probe' = [NoProbe EXCEPT !.role = "writer", !.fixer = NeedsFixer, !.context = Grown]
            /\ UNCHANGED <<context, roles, may, store, call>>
        BY <1>9, <2>2 DEF Grow
      <3>2. NeedsFixer \in BOOLEAN
        BY DEF NeedsFixer
      <3>3. probe' \in Probes
        BY <2>1, <3>1, <3>2 DEF Probes, Roles
      <3> QED
        BY <1>9, <3>1, <3>3 DEF Grow, RequestTypes, qualificationVars
    <2>3. CASE ~(opt.required /\ ~Found(store, Grown, NeedsFixer))
      <3> DEFINE profile == IF opt.required THEN store.results[Grown] ELSE Unprobed
      <3>1. Adopt(store, Grown, profile)
        BY <1>9, <2>3 DEF Grow
      <3>2. store \in Stores /\ store.results \in Results
        BY DEF RequestTypes, Stores
      <3>3. profile \in Profiles
        BY <2>3, <3>2, ResultsAre, NoProfiles DEF Found
      <3>4. /\ store' \in Stores /\ context' \in Nat /\ roles' \in Profiles /\ may' \subseteq Roles
            /\ call' \in Calls /\ probe' \in Probes
        BY <2>1, <3>1, <3>2, <3>3, AdoptTypes
      <3> QED
        BY <1>9, <3>4 DEF Grow, RequestTypes, qualificationVars
    <2> QED
      BY <2>2, <2>3
  <1>10. CASE Ask
    <2>1. requests' \in 0 .. MaxRequests
      BY <1>10, Amounts DEF Ask, RequestTypes
    <2>2. probe' \in Probes
      BY <1>10 DEF Ask, End, RequestTypes
    <2> QED
      BY <1>10, <2>1, <2>2 DEF Ask, RequestTypes, qualificationVars
  <1>11. CASE Probing
    <2>1. ASSUME NEW status \in Statuses, NEW shown, ProbeEnds(status, shown)
          PROVE  probe' \in Probes
      <3>1. probe \in Probes /\ probe.roles \in Profiles
        BY DEF RequestTypes, Probes
      <3>2. [probe.roles EXCEPT ![probe.role] = status] \in Profiles
        BY <3>1 DEF Profiles
      <3> QED
        BY <2>1, <3>1, <3>2 DEF ProbeEnds, Probes, Roles
    <2>2. probe' \in Probes
      <3>1. CASE probe' = [probe EXCEPT !.running = TRUE]
        BY <3>1 DEF RequestTypes, Probes
      <3>2. CASE \E status \in RepliesTo(probe.role) \cap Statuses : ProbeEnds(status, TRUE)
        BY <3>2, <2>1
      <3>3. CASE End("failed")
        BY <3>3 DEF End
      <3>4. CASE \E run \in RunVerdicts(probe.role) : ProbeEnds(run.status, run.shown)
        BY <3>4, <2>1, RunStatuses
      <3> QED
        BY <1>11, <3>1, <3>2, <3>3, <3>4 DEF Probing
    <2> QED
      BY <1>11, <2>2 DEF Probing, RequestTypes
  <1>12. CASE Requalify
    <2>1. CASE stopped # "no" \/ ~Current(store)
      <3>1. store' \in Stores /\ probe' \in Probes /\ UNCHANGED <<context, roles, may, call>>
        BY <1>12, <2>1, CheckedStore DEF Requalify, End, RequestTypes
      <3> QED
        BY <1>12, <3>1 DEF Requalify, RequestTypes, qualificationVars
    <2>2. CASE stopped = "no" /\ Current(store)
      <3>1. Adopt(WithResult(store, probe.context, probe.roles), probe.context, probe.roles)
        BY <1>12, <2>2 DEF Requalify
      <3>2. probe.context \in Nat /\ probe.roles \in Profiles /\ store \in Stores
        BY DEF RequestTypes, Probes
      <3>3. WithResult(store, probe.context, probe.roles) \in Stores
        BY <3>2, ResultStored
      <3>4. /\ store' \in Stores /\ context' \in Nat /\ roles' \in Profiles /\ may' \subseteq Roles
            /\ call' \in Calls /\ probe' \in Probes
        BY <3>1, <3>2, <3>3, AdoptTypes
      <3> QED
        BY <1>12, <3>4 DEF Requalify, RequestTypes, qualificationVars
    <2> QED
      BY <2>1, <2>2
  <1>13. CASE Send
    <2>1. requests' \in 0 .. MaxRequests
      BY <1>13, Amounts DEF Send, RequestTypes
    <2>2. probe' \in Probes
      BY <1>13 DEF Send, End, RequestTypes
    <2> QED
      BY <1>13, <2>1, <2>2 DEF Send, RequestTypes, qualificationVars
  <1>14. CASE Answered
    BY <1>14 DEF Answered, End, RequestTypes, qualificationVars
  <1>15. CASE CorrectFormat
    <2>1. PICK estimate \in Needs : call' = [call EXCEPT !.estimate = estimate, !.observed = 0, !.attempt = 1]
      BY <1>15 DEF CorrectFormat
    <2>2. call' \in Calls
      BY <2>1, Amounts DEF RequestTypes, Calls
    <2> QED
      BY <1>15, <2>2 DEF CorrectFormat, RequestTypes, qualificationVars
  <1>16. CASE GrowOutput
    <2>1. PICK observed \in {0, call.estimate, call.estimate + Surplus} :
            \E output \in GrownOutputs(Output, Larger(call.estimate, observed),
                                       IF known THEN Limit ELSE context) :
              /\ learned' = output
              /\ call' = [call EXCEPT !.observed = observed, !.attempt = 1, !.cut = Output]
      BY <1>16 DEF GrowOutput
    <2>2. PICK output \in GrownOutputs(Output, Larger(call.estimate, observed),
                                       IF known THEN Limit ELSE context) :
              /\ learned' = output
              /\ call' = [call EXCEPT !.observed = observed, !.attempt = 1, !.cut = Output]
      BY <2>1
    <2>3. Output \in Nat /\ MinGain \in Nat /\ call.estimate \in Nat /\ Surplus \in Nat
      BY NeedIsNat, Tokens, Amounts DEF RequestTypes, Calls
    <2>4. output \in Nat
      BY <2>3 DEF GrownOutputs
    <2>5. observed \in Nat
      BY <2>3
    <2>6. call' \in Calls
      BY <2>2, <2>3, <2>5 DEF RequestTypes, Calls
    <2> QED
      BY <1>16, <2>2, <2>4, <2>6 DEF GrowOutput, RequestTypes, qualificationVars
  <1>17. CASE Drift
    BY <1>17 DEF Drift, RequestTypes, qualificationVars
  <1>18. CASE Stop
    BY <1>18 DEF Stop, RequestTypes, qualificationVars
  <1>19. CASE UNCHANGED vars
    BY <1>19 DEF vars, RequestTypes, qualificationVars
  <1> QED
    BY <1>1, <1>2, <1>3, <1>4, <1>5, <1>6, <1>7, <1>8, <1>9, <1>10, <1>11, <1>12, <1>13, <1>14,
       <1>15, <1>16, <1>17, <1>18, <1>19 DEF Next, Proceed

-----------------------------------------------------------------------------
(* Where the request is, and what that allows.                              *)

(* A step that is a context's growth: to it, or to the end of the call.     *)
LEMMA AdoptMoves ==
  ASSUME NEW s, NEW c, NEW profile, Adopt(s, c, profile)
  PROVE  \/ /\ pc' = "engine" /\ call' = [call EXCEPT !.then = "send"] /\ UNCHANGED outcome
            /\ context' = c /\ roles' = profile /\ Usable(call.role, profile)
            /\ store' = [s EXCEPT !.preferred = c]
         \/ /\ pc' = "ready" /\ outcome' = "role-qualification"
            /\ store' = s /\ UNCHANGED <<context, roles, may, call>>
  BY DEF Adopt, End

LEMMA WhereaboutsInv ==
  RequestTypes /\ Whereabouts /\ [Next]_vars => Whereabouts'
  <1> SUFFICES ASSUME RequestTypes, Whereabouts, [Next]_vars
               PROVE  Whereabouts'
    OBVIOUS
  <1> USE DEF Whereabouts
  <1>0. \A then : [call EXCEPT !.then = then].then = then
    BY DEF RequestTypes, Calls
  <1>1. CASE TestConnection
    BY <1>1 DEF TestConnection
  <1>2. CASE BeginBatch \/ BeginTarget \/ Preflight \/ BeginCall
    BY <1>2 DEF BeginBatch, BeginTarget, Preflight, BeginCall
  <1>3. CASE PromptRefused
    BY <1>3 DEF PromptRefused, ResourcesRefused, MethodsUnknown, End
  <1>4. CASE Attempt
    BY <1>4, <1>0 DEF Attempt, End
  <1>5. CASE SelectEngine
    BY <1>5 DEF SelectEngine, End
  <1>6. CASE Grow
    <2>1. CASE opt.required /\ ~Found(store, Grown, NeedsFixer)
      BY <1>6, <2>1 DEF Grow
    <2>2. CASE ~(opt.required /\ ~Found(store, Grown, NeedsFixer))
      BY <1>6, <1>0, <2>2, AdoptMoves DEF Grow
    <2> QED
      BY <2>1, <2>2
  <1>7. CASE Ask \/ Probing
    BY <1>7 DEF Ask, Probing, ProbeEnds, End
  <1>8. CASE Requalify
    BY <1>8, <1>0, AdoptMoves DEF Requalify, End
  <1>9. CASE Send \/ Answered
    BY <1>9 DEF Send, Answered, End
  <1>10. CASE CorrectFormat \/ GrowOutput
    BY <1>10 DEF CorrectFormat, GrowOutput
  <1>11. CASE Drift \/ Stop
    BY <1>11 DEF Drift, Stop
  <1>12. CASE UNCHANGED vars
    BY <1>12 DEF vars
  <1> QED
    BY <1>1, <1>2, <1>3, <1>4, <1>5, <1>6, <1>7, <1>8, <1>9, <1>10, <1>11, <1>12 DEF Next, Proceed

(* The engine and the evidence that a request needs before it leaves.       *)
LEMMA AllowancesInv ==
  RequestTypes /\ Whereabouts /\ Allowances /\ [Next]_vars => Allowances'
  <1> SUFFICES ASSUME RequestTypes, Whereabouts, Allowances, [Next]_vars
               PROVE  Allowances'
    OBVIOUS
  <1> USE DEF Allowances
  <1>c. ASSUME UNCHANGED world, Current(store), store'.invalid = store.invalid,
               store'.bound = store.bound
        PROVE  Current(store)'
    BY <1>c DEF Current
  <1>1. CASE TestConnection \/ BeginBatch \/ BeginTarget \/ Preflight \/ BeginCall
    BY <1>1 DEF TestConnection, BeginBatch, BeginTarget, Preflight, BeginCall
  <1>2. CASE PromptRefused
    BY <1>2 DEF PromptRefused, ResourcesRefused, MethodsUnknown, End
  <1>3. CASE Attempt
    BY <1>3, <1>c DEF Attempt, End, Checked
  <1>4. CASE SelectEngine
    <2>1. CASE ~opt.full
      BY <1>4, <1>c, <2>1 DEF SelectEngine, Whereabouts
    <2>2. CASE opt.full
      BY <1>4, <1>c, <2>2 DEF SelectEngine, Whereabouts, StillAllowed, Checked, End
    <2> QED
      BY <2>1, <2>2
  <1>5. CASE Grow
    <2>1. CASE opt.required /\ ~Found(store, Grown, NeedsFixer)
      BY <1>5, <2>1 DEF Grow
    <2>2. CASE ~(opt.required /\ ~Found(store, Grown, NeedsFixer))
      <3>1. Grown \in Nat /\ store \in Stores
        BY NeedIsNat DEF RequestTypes
      <3>2. /\ [store EXCEPT !.preferred = Grown].bound = store.bound
            /\ [store EXCEPT !.preferred = Grown].invalid = store.invalid
        BY <3>1, PreferredStored
      <3> DEFINE profile == IF opt.required THEN store.results[Grown] ELSE Unprobed
      <3>3. Adopt(store, Grown, profile)
        BY <1>5, <2>2 DEF Grow
      <3>4. /\ pc = "grow" /\ Current(store) /\ UNCHANGED <<world, opt, engine>>
            /\ opt.full => engine = "selected"
        BY <1>5 DEF Grow
      <3> HIDE DEF profile
      <3>5. \/ pc' = "engine" /\ store' = [store EXCEPT !.preferred = Grown]
            \/ pc' = "ready" /\ store' = store
        BY <3>3, AdoptMoves
      <3>6. /\ pc' \in {"engine", "ready"}
            /\ store'.invalid = store.invalid /\ store'.bound = store.bound
        BY <3>2, <3>5
      <3> QED
        BY <1>c, <3>4, <3>6
    <2> QED
      BY <2>1, <2>2
  <1>6. CASE Ask \/ Probing
    BY <1>6 DEF Ask, Probing, ProbeEnds, End
  <1>7. CASE Requalify
    <2> DEFINE s == WithResult(store, probe.context, probe.roles)
    <2>1. probe.context \in Nat /\ probe.roles \in Profiles /\ store \in Stores
      BY DEF RequestTypes, Probes
    <2>2. s \in Stores /\ s.bound = store.bound /\ s.invalid = store.invalid
      BY <2>1, ResultStored
    <2>3. LET t == [s EXCEPT !.preferred = probe.context]
          IN t.bound = store.bound /\ t.invalid = store.invalid
      BY <2>1, <2>2, PreferredStored
    <2> QED
      BY <1>7, <1>c, <2>3, AdoptMoves DEF Requalify, End
  <1>8. CASE Send \/ Answered
    BY <1>8 DEF Send, Answered, End
  <1>9. CASE CorrectFormat \/ GrowOutput
    BY <1>9 DEF CorrectFormat, GrowOutput
  <1>10. CASE Drift
    BY <1>10 DEF Drift, Awaiting
  <1>11. CASE Stop
    BY <1>11, <1>c DEF Stop
  <1>12. CASE UNCHANGED vars
    BY <1>12, <1>c DEF vars
  <1> QED
    BY <1>1, <1>2, <1>3, <1>4, <1>5, <1>6, <1>7, <1>8, <1>9, <1>10, <1>11, <1>12 DEF Next, Proceed

-----------------------------------------------------------------------------
(* The room of a prompt.                                                    *)

(* What a prompt needs and gets changes with these alone.                   *)
LEMMA SamePrompt ==
  ASSUME UNCHANGED <<known, learned>>, call'.role = call.role, call'.estimate = call.estimate,
         call'.observed = call.observed, call'.attempt = call.attempt
  PROVE  /\ Need' = Need
         /\ context' = context => (NeedFits' <=> NeedFits) /\ Grown' = Grown
         /\ NeedFits' <=> Fits(call.role, context', learned, Need)
  BY DEF NeedFits, Grown, Need

LEMMA RoutedPrompt ==
  ASSUME RequestTypes, NEW then
  PROVE  LET routed == [call EXCEPT !.then = then]
         IN /\ routed.role = call.role /\ routed.estimate = call.estimate
            /\ routed.observed = call.observed /\ routed.attempt = call.attempt
            /\ routed.cut = call.cut /\ routed.then = then
  BY DEF RequestTypes, Calls

(* A context is grown to one that holds the prompt.                         *)
LEMMA GrownFits ==
  ASSUME RequestTypes, Grown # 0
  PROVE  Fits(call.role, Grown, learned, Need)
  <1>1. Need \in Nat /\ context \in Nat /\ learned \in Nat /\ Limit \in Nat
    BY NeedIsNat, Contexts DEF RequestTypes
  <1>2. Grown = GrownContext(call.role, context, learned, Need, Limit)
    BY DEF Grown
  <1> QED
    BY <1>1, <1>2, GrownHolds

(* The growth of a context ends with a prompt that fits, or ends the call.  *)
LEMMA AdoptRoom ==
  ASSUME RequestTypes, Grown # 0, NEW s, NEW profile, Adopt(s, Grown, profile),
         UNCHANGED <<known, learned>>
  PROVE  Room'
  <1>1. CASE pc' = "ready"
    BY <1>1 DEF Room
  <1>2. CASE pc' = "engine" /\ call' = [call EXCEPT !.then = "send"] /\ context' = Grown
    <2>1. call'.then = "send" /\ (NeedFits' <=> Fits(call.role, context', learned, Need))
      BY <1>2, SamePrompt, RoutedPrompt
    <2>2. NeedFits'
      BY <1>2, <2>1, GrownFits
    <2> QED
      BY <1>2, <2>1, <2>2 DEF Room
  <1> QED
    BY <1>1, <1>2, AdoptMoves

LEMMA RoomInv == RequestTypes /\ Room /\ [Next]_vars => Room'
  <1> SUFFICES ASSUME RequestTypes, Room, [Next]_vars
               PROVE  Room'
    OBVIOUS
  <1>1. CASE TestConnection \/ BeginBatch \/ BeginTarget \/ Preflight \/ BeginCall
    BY <1>1 DEF Room, TestConnection, BeginBatch, BeginTarget, Preflight, BeginCall
  <1>2. CASE PromptRefused
    BY <1>2 DEF Room, PromptRefused, ResourcesRefused, MethodsUnknown, End
  <1>3. CASE Attempt
    <2>1. CASE pc' = "ready"
      BY <2>1 DEF Room
    <2>2. CASE /\ pc' = "engine" /\ call' = [call EXCEPT !.then = IF NeedFits THEN "send" ELSE "grow"]
               /\ NeedFits \/ Grown # 0
      <3>1. UNCHANGED <<known, learned, context>>
        BY <1>3 DEF Attempt, qualificationVars
      <3>2. /\ call'.then = IF NeedFits THEN "send" ELSE "grow"
            /\ (NeedFits' <=> NeedFits) /\ Grown' = Grown
        BY <2>2, <3>1, SamePrompt, RoutedPrompt
      <3> QED
        BY <2>2, <3>2 DEF Room
    <2> QED
      BY <1>3, <2>1, <2>2 DEF Attempt, End
  <1>4. CASE SelectEngine
    <2>1. pc = "engine" /\ pc' \in {call.then, "ready"} /\ UNCHANGED <<known, learned, context, call>>
      BY <1>4 DEF SelectEngine, End, qualificationVars
    <2>2. (NeedFits' <=> NeedFits) /\ Grown' = Grown
      BY <2>1, SamePrompt
    <2>3. call.then \in {"none", "send", "grow"}
      BY DEF RequestTypes, Calls
    <2> QED
      BY <2>1, <2>2, <2>3 DEF Room
  <1>5. CASE Grow
    <2>1. pc = "grow" /\ ~NeedFits /\ Grown # 0 /\ UNCHANGED <<known, learned>>
      BY <1>5 DEF Grow, Room, qualificationVars
    <2>2. CASE opt.required /\ ~Found(store, Grown, NeedsFixer)
      <3>1. pc' = "ask" /\ UNCHANGED <<context, call>>
            /\ probe' = [NoProbe EXCEPT !.role = "writer", !.fixer = NeedsFixer, !.context = Grown]
        BY <1>5, <2>2 DEF Grow
      <3>2. probe'.context = Grown
        BY <3>1 DEF NoProbe
      <3>3. (NeedFits' <=> NeedFits) /\ Grown' = Grown
        BY <2>1, <3>1, SamePrompt
      <3> QED
        BY <2>1, <3>1, <3>2, <3>3 DEF Room
    <2>3. CASE ~(opt.required /\ ~Found(store, Grown, NeedsFixer))
      BY <1>5, <2>1, <2>3, AdoptRoom DEF Grow
    <2> QED
      BY <2>2, <2>3
  <1>6. CASE Ask
    <2>1. pc = "ask" /\ UNCHANGED <<known, learned, context, call>>
          /\ (pc' = "ready" \/ (pc' = "probing" /\ probe' = probe))
      BY <1>6 DEF Ask, End, qualificationVars
    <2>2. (NeedFits' <=> NeedFits) /\ Grown' = Grown
      BY <2>1, SamePrompt
    <2> QED
      BY <2>1, <2>2 DEF Room
  <1>7. CASE Probing
    <2>1. pc = "probing" /\ UNCHANGED <<known, learned, context, call>>
      BY <1>7 DEF Probing
    <2>2. (NeedFits' <=> NeedFits) /\ Grown' = Grown
      BY <2>1, SamePrompt
    <2>3. \A status, shown : ProbeEnds(status, shown) =>
            pc' \in {"requalify", "ask"} /\ probe'.context = probe.context
      BY DEF ProbeEnds, RequestTypes, Probes
    <2>4. [probe EXCEPT !.running = TRUE].context = probe.context
      BY DEF RequestTypes, Probes
    <2>5. \/ pc' = "ready"
          \/ pc' \in {"requalify", "ask", "probing"} /\ probe'.context = probe.context
      <3>1. CASE probe' = [probe EXCEPT !.running = TRUE] /\ UNCHANGED pc
        BY <2>1, <2>4, <3>1
      <3>2. CASE \E status \in RepliesTo(probe.role) \cap Statuses : ProbeEnds(status, TRUE)
        BY <2>3, <3>2
      <3>3. CASE End("failed")
        BY <3>3 DEF End
      <3>4. CASE \E run \in RunVerdicts(probe.role) : ProbeEnds(run.status, run.shown)
        BY <2>3, <3>4
      <3> QED
        BY <1>7, <3>1, <3>2, <3>3, <3>4 DEF Probing
    <2> QED
      BY <2>1, <2>2, <2>5 DEF Room
  <1>8. CASE Requalify
    <2>1. pc = "requalify" /\ Grown # 0 /\ probe.context = Grown /\ UNCHANGED <<known, learned>>
      BY <1>8 DEF Requalify, Room, qualificationVars
    <2>2. CASE pc' = "ready"
      BY <2>2 DEF Room
    <2>3. CASE Adopt(WithResult(store, Grown, probe.roles), Grown, probe.roles)
      BY <2>1, <2>3, AdoptRoom
    <2> QED
      BY <1>8, <2>1, <2>2, <2>3 DEF Requalify, End
  <1>9. CASE Send \/ Answered
    BY <1>9 DEF Room, Send, Answered, End
  <1>10. CASE CorrectFormat \/ GrowOutput
    BY <1>10 DEF Room, CorrectFormat, GrowOutput
  <1>11. CASE Drift \/ Stop \/ UNCHANGED vars
    <2>1. UNCHANGED <<known, learned, context, call, pc, probe>>
      BY <1>11 DEF Drift, Stop, vars, qualificationVars
    <2>2. (NeedFits' <=> NeedFits) /\ Grown' = Grown
      BY <2>1, SamePrompt
    <2> QED
      BY <2>1, <2>2 DEF Room
  <1> QED
    BY <1>1, <1>2, <1>3, <1>4, <1>5, <1>6, <1>7, <1>8, <1>9, <1>10, <1>11 DEF Next, Proceed

(* A refusal says what is so: it is made where nothing else is possible,    *)
(* and stands until the next call or target begins.                         *)
LEMMA RefusalInv ==
  RequestTypes /\ Whereabouts /\ Room /\ RefusalIsTrue /\ [Next]_vars => RefusalIsTrue'
  <1> SUFFICES ASSUME RequestTypes, Whereabouts, Room, RefusalIsTrue, [Next]_vars,
                      outcome' = "prompt-budget"
               PROVE  \A c \in context' .. IF known' THEN Limit ELSE context' :
                        ~Fits(call'.role, c, learned', Need')
    BY DEF RefusalIsTrue
  <1>k. ASSUME UNCHANGED <<known, learned, context, call, outcome>>
        PROVE  \A c \in context' .. IF known' THEN Limit ELSE context' :
                 ~Fits(call'.role, c, learned', Need')
    BY <1>k, SamePrompt DEF RefusalIsTrue
  <1>1. CASE Attempt
    <2>1. CASE outcome' = outcome
      BY <1>1, <2>1 DEF Attempt, Whereabouts
    <2>2. CASE outcome' # outcome
      <3>1. ~NeedFits /\ Grown = 0 /\ UNCHANGED <<call, known, learned, context>>
        BY <1>1, <2>2 DEF Attempt, End, qualificationVars
      <3>2. Need \in Nat /\ context \in Nat /\ learned \in Nat /\ Limit \in Nat
        BY NeedIsNat, Contexts DEF RequestTypes
      <3>3. \A c \in context .. IF known THEN Limit ELSE context :
              ~Fits(call.role, c, learned, Need)
        <4>1. CASE known
          <5>1. GrownContext(call.role, context, learned, Need, Limit) = 0
            BY <3>1, <4>1 DEF Grown
          <5>2. ~Fits(call.role, context, learned, Need)
            BY <3>1 DEF NeedFits
          <5> QED
            BY <3>2, <4>1, <5>1, <5>2, NothingHolds
        <4>2. CASE ~known
          <5>1. \A c \in context .. context : c = context
            BY <3>2
          <5> QED
            BY <3>1, <4>2, <5>1 DEF NeedFits
        <4> QED
          BY <4>1, <4>2
      <3> QED
        BY <3>1, <3>3, SamePrompt
    <2> QED
      BY <2>1, <2>2
  <1>2. CASE Send
    BY <1>2 DEF Send, End, Room, Whereabouts
  <1>3. CASE SelectEngine \/ Ask \/ Answered
    BY <1>3 DEF SelectEngine, Ask, Answered, End, Whereabouts
  <1>4. CASE Probing
    BY <1>4 DEF Probing, ProbeEnds, End, Whereabouts
  <1>5. CASE Grow
    BY <1>5, AdoptMoves DEF Grow, Whereabouts
  <1>6. CASE Requalify
    BY <1>6, AdoptMoves DEF Requalify, End, Whereabouts
  <1>7. CASE TestConnection \/ BeginBatch
    BY <1>7 DEF TestConnection, BeginBatch, Whereabouts
  <1>8. CASE BeginTarget \/ BeginCall
    BY <1>8 DEF BeginTarget, BeginCall
  <1>9. CASE PromptRefused
    BY <1>9 DEF PromptRefused, ResourcesRefused, MethodsUnknown, End
  <1>10. CASE CorrectFormat \/ GrowOutput
    BY <1>10 DEF CorrectFormat, GrowOutput, Whereabouts
  <1>11. CASE Preflight \/ Drift \/ Stop \/ UNCHANGED vars
    BY <1>11, <1>k DEF Preflight, Drift, Stop, vars, qualificationVars
  <1> QED
    BY <1>1, <1>2, <1>3, <1>4, <1>5, <1>6, <1>7, <1>8, <1>9, <1>10, <1>11 DEF Next, Proceed

-----------------------------------------------------------------------------
(* A reply that was cut off.                                                *)

LEMMA LongerInv == RequestTypes /\ Longer /\ [Next]_vars => Longer'
  <1> SUFFICES ASSUME RequestTypes, Longer, [Next]_vars
               PROVE  Longer'
    OBVIOUS
  <1>k. ASSUME call'.cut = call.cut, call'.role = call.role, learned' = learned
        PROVE  Longer'
    BY <1>k DEF Longer
  <1>n. ASSUME call'.cut = 0 PROVE Longer'
    BY <1>n DEF Longer
  <1>r. ASSUME NEW then, call' = [call EXCEPT !.then = then], learned' = learned
        PROVE  Longer'
    BY <1>k, <1>r, RoutedPrompt
  <1>z. NoCall.cut = 0 /\ \A role, estimate : [NoCall EXCEPT !.role = role, !.estimate = estimate].cut = 0
    BY DEF NoCall
  <1>1. CASE BeginTarget \/ PromptRefused
    BY <1>1, <1>n, <1>z DEF BeginTarget, PromptRefused
  <1>2. CASE BeginCall
    BY <1>2, <1>n, <1>z DEF BeginCall, Prompted
  <1>3. CASE Attempt
    <2>1. /\ learned' = learned
          /\ call' = call \/ call' = [call EXCEPT !.then = IF NeedFits THEN "send" ELSE "grow"]
      BY <1>3 DEF Attempt
    <2> QED
      BY <1>k, <1>r, <2>1
  <1>4. CASE Grow
    <2>1. learned' = learned
      BY <1>4 DEF Grow
    <2>2. call' = call \/ call' = [call EXCEPT !.then = "send"]
      BY <1>4, AdoptMoves DEF Grow
    <2> QED
      BY <1>k, <1>r, <2>1, <2>2
  <1>5. CASE Requalify
    <2>1. learned' = learned
      BY <1>5 DEF Requalify
    <2>2. call' = call \/ call' = [call EXCEPT !.then = "send"]
      BY <1>5, AdoptMoves DEF Requalify
    <2> QED
      BY <1>k, <1>r, <2>1, <2>2
  <1>6. CASE CorrectFormat
    BY <1>6, <1>k DEF CorrectFormat, RequestTypes, Calls
  <1>7. CASE GrowOutput
    <2>1. PICK observed \in {0, call.estimate, call.estimate + Surplus} :
            \E output \in GrownOutputs(Output, Larger(call.estimate, observed),
                                       IF known THEN Limit ELSE context) :
              /\ learned' = output
              /\ call' = [call EXCEPT !.observed = observed, !.attempt = 1, !.cut = Output]
      BY <1>7 DEF GrowOutput
    <2>2. PICK output \in GrownOutputs(Output, Larger(call.estimate, observed),
                                       IF known THEN Limit ELSE context) :
              /\ learned' = output
              /\ call' = [call EXCEPT !.observed = observed, !.attempt = 1, !.cut = Output]
      BY <2>1
    <2>3. Output \in Nat /\ MinGain \in Nat
      BY NeedIsNat, Tokens
    <2>4. output >= Output + MinGain
      BY <2>3 DEF GrownOutputs
    <2>5. call'.cut = Output /\ call'.role = "writer"
      BY <1>7, <2>2 DEF GrowOutput, RequestTypes, Calls
    <2> QED
      BY <2>2, <2>4, <2>5 DEF Longer
  <1>8. CASE TestConnection \/ BeginBatch \/ Preflight \/ SelectEngine \/ Ask \/ Probing
    BY <1>8, <1>k DEF TestConnection, BeginBatch, Preflight, SelectEngine, Ask, Probing
  <1>9. CASE Send \/ Answered \/ Drift \/ Stop \/ UNCHANGED vars
    BY <1>9, <1>k DEF Send, Answered, Drift, Stop, vars
  <1> QED
    BY <1>1, <1>2, <1>3, <1>4, <1>5, <1>6, <1>7, <1>8, <1>9 DEF Next, Proceed

-----------------------------------------------------------------------------
(* What the probes have shown.                                              *)

(* More probes and another bound version do not take away what was shown.   *)
LEMMA StillShown ==
  ASSUME NEW profile, NEW c, NEW old, NEW new, old \subseteq new, proven \subseteq proven',
         Shows(profile, c, old)
  PROVE  Shows(profile, c, new)'
  BY DEF Shows

LEMMA NothingShown ==
  \A c, versions : Shows(Unprobed, c, versions)
  BY DEF Shows, Unprobed, Statuses

LEMMA StoreMoves ==
  ASSUME RequestTypes, [Next]_vars
  PROVE  /\ {None, store.bound} \subseteq {None, store'.bound}
         /\ \/ store'.results \in {store.results, [c \in {} |-> Unprobed]}
            \/ store'.results = WithResult(store, probe.context, probe.roles).results
  <1>0. store \in Stores /\ Grown \in Nat
    BY NeedIsNat DEF RequestTypes
  <1>1. CASE BeginTarget \/ Attempt \/ SelectEngine
    <2>1. store' \in {store, Checked}
      BY <1>1 DEF BeginTarget, Attempt, SelectEngine
    <2> QED
      BY <1>0, <2>1, CheckedStore
  <1>2. CASE Preflight
    <2>1. PICK version \in {0, 1} : store' = BindDependencies(version)
      BY <1>2 DEF Preflight
    <2> QED
      BY <1>0, <2>1, BoundStore
  <1>3. CASE Grow
    <2>1. store' = store \/ store' = [store EXCEPT !.preferred = Grown]
      BY <1>3, AdoptMoves DEF Grow
    <2>2. /\ [store EXCEPT !.preferred = Grown].bound = store.bound
          /\ [store EXCEPT !.preferred = Grown].results = store.results
      BY <1>0, PreferredStored
    <2> QED
      BY <2>1, <2>2
  <1>4. CASE Requalify
    <2> DEFINE s == WithResult(store, probe.context, probe.roles)
    <2>1. store' \in {store, Cleared, s, [s EXCEPT !.preferred = probe.context]}
      BY <1>4, AdoptMoves DEF Requalify
    <2>2. probe.context \in Nat /\ probe.roles \in Profiles
      BY DEF RequestTypes, Probes
    <2>3. s \in Stores /\ s.bound = store.bound
      BY <1>0, <2>2, ResultStored
    <2> HIDE DEF s
    <2>4. /\ [s EXCEPT !.preferred = probe.context].bound = s.bound
          /\ [s EXCEPT !.preferred = probe.context].results = s.results
      BY <2>2, <2>3, PreferredStored
    <2>5. store'.bound = store.bound
          /\ store'.results \in {store.results, [c \in {} |-> Unprobed], s.results}
      BY <1>0, <2>1, <2>3, <2>4, CheckedStore
    <2> QED
      BY <2>5 DEF s
  <1>5. CASE \/ TestConnection \/ BeginBatch \/ BeginCall \/ PromptRefused \/ Ask \/ Probing \/ Send
             \/ Answered \/ CorrectFormat \/ GrowOutput \/ Drift \/ Stop \/ UNCHANGED vars
    <2>1. store' = store
      BY <1>5 DEF TestConnection, BeginBatch, BeginCall, PromptRefused, Ask, Probing, Send,
                  Answered, CorrectFormat, GrowOutput, Drift, Stop, vars
    <2> QED
      BY <2>1
  <1> QED
    BY <1>1, <1>2, <1>3, <1>4, <1>5 DEF Next, Proceed

LEMMA VerdictShows ==
  ASSUME RequestTypes, NEW t \in Tests, NEW status \in Statuses, NEW shown,
         status = "verified" => shown, Verdict(t, status, shown),
         Shows(saved.roles, saved.context, {None}),
         \A u \in Tests : Shows(test[u].roles, test[u].context, {None})
  PROVE  /\ Shows(saved.roles, saved.context, {None})'
         /\ \A u \in Tests : Shows(test[u].roles, test[u].context, {None})'
         /\ proven \subseteq proven'
  <1> DEFINE role == test[t].role
             verdicts == [test[t].roles EXCEPT ![role] = status]
             next == IF status = "verified" THEN NextRole[role] ELSE "none"
             row == [test[t] EXCEPT !.role = next, !.running = FALSE, !.roles = verdicts]
  <1>1. /\ test' = [test EXCEPT ![t] = IF next = "none" THEN Idle ELSE row]
        /\ saved' = IF next = "none" THEN Stored(test[t].context, verdicts) ELSE saved
        /\ proven' = IF status = "verified" /\ shown
                     THEN proven \cup {<<role, test[t].context, None>>} ELSE proven
    BY DEF Verdict
  <1>2. test \in [Tests -> Connections] /\ test[t].roles \in [Roles -> Statuses]
    BY DEF RequestTypes, Connections, Profiles
  <1>3. row.roles = verdicts /\ row.context = test[t].context
    BY <1>2 DEF Connections
  <1>4. \A r \in Roles : verdicts[r] = "verified" => <<r, test[t].context, None>> \in proven'
    <2> SUFFICES ASSUME NEW r \in Roles, verdicts[r] = "verified"
                 PROVE  <<r, test[t].context, None>> \in proven'
      OBVIOUS
    <2>1. CASE r = role
      BY <1>1, <1>2, <2>1
    <2>2. CASE r # role
      BY <1>1, <1>2, <2>2 DEF Shows
    <2> QED
      BY <2>1, <2>2
  <1>5. Idle.roles = Unprobed
    BY DEF Idle
  <1> HIDE DEF next, row, verdicts
  <1>6. proven \subseteq proven'
    BY <1>1
  <1>7. ASSUME NEW u \in Tests PROVE Shows(test[u].roles, test[u].context, {None})'
    <2>1. CASE u = t /\ next # "none"
      BY <1>1, <1>2, <1>3, <1>4, <2>1 DEF Shows
    <2>2. CASE u = t /\ next = "none"
      <3>1. test'[u].roles = Unprobed
        BY <1>1, <1>2, <1>5, <2>2
      <3> QED
        BY <3>1 DEF Shows, Unprobed
    <2>3. CASE u # t
      BY <1>1, <1>2, <1>6, <2>3 DEF Shows
    <2> QED
      BY <2>1, <2>2, <2>3
  <1>8. Shows(saved.roles, saved.context, {None})'
    BY <1>1, <1>4, <1>6 DEF Shows, Stored
  <1> QED
    BY <1>6, <1>7, <1>8

LEMMA ConnectionShows ==
  ASSUME VerdictsTell, RequestTypes, QualificationNext,
         Shows(saved.roles, saved.context, {None}),
         \A u \in Tests : Shows(test[u].roles, test[u].context, {None})
  PROVE  /\ Shows(saved.roles, saved.context, {None})'
         /\ \A u \in Tests : Shows(test[u].roles, test[u].context, {None})'
         /\ proven \subseteq proven'
  <1>1. ASSUME NEW c \in Settings, SetContext(c)
        PROVE  UNCHANGED <<saved, test, proven>>
    BY <1>1 DEF SetContext
  <1>2. ASSUME NEW t \in Tests, StartTest(t)
        PROVE  /\ saved' = NoProfile /\ UNCHANGED proven
               /\ \A u \in Tests : test'[u] = test[u] \/ test'[u].roles = Unprobed
    <2>1. [Idle EXCEPT !.role = "writer", !.context = Resolved].roles = Unprobed
      BY DEF Idle
    <2> QED
      BY <1>2, <2>1 DEF StartTest, RequestTypes
  <1>3. ASSUME NEW t \in Tests, TestReplies(t)
        PROVE  \/ UNCHANGED <<saved, proven>> /\ test' = [test EXCEPT ![t].running = TRUE]
               \/ \E status \in Statuses : Verdict(t, status, TRUE)
               \/ Verdict(t, "missing", FALSE)
    BY <1>3 DEF TestReplies
  <1>4. ASSUME NEW t \in Tests, TestRuns(t)
        PROVE  \E status \in Statuses : \E shown :
                 (status = "verified" => shown) /\ Verdict(t, status, shown)
    <2>1. PICK run \in RunVerdicts(test[t].role) : Verdict(t, run.status, run.shown)
      BY <1>4 DEF TestRuns
    <2>2. run.status = "verified" => run.shown
      BY DEF RunVerdicts, VerdictsTell
    <2>3. run.status \in Statuses
      BY RunStatuses
    <2> QED
      BY <2>1, <2>2, <2>3
  <1>5. CASE \E c \in Settings : SetContext(c)
    BY <1>1, <1>5 DEF Shows
  <1>6. ASSUME NEW t \in Tests, StartTest(t)
        PROVE  /\ Shows(saved.roles, saved.context, {None})'
               /\ \A u \in Tests : Shows(test[u].roles, test[u].context, {None})'
               /\ proven \subseteq proven'
    <2>1. NoProfile.roles = Unprobed
      BY DEF NoProfile
    <2>2. \A r \in Roles : Unprobed[r] # "verified"
      BY DEF Unprobed
    <2> QED
      BY <1>2, <1>6, <2>1, <2>2 DEF Shows
  <1>7. ASSUME NEW t \in Tests, TestReplies(t)
        PROVE  /\ Shows(saved.roles, saved.context, {None})'
               /\ \A u \in Tests : Shows(test[u].roles, test[u].context, {None})'
               /\ proven \subseteq proven'
    <2>1. CASE UNCHANGED <<saved, proven>> /\ test' = [test EXCEPT ![t].running = TRUE]
      <3>1. \A u \in Tests : test'[u].roles = test[u].roles /\ test'[u].context = test[u].context
        BY <2>1 DEF RequestTypes, Connections
      <3> QED
        BY <2>1, <3>1 DEF Shows
    <2>2. CASE \E status \in Statuses : Verdict(t, status, TRUE)
      BY <2>2, VerdictShows
    <2>3. CASE Verdict(t, "missing", FALSE)
      <3>1. "missing" \in Statuses
        BY DEF Statuses
      <3> QED
        BY <2>3, <3>1, VerdictShows
    <2> QED
      BY <1>3, <1>7, <2>1, <2>2, <2>3
  <1>8. ASSUME NEW t \in Tests, TestRuns(t)
        PROVE  /\ Shows(saved.roles, saved.context, {None})'
               /\ \A u \in Tests : Shows(test[u].roles, test[u].context, {None})'
               /\ proven \subseteq proven'
    BY <1>4, <1>8, VerdictShows
  <1> QED
    BY <1>5, <1>6, <1>7, <1>8 DEF QualificationNext

(* A probe of this batch shows what it verified for the bound versions.     *)
LEMMA ProbeShows ==
  ASSUME RequestTypes, NEW status \in Statuses, NEW shown, status = "verified" => shown,
         ProbeEnds(status, shown), UNCHANGED store,
         Shows(probe.roles, probe.context, {None, store.bound})
  PROVE  /\ Shows(probe.roles, probe.context, {None, store.bound})'
         /\ proven \subseteq proven'
  <1>1. probe \in Probes /\ probe.roles \in [Roles -> Statuses]
    BY DEF RequestTypes, Probes, Profiles
  <1>2. /\ probe'.roles = [probe.roles EXCEPT ![probe.role] = status]
        /\ probe'.context = probe.context
        /\ proven' = IF status = "verified" /\ shown
                     THEN proven \cup {<<probe.role, probe.context, store.bound>>} ELSE proven
    BY <1>1 DEF ProbeEnds, Probes
  <1>3. ASSUME NEW r \in Roles, probe'.roles[r] = "verified"
        PROVE  \E version \in {None, store.bound} : <<r, probe.context, version>> \in proven'
    <2>1. CASE r = probe.role
      BY <1>1, <1>2, <1>3, <2>1
    <2>2. CASE r # probe.role
      BY <1>1, <1>2, <1>3, <2>2 DEF Shows
    <2> QED
      BY <2>1, <2>2
  <1> QED
    BY <1>2, <1>3 DEF Shows

LEMMA EvidenceInv ==
  VerdictsTell /\ RequestTypes /\ Whereabouts /\ Evidence /\ [Next]_vars => Evidence'
  <1> SUFFICES ASSUME VerdictsTell, RequestTypes, Whereabouts, Evidence, [Next]_vars
               PROVE  Evidence'
    OBVIOUS
  <1> DEFINE bound == {None, store.bound}
  <1>1. CASE BeginBatch
    <2>1. /\ context' = Resolved /\ roles' = AppliedTo(saved, Resolved)
          /\ proven' = {p \in proven : p[2] = context'}
          /\ saved' = Stored(context', roles') /\ test' = [t \in Tests |-> Idle]
          /\ UNCHANGED <<store, probe>>
      BY <1>1 DEF BeginBatch
    <2>2. store = NoStore /\ probe = NoProbe
      BY <1>1 DEF BeginBatch, Whereabouts
    <2>3. Shows(AppliedTo(saved, Resolved), Resolved, {None})
      BY NothingShown DEF AppliedTo, Evidence
    <2>4. \A r \in Roles : roles'[r] = "verified" => <<r, context', None>> \in proven'
      BY <2>1, <2>3 DEF Shows
    <2>5. saved'.roles = roles' /\ saved'.context = context'
      BY <2>1 DEF Stored
    <2>6. Shows(saved.roles, saved.context, {None})' /\ Shows(roles, context, {None, store.bound})'
      BY <2>4, <2>5 DEF Shows
    <2>7. \A t \in Tests : test'[t].roles = Unprobed
      BY <2>1 DEF Idle
    <2>8. probe'.roles = Unprobed /\ DOMAIN store'.results = {}
      BY <2>1, <2>2 DEF NoProbe, NoStore
    <2>9. \A r \in Roles : Unprobed[r] # "verified"
      BY DEF Unprobed
    <2> QED
      BY <2>6, <2>7, <2>8, <2>9 DEF Evidence, Shows
  <1>2. CASE ~BeginBatch
    <2>1. /\ Shows(saved.roles, saved.context, {None})'
          /\ \A t \in Tests : Shows(test[t].roles, test[t].context, {None})'
          /\ proven \subseteq proven'
      <3>1. CASE TestConnection
        BY <3>1, ConnectionShows DEF TestConnection, Evidence
      <3>2. CASE ~TestConnection
        <4>1. UNCHANGED <<saved, test>> /\ (proven' = proven \/ Probing)
          BY <1>2, <3>2 DEF Next, Proceed, BeginTarget, Preflight, BeginCall, PromptRefused,
             Attempt, SelectEngine, Grow, Ask, Probing, Requalify, Send, Answered, CorrectFormat,
             GrowOutput, Drift, Stop, vars, qualificationVars
        <4>2. Probing => proven \subseteq proven'
          BY DEF Probing, ProbeEnds
        <4>3. proven \subseteq proven'
          BY <4>1, <4>2
        <4> QED
          BY <4>1, <4>3 DEF Evidence, Shows
      <3> QED
        BY <3>1, <3>2
    <2>2. bound \subseteq {None, store'.bound}
      BY StoreMoves
    <2>3. ASSUME NEW profile, NEW c, Shows(profile, c, bound)
          PROVE  \A r \in Roles : profile[r] = "verified" =>
                   \E version \in {None, store'.bound} : <<r, c, version>> \in proven'
      BY <2>1, <2>2, <2>3 DEF Shows
    <2>4. \A c \in DOMAIN store'.results : Shows(store.results[c], c, {None, store.bound})'
      <3>1. CASE store'.results = store.results
        BY <2>3, <3>1 DEF Evidence, Shows
      <3>2. CASE store'.results = [c \in {} |-> Unprobed]
        BY <3>2
      <3>3. CASE store'.results = WithResult(store, probe.context, probe.roles).results
        <4> DEFINE results == WithResult(store, probe.context, probe.roles).results
        <4>1. store \in Stores /\ probe.context \in Nat /\ probe.roles \in [Roles -> Statuses]
          BY DEF RequestTypes, Probes, Profiles
        <4>0. probe.roles \in Profiles
          BY <4>1 DEF Profiles
        <4>2. \A d \in DOMAIN results :
                 \/ d \in DOMAIN store.results /\ results[d] = store.results[d]
                 \/ d = probe.context /\ results[d] = probe.roles
                 \/ /\ d = probe.context /\ probe.context \in DOMAIN store.results
                    /\ results[d] = [probe.roles EXCEPT !.fixer = store.results[probe.context].fixer]
          BY <4>0, <4>1, ResultStored
        <4> HIDE DEF results
        <4>3. ASSUME NEW d \in DOMAIN results, NEW r \in Roles, results[d][r] = "verified"
              PROVE  \E version \in bound : <<r, d, version>> \in proven
          <5>1. CASE d \in DOMAIN store.results /\ results[d] = store.results[d]
            BY <4>3, <5>1 DEF Evidence, Shows
          <5>2. CASE d = probe.context /\ results[d] = probe.roles
            BY <4>3, <5>2 DEF Evidence, Shows
          <5>3. CASE /\ d = probe.context /\ probe.context \in DOMAIN store.results
                     /\ results[d] = [probe.roles EXCEPT !.fixer = store.results[probe.context].fixer]
            <6>1. CASE r = "fixer"
              <7>1. store.results[d]["fixer"] = "verified"
                BY <4>1, <4>3, <5>3, <6>1
              <7> QED
                BY <5>3, <6>1, <7>1 DEF Evidence, Shows
            <6>2. CASE r # "fixer"
              <7>1. probe.roles[r] = "verified"
                BY <4>1, <4>3, <5>3, <6>2
              <7> QED
                BY <5>3, <7>1 DEF Evidence, Shows
            <6> QED
              BY <6>1, <6>2
          <5> QED
            BY <4>2, <5>1, <5>2, <5>3
        <4>4. \A d \in DOMAIN results : Shows(results[d], d, bound)
          BY <4>3 DEF Shows
        <4>5. store'.results = results
          BY <3>3 DEF results
        <4> QED
          BY <2>3, <4>4, <4>5 DEF Shows
      <3> QED
        BY <3>1, <3>2, <3>3, StoreMoves
    <2>5. Shows(probe.roles, probe.context, {None, store.bound})'
      <3>1. ASSUME probe'.roles = Unprobed
            PROVE  Shows(probe.roles, probe.context, {None, store.bound})'
        BY <3>1 DEF Shows, Unprobed
      <3>2. ASSUME probe'.roles = probe.roles, probe'.context = probe.context
            PROVE  Shows(probe.roles, probe.context, {None, store.bound})'
        BY <2>3, <3>2 DEF Evidence, Shows
      <3>3. NoProbe.roles = Unprobed
        BY DEF NoProbe
      <3>4. CASE Probing
        <4>1. UNCHANGED store
          BY <3>4 DEF Probing
        <4>2. Shows(probe.roles, probe.context, {None, store.bound})
          BY DEF Evidence
        <4>3. CASE probe' = [probe EXCEPT !.running = TRUE]
          BY <3>2, <4>3 DEF RequestTypes, Probes
        <4>4. CASE \E status \in RepliesTo(probe.role) \cap Statuses : ProbeEnds(status, TRUE)
          BY <4>1, <4>2, <4>4, ProbeShows
        <4>5. CASE End("failed")
          BY <3>1, <3>3, <4>5 DEF End
        <4>6. CASE \E run \in RunVerdicts(probe.role) : ProbeEnds(run.status, run.shown)
          <5>1. PICK run \in RunVerdicts(probe.role) : ProbeEnds(run.status, run.shown)
            BY <4>6
          <5>2. run.status \in Statuses /\ (run.status = "verified" => run.shown)
            BY RunStatuses DEF RunVerdicts, VerdictsTell
          <5> QED
            BY <4>1, <4>2, <5>1, <5>2, ProbeShows
        <4> QED
          BY <3>4, <4>3, <4>4, <4>5, <4>6 DEF Probing
      <3>5. CASE Grow
        <4>1. CASE opt.required /\ ~Found(store, Grown, NeedsFixer)
          <5>1. probe' = [NoProbe EXCEPT !.role = "writer", !.fixer = NeedsFixer, !.context = Grown]
            BY <3>5, <4>1 DEF Grow
          <5> QED
            BY <3>1, <5>1 DEF NoProbe
        <4>2. CASE ~(opt.required /\ ~Found(store, Grown, NeedsFixer))
          BY <3>1, <3>3, <3>5, <4>2 DEF Grow, Adopt, End
        <4> QED
          BY <4>1, <4>2
      <3>6. CASE Requalify
        BY <3>1, <3>3, <3>6 DEF Requalify, Adopt, End
      <3>7. CASE ~(Probing \/ Grow \/ Requalify)
        <4>1. probe' \in {probe, NoProbe}
          BY <1>2, <3>7 DEF Next, Proceed, TestConnection, BeginTarget, Preflight, BeginCall,
             PromptRefused, ResourcesRefused, MethodsUnknown, Attempt, SelectEngine, Ask, Send,
             Answered, CorrectFormat, GrowOutput, Drift, Stop, End, vars
        <4> QED
          BY <3>1, <3>2, <3>3, <4>1
      <3> QED
        BY <3>4, <3>5, <3>6, <3>7
    <2>6. Shows(roles, context, {None, store.bound})'
      <3>1. ASSUME NEW profile, NEW c, Shows(profile, c, bound), roles' = profile, context' = c
            PROVE  Shows(roles, context, {None, store.bound})'
        BY <2>3, <3>1 DEF Shows
      <3>2. CASE BeginTarget
        <4>1. \/ roles' = saved.roles /\ context' = saved.context
              \/ /\ Found(store', store'.preferred, FALSE)
                 /\ roles' = store'.results[store'.preferred] /\ context' = store'.preferred
          BY <3>2 DEF BeginTarget
        <4>2. Shows(saved.roles, saved.context, bound)
          BY DEF Evidence, Shows
        <4>3. CASE roles' = saved.roles /\ context' = saved.context
          BY <3>1, <4>2, <4>3
        <4>4. CASE /\ Found(store', store'.preferred, FALSE)
                   /\ roles' = store'.results[store'.preferred] /\ context' = store'.preferred
          BY <2>4, <4>4 DEF Found, Shows
        <4> QED
          BY <4>1, <4>3, <4>4
      <3>3. CASE Grow
        <4>1. CASE opt.required /\ ~Found(store, Grown, NeedsFixer)
          BY <3>1, <3>3, <4>1 DEF Grow, Evidence
        <4>2. CASE ~(opt.required /\ ~Found(store, Grown, NeedsFixer))
          <5> DEFINE profile == IF opt.required THEN store.results[Grown] ELSE Unprobed
          <5>1. Adopt(store, Grown, profile)
            BY <3>3, <4>2 DEF Grow
          <5>2. Shows(profile, Grown, bound)
            BY <4>2, NothingShown DEF Found, Evidence
          <5> HIDE DEF profile
          <5>3. (roles' = profile /\ context' = Grown) \/ (roles' = roles /\ context' = context)
            BY <5>1, AdoptMoves
          <5> QED
            BY <3>1, <5>2, <5>3 DEF Evidence
        <4> QED
          BY <4>1, <4>2
      <3>4. CASE Requalify
        <4>1. \/ roles' = probe.roles /\ context' = probe.context
              \/ roles' = roles /\ context' = context
          BY <3>4, AdoptMoves DEF Requalify
        <4> QED
          BY <3>1, <4>1 DEF Evidence
      <3>5. CASE ~(BeginTarget \/ Grow \/ Requalify)
        <4>1. UNCHANGED <<roles, context>>
          BY <1>2, <3>5 DEF Next, Proceed, TestConnection, Preflight, BeginCall, PromptRefused,
             Attempt, SelectEngine, Ask, Probing, Send, Answered, CorrectFormat, GrowOutput,
             Drift, Stop, vars
        <4> QED
          BY <3>1, <4>1 DEF Evidence
      <3> QED
        BY <3>2, <3>3, <3>4, <3>5
    <2> QED
      BY <2>1, <2>4, <2>5, <2>6 DEF Evidence
  <1> QED
    BY <1>1, <1>2

-----------------------------------------------------------------------------
(* Who may be asked.                                                        *)

(* Where qualification is required, a context is taken only with verdicts   *)
(* for everyone whom the workflow may still ask.                            *)
LEMMA AdoptEntitles ==
  ASSUME RequestTypes, Entitled, opt.required, UNCHANGED opt,
         NEW s, NEW c, NEW profile, Adopt(s, c, profile),
         pc \notin {"idle", "ready", "preflight"}
  PROVE  Entitled'
  <1>1. CASE Usable(call.role, profile)
    <2>0. call' = [call EXCEPT !.then = "send"]
      BY <1>1 DEF Adopt
    <2>1. /\ roles' = profile /\ call'.role = call.role
          /\ may' = (may \ {"fixer"}) \cup (Authorized(opt.required, profile) \cap {"fixer"})
      BY <1>1, <2>0, RoutedPrompt DEF Adopt
    <2>2. /\ profile["writer"] = "verified" /\ profile[call.role] = "verified"
          /\ opt.full => profile["reviewer"] = "verified"
      BY <1>1 DEF Usable
    <2>3. "fixer" \in may' => profile["fixer"] = "verified"
      BY <2>1 DEF Authorized
    <2>4. may' \subseteq Roles
      BY <2>1 DEF RequestTypes, Authorized
    <2>5. Asked' = IF opt.full THEN may' ELSE may' \ {"reviewer"}
      BY DEF Asked
    <2>6. ASSUME NEW r \in Asked' PROVE roles'[r] = "verified"
      <3>1. r \in may' /\ (r = "reviewer" => opt.full) /\ r \in {"writer", "reviewer", "fixer"}
        BY <2>4, <2>5 DEF Roles
      <3> QED
        BY <2>1, <2>2, <2>3, <3>1
    <2> QED
      BY <2>1, <2>2, <2>6 DEF Entitled
  <1>2. CASE ~Usable(call.role, profile)
    BY <1>2 DEF Adopt, End, Entitled, Asked
  <1> QED
    BY <1>1, <1>2

LEMMA EntitledInv ==
  RequestTypes /\ Whereabouts /\ Entitled /\ [Next]_vars => Entitled'
  <1> SUFFICES ASSUME RequestTypes, Whereabouts, Entitled, [Next]_vars, opt'.required
               PROVE  Entitled'
    BY DEF Entitled
  <1>0. opt' = opt
    BY DEF Next, Proceed, TestConnection, BeginBatch, BeginTarget, Preflight, BeginCall,
       PromptRefused, Attempt, SelectEngine, Grow, Ask, Probing, Requalify, Send, Answered,
       CorrectFormat, GrowOutput, Drift, Stop, vars
  <1>k. ASSUME UNCHANGED <<roles, may>>, call'.role = call.role,
               pc' \in {"idle", "ready", "preflight"} \/ pc \notin {"idle", "ready", "preflight"}
        PROVE  Entitled'
    BY <1>0, <1>k DEF Entitled, Asked
  <1>r. ASSUME UNCHANGED <<roles, may>>, pc' \in {"idle", "ready", "preflight"}
        PROVE  Entitled'
    BY <1>0, <1>r DEF Entitled, Asked
  <1>1. CASE TestConnection \/ Preflight \/ PromptRefused
    BY <1>1, <1>r DEF TestConnection, Preflight, PromptRefused, ResourcesRefused, MethodsUnknown,
         End
  <1>2. CASE BeginBatch
    <2>1. may' = {} /\ pc' = "ready"
      BY <1>2 DEF BeginBatch, Whereabouts
    <2> QED
      BY <2>1 DEF Entitled, Asked
  <1>3. CASE BeginTarget
    BY <1>0, <1>3 DEF BeginTarget, Entitled, Asked, Authorized
  <1>4. CASE BeginCall
    <2>1. PICK role \in Asked : call' \in Prompted(role)
      BY <1>4 DEF BeginCall
    <2>2. call'.role = role
      BY <2>1 DEF Prompted, NoCall
    <2>3. role \in Roles
      BY DEF Asked, RequestTypes
    <2> QED
      BY <1>0, <1>4, <2>2, <2>3 DEF BeginCall, Entitled, Asked
  <1>5. CASE Attempt
    <2>1. \/ call' = call
          \/ call' = [call EXCEPT !.then = IF NeedFits THEN "send" ELSE "grow"]
      BY <1>5 DEF Attempt
    <2>2. ASSUME NEW then, call' = [call EXCEPT !.then = then] PROVE call'.role = call.role
      BY <2>2, RoutedPrompt
    <2>3. call'.role = call.role
      BY <2>1, <2>2
    <2> QED
      BY <1>5, <1>k, <2>3 DEF Attempt
  <1>6. CASE Grow \/ Requalify
    <2>1. opt.required
      BY <1>0
    <2>2. pc \in {"grow", "requalify"}
      BY <1>6 DEF Grow, Requalify
    <2>3. CASE \E s, c, profile : Adopt(s, c, profile)
      BY <1>0, <2>1, <2>2, <2>3, AdoptEntitles
    <2>4. CASE UNCHANGED <<roles, may, call>>
      BY <1>k, <2>2, <2>4
    <2> QED
      BY <1>6, <2>3, <2>4 DEF Grow, Requalify
  <1>7. CASE SelectEngine \/ Ask \/ Send \/ Answered
    BY <1>7, <1>k DEF SelectEngine, Ask, Send, Answered
  <1>8. CASE Probing
    BY <1>8, <1>k DEF Probing
  <1>9. CASE CorrectFormat \/ GrowOutput
    <2>1. call'.role = call.role /\ UNCHANGED <<roles, may>> /\ pc = "waiting"
      BY <1>9 DEF CorrectFormat, GrowOutput, RequestTypes, Calls
    <2> QED
      BY <1>k, <2>1
  <1>10. CASE Drift \/ Stop \/ UNCHANGED vars
    BY <1>10, <1>k, <1>r DEF Drift, Stop, vars
  <1> QED
    BY <1>1, <1>2, <1>3, <1>4, <1>5, <1>6, <1>7, <1>8, <1>9, <1>10 DEF Next, Proceed

-----------------------------------------------------------------------------
(* The specification.                                                       *)

(* The invariant holds at the start.                                        *)
LEMMA RequestInitInv == Init => RequestInv /\ Evidence
  <1> SUFFICES ASSUME Init
               PROVE  RequestInv /\ Evidence
    OBVIOUS
  <1> USE DEF Init, QualificationInit
  <1>1. RequestTypes
    <2>1. Idle \in Connections /\ ~Idle.running
      BY NoProfiles DEF Idle, Connections
    <2>2. NoProfile \in [context : Nat, roles : Profiles]
      BY NoProfiles DEF NoProfile
    <2>3. setting \in Nat
      BY Contexts
    <2> QED
      BY <2>1, <2>2, <2>3, NoneAreTyped, NothingStored, NoProfiles, Amounts DEF RequestTypes
  <1>2. Whereabouts /\ Allowances /\ Room /\ RefusalIsTrue
    BY DEF Whereabouts, Allowances, Room, RefusalIsTrue
  <1>3. Longer
    BY DEF Longer, NoCall
  <1>4. Evidence
    <2>1. /\ saved.roles = Unprobed /\ probe.roles = Unprobed /\ roles = Unprobed
          /\ \A t \in Tests : test[t].roles = Unprobed
          /\ DOMAIN store.results = {}
      BY DEF NoProfile, NoProbe, Idle, NoStore
    <2> QED
      BY <2>1, NothingShown DEF Evidence
  <1>5. Entitled
    BY DEF Entitled, Asked
  <1> QED
    BY <1>1, <1>2, <1>3, <1>4, <1>5 DEF RequestInv

(* The strengthening is inductive; what the probes show is kept apart,      *)
(* because only that needs a verified reply to show what its probe is about. *)
THEOREM RequestInductive == Spec => []RequestInv
  <1>1. RequestInv /\ [Next]_vars => RequestInv'
    BY TypesInv, WhereaboutsInv, AllowancesInv, RoomInv, RefusalInv, LongerInv, EntitledInv
    DEF RequestInv
  <1> QED
    BY <1>1, RequestInitInv, PTL DEF Spec

(* A prompt is refused as too large only when no context up to the model's  *)
(* limit would hold it with its reply, for every split of a context and     *)
(* every prompt: what planContextGrowth and promptFits decide is true of    *)
(* each other.                                                              *)
THEOREM RefusalsAreTrue == Spec => []RefusalIsTrue
  BY RequestInductive, PTL DEF RequestInv

(* A reply that was cut off is asked for again with room for more of it,    *)
(* for every size of the Writer's seed and of its growth.                   *)
THEOREM RetriesAreLonger == Spec => []RetryIsLonger
  <1>1. RequestTypes /\ Longer => RetryIsLonger
    <2> SUFFICES ASSUME RequestTypes, Longer, call.cut > 0
                 PROVE  Output >= call.cut + MinGain
      BY DEF RetryIsLonger
    <2>1. call.role = "writer" /\ learned >= call.cut + MinGain
      BY DEF Longer
    <2>2. /\ Output \in Nat /\ learned \in Nat /\ call.cut \in Nat /\ MinGain \in Nat
          /\ context \in Nat /\ SeedLimit \in Nat
      BY NeedIsNat, Tokens DEF RequestTypes, Calls
    <2>3. DefaultReserve(context) \in Nat
      BY <2>2, Shares
    <2>4. Output >= learned
      BY <2>1, <2>2, <2>3 DEF Output, OutputTokens, Larger, Smaller
    <2> QED
      BY <2>1, <2>2, <2>4
  <1> QED
    BY <1>1, RequestInductive, PTL DEF RequestInv

(* Every request that leaves is paid for, nobody has stopped the target,    *)
(* the engine is selected in the full workflow, and a role's own request    *)
(* leaves only while the batch's evidence is current.                       *)
THEOREM SendsAllowed == Spec => SendsAreAllowed
  <1>1. Allowances /\ [Next]_vars =>
          [pc' \in {"probing", "waiting"} /\ pc \in {"ask", "send"} =>
             /\ stopped = "no" /\ requests' = requests - 1
             /\ opt.full => engine = "selected"
             /\ pc = "send" => Current(store)]_vars
    <2> SUFFICES ASSUME Allowances, Next, pc' \in {"probing", "waiting"}, pc \in {"ask", "send"}
                 PROVE  /\ stopped = "no" /\ requests' = requests - 1
                        /\ opt.full => engine = "selected"
                        /\ pc = "send" => Current(store)
      OBVIOUS
    <2>1. Ask \/ Send
      BY DEF Next, Proceed, TestConnection, BeginBatch, BeginTarget, Preflight, BeginCall,
         PromptRefused, Attempt, SelectEngine, Grow, Probing, Requalify, Answered,
         CorrectFormat, GrowOutput, Drift, Stop, Awaiting
    <2>2. CASE Ask
      BY <2>2 DEF Ask, End, Allowances
    <2>3. CASE Send
      BY <2>3 DEF Send, End, Allowances
    <2> QED
      BY <2>1, <2>2, <2>3
  <1> QED
    BY <1>1, RequestInductive, PTL DEF Spec, SendsAreAllowed, RequestInv

(* Types for every number of tests, targets, calls and drifts; a target's   *)
(* budget of requests is never overdrawn.                                   *)
THEOREM RequestTypeCorrect == Spec => []RequestTypes
  BY RequestInductive, PTL DEF RequestInv

(* Where qualification is required, a role is asked only at a context where *)
(* a probe verified it, with evidence for the versions the batch is bound   *)
(* to.  That a reply which is verified shows what its probe is about is a   *)
(* fact about texts; it is the theorem's hypothesis.                        *)
THEOREM QualifiedRoles == VerdictsTell => (Spec => []QualifiedForRole)
  <1> SUFFICES ASSUME VerdictsTell
               PROVE  Spec => []QualifiedForRole
    OBVIOUS
  <1>1. Init => Evidence
    BY RequestInitInv
  <1>2. RequestTypes /\ Whereabouts /\ Evidence /\ [Next]_vars => Evidence'
    BY EvidenceInv
  <1>3. RequestTypes /\ Evidence /\ Entitled => QualifiedForRole
    <2> SUFFICES ASSUME RequestTypes, Evidence, Entitled, pc = "waiting", opt.required
                 PROVE  \E version \in {None, store.bound} :
                          <<call.role, context, version>> \in proven
      BY DEF QualifiedForRole
    <2>1. call.role \in Roles /\ roles[call.role] = "verified"
      BY DEF Entitled
    <2> QED
      BY <2>1 DEF Evidence, Shows
  <1> QED
    BY <1>1, <1>2, <1>3, RequestInductive, PTL DEF Spec, RequestInv
=============================================================================
