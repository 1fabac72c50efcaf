---------------------------- MODULE WorkerProcess ----------------------------
(***************************************************************************)
(* A Python worker of an analysis: spawned with a lease on its temporary   *)
(* resources, stopped by its own timeout, the deadline of the target, the  *)
(* user or a broken pipe, and awaited until it is closed and its lease is  *)
(* removed (runSpawn and killProcessTree in src/utils/processRunner.ts,    *)
(* createResourceLease and closeResourceLease in                           *)
(* src/pipeline/isolatedResources.ts).                                     *)
(*                                                                         *)
(* A descendant may outlive the worker and hold its pipes: `close' comes   *)
(* only when nobody holds them any more.                                   *)
(***************************************************************************)
EXTENDS Naturals

VARIABLES
    worker,     \* where the call stands
    proc,       \* the child process
    heirs,      \* a descendant of an exited child still holds the pipes
    code,       \* how the child exited
    reason,     \* terminationReason
    killing,    \* terminationCleanup is pending
    lease,      \* the directory with the isolated resources
    outcome,    \* what the caller gets, once the worker is idle again
    resources,  \* the import fixture plan has resource rules
    cancelled,  \* the execution context is stopped
    late        \* the deadline of the target has passed

childVars == <<proc, heirs, code>>
callVars == <<worker, reason, killing, lease, outcome>>
settingVars == <<resources, cancelled, late>>
workerVars == <<childVars, callVars, settingVars>>

Reasons == {"cancelled", "budget", "timeout", "fault"}

\* No call is under way and none was answered.
NoWorker ==
    /\ worker = "idle" /\ proc = "none" /\ heirs = FALSE /\ code = "bad"
    /\ reason = "none" /\ killing = FALSE /\ lease = "none" /\ outcome = "none"

\* The caller has taken the outcome.
Consume ==
    /\ worker' = "idle" /\ proc' = "none" /\ heirs' = FALSE /\ code' = "bad"
    /\ reason' = "none" /\ killing' = FALSE /\ lease' = "none" /\ outcome' = "none"

Answered == worker = "idle" /\ outcome # "none"

-----------------------------------------------------------------------------
(* The call                                                                 *)

Refused(result) ==
    /\ outcome' = result
    /\ UNCHANGED <<childVars, worker, reason, killing, lease, settingVars>>

Spawned ==
    /\ worker' = "running" /\ lease' = IF resources THEN "held" ELSE "none"
    /\ proc' \in {"alive", "absent"}
    /\ UNCHANGED <<heirs, code, reason, killing, outcome, settingVars>>

\* The lease, too, can fail to be made.
Start ==
    /\ worker = "idle" /\ outcome = "none"
    /\ \/ cancelled /\ Refused("cancelled")
       \/ ~cancelled /\ late /\ Refused("budget")
       \/ ~cancelled /\ ~late /\ resources /\ Refused("fault")
       \/ ~cancelled /\ ~late /\ Spawned

\* The worker reads the sources it works on.
Load ==
    /\ worker = "running" /\ proc = "alive" /\ proc' = "loaded"
    /\ UNCHANGED <<heirs, code, callVars, settingVars>>

Exit ==
    /\ worker = "running" /\ proc \in {"alive", "loaded"}
    /\ proc' = "exited" /\ heirs' \in BOOLEAN
    /\ code' \in {"bad"} \cup {x \in {"ok"} : proc = "loaded"}
    /\ UNCHANGED <<callVars, settingVars>>

HeirsLeave ==
    /\ heirs /\ heirs' = FALSE
    /\ UNCHANGED <<proc, code, callVars, settingVars>>

\* Mutant of Terminate: the caller is answered before the worker is gone.
Terminate_AtOnce(why) ==
    /\ reason' = why /\ killing' = (proc \in {"alive", "loaded"})
    /\ outcome' = why /\ worker' = "idle"
    /\ UNCHANGED <<childVars, lease>>
\* terminate: only the first reason counts, and only until the call is
\* settled.  A child that exited is not killed any more, so that its heirs
\* are left alone.
Terminate(why) ==
    /\ worker = "running" /\ reason = "none"
    /\ reason' = why /\ killing' = (proc \in {"alive", "loaded"})
    /\ UNCHANGED <<childVars, worker, lease, outcome>>

\* The timer fires, or writing to the worker fails.
Interrupted ==
    /\ \/ (late /\ Terminate("budget"))
       \/ Terminate("timeout") \/ Terminate("fault")
    /\ UNCHANGED settingVars

\* Mutant of Killed: the signal is not sent.
Killed_Nothing ==
    /\ killing /\ killing' = FALSE
    /\ UNCHANGED <<proc, heirs, code, worker, reason, lease, outcome, settingVars>>
\* killProcessTree has come back: the child and its descendants are gone.
Killed ==
    /\ killing /\ killing' = FALSE
    /\ IF proc = "exited" THEN UNCHANGED <<proc, heirs>> ELSE proc' = "exited" /\ heirs' = FALSE
    /\ UNCHANGED <<code, worker, reason, lease, outcome, settingVars>>

\* Before it is settled: the result of a call the child did not start in.
SpawnFails ==
    /\ worker = "running" /\ proc = "absent" /\ reason = "none"
    /\ outcome' = "fault"
    /\ worker' = IF lease = "none" THEN "idle" ELSE "disposing"
    /\ UNCHANGED <<childVars, reason, killing, lease, settingVars>>

\* The event that every stream of the child is closed settles the call.
Closed ==
    /\ worker = "running" /\ ~heirs
    /\ proc = "exited" \/ (proc = "absent" /\ reason # "none")
    /\ worker' = "closing"
    /\ UNCHANGED <<childVars, reason, killing, lease, outcome, settingVars>>

\* The cancellation is looked at after the kill, and comes first.
Settled ==
    /\ worker = "closing" /\ ~killing
    /\ outcome' = IF cancelled THEN "cancelled" ELSE IF reason # "none" THEN reason ELSE code
    /\ worker' = IF lease = "none" THEN "idle" ELSE "disposing"
    /\ UNCHANGED <<childVars, reason, killing, lease, settingVars>>

\* A lease that cannot be removed replaces whatever else went wrong; the
\* observer of the lease (the journal) only a success.
Disposed ==
    /\ worker = "disposing" /\ worker' = "idle"
    /\ \/ lease' = "removed"
          /\ outcome' \in {outcome} \cup {x \in {"fault"} : outcome \in {"ok", "bad"}}
       \/ lease' = "stuck" /\ outcome' = "fault"
    /\ UNCHANGED <<childVars, reason, killing, settingVars>>

WorkerSettles == Killed \/ SpawnFails \/ Closed \/ Settled \/ Disposed

-----------------------------------------------------------------------------
(* Outside                                                                  *)

\* ExecutionContext.cancel calls every handler at once.
CancelWorkers ==
    /\ ~cancelled /\ cancelled' = TRUE
    /\ IF worker = "running" /\ reason = "none"
       THEN Terminate("cancelled") ELSE UNCHANGED <<childVars, callVars>>
    /\ UNCHANGED <<resources, late>>

Expires == ~late /\ late' = TRUE /\ UNCHANGED <<childVars, callVars, resources, cancelled>>

-----------------------------------------------------------------------------
(* Properties                                                               *)

WorkerTypeOK ==
    /\ worker \in {"idle", "running", "closing", "disposing"}
    /\ proc \in {"none", "absent", "alive", "loaded", "exited"}
    /\ reason \in Reasons \cup {"none"} /\ code \in {"ok", "bad"}
    /\ lease \in {"none", "held", "removed", "stuck"}
    /\ outcome \in Reasons \cup {"none", "ok", "bad"}
    /\ {heirs, killing, resources, cancelled, late} \subseteq BOOLEAN

(***************************************************************************)
(* Whoever gets an answer of a worker gets it after the worker: its        *)
(* process is gone with everything that held its pipes, nobody is still    *)
(* killing it, its lease is given back or reported as stuck, and it is     *)
(* called done only when nothing stopped it.                               *)
(***************************************************************************)
WorkerIsOver ==
    Answered =>
        /\ proc \in {"none", "absent", "exited"} /\ ~heirs /\ ~killing
        /\ lease # "held" /\ (lease = "stuck" => outcome = "fault")
        /\ outcome \in {"ok", "bad"} => reason = "none"
=============================================================================
