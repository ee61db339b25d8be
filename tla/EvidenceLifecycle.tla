-------------------------- MODULE EvidenceLifecycle --------------------------
(***************************************************************************)
(* The life of one evidence task: the row of evidence_tasks that the       *)
(* media-worker's rolling lanes, its finalizer lane, its recovery pass and *)
(* the clip-worker's deadline sweep all update, and the media_status of    *)
(* the matching row of events that is projected from it                    *)
(* (services/media-worker/app/materialization_repository.py, with the      *)
(* callers in services/media-worker/app/worker.py).                        *)
(*                                                                         *)
(* Every UPDATE of evidence_tasks is one atomic step (the connections are  *)
(* autocommit).  The projection to events is a SECOND statement of the     *)
(* same function, hence a second step, except where the code writes both   *)
(* in one statement or transaction.  Rows do not interact, so one row is   *)
(* modelled.                                                               *)
(*                                                                         *)
(* now() appears in the code only in comparisons with stored instants; an  *)
(* instant is kept as the number of ticks left until it, 0 meaning <= now. *)
(*                                                                         *)
(* A claim that draws a fresh uuid4 token also increments the generation,  *)
(* in the same statement, so the generation stands for the pair (token,    *)
(* generation) and a fence is the pair [owner, gen].                       *)
(***************************************************************************)
EXTENDS Integers, FiniteSets

CONSTANTS
    Workers,         \* job slots: scheduler and lane threads of any media-worker process
    LeaseTicks,      \* lease_seconds
    RetryTicks,      \* longest retry delay of retry_delay_seconds
    ReadyTicks,      \* materialization_ready_at, from task creation
    DeadlineTicks,   \* materialization_deadline_at, from task creation
    MaxGeneration,   \* bound: claims of the row
    MaxFaults,       \* bound: crashes, failed statements and failed heartbeats
    MaxRejections,   \* bound: capacity rejections before a claim
    HeartbeatFaults, \* whether a heartbeat may fail with a database error
    ProjectionFaults \* whether a projection statement may fail

ASSUME WorkersAssumption == IsFiniteSet(Workers)
ASSUME TicksAssumption ==
    /\ LeaseTicks \in Nat \ {0}
    /\ RetryTicks \in Nat \ {0}
    /\ ReadyTicks \in Nat
    /\ DeadlineTicks \in Nat
ASSUME BoundsAssumption ==
    /\ MaxGeneration \in Nat
    /\ MaxFaults \in Nat
    /\ MaxRejections \in Nat
ASSUME FaultsAssumption ==
    /\ HeartbeatFaults \in BOOLEAN
    /\ ProjectionFaults \in BOOLEAN

VARIABLES
    task,       \* the row of evidence_tasks
    event,      \* events.media_status, as last projected
    job,        \* job[w]: what worker w is doing, with the fence it holds in memory
    rec,        \* the statement the recovery pass executes next
    recDue,     \* recovery transitions of this pass whose projection is still to come
    faults,     \* crashes and failed statements so far
    rejections  \* capacity rejections so far

vars == <<task, event, job, rec, recDue, faults, rejections>>

-----------------------------------------------------------------------------
(* Vocabulary: libs/evidence_lifecycle/contract.py                          *)

Claimable == {"manifest_ready", "pending"}
Terminal == {"materialized", "deferred", "failed", "expired"}
Statuses == Claimable \cup {"materializing"} \cup Terminal

WaitingPhases == {"waiting_ready", "waiting_coverage"}
FinalizerPhases == {"finalizer_pending", "finalizing"}
Phases == WaitingPhases \cup {"image_running", "remux_running"}
              \cup FinalizerPhases \cup {"terminal"}

(* image_only tasks, rolling-cache videos, and videos exported by Replay    *)
Kinds == {"image", "video", "replay"}
Owners == {"rolling", "replay", "media_finalizer", "terminal"}

(* classify_reason, by error class *)
RetryableReasons == {"not_ready", "capacity", "transient"}
TerminalReasons == {"invalid_input", "storage_hard_stop", "lease_lost", "unknown"}

NoTime == -1                             \* a NULL instant
NoLease == [owner |-> "none", gen |-> 0] \* the lease columns are NULL
NoHandoff == 0                           \* materialization_handoff = '{}'
NoStatus == "none"

Fences == [owner : {"none", "runner", "finalizer"}, gen : Nat]

Idle == [mode |-> "idle", fence |-> NoLease, due |-> NoStatus, health |-> "ok"]

-----------------------------------------------------------------------------
(* The state                                                                *)

Task == [kind : Kinds, status : Statuses, phase : Phases, owner : Owners,
         lease : Fences, gen : Nat, ttl : Nat, ready : Nat,
         next : Nat \cup {NoTime}, deadline : Nat, handoff : Nat,
         failure : {"none"} \cup RetryableReasons \cup TerminalReasons]

(* A worker is idle; runs a claimed rolling job ("running"); owes the       *)
(* failure of one ("failing"); holds a persisted handoff on its way to the  *)
(* finalizer ("queued"); finalizes; or acts on an event it has not claimed, *)
(* with the fence that current_lease returned ("adopted") or none           *)
(* ("unleased").  due is a status whose projection is its next statement.   *)
Modes == {"idle", "running", "failing", "queued", "finalizing", "adopted", "unleased"}
Claimed == {"running", "failing", "queued", "finalizing"}

Job == [mode : Modes, fence : Fences, due : Statuses \cup {NoStatus},
        health : {"ok", "lost", "expired"}]

RecoverySteps == {"ready", "handoff", "expire", "retry"}

(* event-worker create_evidence_task and _create_image_only_evidence_task:  *)
(* the row of a task that is still to be materialized.                      *)
NewTask(kind) ==
    [kind |-> kind, status |-> "manifest_ready", phase |-> "waiting_ready",
     owner |-> IF kind = "replay" THEN "replay" ELSE "rolling",
     lease |-> NoLease, gen |-> 0, ttl |-> 0,
     ready |-> ReadyTicks, next |-> NoTime, deadline |-> DeadlineTicks,
     handoff |-> NoHandoff, failure |-> "none"]

Init ==
    /\ \E kind \in Kinds : task = NewTask(kind)
    /\ event = "manifest_ready"
    /\ job = [w \in Workers |-> Idle]
    /\ rec = "ready"
    /\ recDue = [s \in RecoverySteps |-> FALSE]
    /\ faults = 0
    /\ rejections = 0

-----------------------------------------------------------------------------
(* Field-reset contracts shared by the statements                           *)

Due == IF task.next = NoTime THEN task.ready = 0 ELSE task.next = 0

(* The legacy status column is a function of these two and is left out.     *)
WithStatus(t, status, phase) == [t EXCEPT !.status = status, !.phase = phase]

Unleased(t) == [t EXCEPT !.lease = NoLease, !.ttl = 0]

TerminalRow(t, status) ==
    [Unleased(WithStatus(t, status, "terminal"))
        EXCEPT !.owner = "terminal", !.next = NoTime]

FailedRow(t, reason) ==
    [TerminalRow(t, "failed") EXCEPT !.handoff = NoHandoff, !.failure = reason]

LeasedRow(t, phase, owner, fence) ==
    [WithStatus(t, "materializing", phase)
        EXCEPT !.owner = owner, !.next = NoTime, !.lease = fence,
               !.gen = fence.gen, !.ttl = LeaseTicks]

RunnerFence(gen) == [owner |-> "runner", gen |-> gen]
FinalizerFence(gen) == [owner |-> "finalizer", gen |-> gen]

(* mutant: owner, token and generation are not compared *)
HoldsAnyLease(w) == task.status = "materializing"

(* The predicate of every fenced statement. *)
Holds(w) == task.status = "materializing" /\ task.lease = job[w].fence

Free(w) == job[w].mode = "idle" /\ job[w].due = NoStatus
In(w, mode) == job[w].mode = mode /\ job[w].due = NoStatus

Set(w, mode, fence, due) ==
    job' = [job EXCEPT ![w] =
                [mode |-> mode, fence |-> fence, due |-> due, health |-> "ok"]]
End(w) == Set(w, "idle", NoLease, NoStatus)

(* mutant: rowcount is ignored *)
FencedUnchecked(w, row, due) ==
    /\ task' = IF Holds(w) THEN row ELSE task
    /\ Set(w, "idle", NoLease, due)

(* One fenced UPDATE: the row changes and the projection is due, or no row  *)
(* matches and the worker stops without a trace.                            *)
Fenced(w, row, due) ==
    \/ /\ Holds(w)
       /\ task' = row
       /\ Set(w, "idle", NoLease, due)
    \/ /\ ~Holds(w)
       /\ End(w)
       /\ UNCHANGED task

Local == <<event, rec, recDue, faults, rejections>>

-----------------------------------------------------------------------------
(* Rolling lanes (remux and image)                                          *)

RollingPhase(kind) == IF kind = "image" THEN "image_running" ELSE "remux_running"

(* claim_rolling_task; the candidate queries offer rolling-cache rows only. *)
ClaimRolling(w) ==
    /\ Free(w)
    /\ task.kind # "replay"
    /\ task.status \in Claimable
    /\ task.owner = "rolling"
    /\ task.ready = 0
    /\ Due
    /\ task.lease = NoLease
    /\ task.gen < MaxGeneration
    /\ LET fence == RunnerFence(task.gen + 1)
       IN  /\ task' = [LeasedRow(task, RollingPhase(task.kind), "rolling", fence)
                          EXCEPT !.handoff = NoHandoff]
           /\ Set(w, "running", fence, "materializing")
    /\ UNCHANGED Local

(* retry_rolling_task's row *)
RetryRollingRow(reason, delay) ==
    IF reason \in RetryableReasons
    THEN [Unleased(WithStatus(task, "pending",
                       IF reason = "not_ready" THEN "waiting_coverage"
                                               ELSE "waiting_ready"))
             EXCEPT !.owner = "rolling", !.next = delay, !.handoff = NoHandoff]
    ELSE FailedRow(task, reason)

(* mutant: the reason is stored without being classified *)
HealthReasonRaw(health) == health

(* What an unhealthy heartbeat handle is reported as: fence_lost text is    *)
(* classified LEASE_LOST, max_attempt_age text is classified UNKNOWN.       *)
HealthReason(health) == IF health = "lost" THEN "lease_lost" ELSE "unknown"

(* A rolling job ends without output: coverage miss, pinned segment gone,   *)
(* forced shutdown - or its heartbeat handle is no longer healthy.          *)
RetryRolling(w) ==
    /\ In(w, "running")
    /\ \E reason \in {"not_ready", "transient"} \cup
                        IF job[w].health = "ok" THEN {} ELSE {HealthReason(job[w].health)},
          delay \in 1..RetryTicks :
          Fenced(w, RetryRollingRow(reason, delay),
                 IF reason \in RetryableReasons THEN "pending" ELSE "failed")
    /\ UNCHANGED Local

(* A rolling job raises: fail_rolling_task, whatever the reason's class.    *)
FailRolling(w) ==
    /\ In(w, "running") \/ In(w, "failing")
    /\ \E reason \in {"transient", "invalid_input", "unknown"} :
          Fenced(w, FailedRow(task, reason), "failed")
    /\ UNCHANGED Local

(* _mark_image_evidence_materialized: task and event in one transaction.    *)
CompleteImage(w) ==
    /\ In(w, "running")
    /\ task.kind = "image"
    /\ job[w].health = "ok"
    /\ \/ /\ Holds(w)
          /\ task' = [TerminalRow(task, "materialized") EXCEPT !.handoff = NoHandoff]
          /\ event' = "materialized"
       \/ ~Holds(w) /\ UNCHANGED <<task, event>>
    /\ End(w)
    /\ UNCHANGED <<rec, recDue, faults, rejections>>

(* persist_finalizer_handoff: the lease is kept and extended.               *)
PersistHandoff(w) ==
    /\ In(w, "running")
    /\ task.kind = "video"
    /\ job[w].health = "ok"
    /\ \/ /\ Holds(w)
          /\ task.phase = "remux_running"
          /\ task' = [WithStatus(task, "materializing", "finalizer_pending")
                         EXCEPT !.owner = "media_finalizer", !.ttl = LeaseTicks,
                                !.handoff = job[w].fence.gen]
          /\ Set(w, "queued", job[w].fence, "materializing")
       \/ /\ ~(Holds(w) /\ task.phase = "remux_running")
          /\ End(w)
          /\ UNCHANGED task
    /\ UNCHANGED Local

-----------------------------------------------------------------------------
(* Finalizer lane                                                           *)

(* The event reaches the finalizer as this worker's own fresh handoff, as a *)
(* Replay export found by the sink scan, or as a handoff that               *)
(* recoverable_finalizer_handoffs returned once its remux lease was gone.   *)
Offered(w) ==
    \/ In(w, "queued")
    \/ /\ Free(w)
       /\ \/ task.kind = "replay"
          \/ task.handoff # NoHandoff /\ task.lease.owner # "runner"

StartFinalizing(w, gen) ==
    /\ task' = LeasedRow(task, "finalizing", "media_finalizer", FinalizerFence(gen))
    /\ Set(w, "finalizing", FinalizerFence(gen), "materializing")

(* claim_finalizer_task with expected_lease: the remux fence is handed over *)
(* inside the process; token and generation stay, the owner changes.        *)
ExactTransfer(w) ==
    /\ In(w, "queued")
    /\ LET transferable == /\ Holds(w)
                           /\ task.phase = "finalizer_pending"
                           /\ task.handoff = job[w].fence.gen
       IN  \/ transferable /\ StartFinalizing(w, task.gen)
           \/ ~transferable /\ End(w) /\ UNCHANGED task
    /\ UNCHANGED Local

(* mutant: a lease does not protect the row *)
GenericClaimableLeased == task.status \notin Terminal /\ Due

(* claim_finalizer_task without expected_lease: an unleased row gets a new  *)
(* generation, a leased finalizer_pending row is taken over as it is.       *)
GenericClaimable ==
    /\ task.status \notin Terminal
    /\ \/ task.lease = NoLease
       \/ task.phase = "finalizer_pending" /\ task.handoff = task.lease.gen
    /\ Due

(* mutant: an unleased row keeps its generation *)
GenericClaimSameGeneration(w) ==
    /\ Offered(w)
    /\ \/ GenericClaimable /\ StartFinalizing(w, task.gen)
       \/ In(w, "queued") /\ ~GenericClaimable /\ End(w) /\ UNCHANGED task
    /\ UNCHANGED Local

GenericClaim(w) ==
    /\ Offered(w)
    /\ \/ /\ GenericClaimable
          /\ \/ /\ task.lease = NoLease
                /\ task.gen < MaxGeneration
                /\ StartFinalizing(w, task.gen + 1)
             \/ /\ task.lease # NoLease
                /\ StartFinalizing(w, task.gen)
       \/ In(w, "queued") /\ ~GenericClaimable /\ End(w) /\ UNCHANGED task
    /\ UNCHANGED Local

(* complete_finalizer_task: task and event in one statement, handoff kept.  *)
CompleteFinalizer(w) ==
    /\ In(w, "finalizing")
    /\ job[w].health = "ok"
    /\ \/ /\ Holds(w)
          /\ \E outcome \in {"materialized", "failed"} :
                /\ task' = [TerminalRow(task, outcome) EXCEPT
                               !.failure = IF outcome = "failed" THEN "unknown" ELSE "none"]
                /\ event' = outcome
       \/ ~Holds(w) /\ UNCHANGED <<task, event>>
    /\ End(w)
    /\ UNCHANGED <<rec, recDue, faults, rejections>>

(* _finalize_one: the bundle build raises, or the heartbeat handle is no    *)
(* longer healthy and retry_finalizer_handoff falls through to              *)
(* fail_rolling_task because the reason is not retryable.                   *)
FailFinalizer(w) ==
    /\ In(w, "finalizing")
    /\ \E reason \in {"transient", "invalid_input", "unknown"} \cup
                        IF job[w].health = "ok" THEN {} ELSE {HealthReason(job[w].health)} :
          Fenced(w, FailedRow(task, reason), "failed")
    /\ UNCHANGED Local

(* mutant: no handoff is required *)
RetryHandoffAnyPhase(w) ==
    /\ In(w, "finalizing") \/ In(w, "queued") \/ In(w, "adopted")
    /\ \E delay \in 1..RetryTicks :
          Fenced(w, [Unleased(WithStatus(task, "materializing", "finalizer_pending"))
                        EXCEPT !.owner = "media_finalizer", !.next = delay],
                 "materializing")
    /\ UNCHANGED Local

(* retry_finalizer_handoff with a retryable reason: an interrupted or       *)
(* failed finalization, a handoff the lane could not accept, or a           *)
(* rejection on behalf of the current fence.                                *)
RetryHandoff(w) ==
    /\ In(w, "finalizing") \/ In(w, "queued") \/ In(w, "adopted")
    /\ LET retained == /\ Holds(w)
                       /\ task.phase \in FinalizerPhases
                       /\ task.handoff # NoHandoff
       IN  \/ /\ retained
              /\ \E delay \in 1..RetryTicks :
                    task' = [Unleased(WithStatus(task, "materializing", "finalizer_pending"))
                                EXCEPT !.owner = "media_finalizer", !.next = delay]
              /\ Set(w, "idle", NoLease, "materializing")
           \/ ~retained /\ End(w) /\ UNCHANGED task
    /\ UNCHANGED Local

(* _run_finalizer_admission_v2 returns not_ready, or the publish step of    *)
(* _finalize_one finds the fence gone: the job is over and whatever lease   *)
(* the row has is left to expire.                                           *)
FinalizerNotReady(w) ==
    /\ In(w, "queued") \/ (In(w, "finalizing") /\ ~Holds(w))
    /\ End(w)
    /\ UNCHANGED <<task, event, rec, recDue, faults, rejections>>

-----------------------------------------------------------------------------
(* Outcomes decided before a claim (storage hard stop, backlog, submit      *)
(* failure, invalid sink output, invalid recovered handoff).  The code      *)
(* reads current_lease first and acts in a later statement.                 *)

ReadCurrentLease(w) ==
    /\ Offered(w)
    /\ task.status \notin Terminal
    /\ rejections < MaxRejections
    /\ rejections' = rejections + 1
    /\ Set(w, IF task.lease = NoLease THEN "unleased" ELSE "adopted", task.lease, NoStatus)
    /\ UNCHANGED <<task, event, rec, recDue, faults>>

(* mutant: the status is not tested *)
UnfinishedAnyStatus(w) ==
    \/ In(w, "adopted") /\ Holds(w)
    \/ In(w, "unleased") /\ task.lease = NoLease

(* The row predicate of defer_terminal_task and of the fail_* pair.         *)
Unfinished(w) ==
    \/ In(w, "adopted") /\ Holds(w)
    \/ In(w, "unleased") /\ task.status \notin Terminal /\ task.lease = NoLease

(* defer_terminal_task(storage_hard_limit_exceeded), and fail_rolling_task  *)
(* or fail_unclaimed_task for invalid output.                               *)
FinishUnclaimed(w) ==
    /\ In(w, "adopted") \/ In(w, "unleased")
    /\ \/ /\ Unfinished(w)
          /\ \/ /\ task' = [TerminalRow(task, "deferred") EXCEPT !.handoff = NoHandoff]
                /\ Set(w, "idle", NoLease, "deferred")
             \/ /\ task' = FailedRow(task, "invalid_input")
                /\ Set(w, "idle", NoLease, "failed")
       \/ ~Unfinished(w) /\ End(w) /\ UNCHANGED task
    /\ UNCHANGED Local

(* schedule_unclaimed_retry; with a sink path the finalizer takes the row.  *)
ScheduleUnclaimedRetry(w) ==
    /\ In(w, "unleased")
    /\ LET waiting == task.status \in Claimable /\ task.lease = NoLease
       IN  \/ /\ waiting
              /\ \E owner \in {task.owner, "media_finalizer"}, delay \in 1..RetryTicks :
                    task' = [WithStatus(task, "pending", "waiting_ready")
                                EXCEPT !.owner = owner, !.next = delay]
              /\ Set(w, "idle", NoLease, "pending")
           \/ ~waiting /\ End(w) /\ UNCHANGED task
    /\ UNCHANGED Local

(* retry_unclaimed_finalizer_handoff *)
RetryUnclaimedHandoff(w) ==
    /\ In(w, "unleased")
    /\ LET queuedHandoff == /\ task.status = "materializing"
                            /\ task.phase = "finalizer_pending"
                            /\ task.handoff # NoHandoff
                            /\ task.lease = NoLease
       IN  \/ /\ queuedHandoff
              /\ \E delay \in 1..RetryTicks :
                    task' = [task EXCEPT !.owner = "media_finalizer", !.next = delay]
              /\ Set(w, "idle", NoLease, "materializing")
           \/ ~queuedHandoff /\ End(w) /\ UNCHANGED task
    /\ UNCHANGED Local
-----------------------------------------------------------------------------
(* Projection, heartbeats, crashes                                          *)

(* _project_event: unconditional, and a statement of its own.               *)
Project(w) ==
    /\ job[w].due # NoStatus
    /\ event' = job[w].due
    /\ job' = [job EXCEPT ![w].due = NoStatus]
    /\ UNCHANGED <<task, rec, recDue, faults, rejections>>

(* The projection raises after its UPDATE has committed.  A claim's caller  *)
(* drops the job; the drain loop treats a handoff whose persist call raised *)
(* as a failed remux.                                                       *)
ProjectFault(w) ==
    /\ ProjectionFaults
    /\ job[w].due # NoStatus
    /\ faults < MaxFaults
    /\ faults' = faults + 1
    /\ IF job[w].mode = "queued" THEN Set(w, "failing", job[w].fence, NoStatus) ELSE End(w)
    /\ UNCHANGED <<task, event, rec, recDue, rejections>>

Heartbeaten(w) ==
    /\ job[w].mode \in {"running", "queued", "finalizing"}
    /\ job[w].health = "ok"

(* LeaseHeartbeatSupervisor.tick_once with heartbeat_lease                  *)
Heartbeat(w) ==
    /\ Heartbeaten(w)
    /\ IF Holds(w)
       THEN task' = [task EXCEPT !.ttl = LeaseTicks] /\ UNCHANGED job
       ELSE job' = [job EXCEPT ![w].health = "lost"] /\ UNCHANGED task
    /\ UNCHANGED Local

(* A heartbeat that raises is booked like one that found no row.            *)
HeartbeatError(w) ==
    /\ HeartbeatFaults
    /\ Heartbeaten(w)
    /\ faults < MaxFaults
    /\ faults' = faults + 1
    /\ job' = [job EXCEPT ![w].health = "lost"]
    /\ UNCHANGED <<task, event, rec, recDue, rejections>>

(* max_attempt_age_s has passed for the handle.                             *)
AgeOut(w) ==
    /\ Heartbeaten(w)
    /\ faults < MaxFaults
    /\ faults' = faults + 1
    /\ job' = [job EXCEPT ![w].health = "expired"]
    /\ UNCHANGED <<task, event, rec, recDue, rejections>>

(* The process dies, or a forced shutdown abandons the job.                 *)
Crash(w) ==
    /\ job[w] # Idle
    /\ faults < MaxFaults
    /\ faults' = faults + 1
    /\ End(w)
    /\ UNCHANGED <<task, event, rec, recDue, rejections>>

-----------------------------------------------------------------------------
(* recover_and_expire_rolling_tasks: four statements, then the projections  *)
(* in the same order, once per tick of the main loop.  The SLA statement    *)
(* between them writes only materialization_audit.                          *)

LeaseDead == task.status = "materializing" /\ task.lease # NoLease /\ task.ttl = 0

ReadyPastDeadline ==
    /\ task.owner = "rolling"
    /\ task.status \in Claimable
    /\ task.deadline = 0
    /\ task.lease = NoLease

(* mutant: the retry statement forgets the handoff *)
RecoversIgnoringHandoff(step) ==
    CASE step = "ready" -> ReadyPastDeadline
      [] step = "handoff" -> LeaseDead /\ task.handoff # NoHandoff
      [] step = "expire" -> LeaseDead /\ task.handoff = NoHandoff /\ task.deadline = 0
      [] step = "retry" -> LeaseDead /\ task.deadline > 0

(* mutant: handoffs are not recovered *)
RecoversNoHandoff(step) ==
    CASE step = "ready" -> ReadyPastDeadline
      [] step = "handoff" -> FALSE
      [] step = "expire" -> LeaseDead /\ task.handoff = NoHandoff /\ task.deadline = 0
      [] step = "retry" -> LeaseDead /\ task.handoff = NoHandoff /\ task.deadline > 0

Recovers(step) ==
    CASE step = "ready" -> ReadyPastDeadline
      [] step = "handoff" -> LeaseDead /\ task.handoff # NoHandoff
      [] step = "expire" -> LeaseDead /\ task.handoff = NoHandoff /\ task.deadline = 0
      [] step = "retry" -> LeaseDead /\ task.handoff = NoHandoff /\ task.deadline > 0

RecoveredRow(step) ==
    CASE step = "ready" ->
            [WithStatus(task, "expired", "terminal") EXCEPT !.owner = "terminal", !.next = NoTime]
      [] step = "expire" -> TerminalRow(task, "expired")
      [] step = "handoff" ->
            [Unleased(WithStatus(task, "materializing", "finalizer_pending"))
                EXCEPT !.owner = "media_finalizer"]
      [] step = "retry" ->
            [Unleased(WithStatus(task, "pending", "waiting_ready"))
                EXCEPT !.owner = "rolling", !.next = 0]

RecoveredStatus(step) ==
    CASE step \in {"ready", "expire"} -> "expired"
      [] step = "handoff" -> "materializing"
      [] step = "retry" -> "pending"

NextRecoveryStep == [ready |-> "handoff", handoff |-> "expire",
                     expire |-> "retry", retry |-> "project"]

Recover ==
    /\ rec \in RecoverySteps
    /\ rec' = NextRecoveryStep[rec]
    /\ \/ /\ Recovers(rec)
          /\ task' = RecoveredRow(rec)
          /\ recDue' = [recDue EXCEPT ![rec] = TRUE]
       \/ ~Recovers(rec) /\ UNCHANGED <<task, recDue>>
    /\ UNCHANGED <<event, job, faults, rejections>>

(* _project_recovery_events, statement by statement; then the pass is over. *)
Preceding == [ready |-> {}, handoff |-> {"ready"}, expire |-> {"ready", "handoff"},
              retry |-> {"ready", "handoff", "expire"}]

ProjectRecovery ==
    /\ rec = "project"
    /\ \E step \in RecoverySteps :
          /\ recDue[step]
          /\ \A earlier \in Preceding[step] : ~recDue[earlier]
          /\ event' = RecoveredStatus(step)
          /\ recDue' = [recDue EXCEPT ![step] = FALSE]
    /\ UNCHANGED <<task, job, rec, faults, rejections>>

EndRecovery ==
    /\ rec = "project"
    /\ \A step \in RecoverySteps : ~recDue[step]
    /\ rec' = "ready"
    /\ UNCHANGED <<task, event, job, recDue, faults, rejections>>

CrashRecovery ==
    /\ rec # "ready"
    /\ faults < MaxFaults
    /\ faults' = faults + 1
    /\ rec' = "ready"
    /\ recDue' = [s \in RecoverySteps |-> FALSE]
    /\ UNCHANGED <<task, event, job, rejections>>

(* clip-worker expire_materialization_deadlines, for rows owned by Replay.  *)
ExpireReplayOwned ==
    /\ task.owner = "replay"
    /\ task.status \in Claimable
    /\ task.deadline = 0
    /\ task' = TerminalRow(task, "expired")
    /\ event' = "expired"
    /\ UNCHANGED <<job, rec, recDue, faults, rejections>>

Sooner(instant) == IF instant > 0 THEN instant - 1 ELSE instant

Tick ==
    /\ task.status \notin Terminal
    /\ task' = [task EXCEPT !.ready = Sooner(@), !.next = Sooner(@),
                            !.deadline = Sooner(@), !.ttl = Sooner(@)]
    /\ task' # task
    /\ UNCHANGED <<event, job, rec, recDue, faults, rejections>>

-----------------------------------------------------------------------------

(* The steps by which a worker finishes what it has begun.                  *)
Outcome(w) ==
    \/ RetryRolling(w) \/ FailRolling(w) \/ CompleteImage(w) \/ PersistHandoff(w)
    \/ ExactTransfer(w) \/ CompleteFinalizer(w) \/ FailFinalizer(w)
    \/ RetryHandoff(w) \/ FinalizerNotReady(w)
    \/ FinishUnclaimed(w) \/ ScheduleUnclaimedRetry(w) \/ RetryUnclaimedHandoff(w)

Fault(w) == ProjectFault(w) \/ HeartbeatError(w) \/ AgeOut(w) \/ Crash(w)

RecoveryPass == Recover \/ ProjectRecovery \/ EndRecovery

Next ==
    \/ \E w \in Workers :
          \/ ClaimRolling(w) \/ GenericClaim(w) \/ ReadCurrentLease(w)
          \/ Outcome(w) \/ Project(w) \/ Heartbeat(w) \/ Fault(w)
    \/ RecoveryPass \/ CrashRecovery \/ ExpireReplayOwned \/ Tick

Spec == Init /\ [][Next]_vars

(* Every job that was started ends: subprocess and attempt-age timeouts     *)
(* bound it.  The main loop polls candidates and runs the recovery pass on  *)
(* every tick, the clip-worker sweeps on every poll, and time passes.       *)
(* Nothing is assumed about faults, rejections or heartbeats.               *)
Fairness ==
    /\ \A w \in Workers : WF_vars(Outcome(w)) /\ WF_vars(Project(w))
    /\ WF_vars(\E w \in Workers : ClaimRolling(w) \/ GenericClaim(w))
    /\ WF_vars(RecoveryPass)
    /\ WF_vars(ExpireReplayOwned)
    /\ WF_vars(Tick)

FairSpec == Spec /\ Fairness

-----------------------------------------------------------------------------
(* Properties                                                               *)

(* The row, the jobs and the recovery cursor stay within their types.       *)
TypeOK ==
    /\ task \in Task
    /\ event \in Statuses
    /\ job \in [Workers -> Job]
    /\ rec \in RecoverySteps \cup {"project"}
    /\ recDue \in [RecoverySteps -> BOOLEAN]
    /\ faults \in Nat
    /\ rejections \in Nat

(* Every statement leaves the row in one of six shapes.  In particular a    *)
(* leased row carries the fence of its generation in a phase its owner      *)
(* runs; a materializing row without a lease, which lease recovery cannot   *)
(* see, is exactly what recoverable_finalizer_handoffs selects; a waiting   *)
(* row has no handoff left over; and no query can select a terminal row.    *)
Shape(statuses, phases, owners, lease) ==
    /\ task.status \in statuses
    /\ task.phase \in phases
    /\ task.owner \in owners
    /\ task.lease = lease

Waiting ==
    /\ Shape(Claimable, WaitingPhases, {"rolling", "replay", "media_finalizer"}, NoLease)
    /\ task.handoff = NoHandoff
Running ==
    /\ Shape({"materializing"}, {RollingPhase(task.kind)}, {"rolling"}, RunnerFence(task.gen))
    /\ task.gen > 0 /\ task.handoff = NoHandoff
HandedOff ==
    /\ Shape({"materializing"}, {"finalizer_pending"}, {"media_finalizer"}, RunnerFence(task.gen))
    /\ task.gen > 0 /\ task.handoff = task.gen
Released ==
    /\ Shape({"materializing"}, {"finalizer_pending"}, {"media_finalizer"}, NoLease)
    /\ task.handoff # NoHandoff
Finalizing ==
    Shape({"materializing"}, {"finalizing"}, {"media_finalizer"}, FinalizerFence(task.gen))
Done ==
    /\ Shape(Terminal, {"terminal"}, {"terminal"}, NoLease)
    /\ task.next = NoTime

(* The row is always in one of the six shapes above.                        *)
RowShape == Waiting \/ Running \/ HandedOff \/ Released \/ Finalizing \/ Done

(* At most one job that claimed the row holds its fence; no job holds a     *)
(* generation the row has not issued, nor the finalizer fence of a row that *)
(* is still the remux owner's: a stale holder can never match again.  A job *)
(* that is still remuxing under the row's fence has no handoff to lose.     *)
SoleHolder ==
    /\ \A w \in Workers :
          /\ job[w].fence.gen <= task.gen
          /\ job[w].mode \notin {"idle", "unleased"} => job[w].fence # NoLease
          /\ job[w].mode = "running" /\ job[w].fence = task.lease => task.handoff = NoHandoff
          /\ task.lease = RunnerFence(task.gen) => job[w].fence # FinalizerFence(task.gen)
    /\ \A v, w \in Workers :
          job[v].mode \in Claimed /\ job[w].mode \in Claimed
             /\ job[v].fence = task.lease /\ job[w].fence = task.lease => v = w

(* events.media_status never announces a final outcome the task does not    *)
(* have, and no projection still to come will, although the projection is a *)
(* separate, unconditional statement that may run arbitrarily late.         *)
EventFollowsTask ==
    /\ event \in Terminal => event = task.status
    /\ \A w \in Workers : job[w].due \in Terminal => job[w].due = task.status
    /\ \A step \in RecoverySteps :
          recDue[step] /\ RecoveredStatus(step) \in Terminal
             => task.status = RecoveredStatus(step)

(* A terminal row is never written again by any statement.                  *)
TerminalAbsorbing == [][task.status \in Terminal => UNCHANGED task]_vars

(* A persisted handoff leaves the row only with a terminal outcome: no      *)
(* retry, recovery or claim demotes it and makes the remux be repeated.     *)
HandoffSurvives ==
    [][task.handoff # NoHandoff /\ task.handoff' # task.handoff
          => task.status' \in Terminal]_vars

(* A fence is issued with a fresh generation, or is the handoff's own token *)
(* passed from the remux owner to the finalizer.                            *)
FreshFence ==
    [][task.lease' \notin {task.lease, NoLease} =>
          \/ task.gen' = task.gen + 1
          \/ /\ task.gen' = task.gen
             /\ task.phase = "finalizer_pending"
             /\ task.handoff = task.gen
             /\ task.lease' = FinalizerFence(task.gen)]_vars

Stage ==
    IF task.status \in Terminal THEN "done"
    ELSE IF task.lease # NoLease THEN "held"
    ELSE IF task.handoff = NoHandoff THEN "waiting" ELSE "released"

(* The promise of EvidenceTask: one numbered fence at a time, an artifact   *)
(* that survives every release, success reported by a holder only, a final  *)
(* outcome, and no announcement of an outcome that did not happen.          *)
Promise == INSTANCE EvidenceTask WITH
    Outcomes <- Terminal,
    stage <- Stage,
    issued <- task.gen,
    artifact <- IF task.status \in Terminal THEN 0 ELSE task.handoff,
    outcome <- IF task.status \in Terminal THEN task.status ELSE "none",
    announced <- IF event \in Terminal THEN event ELSE "active"

(* The statements and their callers implement that promise.                 *)
ImplementsEvidenceTask == Promise!Spec

(* A valid handoff waiting for the finalizer is not discarded as a failure. *)
PendingHandoffNotDiscarded ==
    [][task.phase = "finalizer_pending" /\ task.status' = "failed"
          => task.failure' = "invalid_input"]_vars

(* As long as claims are available the task does not stall: from every      *)
(* generation it reaches a terminal state or is claimed again.              *)
NoStall ==
    \A g \in 0..MaxGeneration - 1 :
        task.gen = g ~> task.status \in Terminal \/ task.gen > g
=============================================================================
