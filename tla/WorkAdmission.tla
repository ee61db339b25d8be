---------------------------- MODULE WorkAdmission ----------------------------
(***************************************************************************)
(* Admission, execution and shutdown inside one media-worker process       *)
(* (Scheduler V2): the scheduler thread of run_worker with its three       *)
(* future tables (_RollingCacheMaterializationRunner,                      *)
(* _FinalizerSchedulerV2, _ImageSchedulerV2), the lane threads, the lease  *)
(* heartbeat thread, the signal handler and the grace watcher, over the    *)
(* resources of services/media-worker/app/materialization_scheduler.py:    *)
(* lane tickets, source slots, work permits and heartbeat handles.         *)
(*                                                                         *)
(* Only the scheduler thread acquires; the other threads only release.  So *)
(* one admission attempt (ticket, slot, permit, claim, register, submit,   *)
(* or the release of what was taken) is one step.  The database is an      *)
(* environment that grants, refuses or fails a statement.                  *)
(***************************************************************************)
EXTENDS Naturals, FiniteSets, Sequences

CONSTANTS
    Jobs,             \* identities of attempts, reusable; bounds the attempts alive at once
    Sources,          \* source_id: cameras
    NoSource,
    LaneWorkers,      \* [Lanes -> Nat]: max_workers of each executor
    LaneQueue,        \* [Lanes -> Nat]: queue_capacity of each executor
    MaxActive,        \* materialization_max_active
    ReservedNonImage, \* materialization_reserved_non_image
    SourceLimit,      \* materialization_source_limit
    MaxRows,          \* bound: candidate rows offered to one admission stage
    CompletionFaults, \* whether the statement that settles a finished attempt may fail
    SignalsInterrupt  \* whether a signal may interrupt a critical section of the controller

Lanes == {"image", "remux", "finalizer"}

ASSUME JobsAssumption == IsFiniteSet(Jobs)
ASSUME SourcesAssumption == NoSource \notin Sources
ASSUME LanesAssumption ==
    /\ LaneWorkers \in [Lanes -> Nat \ {0}]
    /\ LaneQueue \in [Lanes -> Nat]
(* run_worker refuses to start Scheduler V2 with max_active = 1. *)
ASSUME LimitsAssumption ==
    /\ MaxActive \in Nat /\ MaxActive >= 2
    /\ ReservedNonImage \in Nat
    /\ SourceLimit \in Nat \ {0}
    /\ MaxRows \in Nat
    /\ CompletionFaults \in BOOLEAN
    /\ SignalsInterrupt \in BOOLEAN

VARIABLES
    job,     \* job[j]: where attempt j is tracked, how far it ran, what it holds
    agenda,  \* the stages the scheduler thread still has to run, the current one first
    todo,    \* attempts the current drain, hand-over or force-stop loop has not visited
    rows,    \* candidate rows the current admission loop has not tried
    phase,   \* ShutdownController._phase
    force,   \* ShutdownController._force_requested
    inside,  \* the scheduler thread is inside a critical section of the controller
    lost     \* history: transferred attempts an exception took the local table of

vars == <<job, agenda, todo, rows, phase, force, inside, lost>>

-----------------------------------------------------------------------------
(* track: the table that refers to the attempt; "transfer" is the local     *)
(* transferred_handoffs of _drain_completed.  run: its future.  beat: its   *)
(* heartbeat handle, registered ("healthy") or dropped as lost or expired.  *)
Job == [track : Lanes \cup {"none", "transfer"},
        run : {"none", "queued", "running", "done"},
        source : Sources \cup {NoSource},
        ticket : Lanes \cup {"none"}, slot : BOOLEAN, permit : Lanes \cup {"none"},
        beat : {"none", "healthy", "lost"}]

Idle == [track |-> "none", run |-> "none", source |-> NoSource, ticket |-> "none",
         slot |-> FALSE, permit |-> "none", beat |-> "none"]

Drains == [finalizerDrain |-> "finalizer", imageDrain |-> "image",
           remuxDrain |-> "remux", remuxRedrain |-> "remux"]
Admits == [finalizerAdmit |-> "finalizer", remuxAdmit |-> "remux", imageAdmit |-> "image"]
RemuxDrains == {"remuxDrain", "remuxRedrain"}
Stages == DOMAIN Drains \cup DOMAIN Admits
              \cup {"handoff", "converge", "sleep", "stopCheck", "forceCheck",
                    "forceStop", "close", "snapshot", "stopped", "died", "blocked"}

Phases == {"running", "quiescing", "draining", "stopping", "stopped"}

At(stage) == Head(agenda) = stage
AdmissionOpen == phase = "running"

Executing(j) == job[j].run \in {"queued", "running"}
Transfers == {j \in Jobs : job[j].track = "transfer"}
Tracked == {j \in Jobs : job[j].track \in Lanes}

Init ==
    /\ job = [j \in Jobs |-> Idle]
    /\ agenda = <<"sleep">>
    /\ todo = {}
    /\ rows = 0
    /\ phase = "running"
    /\ force = FALSE
    /\ inside = FALSE
    /\ lost = {}

-----------------------------------------------------------------------------
(* Resources                                                                *)

(* BoundedExecutorLane.try_reserve *)
CanReserve(lane) ==
    Cardinality({j \in Jobs : job[j].ticket = lane}) < LaneWorkers[lane] + LaneQueue[lane]

(* mutant: off by one *)
CanTakeSlotInclusive(s) ==
    Cardinality({j \in Jobs : job[j].slot /\ job[j].source = s}) <= SourceLimit

(* SourceSlotRegistry.try_acquire *)
CanTakeSlot(s) ==
    Cardinality({j \in Jobs : job[j].slot /\ job[j].source = s}) < SourceLimit

(* WorkBudget.__init__ clamps the reserve so that one image can always run. *)
Reserve == IF ReservedNonImage < MaxActive THEN ReservedNonImage ELSE MaxActive - 1

(* WorkBudget.try_acquire *)
CanTakePermit(lane) ==
    Cardinality({j \in Jobs : job[j].permit # "none"}) <
        IF lane = "image" THEN MaxActive - Reserve ELSE MaxActive

(* An attempt nothing refers to and that holds nothing is forgotten.        *)
Tidy(r) ==
    IF /\ r.track = "none" /\ r.run = "none" /\ r.ticket = "none"
       /\ ~r.slot /\ r.permit = "none" /\ r.beat # "healthy"
    THEN Idle ELSE r

(* permit.release, source_permit.release, unregister; all idempotent        *)
Released(r) == [r EXCEPT !.permit = "none", !.slot = FALSE, !.beat = "none"]

Untracked(r) == [r EXCEPT !.track = "none", !.run = IF @ = "done" THEN "none" ELSE @]

-----------------------------------------------------------------------------
(* The scheduler thread: stages                                             *)

(* mutant: finalizer completions wait for the general poll *)
TickAgendaLazyDrain(generalDue, rollingDue) ==
    <<"imageDrain">>
    \o (IF generalDue THEN <<"finalizerDrain", "finalizerAdmit">> ELSE <<>>)
    \o (IF rollingDue THEN <<"remuxDrain", "remuxAdmit", "remuxRedrain", "imageAdmit">> ELSE <<>>)
    \o <<"snapshot", "sleep">>

(* One pass of the main loop: general_due and rolling_cache_due choose what *)
(* is admitted; the drains always run.                                      *)
TickAgenda(generalDue, rollingDue) ==
    <<"finalizerDrain", "imageDrain">>
    \o (IF generalDue THEN <<"finalizerAdmit">> ELSE <<>>)
    \o (IF rollingDue THEN <<"remuxDrain", "remuxAdmit", "remuxRedrain", "imageAdmit">> ELSE <<>>)
    \o <<"snapshot", "sleep">>

StopAgenda == <<"remuxDrain", "finalizerDrain", "imageDrain", "forceCheck">>

(* Inside the shutdown loop no handler is left to catch an exception.       *)
Stopping == agenda[Len(agenda)] # "sleep"
Aborted == IF Stopping THEN <<"died">> ELSE <<"snapshot", "sleep">>

(* What the loop of a stage iterates over: a copy of its table.             *)
Snapshot(stage) ==
    CASE stage \in DOMAIN Drains -> {j \in Jobs : job[j].track = Drains[stage]}
      [] stage = "handoff" -> IF AdmissionOpen THEN Transfers ELSE {}
      [] stage = "converge" -> Transfers
      [] stage = "forceStop" -> Tracked
      [] OTHER -> {}

Enter(next) ==
    /\ agenda' = next
    /\ todo' = Snapshot(Head(next))
    /\ IF Head(next) \in DOMAIN Admits /\ AdmissionOpen
       THEN rows' \in 0..MaxRows
       ELSE rows' = 0

(* process() returns before its second drain when admission is closed.      *)
Following ==
    IF Head(agenda) \in RemuxDrains /\ Transfers # {}
    THEN <<"handoff", "converge">> \o Tail(agenda)
    ELSE IF Head(Tail(agenda)) = "remuxAdmit" /\ ~AdmissionOpen
         THEN Tail(Tail(Tail(agenda)))
         ELSE Tail(agenda)

Advance ==
    /\ Head(agenda) \in DOMAIN Drains \cup DOMAIN Admits \cup {"handoff", "converge", "forceStop"}
    /\ todo = {}
    /\ rows = 0
    /\ Enter(Following)
    /\ UNCHANGED <<job, phase, force, inside, lost>>

(* The end of a tick: shutdown_requested is looked at here only.            *)
Wake ==
    /\ At("sleep")
    /\ \/ /\ phase = "running"
          /\ \E general, rolling \in BOOLEAN : Enter(TickAgenda(general, rolling))
          /\ UNCHANGED phase
       \/ /\ phase # "running"
          /\ phase' = IF phase = "quiescing" THEN "draining" ELSE phase
          /\ Enter(<<"stopCheck">>)
    /\ UNCHANGED <<job, force, inside, lost>>

(* snapshot() at the end of a tick and grace_expired() in the shutdown loop *)
(* (unless a stop is forced already) call out of the controller while they  *)
(* hold its lock.                                                           *)
TakeControllerLock ==
    /\ At("snapshot") \/ (At("forceCheck") /\ ~force)
    /\ ~inside
    /\ inside' = TRUE
    /\ UNCHANGED <<job, agenda, todo, rows, phase, force, lost>>

EndSnapshot ==
    /\ At("snapshot")
    /\ inside
    /\ inside' = FALSE
    /\ Enter(Tail(agenda))
    /\ UNCHANGED <<job, phase, force, lost>>

(* The recovery pass at the start of a tick raises, or a query of an        *)
(* admission stage: the main loop logs and goes on.                         *)
AbandonTick ==
    /\ Head(agenda) \in DOMAIN Admits \/ (At("sleep") /\ phase = "running")
    /\ Enter(<<"snapshot", "sleep">>)
    /\ UNCHANGED <<job, phase, force, inside, lost>>

-----------------------------------------------------------------------------
(* Drains                                                                   *)

Visit(j) == j \in todo /\ todo' = todo \ {j}

NotDone(j) ==
    /\ Head(agenda) \in DOMAIN Drains
    /\ Visit(j)
    /\ job[j].run # "done"
    /\ UNCHANGED <<job, agenda, rows, phase, force, inside, lost>>

(* _FinalizerSchedulerV2.drain_completed, _ImageSchedulerV2.drain_completed *)
DrainLane(j) ==
    /\ Head(agenda) \in {"finalizerDrain", "imageDrain"}
    /\ Visit(j)
    /\ job[j].run = "done"
    /\ job' = [job EXCEPT ![j] =
                  Tidy([Untracked(@) EXCEPT
                           !.beat = IF At("imageDrain") THEN "none" ELSE job[j].beat])]
    /\ UNCHANGED <<agenda, rows, phase, force, inside, lost>>

(* _handle_not_ready fails to record a permanently invalid output.          *)
DrainFinalizerFault(j) ==
    /\ CompletionFaults
    /\ At("finalizerDrain")
    /\ j \in todo
    /\ job[j].run = "done"
    /\ job' = [job EXCEPT ![j] = Tidy(Untracked(@))]
    /\ agenda' = Aborted
    /\ todo' = {}
    /\ UNCHANGED <<rows, phase, force, inside, lost>>

RemuxDone(j) ==
    /\ Head(agenda) \in RemuxDrains
    /\ j \in todo
    /\ job[j].run = "done"

(* mutant: the release is not in a finally block *)
SettledKeepingPermit(r) == Tidy([Untracked(r) EXCEPT !.slot = FALSE, !.beat = "none"])

Settled(r) == Tidy(Released(Untracked(r)))

(* _drain_completed: no output, unhealthy lease or refused handoff          *)
SettleRemux(j) ==
    /\ RemuxDone(j)
    /\ Visit(j)
    /\ job' = [job EXCEPT ![j] = Settled(@)]
    /\ UNCHANGED <<agenda, rows, phase, force, inside, lost>>

(* ... the handoff is persisted: permit and heartbeat move to the transfer  *)
PersistRemux(j) ==
    /\ RemuxDone(j)
    /\ Visit(j)
    /\ job[j].beat = "healthy"
    /\ job' = [job EXCEPT ![j] =
                  [@ EXCEPT !.track = "transfer", !.run = "none", !.slot = FALSE]]
    /\ UNCHANGED <<agenda, rows, phase, force, inside, lost>>

(* ... the statement of an except clause fails: the attempt's own resources *)
(* are released by finally, the exception leaves the loop and with it the   *)
(* local table of transfers.                                                *)
SettleRemuxFault(j) ==
    /\ CompletionFaults
    /\ RemuxDone(j)
    /\ job' = [k \in Jobs |->
                  IF k = j THEN Settled(job[j])
                  ELSE IF k \in Transfers THEN Tidy(Untracked(job[k]))
                  ELSE job[k]]
    /\ lost' = lost \cup Transfers
    /\ agenda' = Aborted
    /\ todo' = {}
    /\ UNCHANGED <<rows, phase, force, inside>>

-----------------------------------------------------------------------------
(* Admission                                                                *)

(* The remux runner also counts its own futures, done or not.               *)
RunnerFull(lane) ==
    /\ lane = "remux"
    /\ Cardinality({j \in Jobs : job[j].track = "remux"}) >= LaneWorkers["remux"]

Attempt(lane, s, r) ==
    [track |-> lane, run |-> "queued", source |-> s, ticket |-> lane, slot |-> TRUE,
     permit |-> lane, beat |-> r]

(* A finalizer claims, and registers its heartbeat, in its own thread.      *)
Submit(lane) ==
    /\ Head(agenda) \in DOMAIN Admits /\ Admits[Head(agenda)] = lane
    /\ rows > 0
    /\ ~RunnerFull(lane)
    /\ CanReserve(lane)
    /\ CanTakePermit(lane)
    /\ \E s \in Sources, j \in Jobs :
          /\ CanTakeSlot(s)
          /\ job[j] = Idle
          /\ job' = [job EXCEPT ![j] =
                        Attempt(lane, s, IF lane = "finalizer" THEN "none" ELSE "healthy")]
    /\ rows' = rows - 1
    /\ UNCHANGED <<agenda, todo, phase, force, inside, lost>>

(* The row is skipped: its source is saturated, or the claim was lost or    *)
(* raised; what had been taken is given back.                               *)
SkipRow ==
    /\ rows > 0
    /\ CanReserve(Admits[Head(agenda)])
    /\ rows' = rows - 1
    /\ UNCHANGED <<job, agenda, todo, phase, force, inside, lost>>

(* No lane ticket or no permit: the loop ends.                              *)
StopAdmitting ==
    /\ rows > 0
    /\ LET lane == Admits[Head(agenda)]
       IN  RunnerFull(lane) \/ ~CanReserve(lane) \/ ~CanTakePermit(lane)
    /\ rows' = 0
    /\ UNCHANGED <<job, agenda, todo, phase, force, inside, lost>>

(* admit_metadata for a transferred handoff: its permit moves to the        *)
(* finalizer lane.                                                          *)
AdmitTransfer(j) ==
    /\ At("handoff")
    /\ Visit(j)
    /\ CanReserve("finalizer")
    /\ CanTakeSlot(job[j].source)
    /\ job' = [job EXCEPT ![j] = Attempt("finalizer", @.source, @.beat)]
    /\ UNCHANGED <<agenda, rows, phase, force, inside, lost>>

(* ... it is left for the finally block: already active, per-source limit,  *)
(* source slot full.                                                        *)
LeaveTransfer(j) ==
    /\ At("handoff")
    /\ Visit(j)
    /\ UNCHANGED <<job, agenda, rows, phase, force, inside, lost>>

(* ... the lane is full, or a query raises and the tick is abandoned.       *)
StopTransfers ==
    /\ At("handoff")
    /\ todo # {}
    /\ \/ ~CanReserve("finalizer") /\ UNCHANGED agenda
       \/ ~Stopping /\ agenda' = <<"handoff", "converge", "snapshot", "sleep">>
    /\ todo' = {}
    /\ UNCHANGED <<job, rows, phase, force, inside, lost>>

(* _converge_transferred_handoff: the retry statement's failure is caught.  *)
Converge(j) ==
    /\ At("converge")
    /\ Visit(j)
    /\ job' = [job EXCEPT ![j] = Tidy(Released(Untracked(@)))]
    /\ UNCHANGED <<agenda, rows, phase, force, inside, lost>>

-----------------------------------------------------------------------------
(* Lane threads and the heartbeat thread                                    *)

(* An executor thread takes the attempt; a queued finalizer's heartbeat is  *)
(* given up before its own claim.                                           *)
Start(j) ==
    /\ job[j].run = "queued"
    /\ Cardinality({k \in Jobs : job[k].run = "running" /\ job[k].ticket = job[j].ticket})
          < LaneWorkers[job[j].ticket]
    /\ job' = [job EXCEPT ![j].run = "running",
                          ![j].beat = IF job[j].ticket = "finalizer" THEN "none" ELSE @]
    /\ UNCHANGED <<agenda, todo, rows, phase, force, inside, lost>>

(* _finalize_one registers the claimed lease, unless a stop is forced.      *)
FinalizerClaims(j) ==
    /\ job[j].run = "running" /\ job[j].ticket = "finalizer"
    /\ job[j].beat = "none"
    /\ ~force /\ ~inside
    /\ job' = [job EXCEPT ![j].beat = "healthy"]
    /\ UNCHANGED <<agenda, todo, rows, phase, force, inside, lost>>

(* The finally blocks of _run_rolling_image_job_v2, _finalize_one and       *)
(* _run_finalizer_admission_v2, then the ticket; a remux job holds on to    *)
(* everything but its ticket until it is drained.                           *)
Finished(r) ==
    Tidy([(IF r.ticket = "remux" THEN r ELSE Released(r)) EXCEPT
             !.run = IF r.track = "none" THEN "none" ELSE "done", !.ticket = "none"])

Finish(j) ==
    /\ job[j].run = "running"
    /\ job' = [job EXCEPT ![j] = Finished(@)]
    /\ UNCHANGED <<agenda, todo, rows, phase, force, inside, lost>>

(* tick_once: the fence is gone, the statement failed or the attempt is too *)
(* old; the handle is dropped.                                              *)
HeartbeatLost(j) ==
    /\ job[j].beat = "healthy"
    /\ phase # "stopped"
    /\ job' = [job EXCEPT ![j] = Tidy([@ EXCEPT !.beat = "lost"])]
    /\ UNCHANGED <<agenda, todo, rows, phase, force, inside, lost>>

-----------------------------------------------------------------------------
(* Shutdown                                                                 *)

(* ShutdownController.request: the first signal drains, another one forces. *)
Signal ==
    /\ phase # "stopped"
    /\ ~inside
    /\ IF phase = "running"
       THEN phase' = "quiescing" /\ UNCHANGED force
       ELSE phase' = "stopping" /\ force' = TRUE
    /\ UNCHANGED <<job, agenda, todo, rows, inside, lost>>

(* Python runs the handler in the scheduler thread, which already holds the *)
(* controller's lock, a plain Lock: request() never gets it.                *)
SignalInside ==
    /\ SignalsInterrupt
    /\ inside
    /\ agenda' = <<"blocked">>
    /\ todo' = {}
    /\ UNCHANGED <<job, rows, phase, force, inside, lost>>

(* _watch_shutdown_grace, and grace_expired() in the shutdown loop          *)
GraceExpires ==
    /\ phase \notin {"running", "stopped"}
    /\ ~force
    /\ ~inside
    /\ phase' = "stopping"
    /\ force' = TRUE
    /\ UNCHANGED <<job, agenda, todo, rows, inside, lost>>

StopCheck ==
    /\ At("stopCheck")
    /\ Enter(IF Tracked = {} THEN <<"close">> ELSE StopAgenda)
    /\ UNCHANGED <<job, phase, force, inside, lost>>

(* mutant: the grace period and the second signal are ignored *)
ForceCheckNever ==
    /\ At("forceCheck")
    /\ inside \/ force
    /\ inside' = FALSE
    /\ Enter(<<"stopCheck">>)
    /\ UNCHANGED <<job, phase, force, lost>>

ForceCheck ==
    /\ At("forceCheck")
    /\ inside \/ force
    /\ inside' = FALSE
    /\ IF force
       THEN phase' = "stopping" /\ Enter(<<"forceStop", "close">>)
       ELSE UNCHANGED phase /\ Enter(<<"stopCheck">>)
    /\ UNCHANGED <<job, force, lost>>

(* mutant: the source slot is forgotten *)
ForceStoppedKeepingSlot(r) ==
    LET cancelled == IF r.run = "queued"
                     THEN [r EXCEPT !.run = "none", !.ticket = "none"] ELSE r
        gone == [Untracked(cancelled) EXCEPT !.permit = "none", !.beat = "none"]
    IN  Tidy(gone)

(* force_stop: a queued future is cancelled, a running one is let go; a     *)
(* running finalizer keeps its own heartbeat.                               *)
ForceStopped(r) ==
    LET cancelled == IF r.run = "queued"
                     THEN [r EXCEPT !.run = "none", !.ticket = "none"] ELSE r
        gone == Released(Untracked(cancelled))
    IN  Tidy([gone EXCEPT !.beat = IF r.ticket = "finalizer" /\ r.run = "running"
                                   THEN r.beat ELSE @])

ForceStop(j) ==
    /\ At("forceStop")
    /\ Visit(j)
    /\ job' = [job EXCEPT ![j] = ForceStopped(@)]
    /\ UNCHANGED <<agenda, rows, phase, force, inside, lost>>

(* MaterializationResources.close: heartbeats, lanes, pool.  Without force  *)
(* it waits for the lane threads.                                           *)
Close ==
    /\ At("close")
    /\ force \/ \A j \in Jobs : job[j].run # "running"
    /\ job' = [j \in Jobs |-> Tidy([job[j] EXCEPT !.beat = "none"])]
    /\ phase' = "stopped"
    /\ Enter(<<"stopped">>)
    /\ UNCHANGED <<force, inside, lost>>

-----------------------------------------------------------------------------
Scheduler ==
    \/ Advance \/ Wake \/ TakeControllerLock \/ EndSnapshot \/ AbandonTick \/ StopCheck \/ ForceCheck \/ Close
    \/ SkipRow \/ StopAdmitting \/ StopTransfers
    \/ \E lane \in Lanes : Submit(lane)
    \/ \E j \in Jobs :
          \/ NotDone(j) \/ DrainLane(j) \/ DrainFinalizerFault(j)
          \/ SettleRemux(j) \/ PersistRemux(j) \/ SettleRemuxFault(j)
          \/ AdmitTransfer(j) \/ LeaveTransfer(j) \/ Converge(j) \/ ForceStop(j)

Next ==
    \/ Scheduler
    \/ \E j \in Jobs : Start(j) \/ FinalizerClaims(j) \/ Finish(j) \/ HeartbeatLost(j)
    \/ Signal \/ SignalInside \/ GraceExpires
    \/ Head(agenda) \in {"stopped", "died", "blocked"} /\ UNCHANGED vars

Spec == Init /\ [][Next]_vars

(* The scheduler thread keeps running; the grace period ends, and the       *)
(* watcher is not kept from the controller's lock, which the scheduler      *)
(* thread takes briefly, for ever.  Nothing is assumed of the lane threads. *)
StopSpec == Spec /\ WF_vars(Scheduler) /\ SF_vars(GraceExpires)

(* The rolling poll (every second) comes due more often than the general    *)
(* poll (two seconds or more), so ticks with the first only recur.  Lane    *)
(* jobs end (their subprocesses have timeouts), and the executors' queues   *)
(* are first-in first-out: a queued job is not passed over for ever.  The   *)
(* statements that settle an attempt fail no more from some moment on.      *)
WakeRolling == Wake /\ agenda' = TickAgenda(FALSE, TRUE)

CompletionFault == \E j \in Jobs : DrainFinalizerFault(j) \/ SettleRemuxFault(j)

LaneFairness ==
    /\ SF_vars(WakeRolling)
    /\ <>[][~CompletionFault]_vars
    /\ \A j \in Jobs : SF_vars(Start(j)) /\ WF_vars(Finish(j))

-----------------------------------------------------------------------------
(* Properties                                                               *)

(* Attempts, stages and the shutdown state stay within their types.         *)
TypeOK ==
    /\ job \in [Jobs -> Job]
    /\ agenda \in Seq(Stages) /\ agenda # <<>>
    /\ todo \subseteq Jobs
    /\ rows \in 0..MaxRows
    /\ phase \in Phases
    /\ force \in BOOLEAN
    /\ inside \in BOOLEAN
    /\ lost \subseteq Jobs

(* Somebody will give back what the attempt holds: the lane thread that     *)
(* runs it or the table it is in.                                           *)
Owned(j) == job[j].track # "none" \/ job[j].run = "running"

Holds(j) == job[j].permit # "none" \/ job[j].slot \/ job[j].beat = "healthy"

(* Whatever an attempt holds will be given back by somebody: by the lane    *)
(* thread that runs it, by the table that tracks its future or, for a       *)
(* transferred handoff, by the converge loop still ahead of the scheduler   *)
(* thread ("No discovery, fairness, capacity or shutdown branch may return  *)
(* while retaining that lease without an executor owner", admit_metadata).  *)
(* There is one way to lose something, and it loses no slot and no ticket:  *)
(* the exception of a completion statement, for the handoffs that were      *)
(* transferred before it in the same drain.                                 *)
NoOrphan ==
    \A j \in Jobs :
        /\ Holds(j) /\ ~Owned(j) <=> j \in lost
        /\ j \in lost => ~job[j].slot
        /\ job[j].ticket # "none" => Executing(j)
        /\ job[j].track = "transfer" =>
              \/ Head(agenda) \in RemuxDrains
              \/ \E i \in 1..Len(agenda) : agenda[i] = "converge"

(* The limits bound the work itself and not only their counters: attempts   *)
(* that occupy an executor, per camera, per process, and images alone; so a *)
(* video can always start beside the images.                                *)
WithinLimits ==
    LET Work(P(_)) == Cardinality({j \in Jobs : Executing(j) /\ P(j)})
    IN  /\ \A s \in Sources : Work(LAMBDA j : job[j].source = s) <= SourceLimit
        /\ Work(LAMBDA j : TRUE) <= MaxActive
        /\ Work(LAMBDA j : job[j].ticket = "image") <= MaxActive - Reserve

(* A stopped process holds no permit and no slot; unless the stop was       *)
(* forced, no attempt is left in any state.  The handoffs an exception has  *)
(* lost are excepted, and keep no more than their permit.                   *)
StopReleases ==
    At("stopped") =>
        \A j \in Jobs :
            /\ job[j].permit = "none" \/ j \in lost
            /\ ~job[j].slot
            /\ force \/ job[j] = Idle \/ j \in lost

(* A requested shutdown ends, even if no lane job ever does: in order, or   *)
(* with the exception of a completion statement of the shutdown loop, which *)
(* nothing catches.                                                         *)
ShutdownStops == phase # "running" ~> phase = "stopped" \/ At("died")

(* If the polls keep their cadence, lane jobs end and completion statements *)
(* do not fail for ever, every attempt leaves its table: its capacity comes *)
(* back.                                                                    *)
AttemptsEnd ==
    LaneFairness =>
        \A j \in Jobs : job[j].track # "none" ~> job[j].track = "none" \/ At("died")
=============================================================================
