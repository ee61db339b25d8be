--------------------------- MODULE ReplayAdmission ---------------------------
(***************************************************************************)
(* The clip-worker's Coordinator V2 (services/clip-worker/app): a record   *)
(* request is delivered by a Redis consumer group, admitted to one of the  *)
(* bounded Replay slots, submitted to the Replay service over HTTP and     *)
(* committed to the task row before it is acknowledged.  Every repository  *)
(* call is one autocommit statement, and any number of workers may hold    *)
(* the same delivery: one may be slow while another reclaims it.           *)
(*                                                                         *)
(* The proof lookup, the pure planner and the payload are reduced to       *)
(* whether they yield a plan and whether it is the plan of the slot.  All  *)
(* pending states of a task (queued, waiting_proof, ...) are one, so       *)
(* mark_pending changes nothing here.  The media-worker appears with its two effects on the     *)
(* row: it releases the slot of a stable sink video and ends the task.     *)
(***************************************************************************)
EXTENDS Naturals, FiniteSets

CONSTANTS
    Workers,        \* clip-worker processes sharing the consumer group
    Events,         \* events with a record request
    Sources,        \* source_id
    SourceOf,       \* [Events -> Sources]
    MaxGlobal,      \* EVIDENCE_MATERIALIZATION_MAX_CONCURRENCY
    MaxPerSource,   \* EVIDENCE_MATERIALIZATION_MAX_CONCURRENCY_PER_SOURCE
    MaxFaults       \* bound: crashes and failed or unanswered statements

None == "none"

ASSUME ReplayAssumption ==
    /\ IsFiniteSet(Workers) /\ None \notin Workers
    /\ IsFiniteSet(Events)
    /\ SourceOf \in [Events -> Sources]
    /\ MaxGlobal \in Nat \ {0} /\ MaxPerSource \in Nat \ {0} /\ MaxFaults \in Nat

VARIABLES
    msg,      \* the request in the stream: "new", "pending" or "acked"
    task,     \* materialization_status
    slot,     \* the replay_* columns of the task row
    late,     \* replay_slot_deadline_at has passed
    overdue,  \* materialization_deadline_at has passed
    transit,  \* a create request is on its way to Replay
    jobs,     \* Replay jobs created for the event
    running,  \* a Replay job of the event is in Replay's list
    video,    \* its sink video is stable
    proc,     \* proc[w]: program counter and locals of worker w
    faults

replay == <<transit, jobs, running, video>>
vars == <<msg, task, slot, late, overdue, replay, proc, faults>>

-----------------------------------------------------------------------------
Labels == {"idle", "check", "slot", "gate", "load", "snapshot", "acquire", "takeover", "recover",
           "mark", "submit", "abort", "uncertain", "commit", "fail", "ack"}
Terminal == {"materialization_failed", "materialization_expired", "materialized"}
Statuses == {"materialization_pending", "materializing"} \cup Terminal
CreateStates == {None, "reserved", "submitting", "uncertain", "committed", "aborted", "sink_confirmed"}
MaxJobs == 2  \* bound: one more than the code is meant to create

(* Generations are only compared for equality, with one a worker remembers: *)
(* one that nobody remembers stands for replay_slot_generation + 1.         *)
Generations == 0..(Cardinality(Workers) + 1)

FreeSlot == [status |-> None, owner |-> None, gen |-> 0, create |-> None, job |-> 0]
Idle == [pc |-> "idle", event |-> None, reclaimed |-> FALSE, recovering |-> FALSE,
         gen |-> 0, seen |-> {}, job |-> 0]

At(w, pc) == proc[w].pc = pc
Current(w) == proc[w].event
Goto(w, pc) == proc' = [proc EXCEPT ![w].pc = pc]
(* Go on with a reservation of generation g; of the rest only the event     *)
(* matters from here on.                                                    *)
Holding(w, pc, g) ==
    proc' = [proc EXCEPT ![w] = [Idle EXCEPT !.pc = pc, !.event = Current(w), !.gen = g]]
Hold(w) == proc' = [proc EXCEPT ![w] = Idle]
Fault == faults < MaxFaults /\ faults' = faults + 1

Init ==
    /\ msg = [e \in Events |-> "new"]
    /\ task = [e \in Events |-> "materialization_pending"]
    /\ slot = [e \in Events |-> FreeSlot]
    /\ late = {}
    /\ overdue = {}
    /\ transit = {}
    /\ jobs = [e \in Events |-> 0]
    /\ running = {}
    /\ video = {}
    /\ proc = [w \in Workers |-> Idle]
    /\ faults = 0

(* Slots counted by an admission query: active, deadline not passed. *)
Counted == {e \in Events : slot[e].status = "active" /\ e \notin late}

(* Whether a set of counted slots leaves no room for event e. *)
Full(counted, e) ==
    \/ Cardinality(counted) >= MaxGlobal
    \/ Cardinality({f \in counted : SourceOf[f] = SourceOf[e]}) >= MaxPerSource

NextGeneration(e) ==
    CHOOSE g \in Generations :
        g # slot[e].gen /\ \A w \in Workers : Current(w) = e => g # proc[w].gen

(* mutant: any active slot passes the fence *)
FencedByToken(w) == slot[Current(w)].status = "active"

(* The owner, token and generation of the row are those of w's reservation. *)
Fenced(w) ==
    LET row == slot[Current(w)] IN
        row.status = "active" /\ row.owner = w /\ row.gen = proc[w].gen

(* One statement that updates the slot if its condition holds.  An error   *)
(* before or after the commit looks to the caller like a missed condition. *)
Statement(w, hit, row, yes, no) ==
    \/ /\ hit
       /\ slot' = [slot EXCEPT ![Current(w)] = row]
       /\ \/ yes /\ UNCHANGED faults
          \/ no /\ Fault
    \/ /\ no
       /\ UNCHANGED slot
       /\ IF hit THEN Fault ELSE UNCHANGED faults

-----------------------------------------------------------------------------
(* Delivery                                                                 *)

Deliver(w, e, again) ==
    /\ At(w, "idle")
    /\ proc' = [proc EXCEPT ![w] = [Idle EXCEPT !.pc = "check", !.event = e, !.reclaimed = again]]
    /\ UNCHANGED <<task, slot, late, overdue, replay, faults>>

ReadNew(w, e) ==
    /\ msg[e] = "new"
    /\ msg' = [msg EXCEPT ![e] = "pending"]
    /\ Deliver(w, e, FALSE)

(* XAUTOCLAIM hands over an entry that has been idle, whoever has it. *)
Reclaim(w, e) ==
    /\ msg[e] = "pending"
    /\ Deliver(w, e, TRUE)
    /\ UNCHANGED msg

(* ClipCoordinator.process_one acknowledges a durable ACK outcome. *)
Ack(w) ==
    /\ At(w, "ack")
    /\ \/ msg' = [msg EXCEPT ![Current(w)] = "acked"] /\ UNCHANGED faults
       \/ Fault /\ UNCHANGED msg
    /\ Hold(w)
    /\ UNCHANGED <<task, slot, late, overdue, replay>>

(* The process dies with what it held in memory; the delivery stays pending. *)
Crash(w) ==
    /\ ~ At(w, "idle")
    /\ Fault
    /\ Hold(w)
    /\ UNCHANGED <<msg, task, slot, late, overdue, replay>>

-----------------------------------------------------------------------------
(* ClipRequestProcessorV2.__call__                                          *)

CheckTerminal(w) ==
    /\ At(w, "check")
    /\ \/ /\ Goto(w, IF task[Current(w)] \in Terminal THEN "ack" ELSE "slot")
          /\ UNCHANGED faults
       \/ Goto(w, "slot") /\ Fault
    /\ UNCHANGED <<msg, task, slot, late, overdue, replay>>

LoadSlot(w) ==
    LET row == slot[Current(w)] IN
    /\ At(w, "slot")
    /\ \/ /\ CASE row.status = "timeout" -> Goto(w, "fail")
               [] row.status = "released" -> Hold(w)
               [] row.status = "active" /\ row.create = "committed" -> Goto(w, "ack")
               [] OTHER -> proc' = [proc EXCEPT ![w].pc = "gate", ![w].recovering = row.status = "active"]
          /\ UNCHANGED faults
       \/ Goto(w, "gate") /\ Fault
    /\ UNCHANGED <<msg, task, slot, late, overdue, replay>>

(* mutant: slots are not timed out *)
TimedOutNever == {}

(* release_timed_out_replay_slots: the rows whose deadline has passed. *)
TimedOut == {e \in Events : slot[e].status = "active" /\ e \in late}

(* The count query times slots out first.  A request that is not recovering *)
(* a slot is held when there is no room; otherwise the anchor and proof     *)
(* lookup holds it, fails it for good or leads to a plan.                   *)
Gate(w) ==
    /\ At(w, "gate")
    /\ slot' = [e \in Events |-> IF e \in TimedOut THEN [slot[e] EXCEPT !.status = "timeout"] ELSE slot[e]]
    /\ \/ Hold(w)
       \/ /\ proc[w].recovering \/ ~ Full(Counted, Current(w))
          /\ \/ Goto(w, "fail")
             \/ proc' = [proc EXCEPT ![w].pc = "load", ![w].recovering = FALSE]
    /\ UNCHANGED <<msg, task, late, overdue, replay, faults>>

(* update_clip_status(failed): conditional on a Replay-owned, not otherwise *)
(* terminated row; the delivery is acknowledged only if it matched.         *)
Failable(e) == task[e] \in {"materialization_pending", "materializing", "materialization_failed"}

(* Once there is a video a finalizer may have claimed the row, which is     *)
(* then owned by media_finalizer.                                           *)
MayBeTaken(e) == e \in video /\ task[e] \notin Terminal

MarkFailed(w) ==
    LET e == Current(w) IN
    /\ At(w, "fail")
    /\ \/ /\ Failable(e)
          /\ task' = [task EXCEPT ![e] = "materialization_failed"]
          /\ \/ Goto(w, "ack") /\ UNCHANGED faults
             \/ Hold(w) /\ Fault
       \/ /\ Hold(w)
          /\ UNCHANGED task
          /\ IF Failable(e) /\ ~MayBeTaken(e) THEN Fault ELSE UNCHANGED faults
    /\ UNCHANGED <<msg, slot, late, overdue, replay>>

-----------------------------------------------------------------------------
(* FencedReplayExecutor.execute                                             *)

(* A fresh delivery leaves an active slot to its owner; a reclaimed one may *)
(* take it over unless its plan has another hash than the slot's.           *)
Existing(w, row) ==
    \/ row.create = "committed" /\ Goto(w, "ack")
    \/ row.create # "committed" /\ Hold(w)
    \/ row.create # "committed" /\ proc[w].reclaimed /\ Holding(w, "takeover", row.gen)

Load(w) ==
    LET row == slot[Current(w)] IN
    /\ At(w, "load")
    /\ \/ /\ CASE row.status = "active" -> Existing(w, row)
               [] row.status \in {"released", "timeout"} -> Hold(w)
               [] row.status = None -> Goto(w, "snapshot")
          /\ UNCHANGED faults
       \/ Goto(w, "snapshot") /\ Fault
    /\ UNCHANGED <<msg, task, slot, late, overdue, replay>>

(* The admission statement takes its snapshot when it starts and the        *)
(* advisory lock after that: the counts may be older than the reservation.  *)
Snapshot(w) ==
    /\ At(w, "snapshot")
    /\ proc' = [proc EXCEPT ![w].pc = "acquire", ![w].seen = Counted]
    /\ UNCHANGED <<msg, task, slot, late, overdue, replay, faults>>

(* try_acquire_fenced_replay_slot under the lock; the target row is current. *)
Acquire(w) ==
    LET e == Current(w)
        g == NextGeneration(e)
        row == [status |-> "active", owner |-> w, gen |-> g, create |-> "reserved", job |-> 0]
        free == slot[e].status = None
    IN
    /\ At(w, "acquire")
    /\ Statement(w, free /\ ~ Full(proc[w].seen, e), row,
                 Holding(w, "mark", g),
                 IF slot[e].status \in {"released", "timeout"} THEN Goto(w, "ack") ELSE Hold(w))
    /\ UNCHANGED <<msg, task, late, overdue, replay>>

(* takeover_fenced_replay_slot: a compare-and-swap on the generation loaded. *)
Takeover(w) ==
    LET e == Current(w)
        row == slot[e]
        g == NextGeneration(e)
    IN
    /\ At(w, "takeover")
    /\ Statement(w, row.status = "active" /\ row.gen = proc[w].gen /\ row.job = 0,
                 [row EXCEPT !.owner = w, !.gen = g],
                 Holding(w, IF row.create \in {"submitting", "uncertain"} THEN "recover" ELSE "mark", g),
                 Hold(w))
    /\ UNCHANGED <<msg, task, late, overdue, replay>>

(* recover_submission looks for the token among Replay's active jobs; a     *)
(* finished job, or a query that fails, yields nothing.                     *)
Recover(w) ==
    /\ At(w, "recover")
    /\ \/ /\ Current(w) \in running
          /\ proc' = [proc EXCEPT ![w].pc = "commit", ![w].job = jobs[Current(w)]]
          /\ UNCHANGED faults
       \/ /\ Goto(w, "uncertain")
          /\ IF Current(w) \in running THEN Fault ELSE UNCHANGED faults
    /\ UNCHANGED <<msg, task, slot, late, overdue, replay>>

(* mark_replay_create_started, the last step before the external effect. *)
MarkSubmitting(w) ==
    LET row == slot[Current(w)] IN
    /\ At(w, "mark")
    /\ Statement(w, Fenced(w) /\ row.job = 0 /\ row.create \in {"reserved", "submitting"},
                 [row EXCEPT !.create = "submitting"],
                 Goto(w, "submit"),
                 Hold(w))
    /\ UNCHANGED <<msg, task, late, overdue, replay>>

CreateJob(e) ==
    /\ jobs[e] < MaxJobs
    /\ jobs' = [jobs EXCEPT ![e] = @ + 1]
    /\ running' = running \cup {e}

(* mutant: every error of the create call is taken for a refusal *)
SubmitEveryErrorRefused(w) ==
    LET e == Current(w) IN
    /\ At(w, "submit")
    /\ \/ /\ CreateJob(e)
          /\ \/ proc' = [proc EXCEPT ![w].pc = "commit", ![w].job = jobs[e] + 1]
             \/ Goto(w, "abort")
          /\ UNCHANGED transit
       \/ Goto(w, "abort") /\ UNCHANGED <<transit, jobs, running>>
       \/ Goto(w, "uncertain") /\ transit' = transit \cup {e} /\ UNCHANGED <<jobs, running>>
    /\ UNCHANGED <<msg, task, slot, late, overdue, video, faults>>

(* ReplayClient.submit_plan: created; refused with a definitive 4xx; or an  *)
(* error or timeout after which the job may exist, not exist, or still come *)
(* into being.                                                              *)
Submit(w) ==
    LET e == Current(w) IN
    /\ At(w, "submit")
    /\ \/ /\ CreateJob(e)
          /\ \/ proc' = [proc EXCEPT ![w].pc = "commit", ![w].job = jobs[e] + 1]
             \/ Goto(w, "uncertain")
          /\ UNCHANGED transit
       \/ Goto(w, "abort") /\ UNCHANGED <<transit, jobs, running>>
       \/ Goto(w, "uncertain") /\ UNCHANGED <<transit, jobs, running>>
       \/ Goto(w, "uncertain") /\ transit' = transit \cup {e} /\ UNCHANGED <<jobs, running>>
    /\ UNCHANGED <<msg, task, slot, late, overdue, video, faults>>

(* abort_fenced_replay_create: task and slot end in one statement. *)
Abort(w) ==
    LET e == Current(w)
        row == slot[e]
        hit == Fenced(w) /\ row.job = 0 /\ row.create = "submitting"
    IN
    /\ At(w, "abort")
    /\ Statement(w, hit, [row EXCEPT !.status = "released", !.create = "aborted"],
                 Goto(w, "ack"), Hold(w))
    /\ task' = IF slot' # slot THEN [task EXCEPT ![e] = "materialization_failed"] ELSE task
    /\ UNCHANGED <<msg, late, overdue, replay>>

(* mutant: an uncertain create is acknowledged *)
MarkUncertainAcked(w) ==
    LET row == slot[Current(w)] IN
    /\ At(w, "uncertain")
    /\ Statement(w, Fenced(w) /\ row.job = 0 /\ row.create \in {"submitting", "uncertain"},
                 [row EXCEPT !.create = "uncertain"],
                 Goto(w, "ack"), Hold(w))
    /\ UNCHANGED <<msg, task, late, overdue, replay>>

(* mark_replay_create_uncertain; the delivery is held either way. *)
MarkUncertain(w) ==
    LET row == slot[Current(w)] IN
    /\ At(w, "uncertain")
    /\ Statement(w, Fenced(w) /\ row.job = 0 /\ row.create \in {"submitting", "uncertain"},
                 [row EXCEPT !.create = "uncertain"],
                 Hold(w), Hold(w))
    /\ UNCHANGED <<msg, task, late, overdue, replay>>

(* commit_replay_job_handoff: job, handoff and task status in one statement. *)
Commit(w) ==
    LET e == Current(w)
        row == slot[e]
        hit == /\ Fenced(w)
               /\ row.create \in {"submitting", "committed"}
               /\ row.job \in {0, proc[w].job}
    IN
    /\ At(w, "commit")
    /\ Statement(w, hit, [row EXCEPT !.create = "committed", !.job = proc[w].job],
                 Goto(w, "ack"), Hold(w))
    /\ task' = IF slot' # slot THEN [task EXCEPT ![e] = "materializing"] ELSE task
    /\ UNCHANGED <<msg, late, overdue, replay>>

-----------------------------------------------------------------------------
(* Replay, the media-worker and time                                        *)

(* A create request that outlived its client's timeout reaches Replay. *)
Arrive(e) ==
    /\ e \in transit
    /\ transit' = transit \ {e}
    /\ CreateJob(e)
    /\ UNCHANGED <<msg, task, slot, late, overdue, video, proc, faults>>

(* A job leaves Replay's list, with or without a video in the sink. *)
JobEnds(e) ==
    /\ e \in running
    /\ running' = running \ {e}
    /\ \/ video' = video \cup {e}
       \/ UNCHANGED video
    /\ UNCHANGED <<msg, task, slot, late, overdue, transit, jobs, proc, faults>>

(* release_replay_slot_for_sink_stable: a committed slot, or one whose      *)
(* planned request the sink output confirms.                                *)
SinkStable(e) ==
    /\ e \in video
    /\ slot[e].status = "active"
    /\ slot[e].create \in {"committed", "submitting", "uncertain"}
    /\ slot' = [slot EXCEPT ![e].status = "released",
                    ![e].create = IF @ = "committed" THEN @ ELSE "sink_confirmed"]
    /\ UNCHANGED <<msg, task, late, overdue, replay, proc, faults>>

(* The media-worker finalizes the sink video (module EvidenceLifecycle); it *)
(* has released the slot before, or tried to.                               *)
MediaCompletes(e) ==
    /\ e \in video
    /\ task[e] \notin Terminal
    /\ task' = [task EXCEPT ![e] = "materialized"]
    /\ IF slot[e].status = "active" THEN Fault ELSE UNCHANGED faults
    /\ UNCHANGED <<msg, slot, late, overdue, replay, proc>>

(* Time: the slot's deadline, the evidence deadline and its sweep. *)
SlotDeadline(e) ==
    /\ slot[e].status = "active"
    /\ e \notin late
    /\ late' = late \cup {e}
    /\ UNCHANGED <<msg, task, slot, overdue, replay, proc, faults>>

TaskDeadline(e) ==
    /\ e \notin overdue
    /\ task[e] = "materialization_pending"  \* no other status is swept
    /\ overdue' = overdue \cup {e}
    /\ UNCHANGED <<msg, task, slot, late, replay, proc, faults>>

(* expire_materialization_deadlines, run by a worker's loop between batches. *)
Expire(e) ==
    /\ \E w \in Workers : At(w, "idle")
    /\ e \in overdue
    /\ task[e] = "materialization_pending"
    /\ slot[e].status # "active"
    /\ task' = [task EXCEPT ![e] = "materialization_expired"]
    /\ UNCHANGED <<msg, slot, late, overdue, replay, proc, faults>>

-----------------------------------------------------------------------------
Process(w) ==
    \/ CheckTerminal(w) \/ LoadSlot(w) \/ Gate(w) \/ MarkFailed(w)
    \/ Load(w) \/ Snapshot(w) \/ Acquire(w) \/ Takeover(w) \/ Recover(w)
    \/ MarkSubmitting(w) \/ Submit(w) \/ Abort(w) \/ MarkUncertain(w) \/ Commit(w)
    \/ Ack(w)

Surroundings(e) ==
    \/ Arrive(e) \/ JobEnds(e) \/ SinkStable(e) \/ MediaCompletes(e)
    \/ SlotDeadline(e) \/ TaskDeadline(e) \/ Expire(e)

Done == \A e \in Events : msg[e] = "acked"

Next ==
    \/ \E w \in Workers : Process(w) \/ Crash(w) \/ \E e \in Events : ReadNew(w, e) \/ Reclaim(w, e)
    \/ \E e \in Events : Surroundings(e)
    \/ Done /\ UNCHANGED vars

Spec == Init /\ [][Next]_vars

(***************************************************************************)
(* Every worker goes on working; a pending entry is handed out again and   *)
(* again (XAUTOCLAIM starts at 0-0 on every interval), also when workers   *)
(* are busy most of the time, and so is the sweep of deadlines (every      *)
(* 30 s); deadlines pass; the media-worker ends what it has a video for.  Nothing is assumed  *)
(* of Replay.                                                              *)
(***************************************************************************)
Fairness ==
    /\ \A w \in Workers : WF_vars(Process(w))
    /\ \A e \in Events :
        /\ SF_vars(\E w \in Workers : ReadNew(w, e) \/ Reclaim(w, e))
        /\ WF_vars(SlotDeadline(e)) /\ WF_vars(TaskDeadline(e)) /\ SF_vars(Expire(e))
        /\ WF_vars(SinkStable(e)) /\ WF_vars(MediaCompletes(e))

FairSpec == Spec /\ Fairness
-----------------------------------------------------------------------------
(* Properties                                                               *)

(* Every variable keeps its type; a worker that is not idle has an event.   *)
TypeOK ==
    /\ msg \in [Events -> {"new", "pending", "acked"}]
    /\ task \in [Events -> Statuses]
    /\ slot \in [Events -> [status : {None, "active", "released", "timeout"}, owner : Workers \cup {None},
                            gen : Generations, create : CreateStates, job : 0..MaxJobs]]
    /\ late \subseteq Events /\ overdue \subseteq Events
    /\ transit \subseteq Events /\ running \subseteq Events /\ video \subseteq Events
    /\ jobs \in [Events -> 0..MaxJobs]
    /\ proc \in [Workers -> [pc : Labels, event : Events \cup {None}, reclaimed : BOOLEAN,
                             recovering : BOOLEAN, gen : Generations, seen : SUBSET Events, job : 0..MaxJobs]]
    /\ \A w \in Workers : ~ At(w, "idle") => Current(w) \in Events
    /\ faults \in 0..MaxFaults

(* However deliveries are reclaimed, workers crash and responses are lost,  *)
(* FencedReplayExecutor makes at most one Replay job for an event: one that *)
(* exists and one still on its way count together.                          *)
AtMostOneReplayJob ==
    \A e \in Events : jobs[e] + (IF e \in transit THEN 1 ELSE 0) <= 1

(* abort_fenced_replay_create takes a 4xx for the proof that there is no    *)
(* job: no aborted slot has one, nor will one arrive later.                 *)
AbortedHasNoJob ==
    \A e \in Events : slot[e].create = "aborted" => jobs[e] = 0 /\ e \notin transit

(* A request is acknowledged only with an outcome in the row: a terminal    *)
(* task, a committed job, or a slot that has ended.                         *)
AckHasOutcome ==
    \A e \in Events :
        msg[e] = "acked" => \/ task[e] \in Terminal
                           \/ slot[e].create = "committed"
                           \/ slot[e].status \in {"released", "timeout"}

(* Every request is acknowledged in the end, whatever Replay does: held     *)
(* deliveries come back until their slot times out or the task ends.        *)
RequestsSettle == \A e \in Events : <>(msg[e] = "acked")
=============================================================================
