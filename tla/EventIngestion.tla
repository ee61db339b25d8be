--------------------------- MODULE EventIngestion ---------------------------
(***************************************************************************)
(* The event-worker (services/event-worker/app): a Redis stream read by a  *)
(* consumer group, the handler that turns one message into an event row,   *)
(* an alert, an evidence task and a record request, and the                *)
(* acknowledgement at its end.  The database connection is autocommit and  *)
(* Redis is a second store, so every statement is a step of its own that   *)
(* other workers, a crash or an error may follow.                          *)
(*                                                                         *)
(* Events carry what the gates compare: the alert and recording cooldown   *)
(* key, the source and the timestamp.  Parsing, default policies, windows, *)
(* time gates on task creation, image-only tasks and the coverage merge    *)
(* (disabled in the deployment) are left out.                              *)
(***************************************************************************)
EXTENDS Naturals, FiniteSets, Sequences

CONSTANTS
    Workers,           \* event-worker processes sharing the consumer group
    Sids,              \* source_event_id
    Stream,            \* the messages producers append, as a sequence of Sids
    Sources,           \* source_id
    Keys,              \* alert and recording cooldown keys
    SourceOf, KeyOf,   \* [Sids -> Sources], [Sids -> Keys]
    TsOf,              \* [Sids -> Nat \ {0}]: event_ts_ms
    Poison,            \* Sids whose row the database rejects whenever it is offered
    BatchSize,         \* cfg.batch_size
    AlertCooldown,     \* global_alert_cooldown_s
    RecordCooldown,    \* recording_cooldown_seconds less the grace
    MaxRequests,       \* recording_max_requests_per_run
    Reserved,          \* EVIDENCE_ADMISSION_RESERVED_PER_SOURCE; every source is on the roster
    SharedLimit,       \* EVIDENCE_ADMISSION_MAX_ACTIVE_GLOBAL less all reservations
    MaxFaults          \* bound: crashes, lost groups, errors and expired keys

None == "none"
Msgs == 1..Len(Stream)

ASSUME StreamAssumption ==
    /\ Stream \in Seq(Sids)
    /\ SourceOf \in [Sids -> Sources]
    /\ KeyOf \in [Sids -> Keys]
    /\ TsOf \in [Sids -> Nat \ {0}]
    /\ Poison \subseteq Sids
ASSUME ProcessesAssumption ==
    /\ None \notin Workers /\ Workers # {}
    /\ IsFiniteSet(Workers) /\ IsFiniteSet(Sources) /\ IsFiniteSet(Sids)
ASSUME BoundsAssumption ==
    /\ BatchSize \in Nat \ {0}
    /\ {AlertCooldown, RecordCooldown, MaxRequests, Reserved, MaxFaults} \subseteq Nat
    /\ SharedLimit \in Nat \ {0}

VARIABLES
    produced,  \* messages in the stream so far
    group,     \* the consumer group exists
    last,      \* last-delivered-id of the group
    pel,       \* pending entries list: pel[m] is the consumer that owns m, or None
    skipped,   \* history: messages a group created at '$' will never deliver
    events,    \* events.status, or None
    clip,      \* events.payload.media.clip_status
    task,      \* evidence_tasks.status of the event, or None
    alerts,    \* alerts published for the event
    dedupe,    \* events whose record-request key is in Redis
    requests,  \* record requests published for the event
    proc,      \* proc[w]: program counter, batch and locals of worker w
    mem,       \* mem[w]: RecordingPolicyState, lost with the process
    cut,       \* history: events whose inserting handler was cut short by a fault
    rolling,   \* rolling_cache_suppress_record_requests
    faults     \* faults so far

store == <<events, clip, task, alerts, dedupe, requests>>
redis == <<produced, group, last, pel, skipped>>
vars == <<redis, store, proc, mem, cut, rolling, faults>>

-----------------------------------------------------------------------------
Labels == {"down", "pollPending", "pollNew", "insert", "policy", "suppress", "admit", "create",
           "gate", "append", "clip", "ack"}
TaskStatuses == {None, "materialization_pending", "materialization_skipped", "ended"}
ClipStatuses == {"not_implemented", "pending", "materialization_skipped"}

(* turn: the read that the loop of run_worker does after the batch. *)
Idle == [pc |-> "pollPending", turn |-> "pollPending", batch |-> <<>>, new |-> FALSE,
         allowed |-> FALSE, status |-> None]
Fresh == [published |-> 0, last |-> [k \in Keys |-> 0]]

At(w, pc) == proc[w].pc = pc
Current(w) == Stream[Head(proc[w].batch)]

Goto(w, pc) == proc' = [proc EXCEPT ![w].pc = pc]

(* Start on a batch, or go on to the next read when there is none. *)
Begin(batch, turn) ==
    [Idle EXCEPT !.pc = IF batch = <<>> THEN turn ELSE "insert",
                 !.turn = IF batch = <<>> THEN "pollPending" ELSE turn,
                 !.batch = batch]

Rest(w) == Begin(Tail(proc[w].batch), proc[w].turn)

Fault == faults < MaxFaults /\ faults' = faults + 1

(* A handler that is cut short after it inserted the row never comes back   *)
(* to it as a new insert.                                                   *)
CutShort(w) ==
    cut' = IF proc[w].new /\ task[Current(w)] = None THEN cut \cup {Current(w)} ELSE cut

Init ==
    /\ produced = 0
    /\ group = FALSE
    /\ last = 0
    /\ pel = [m \in Msgs |-> None]
    /\ skipped = {}
    /\ events = [s \in Sids |-> None]
    /\ clip = [s \in Sids |-> "not_implemented"]
    /\ task = [s \in Sids |-> None]
    /\ alerts = [s \in Sids |-> 0]
    /\ dedupe = {}
    /\ requests = [s \in Sids |-> 0]
    /\ proc = [w \in Workers |-> [Idle EXCEPT !.pc = "down"]]
    /\ mem = [w \in Workers |-> Fresh]
    /\ cut = {}
    /\ rolling \in BOOLEAN
    /\ faults = 0

-----------------------------------------------------------------------------
(* Stream and consumer group                                                *)

(* A producer appends an event. *)
Produce ==
    /\ produced < Len(Stream)
    /\ produced' = produced + 1
    /\ UNCHANGED <<group, last, pel, skipped, store, proc, mem, cut, rolling, faults>>

(* run_worker calls ensure_group: a group that does not exist starts at '$'. *)
Start(w) ==
    /\ At(w, "down")
    /\ proc' = [proc EXCEPT ![w] = Idle]
    /\ group' = TRUE
    /\ IF group
       THEN UNCHANGED <<last, pel, skipped>>
       ELSE /\ last' = produced
            /\ pel' = [m \in Msgs |-> None]
            /\ skipped' = skipped \cup {m \in 1..produced : events[Stream[m]] = None}
    /\ UNCHANGED <<produced, store, mem, cut, rolling, faults>>

(* The group is deleted; its pending entries list goes with it. *)
LoseGroup ==
    /\ group
    /\ group' = FALSE
    /\ last' = 0
    /\ pel' = [m \in Msgs |-> None]
    /\ Fault
    /\ UNCHANGED <<produced, skipped, store, proc, mem, cut, rolling>>

(* XREADGROUP COUNT: at most a batch, and no further than the stream. *)
ReadTo(from) == IF from + BatchSize < produced THEN from + BatchSize ELSE produced

(* _recover_missing_group: start id 0, so that retained rows are delivered again. *)
RecoveredLast == 0

(* read_new: XREADGROUP '>', after recreating a missing group. *)
ReadNew(w) ==
    LET from == IF group THEN last ELSE RecoveredLast
        to == ReadTo(from) IN
    /\ At(w, "pollNew")
    /\ group' = TRUE
    /\ last' = to
    /\ pel' = [m \in Msgs |-> IF m \in (from + 1)..to THEN w ELSE pel[m]]
    /\ proc' = [proc EXCEPT ![w] = Begin([i \in 1..(to - from) |-> from + i], "pollPending")]
    /\ UNCHANGED <<produced, skipped, store, mem, cut, rolling, faults>>

Pending == {m \in Msgs : pel[m] # None}

(* mutant: the listing stops one entry short *)
OldestButOne == {m \in Pending : Cardinality({n \in Pending : n <= m}) < BatchSize}

(* XPENDING - + COUNT: the oldest entries only, whoever owns them. *)
Oldest == {m \in Pending : Cardinality({n \in Pending : n <= m}) <= BatchSize}

(* The elements of a set of messages in stream order. *)
InOrder(S) == [i \in 1..Cardinality(S) |->
                  CHOOSE m \in S : Cardinality({n \in S : n <= m}) = i]

(* read_pending: the listed entries that have been idle long enough (S) are *)
(* claimed.  Idle time also passes while their owner is still working.  A   *)
(* missing group is recreated and nothing is returned.                      *)
ReadPending(w, S) ==
    /\ At(w, "pollPending")
    /\ group' = TRUE
    /\ last' = IF group THEN last ELSE RecoveredLast
    /\ pel' = [m \in Msgs |-> IF m \in S THEN w ELSE pel[m]]
    /\ proc' = [proc EXCEPT ![w] = Begin(InOrder(S), "pollNew")]
    /\ UNCHANGED <<produced, skipped, store, mem, cut, rolling, faults>>

-----------------------------------------------------------------------------
(* _handle_event, statement by statement                                    *)

(* mutant: the upsert returns the id of an existing row *)
InsertReturningExisting(s) == TRUE

(* ON CONFLICT (source_event_id) DO NOTHING RETURNING id *)
InsertReturnsId(s) == events[s] = None

(* insert_event; an event that is not new goes on to the record-request gate. *)
InsertEvent(w) ==
    LET s == Current(w) IN
    /\ At(w, "insert")
    /\ s \notin Poison
    /\ events' = [events EXCEPT ![s] = IF @ = None THEN "new" ELSE @]
    /\ proc' = [proc EXCEPT ![w].new = InsertReturnsId(s),
                            ![w].pc = IF InsertReturnsId(s) THEN "policy" ELSE "gate"]
    /\ UNCHANGED <<redis, clip, task, alerts, dedupe, requests, mem, cut, rolling, faults>>

(* mutant: a row that cannot be inserted is acknowledged *)
RejectedGivenUp(w) ==
    proc' = [proc EXCEPT ![w].pc = "ack"]

(* The exception is logged and the message is left pending. *)
Rejected(w) ==
    proc' = [proc EXCEPT ![w] = Rest(w)]

InsertFails(w) ==
    /\ At(w, "insert")
    /\ IF Current(w) \in Poison THEN UNCHANGED faults ELSE Fault
    /\ Rejected(w)
    /\ UNCHANGED <<redis, store, mem, cut, rolling>>

(* get_last_unsuppressed_alert: the row of the same cooldown key with the   *)
(* greatest timestamp not after this event's, this event excluded.          *)
Candidates(s) ==
    {e \in Sids : e # s /\ events[e] = "new" /\ KeyOf[e] = KeyOf[s] /\ TsOf[e] <= TsOf[s]}

(* mutant: the event's own row, already inserted, is not excluded *)
SuppressesOwn(s) ==
    \E e \in Candidates(s) \cup {s} : TsOf[s] - TsOf[e] < AlertCooldown

(* AlertPolicyService.decide *)
Suppresses(s) ==
    \E e \in Candidates(s) : TsOf[s] - TsOf[e] < AlertCooldown

Announce(w) ==
    /\ alerts' = [alerts EXCEPT ![Current(w)] = @ + 1]
    /\ Goto(w, "admit")

(* The decision; an event that is not suppressed, or whose check failed, is *)
(* announced.  A failed announcement does not stop the handler.             *)
DecidePolicy(w) ==
    LET s == Current(w) IN
    /\ At(w, "policy")
    /\ \/ Suppresses(s) /\ Goto(w, "suppress") /\ UNCHANGED <<alerts, faults>>
       \/ ~Suppresses(s) /\ Announce(w) /\ UNCHANGED faults
       \/ ~Suppresses(s) /\ Fault /\ Goto(w, "admit") /\ UNCHANGED alerts
       \/ Fault /\ Announce(w)
    /\ UNCHANGED <<redis, events, clip, task, dedupe, requests, mem, cut, rolling>>

(* mutant: the decision is not stored *)
MarkSuppressedLost(w) ==
    /\ At(w, "suppress")
    /\ Goto(w, "ack")
    /\ UNCHANGED <<redis, store, mem, cut, rolling, faults>>

(* mark_event_suppressed; nothing is recorded for a suppressed event.  When *)
(* the statement fails the event counts as not suppressed.                  *)
MarkSuppressed(w) ==
    /\ At(w, "suppress")
    /\ \/ /\ events' = [events EXCEPT ![Current(w)] = "suppressed"]
          /\ Goto(w, "ack")
          /\ UNCHANGED <<alerts, faults>>
       \/ Fault /\ Announce(w) /\ UNCHANGED events
    /\ UNCHANGED <<redis, clip, task, dedupe, requests, mem, cut, rolling>>

Active(src) == {s \in Sids : task[s] = "materialization_pending" /\ SourceOf[s] = src}

(* _shared_admission_used: the places each source takes beyond its          *)
(* reservation.                                                             *)
Excess == {place \in Sources \X (1..Cardinality(Sids)) :
              Reserved < place[2] /\ place[2] <= Cardinality(Active(place[1]))}
SharedUsed == Cardinality(Excess)

(* mutant: the shared pool is checked with <= *)
AdmittedInclusive(src) ==
    Cardinality(Active(src)) < Reserved \/ SharedUsed <= SharedLimit

(* _evidence_admission_decision, execution_concurrency mode *)
Admitted(src) ==
    Cardinality(Active(src)) < Reserved \/ SharedUsed < SharedLimit

(* create_evidence_task counts first; a count that fails admits ...         *)
Admit(w) ==
    /\ At(w, "admit")
    /\ \E ok \in BOOLEAN :
           /\ IF ok = Admitted(SourceOf[Current(w)]) THEN UNCHANGED faults ELSE ok /\ Fault
           /\ proc' = [proc EXCEPT ![w].allowed = ok, ![w].pc = "create"]
    /\ UNCHANGED <<redis, store, mem, cut, rolling>>

(* ... and inserts the task afterwards; a refused task is inserted as       *)
(* skipped and projected to the event.                                      *)
CreateTask(w) ==
    LET s == Current(w)
        status == IF proc[w].allowed THEN "materialization_pending"
                  ELSE "materialization_skipped" IN
    /\ At(w, "create")
    /\ task' = [task EXCEPT ![s] = IF @ = None THEN status ELSE @]
    /\ clip' = [clip EXCEPT ![s] = IF proc[w].allowed THEN @ ELSE "materialization_skipped"]
    /\ proc' = [proc EXCEPT ![w].status = task'[s], ![w].pc = "gate"]
    /\ UNCHANGED <<redis, events, alerts, dedupe, requests, mem, cut, rolling, faults>>

(* An exception in create_evidence_task is logged; the handler goes on.     *)
CreateFails(w) ==
    /\ At(w, "admit") \/ At(w, "create")
    /\ Fault
    /\ CutShort(w)
    /\ Goto(w, "gate")
    /\ UNCHANGED <<redis, store, mem, rolling>>

(* mutant: the status is read for a repeated delivery too *)
RecordableAgain(w) == task[Current(w)] = "materialization_pending"

(* Only the handler that inserted the event has looked up a task status. *)
Recordable(w) == proc[w].status = "materialization_pending"

(* A reason in RECORDING_POLICY_TERMINAL_SKIP_REASONS applies. *)
PolicySkips(w) ==
    LET s == Current(w) IN
    \/ MaxRequests > 0 /\ mem[w].published >= MaxRequests
    \/ mem[w].last[KeyOf[s]] > 0 /\ TsOf[s] < mem[w].last[KeyOf[s]] + RecordCooldown
    \/ s \in dedupe

MarkSkipped(s) ==
    /\ task' = [task EXCEPT ![s] = IF @ = None THEN @ ELSE "materialization_skipped"]
    /\ clip' = [clip EXCEPT ![s] = "materialization_skipped"]

(* The record-request gate, up to the SET NX of _reserve_request, which may *)
(* find the key taken or fail: then there is no request.                    *)
Gate(w) ==
    LET s == Current(w) IN
    /\ At(w, "gate")
    /\ \/ /\ rolling \/ ~Recordable(w)
          /\ Goto(w, "ack")
          /\ UNCHANGED <<task, clip, dedupe, faults>>
       \/ /\ ~rolling /\ Recordable(w) /\ PolicySkips(w)
          /\ Goto(w, "ack")
          /\ \/ MarkSkipped(s) /\ UNCHANGED faults
             \/ Fault /\ UNCHANGED <<task, clip>>
          /\ UNCHANGED dedupe
       \/ /\ ~rolling /\ Recordable(w) /\ ~PolicySkips(w) /\ clip[s] = "not_implemented"
          /\ \/ Goto(w, "append") /\ dedupe' = dedupe \cup {s} /\ UNCHANGED faults
             \/ Goto(w, "ack") /\ Fault /\ UNCHANGED dedupe
          /\ UNCHANGED <<task, clip>>
    /\ UNCHANGED <<redis, events, alerts, requests, mem, cut, rolling>>

(* RecordRequestPublisher.publish: XADD, or _release_request after an error. *)
PublishRequest(w) ==
    LET s == Current(w) IN
    /\ At(w, "append")
    /\ \/ /\ requests' = [requests EXCEPT ![s] = @ + 1]
          /\ Goto(w, "clip")
          /\ UNCHANGED <<dedupe, faults>>
       \/ /\ Fault
          /\ dedupe' = dedupe \ {s}
          /\ Goto(w, "ack")
          /\ UNCHANGED requests
    /\ UNCHANGED <<redis, events, clip, task, alerts, mem, cut, rolling>>

(* set_clip_status "pending" and the recording policy state; when the       *)
(* statement fails the request stays published and neither is updated.      *)
SetClipPending(w) ==
    LET s == Current(w) IN
    /\ At(w, "clip")
    /\ \/ /\ clip' = [clip EXCEPT ![s] = "pending"]
          /\ mem' = [mem EXCEPT ![w].published = @ + 1, ![w].last[KeyOf[s]] = TsOf[s]]
          /\ UNCHANGED faults
       \/ Fault /\ UNCHANGED <<clip, mem>>
    /\ Goto(w, "ack")
    /\ UNCHANGED <<redis, events, task, alerts, dedupe, requests, cut, rolling>>

(* XACK; a failure is only logged, and a recreated group knows no such entry. *)
Ack(w) ==
    LET m == Head(proc[w].batch) IN
    /\ At(w, "ack")
    /\ \/ pel' = [pel EXCEPT ![m] = None] /\ UNCHANGED faults
       \/ Fault /\ UNCHANGED pel
    /\ proc' = [proc EXCEPT ![w] = Rest(w)]
    /\ UNCHANGED <<produced, group, last, skipped, store, mem, cut, rolling>>

-----------------------------------------------------------------------------
(* Faults, and what happens to tasks elsewhere                              *)

(* get_media_clip_status is called outside the handler's try blocks: an     *)
(* exception ends the batch, and the loop of run_worker sleeps and polls.   *)
Abort(w) ==
    /\ At(w, "gate")
    /\ ~rolling
    /\ Fault
    /\ CutShort(w)
    /\ proc' = [proc EXCEPT ![w] = Idle]
    /\ UNCHANGED <<redis, store, mem, rolling>>

Crash(w) ==
    /\ ~At(w, "down")
    /\ Fault
    /\ IF proc[w].batch = <<>> THEN UNCHANGED cut ELSE CutShort(w)
    /\ proc' = [proc EXCEPT ![w] = [Idle EXCEPT !.pc = "down"]]
    /\ mem' = [mem EXCEPT ![w] = Fresh]
    /\ UNCHANGED <<redis, store, rolling>>

(* The dedupe key of a record request reaches its TTL. *)
ExpireKey ==
    \E s \in dedupe :
        /\ Fault
        /\ dedupe' = dedupe \ {s}
        /\ UNCHANGED <<redis, events, clip, task, alerts, requests, proc, mem, cut, rolling>>

(* The materialization pipeline ends a task (EvidenceLifecycle). *)
EndTask ==
    \E s \in Sids :
        /\ task[s] = "materialization_pending"
        /\ task' = [task EXCEPT ![s] = "ended"]
        /\ UNCHANGED <<redis, events, clip, alerts, dedupe, requests, proc, mem, cut, rolling, faults>>

-----------------------------------------------------------------------------
Handle(w) ==
    \/ InsertEvent(w) \/ InsertFails(w) \/ DecidePolicy(w) \/ MarkSuppressed(w)
    \/ Admit(w) \/ CreateTask(w) \/ CreateFails(w)
    \/ Gate(w) \/ PublishRequest(w) \/ SetClipPending(w) \/ Ack(w) \/ Abort(w)

Next ==
    \/ Produce \/ LoseGroup \/ ExpireKey \/ EndTask
    \/ \E w \in Workers :
           \/ Start(w) \/ ReadNew(w) \/ Handle(w) \/ Crash(w)
           \/ \E S \in SUBSET Oldest : ReadPending(w, S)

Spec == Init /\ [][Next]_vars

(* A process is restarted by its container and its loop never stops.  An   *)
(* entry that nobody claims only grows older, so that at some poll all the  *)
(* listed entries are old enough.                                           *)
Fairness ==
    /\ \A w \in Workers :
           WF_vars(Start(w) \/ ReadNew(w) \/ Handle(w) \/ \E S \in SUBSET Oldest : ReadPending(w, S))
    /\ SF_vars(\E w \in Workers : Oldest # {} /\ ReadPending(w, Oldest))

FairSpec == Spec /\ Fairness

-----------------------------------------------------------------------------
(* Properties                                                               *)

(* Every variable keeps its type; in particular the delivery cursor never   *)
(* passes the stream, whatever batch size read_new asks for.                *)
TypeOK ==
    /\ produced \in 0..Len(Stream) /\ last \in 0..produced
    /\ group \in BOOLEAN
    /\ pel \in [Msgs -> Workers \cup {None}]
    /\ skipped \subseteq Msgs
    /\ events \in [Sids -> {None, "new", "suppressed"}]
    /\ clip \in [Sids -> ClipStatuses]
    /\ task \in [Sids -> TaskStatuses]
    /\ alerts \in [Sids -> Nat] /\ requests \in [Sids -> Nat]
    /\ dedupe \subseteq Sids /\ cut \subseteq Sids
    /\ proc \in [Workers -> [pc : Labels, turn : Labels, batch : Seq(Msgs), new : BOOLEAN,
                             allowed : BOOLEAN, status : TaskStatuses]]
    /\ mem \in [Workers -> [published : Nat, last : [Keys -> Nat]]]
    /\ rolling \in BOOLEAN
    /\ faults \in 0..MaxFaults

(* However often a message is delivered, by retry, by claim from a slow     *)
(* worker or after the group was recreated, its event is announced at most  *)
(* once, and never when it is suppressed.                                   *)
AlertOnce ==
    \A s \in Sids : alerts[s] <= 1 /\ (events[s] = "suppressed" => alerts[s] = 0)

(* A record request goes out at most once for an event, also when its       *)
(* dedupe key has expired, and the task it is for is never marked skipped.  *)
RequestOnce ==
    \A s \in Sids :
        /\ requests[s] <= 1
        /\ requests[s] = 1 => task[s] \in {"materialization_pending", "ended"}

(* A message leaves the pending entries list only when its row is stored,   *)
(* unless the list itself was lost: the acknowledgement comes after the     *)
(* insert on every path of the handler.                                     *)
AckImpliesStored ==
    [][\A m \in Msgs : pel[m] # None /\ pel'[m] = None /\ group'
           => events[Stream[m]] # None]_vars

(* An event is suppressed only if another event of its cooldown key lies    *)
(* within the cooldown before it: the row it has itself just inserted does  *)
(* not count, nor do rows of other keys or later ones.                      *)
SuppressedHasCause ==
    \A s \in Sids : events[s] = "suppressed" =>
        \E e \in Sids \ {s} :
            /\ events[e] # None /\ KeyOf[e] = KeyOf[s]
            /\ TsOf[e] <= TsOf[s] /\ TsOf[s] - TsOf[e] < AlertCooldown

(* A stored event that nobody is handling any more and that was not         *)
(* suppressed has its evidence task, unless a fault cut its one inserting   *)
(* handler short.                                                           *)
EvidenceAccounted ==
    \A s \in Sids :
        (events[s] = "new" /\ task[s] = None /\ s \notin cut)
            => \E w \in Workers : proc[w].new /\ proc[w].batch # <<>> /\ Current(w) = s

(* The count and the insert of an admission are separate statements, so a   *)
(* count may miss one task of every other worker: the shared pool may go    *)
(* over its limit by that much, and so may the reservation of each source   *)
(* at the pool's expense, and by no more.  A count that fails admits.       *)
SharedPoolBounded ==
    SharedUsed <= SharedLimit + (Cardinality(Workers) - 1) * Cardinality(Sources) + faults

(* Every message is stored in the end, unless the database rejects it or a  *)
(* group was created behind it: entries the database rejects for ever do    *)
(* not keep the ones behind them from being claimed while they are fewer    *)
(* than a batch.                                                            *)
EventuallyStored ==
    []<>(\A m \in 1..produced :
            events[Stream[m]] # None \/ Stream[m] \in Poison \/ m \in skipped)
=============================================================================
