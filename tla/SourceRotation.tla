--------------------------- MODULE SourceRotation ---------------------------
(***************************************************************************)
(* Which camera the remux lane serves next: the durable rotation of        *)
(* services/media-worker/app/source_rotation.py, read and advanced by the  *)
(* schedulers of one or more media-worker processes                        *)
(* (_RollingCacheMaterializationRunner.process in worker.py), each         *)
(* statement a step of its own.                                            *)
(***************************************************************************)
EXTENDS Integers, FiniteSets, Sequences

CONSTANTS
    Sources,        \* source_id: cameras
    TaskSource,     \* a sequence: the source of each task, in order of arrival
    TaskPriority,   \* the priority of each task
    Processes,      \* media-worker processes sharing the database
    Workers,        \* rolling_cache_materialization_workers of a process
    MaxPerPoll,     \* rolling_cache_materialization_max_per_poll
    SourceLimit,    \* materialization_source_limit
    MaxDeferrals,   \* bound: attempts put back
    MaxFaults,      \* bound: failing turn queries and cursor updates
    BudgetPressure  \* whether the other lanes may leave no work permit

Tasks == DOMAIN TaskSource

ASSUME TasksAssumption ==
    /\ TaskSource \in Seq(Sources) /\ IsFiniteSet(Sources)
    /\ TaskPriority \in [Tasks -> Nat]
ASSUME LimitsAssumption ==
    /\ Workers \in Nat \ {0}
    /\ MaxPerPoll \in Nat \ {0}
    /\ SourceLimit \in Nat \ {0}
    /\ MaxDeferrals \in Nat
    /\ MaxFaults \in Nat
    /\ BudgetPressure \in BOOLEAN

VARIABLES
    task,      \* task[k]: its status, when it is due, the process that runs it
    clock,     \* the last due time given
    cursor,    \* served_seq of each source in evidence_source_rotation
    seq,       \* evidence_source_rotation_seq
    poll,      \* poll[p]: the poll process p is in
    deferrals,
    faults,
    passed     \* passed[s][t]: claims of source t since s began to wait for its turn

vars == <<task, clock, cursor, seq, poll, deferrals, faults, passed>>

NeverServed == -1
Nobody == "nobody"
ASSUME ProcessesAssumption == IsFiniteSet(Processes) /\ Nobody \notin Processes
NoTask == 0

NoPoll == [stage |-> "idle", turns |-> {}, rows |-> <<>>, left |-> 0, mark |-> NoTask]

Init ==
    /\ task = [k \in Tasks |-> [status |-> "later", due |-> 0, by |-> Nobody]]
    /\ clock = 0
    /\ cursor = [s \in Sources |-> NeverServed]
    /\ seq = 0
    /\ poll = [p \in Processes |-> NoPoll]
    /\ deferrals = 0
    /\ faults = 0
    /\ passed = [s \in Sources |-> [t \in Sources |-> 0]]

-----------------------------------------------------------------------------
ReadyOf(s) == {k \in Tasks : task[k].status = "ready" /\ TaskSource[k] = s}
RunningBy(p) == {k \in Tasks : task[k].by = p}
SlotsOf(p, s) == {k \in RunningBy(p) : TaskSource[k] = s}

(* SourceSlotRegistry.saturated_sources *)
Saturated(p, s) == Cardinality(SlotsOf(p, s)) >= SourceLimit

Available(p) == Workers - Cardinality(RunningBy(p))

TopPriority(s) == CHOOSE n \in {TaskPriority[k] : k \in ReadyOf(s)} :
                      \A k \in ReadyOf(s) : TaskPriority[k] <= n
OldestDue(s) == CHOOSE n \in {task[k].due : k \in ReadyOf(s)} :
                    \A k \in ReadyOf(s) : n <= task[k].due

(* mutant: the oldest backlog goes first *)
TurnBeforeByAge(s, t) ==
    \/ TopPriority(s) > TopPriority(t)
    \/ TopPriority(s) = TopPriority(t) /\ OldestDue(s) < OldestDue(t)

(* ORDER BY top_priority DESC, served_seq ASC, oldest_due_at ASC; due times *)
(* differ.                                                                  *)
TurnBefore(s, t) ==
    \/ TopPriority(s) > TopPriority(t)
    \/ /\ TopPriority(s) = TopPriority(t)
       /\ \/ cursor[s] < cursor[t]
          \/ cursor[s] = cursor[t] /\ OldestDue(s) < OldestDue(t)

(* next_source_turns *)
Turns(p) ==
    LET ready == {s \in Sources : ReadyOf(s) # {} /\ ~Saturated(p, s)}
    IN  {s \in ready : Cardinality({t \in ready : TurnBefore(t, s)}) < Available(p)}

(* ROW_NUMBER() OVER (PARTITION BY source ORDER BY priority DESC, due ASC)  *)
Ahead(j, k) ==
    \/ TaskPriority[j] > TaskPriority[k]
    \/ TaskPriority[j] = TaskPriority[k] /\ task[j].due < task[k].due
Rank(k) == Cardinality({j \in ReadyOf(TaskSource[k]) : Ahead(j, k)}) + 1

RowBefore(j, k) ==
    \/ TaskPriority[j] > TaskPriority[k]
    \/ /\ TaskPriority[j] = TaskPriority[k]
       /\ \/ Rank(j) < Rank(k)
          \/ Rank(j) = Rank(k) /\ task[j].due < task[k].due

ClaimLimit(p) == IF MaxPerPoll < Available(p) THEN MaxPerPoll ELSE Available(p)

(* _rolling_cache_candidate_tasks: no turn means no restriction; the window *)
(* is max(claim_limit, max_workers) rows.  Due times differ, so that there  *)
(* is one answer.                                                           *)
Eligible(turns) ==
    {k \in Tasks : /\ task[k].status = "ready"
                   /\ turns = {} \/ TaskSource[k] \in turns
                   /\ Rank(k) <= SourceLimit}

CandidateRows(turns) ==
    LET eligible == Eligible(turns)
        window == 1..(IF Cardinality(eligible) < Workers THEN Cardinality(eligible) ELSE Workers)
    IN  {rows \in [window -> eligible] :
            \A i \in window :
                /\ \A j \in window : i < j => RowBefore(rows[i], rows[j])
                /\ \A k \in eligible : RowBefore(rows[i], k) \/ \E j \in window : rows[j] = k}

-----------------------------------------------------------------------------
(* A source begins to wait anew, or for a turn at a higher priority: its    *)
(* counts start over.                                                       *)
Restart(ss) == passed' = [s \in Sources |-> IF s \in ss THEN [t \in Sources |-> 0] ELSE passed[s]]

WaitsFor(p, s, k) ==
    /\ ReadyOf(s) # {}
    /\ ~Saturated(p, s)
    /\ TopPriority(s) >= TaskPriority[k]

(* An attempt at row k overtakes none of these.                             *)
NotOvertaken(p, k) == {s \in Sources : s = TaskSource[k] \/ ~WaitsFor(p, s, k)}

(* The next task arrives, or its retry time comes.                          *)
BecomeReady(k) ==
    /\ task[k].status = "later"
    /\ \A j \in Tasks : j < k => task[j].due # 0
    /\ clock' = clock + 1
    /\ task' = [task EXCEPT ![k].status = "ready", ![k].due = clock + 1]
    /\ IF ReadyOf(TaskSource[k]) = {} \/ TaskPriority[k] > TopPriority(TaskSource[k])
       THEN Restart({TaskSource[k]}) ELSE UNCHANGED passed
    /\ UNCHANGED <<cursor, seq, poll, deferrals, faults>>

(* The turn query *)
BeginPoll(p) ==
    /\ poll[p].stage = "idle"
    /\ Available(p) > 0
    /\ \E s \in Sources : ReadyOf(s) # {}
    /\ poll' = [poll EXCEPT ![p] = [NoPoll EXCEPT !.stage = "turns", !.turns = Turns(p),
                                                  !.left = ClaimLimit(p)]]
    /\ UNCHANGED <<task, clock, cursor, seq, deferrals, faults, passed>>

(* The candidate query *)
Fetch(p) ==
    /\ poll[p].stage = "turns"
    /\ \E rows \in CandidateRows(poll[p].turns) :
          poll' = [poll EXCEPT ![p].stage = "rows", ![p].turns = {}, ![p].rows = rows]
    /\ UNCHANGED <<task, clock, cursor, seq, deferrals, faults, passed>>

(* The turn query fails: no restriction. *)
BeginPollUnturned(p) ==
    /\ faults < MaxFaults
    /\ poll[p].stage = "idle"
    /\ Available(p) > 0
    /\ poll' = [poll EXCEPT ![p] = [NoPoll EXCEPT !.stage = "turns", !.left = ClaimLimit(p)]]
    /\ faults' = faults + 1
    /\ UNCHANGED <<task, clock, cursor, seq, deferrals, passed>>

Row(p) == Head(poll[p].rows)
Trying(p) == poll[p].stage = "rows" /\ poll[p].mark = NoTask
Open(p) == poll[p].rows # <<>> /\ poll[p].left > 0 /\ Available(p) > 0

EndPoll(p) ==
    /\ Trying(p)
    /\ ~Open(p)
    /\ poll' = [poll EXCEPT ![p] = NoPoll]
    /\ UNCHANGED <<task, clock, cursor, seq, deferrals, faults, passed>>

(* No lane place or work permit is left for the row: the loop breaks.       *)
NoPermit(p) ==
    /\ BudgetPressure
    /\ Trying(p) /\ Open(p)
    /\ poll' = [poll EXCEPT ![p] = NoPoll]
    /\ UNCHANGED <<task, clock, cursor, seq, deferrals, faults, passed>>

(* The source has no slot left, or another process claimed the row first.   *)
SkipRow(p) ==
    /\ Trying(p) /\ Open(p)
    /\ Saturated(p, TaskSource[Row(p)]) \/ task[Row(p)].status # "ready"
    /\ poll' = [poll EXCEPT ![p].rows = Tail(@)]
    /\ UNCHANGED <<task, clock, cursor, seq, deferrals, faults, passed>>

Claimable(p) ==
    /\ Trying(p) /\ Open(p)
    /\ ~Saturated(p, TaskSource[Row(p)])
    /\ task[Row(p)].status = "ready"

(* The claim succeeds and the job is submitted; mark_served is to come.     *)
Claim(p) ==
    /\ Claimable(p)
    /\ LET k == Row(p)
           own == TaskSource[k]
       IN  /\ task' = [task EXCEPT ![k].status = "running", ![k].by = p]
           /\ passed' = [s \in Sources |->
                 IF s \in NotOvertaken(p, k) THEN [t \in Sources |-> 0]
                 ELSE [passed[s] EXCEPT ![own] = @ + 1]]
           /\ poll' = [poll EXCEPT ![p].rows = Tail(@), ![p].left = @ - 1, ![p].mark = k]
    /\ UNCHANGED <<clock, cursor, seq, deferrals, faults>>

(* The row is put back for a later attempt. *)
Deferred(k) == [task EXCEPT ![k].status = "later", ![k].by = Nobody]

(* _prepare_rolling_cache_job claims and defers, or the submit fails.       *)
DeferAtClaim(p) ==
    /\ deferrals < MaxDeferrals
    /\ Claimable(p)
    /\ task' = Deferred(Row(p))
    /\ deferrals' = deferrals + 1
    /\ Restart(NotOvertaken(p, Row(p)))
    /\ poll' = [poll EXCEPT ![p].rows = Tail(@)]
    /\ UNCHANGED <<clock, cursor, seq, faults>>

(* INSERT ... ON CONFLICT DO UPDATE SET served_seq = nextval(...)           *)
Served(s) == [cursor EXCEPT ![s] = seq + 1]

(* mark_served for the row just claimed *)
MarkServed(p) ==
    /\ poll[p].mark # NoTask
    /\ seq' = seq + 1
    /\ cursor' = Served(TaskSource[poll[p].mark])
    /\ poll' = [poll EXCEPT ![p].mark = NoTask]
    /\ Restart({TaskSource[poll[p].mark]})
    /\ UNCHANGED <<task, clock, deferrals, faults>>

(* It fails: _mark_source_served logs and goes on. *)
MarkFails(p) ==
    /\ faults < MaxFaults
    /\ poll[p].mark # NoTask
    /\ poll' = [poll EXCEPT ![p].mark = NoTask]
    /\ faults' = faults + 1
    /\ UNCHANGED <<task, clock, cursor, seq, deferrals, passed>>

(* The lane job is over and drained, between polls: its work is done, or    *)
(* the footage it looked for was not there and the row is deferred.         *)
Settle(p, k) ==
    /\ poll[p].stage = "idle"
    /\ task[k].by = p
    /\ \/ /\ task' = [task EXCEPT ![k].status = "done", ![k].by = Nobody]
          /\ UNCHANGED deferrals
       \/ /\ deferrals < MaxDeferrals
          /\ task' = Deferred(k)
          /\ deferrals' = deferrals + 1
    /\ IF Saturated(p, TaskSource[k]) THEN Restart({TaskSource[k]}) ELSE UNCHANGED passed
    /\ UNCHANGED <<clock, cursor, seq, poll, faults>>

Done == (\A k \in Tasks : task[k].status = "done") /\ \A p \in Processes : poll[p] = NoPoll

Next ==
    \/ \E k \in Tasks : BecomeReady(k)
    \/ \E p \in Processes :
          \/ BeginPoll(p) \/ BeginPollUnturned(p) \/ Fetch(p)
          \/ EndPoll(p) \/ NoPermit(p) \/ SkipRow(p)
          \/ Claim(p) \/ DeferAtClaim(p) \/ MarkServed(p) \/ MarkFails(p)
          \/ \E k \in Tasks : Settle(p, k)
    \/ Done /\ UNCHANGED vars

Spec == Init /\ [][Next]_vars

-----------------------------------------------------------------------------
(* Properties                                                               *)

(* Rows, cursors and polls stay within their types.                         *)
TypeOK ==
    /\ task \in [Tasks -> [status : {"later", "ready", "running", "done"}, due : Nat,
                           by : Processes \cup {Nobody}]]
    /\ clock \in Nat /\ seq \in Nat /\ deferrals \in 0..MaxDeferrals /\ faults \in 0..MaxFaults
    /\ cursor \in [Sources -> Nat \cup {NeverServed}]
    /\ \A p \in Processes :
          /\ poll[p].stage \in {"idle", "turns", "rows"}
          /\ poll[p].turns \subseteq Sources
          /\ poll[p].rows \in Seq(Tasks)
          /\ poll[p].left \in 0..Workers
          /\ poll[p].mark \in Tasks \cup {NoTask}
    /\ passed \in [Sources -> [Sources -> Nat]]

(* The rotation bounds the wait of a camera (worker.py: "the rotation is    *)
(* what bounds how long a camera waits when there are more cameras than     *)
(* slots"): while a camera has a ready task, a free slot and no less        *)
(* priority, processes with one remux worker claim another camera at most   *)
(* once each, in the poll under way when the camera's wait began or before  *)
(* the other camera is marked as served; each failed rotation statement     *)
(* allows one claim more.  The depth of the other camera's backlog, retries *)
(* and the source limit do not matter.                                      *)
BoundedOvertaking ==
    Workers = 1 =>
        \A s, t \in Sources : passed[s][t] <= Cardinality(Processes) + faults
=============================================================================
