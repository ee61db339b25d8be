----------------------- MODULE ReplayAdmission_proofs -----------------------
(***************************************************************************)
(* For any number of workers, events, slots and faults: the fenced         *)
(* executor makes at most one Replay job for an event, an aborted slot has *)
(* none, and only requests with an outcome are acknowledged.               *)
(***************************************************************************)
EXTENDS ReplayAdmission, FiniteSetTheorems, TLAPS

Row == [status : {None, "active", "released", "timeout"}, owner : Workers \cup {None},
        gen : Generations, create : CreateStates, job : 0..MaxJobs]

Proc == [pc : Labels, event : Events \cup {None}, reclaimed : BOOLEAN,
         recovering : BOOLEAN, gen : Generations, seen : SUBSET Events, job : 0..MaxJobs]

(* A worker that is not idle has an event.                                  *)
Busy == \A w \in Workers : proc[w].pc # "idle" => proc[w].event \in Events

(* The part of TypeOK that the workers and the rows they write depend on.   *)
CoreOK == proc \in [Workers -> Proc] /\ Busy /\ slot \in [Events -> Row]

(* The rest of it.                                                          *)
RestOK ==
    /\ msg \in [Events -> {"new", "pending", "acked"}]
    /\ task \in [Events -> Statuses]
    /\ late \subseteq Events /\ overdue \subseteq Events
    /\ transit \subseteq Events /\ running \subseteq Events /\ video \subseteq Events
    /\ jobs \in [Events -> 0..MaxJobs]
    /\ faults \in 0..MaxFaults

(* What a step of worker w makes of proc: it goes on with its event at one  *)
(* of the labels L, or it is idle again.                                    *)
Moves(w, L) ==
    /\ proc' \in [Workers -> Proc]
    /\ proc'[w].pc \in L /\ proc'[w].event = proc[w].event
    /\ \A v \in Workers \ {w} : proc'[v] = proc[v]

Rests(w) ==
    /\ proc' \in [Workers -> Proc]
    /\ proc'[w].pc = "idle"
    /\ \A v \in Workers \ {w} : proc'[v] = proc[v]

-----------------------------------------------------------------------------
(* The building blocks of the actions                                       *)

(* The two parts are the whole type invariant.                              *)
LEMMA TypeSplit == TypeOK <=> CoreOK /\ RestOK
BY DEF TypeOK, CoreOK, RestOK, Row, Proc, Busy, At, Current

(* Generations of a fleet are numbers.                                      *)
LEMMA GenerationsNat ==
    /\ Cardinality(Workers) \in Nat
    /\ Generations \subseteq Nat /\ 0 \in Generations
<1>1. Cardinality(Workers) \in Nat
  BY ReplayAssumption, FS_CardinalityType
<1>. QED  BY <1>1 DEF Generations

(* An idle worker, and the initial row, are well typed.                     *)
LEMMA IdleTypes ==
    /\ Idle \in Proc /\ Idle.pc = "idle"
    /\ FreeSlot \in Row /\ FreeSlot.status = None /\ FreeSlot.create = None
BY GenerationsNat DEF Idle, Proc, FreeSlot, Row, Labels, CreateStates, MaxJobs

(* Goto moves one worker.                                                   *)
LEMMA GotoMoves ==
    ASSUME proc \in [Workers -> Proc], NEW w \in Workers, NEW pc \in Labels, Goto(w, pc)
    PROVE  Moves(w, {pc})
BY DEF Goto, Moves, Proc

(* One worker is given a new record with the same event.                    *)
LEMMA UpdateMoves ==
    ASSUME proc \in [Workers -> Proc], NEW w \in Workers, NEW p \in Proc, NEW L,
           p.pc \in L, p.event = proc[w].event, proc' = [proc EXCEPT ![w] = p]
    PROVE  Moves(w, L)
BY DEF Moves

(* Hold makes one worker idle.                                              *)
LEMMA HoldRests ==
    ASSUME proc \in [Workers -> Proc], NEW w \in Workers, Hold(w)
    PROVE  Rests(w)
BY IdleTypes DEF Hold, Rests

(* Holding moves one worker on with a generation.                           *)
LEMMA HoldingMoves ==
    ASSUME proc \in [Workers -> Proc], NEW w \in Workers, NEW pc \in Labels,
           NEW g \in Generations, Holding(w, pc, g)
    PROVE  Moves(w, {pc})
<1>1. /\ [Idle EXCEPT !.pc = pc, !.event = Current(w), !.gen = g] \in Proc
      /\ [Idle EXCEPT !.pc = pc, !.event = Current(w), !.gen = g].pc = pc
      /\ [Idle EXCEPT !.pc = pc, !.event = Current(w), !.gen = g].event = proc[w].event
  BY IdleTypes DEF Idle, Proc, Current
<1>. QED  BY <1>1 DEF Holding, Moves

(* How many numbers there are up to n + 1.                                  *)
LEMMA IntervalSize ==
    ASSUME NEW n \in Nat
    PROVE  IsFiniteSet(0..(n + 1)) /\ Cardinality(0..(n + 1)) = n + 2
<1>1. PICK m \in Int : m = n + 1
  OBVIOUS
<1>2. IsFiniteSet(0..m) /\ Cardinality(0..m) = IF 0 > m THEN 0 ELSE m - 0 + 1
  BY FS_Interval
<1>3. Cardinality(0..m) = n + 2
  BY <1>1, <1>2
<1>. QED  BY <1>1, <1>2, <1>3

(* A generation nobody remembers exists: there are more of them than the    *)
(* workers and the row can hold.                                            *)
LEMMA NextGenerationFresh ==
    ASSUME CoreOK, NEW e \in Events
    PROVE  /\ NextGeneration(e) \in Generations
           /\ NextGeneration(e) # slot[e].gen
           /\ \A w \in Workers : Current(w) = e => NextGeneration(e) # proc[w].gen
<1>. DEFINE Held == {proc[w].gen : w \in Workers}
            Used == Held \cup {slot[e].gen}
            n == Cardinality(Workers)
<1>1. IsFiniteSet(Held) /\ Cardinality(Held) <= n
  <2>. DEFINE f == [w \in Workers |-> proc[w].gen]
  <2>1. f \in Surjection(Workers, Held)
    BY DEF Surjection
  <2>. QED  BY <2>1, ReplayAssumption, FS_Surjection
<1>2. Cardinality(Held) \in Nat
  BY <1>1, FS_CardinalityType
<1>3. IsFiniteSet(Used) /\ Cardinality(Used) <= n + 1
  <2>1. n \in Nat
    BY GenerationsNat
  <2>. HIDE DEF Held, n
  <2>. QED  BY <1>1, <1>2, <2>1, FS_AddElement
<1>4. IsFiniteSet(Generations) /\ Cardinality(Generations) = n + 2
  BY GenerationsNat, IntervalSize DEF Generations
<1>5. ~ (Generations \subseteq Used)
  <2>1. SUFFICES ASSUME Generations \subseteq Used PROVE FALSE
    OBVIOUS
  <2>2. Cardinality(Generations) <= Cardinality(Used)
    BY <2>1, <1>3, FS_Subset
  <2>3. Cardinality(Used) \in Nat /\ n \in Nat
    BY <1>3, FS_CardinalityType, GenerationsNat
  <2>. HIDE DEF Used, n
  <2>. QED  BY <2>2, <2>3, <1>3, <1>4
<1>6. PICK g \in Generations : g \notin Used
  BY <1>5
<1>7. g # slot[e].gen /\ \A w \in Workers : Current(w) = e => g # proc[w].gen
  BY <1>6
<1>. QED  BY <1>7 DEF NextGeneration

(* A fault is counted.                                                      *)
LEMMA FaultCounts ==
    ASSUME faults \in 0..MaxFaults, UNCHANGED faults \/ Fault
    PROVE  faults' \in 0..MaxFaults
BY ReplayAssumption DEF Fault

-----------------------------------------------------------------------------
(* The inductive invariant                                                  *)

(* What makes an acknowledgement safe.                                      *)
Outcome(e) ==
    \/ task[e] \in Terminal
    \/ slot[e].create = "committed"
    \/ slot[e].status \in {"released", "timeout"}

(* No job of the event exists or may come into being.                       *)
Untouched(e) == jobs[e] = 0 /\ e \notin transit

(* The worker has started a create call and has not learned its fate, or    *)
(* has been refused.                                                        *)
Calling(w) == proc[w].pc \in {"submit", "abort"}

(* A row that was never reserved has no create state.                       *)
FreeRows == \A e \in Events : slot[e].status = None => slot[e].create = None

(* The owner of a reservation that has not started its create call finds it *)
(* not started: a takeover of a started one never leads here.               *)
NotStarted ==
    \A w \in Workers :
        proc[w].pc = "mark" /\ slot[proc[w].event].owner = w => slot[proc[w].event].create # "submitting"

(* Before the call is marked, and after it was refused, nobody is calling   *)
(* and there is nothing at Replay.                                          *)
NoCall ==
    \A e \in Events :
        slot[e].create \in {None, "reserved", "aborted"} =>
            Untouched(e) /\ \A w \in Workers : Calling(w) => proc[w].event # e

(* While a worker is calling there is nothing at Replay either.             *)
CallUntouched == \A w \in Workers : Calling(w) => Untouched(proc[w].event)

(* One worker at most is calling for an event.                              *)
OneCall ==
    \A v, w \in Workers : Calling(v) /\ Calling(w) /\ proc[v].event = proc[w].event => v = w

(* A worker about to acknowledge has the outcome before it.                 *)
AckReady == \A w \in Workers : proc[w].pc = "ack" => Outcome(proc[w].event)

AckedReady == \A e \in Events : msg[e] = "acked" => Outcome(e)

JobInv == FreeRows /\ NotStarted /\ NoCall /\ CallUntouched /\ OneCall /\ AtMostOneReplayJob

ReplayInv == TypeOK /\ JobInv /\ AckReady /\ AckedReady

-----------------------------------------------------------------------------
(* What a step does                                                         *)

(* What a step may do to a row without starting or refusing a create call:  *)
(* a call that was started is settled, an ended slot stays ended.           *)
RowKept(e) ==
    /\ slot'[e].owner = slot[e].owner
    /\ slot'[e].status = None <=> slot[e].status = None
    /\ slot[e].status \in {"released", "timeout"} => slot'[e].status \in {"released", "timeout"}
    /\ slot[e].create = "committed" => slot'[e].create = "committed"
    /\ \/ slot'[e].create = slot[e].create
       \/ /\ slot[e].create \notin {None, "reserved", "aborted"}
          /\ slot'[e].create \notin {None, "reserved", "aborted", "submitting"}

RowsKept == slot' \in [Events -> Row] /\ \A e \in Events : RowKept(e)

(* The labels a worker may reach without a reservation or a create call.    *)
Harmless == Labels \ {"mark", "submit", "abort", "ack"}

Quiet(w) ==
    \/ Rests(w)
    \/ Moves(w, Harmless)
    \/ Moves(w, {"ack"}) /\ Outcome(proc[w].event)'

(* The task of an event is left alone, ends, or is handed to the            *)
(* media-worker with a committed job.                                       *)
TaskKept(e) ==
    task'[e] = task[e] \/ task'[e] \in Terminal \/ slot'[e].create = "committed"

(* Unchanged rows are kept.                                                 *)
LEMMA SameRows ==
    ASSUME slot \in [Events -> Row], UNCHANGED slot
    PROVE  RowsKept
BY DEF RowsKept, RowKept

(* One row changes.                                                         *)
LEMMA OneRow ==
    ASSUME slot \in [Events -> Row], NEW e \in Events, NEW r \in Row, slot' = [slot EXCEPT ![e] = r]
    PROVE  /\ slot' \in [Events -> Row] /\ slot'[e] = r
           /\ \A f \in Events \ {e} : slot'[f] = slot[f] /\ RowKept(f)
BY DEF RowKept

(* Steps that only read.                                                    *)
LEMMA ReadersQuiet ==
    ASSUME CoreOK, NEW w \in Workers,
           CheckTerminal(w) \/ LoadSlot(w) \/ Load(w) \/ Snapshot(w) \/ Recover(w)
              \/ Ack(w) \/ Crash(w),
           jobs \in [Events -> 0..MaxJobs]
    PROVE  RowsKept /\ Quiet(w) /\ UNCHANGED <<task, transit, jobs>>
<1>. USE DEF CoreOK
<1>0. {"slot", "gate", "fail", "takeover", "snapshot", "acquire", "commit", "uncertain", "load"} \subseteq Harmless
  BY DEF Harmless, Labels
<1>1. UNCHANGED slot /\ UNCHANGED <<task, transit, jobs>> /\ RowsKept
  BY SameRows DEF CheckTerminal, LoadSlot, Load, Snapshot, Recover, Ack, Crash, replay
<1>2. proc[w].pc # "idle"
  BY DEF CheckTerminal, LoadSlot, Load, Snapshot, Recover, Ack, Crash, At
<1>3. proc[w].event \in Events
  BY <1>2 DEF Busy
<1>4. ASSUME NEW pc \in Harmless, Goto(w, pc) PROVE Quiet(w)
  <2>1. pc \in Labels
    BY DEF Harmless
  <2>2. Moves(w, {pc})
    BY <2>1, <1>4, GotoMoves
  <2>. QED  BY <2>2 DEF Quiet, Moves
<1>5. ASSUME Goto(w, "ack"), Outcome(proc[w].event) PROVE Quiet(w)
  <2>1. Moves(w, {"ack"})
    BY <1>5, GotoMoves DEF Labels
  <2>2. Outcome(proc[w].event)'
    <3>1. proc'[w].event = proc[w].event
      BY <2>1 DEF Moves
    <3>. QED  BY <3>1, <1>1, <1>5 DEF Outcome
  <2>. QED  BY <2>1, <2>2 DEF Quiet
<1>6. ASSUME Hold(w) PROVE Quiet(w)
  BY <1>6, HoldRests DEF Quiet
<1>7. CASE CheckTerminal(w)
  BY <1>0, <1>1, <1>4, <1>5, <1>7 DEF CheckTerminal, Outcome, Current
<1>8. CASE LoadSlot(w)
  <2>1. ASSUME proc' = [proc EXCEPT ![w].pc = "gate", ![w].recovering = slot[Current(w)].status = "active"]
        PROVE  Quiet(w)
    <3>1. (slot[Current(w)].status = "active") \in BOOLEAN
      OBVIOUS
    <3>. DEFINE p == [proc[w] EXCEPT !.pc = "gate", !.recovering = slot[Current(w)].status = "active"]
    <3>2. p \in Proc /\ p.pc = "gate" /\ p.event = proc[w].event
      BY <3>1 DEF Proc, Labels
    <3>3. proc' = [proc EXCEPT ![w] = p]
      BY <2>1
    <3>4. Moves(w, Harmless)
      <4>. HIDE DEF p
      <4>. QED  BY <1>0, <3>2, <3>3, UpdateMoves
    <3>. QED  BY <3>4 DEF Quiet
  <2>. QED  BY <1>0, <1>1, <1>4, <1>5, <1>6, <1>8, <2>1 DEF LoadSlot, Outcome, Current
<1>9. CASE Load(w)
  <2>1. ASSUME Holding(w, "takeover", slot[Current(w)].gen)
        PROVE  Quiet(w)
    <3>1. slot[Current(w)].gen \in Generations
      BY <1>3 DEF Row, Current
    <3>2. Moves(w, {"takeover"})
      BY <2>1, <3>1, HoldingMoves DEF Labels
    <3>. QED  BY <1>0, <3>2 DEF Quiet, Moves
  <2>2. slot[Current(w)].status \in {None, "active", "released", "timeout"}
    BY <1>3 DEF Row, Current
  <2>. QED  BY <1>0, <1>1, <1>4, <1>5, <1>6, <1>9, <2>1, <2>2 DEF Load, Existing, Outcome, Current
<1>10. CASE Snapshot(w)
  <2>1. Counted \in SUBSET Events
    BY DEF Counted
  <2>. DEFINE p == [proc[w] EXCEPT !.pc = "acquire", !.seen = Counted]
  <2>2. p \in Proc /\ p.pc = "acquire" /\ p.event = proc[w].event
    BY <2>1 DEF Proc, Labels
  <2>3. proc' = [proc EXCEPT ![w] = p]
    BY <1>10 DEF Snapshot
  <2>4. Moves(w, Harmless)
    <3>. HIDE DEF p
    <3>. QED  BY <1>0, <2>2, <2>3, UpdateMoves
  <2>. QED  BY <1>1, <2>4 DEF Quiet
<1>11. CASE Recover(w)
  <2>1. ASSUME proc' = [proc EXCEPT ![w].pc = "commit", ![w].job = jobs[Current(w)]]
        PROVE  Quiet(w)
    <3>1. jobs[Current(w)] \in 0..MaxJobs
      BY <1>3 DEF Current
    <3>. DEFINE p == [proc[w] EXCEPT !.pc = "commit", !.job = jobs[Current(w)]]
    <3>2. p \in Proc /\ p.pc = "commit" /\ p.event = proc[w].event
      BY <3>1 DEF Proc, Labels
    <3>3. proc' = [proc EXCEPT ![w] = p]
      BY <2>1
    <3>4. Moves(w, Harmless)
      <4>. HIDE DEF p
      <4>. QED  BY <1>0, <3>2, <3>3, UpdateMoves
    <3>. QED  BY <3>4 DEF Quiet
  <2>. QED  BY <1>0, <1>1, <1>4, <1>11, <2>1 DEF Recover
<1>12. CASE Ack(w) \/ Crash(w)
  BY <1>1, <1>6, <1>12 DEF Ack, Crash
<1>. QED  BY <1>7, <1>8, <1>9, <1>10, <1>11, <1>12

(* Steps that write without starting or refusing a create call.             *)
LEMMA WritersQuiet ==
    ASSUME CoreOK, NEW w \in Workers, task \in [Events -> Statuses],
           Gate(w) \/ MarkFailed(w) \/ MarkUncertain(w) \/ Commit(w)
    PROVE  /\ RowsKept /\ Quiet(w) /\ UNCHANGED <<transit, jobs>>
           /\ task' \in [Events -> Statuses] /\ \A e \in Events : TaskKept(e)
<1>. USE DEF CoreOK
<1>1. UNCHANGED <<transit, jobs>> /\ proc[w].event \in Events
  BY DEF Gate, MarkFailed, MarkUncertain, Commit, At, replay, Busy
<1>. DEFINE e == proc[w].event
<1>2. slot[e] \in Row /\ Current(w) = e
  BY <1>1 DEF Current
<1>3. ASSUME Hold(w) PROVE Quiet(w)
  BY <1>3, HoldRests DEF Quiet
<1>4. ASSUME UNCHANGED task PROVE task' \in [Events -> Statuses] /\ \A f \in Events : TaskKept(f)
  BY <1>4 DEF TaskKept
<1>5. CASE Gate(w)
  <2>1. RowsKept
    <3>1. \A f \in Events : [slot[f] EXCEPT !.status = "timeout"] \in Row
      BY DEF Row
    <3>2. slot' \in [Events -> Row]
      BY <1>5, <3>1 DEF Gate
    <3>3. ASSUME NEW f \in Events PROVE RowKept(f)
      <4>1. slot'[f] = slot[f] \/ (slot[f].status = "active" /\ slot'[f] = [slot[f] EXCEPT !.status = "timeout"])
        BY <1>5 DEF Gate, TimedOut
      <4>2. slot[f] \in Row
        OBVIOUS
      <4>. QED  BY <4>1, <4>2 DEF RowKept, Row, None
    <3>. QED  BY <3>2, <3>3 DEF RowsKept
  <2>2. ASSUME Goto(w, "fail") PROVE Quiet(w)
    <3>1. Moves(w, {"fail"})
      BY <2>2, GotoMoves DEF Labels
    <3>. QED  BY <3>1 DEF Quiet, Moves, Harmless, Labels
  <2>3. ASSUME proc' = [proc EXCEPT ![w].pc = "load", ![w].recovering = FALSE] PROVE Quiet(w)
    <3>. DEFINE p == [proc[w] EXCEPT !.pc = "load", !.recovering = FALSE]
    <3>1. p \in Proc /\ p.pc = "load" /\ p.event = proc[w].event
      BY DEF Proc, Labels
    <3>2. proc' = [proc EXCEPT ![w] = p]
      BY <2>3
    <3>3. Moves(w, Harmless)
      <4>1. "load" \in Harmless
        BY DEF Harmless, Labels
      <4>. HIDE DEF p
      <4>. QED  BY <4>1, <3>1, <3>2, UpdateMoves
    <3>. QED  BY <3>3 DEF Quiet
  <2>. QED  BY <1>1, <1>3, <1>4, <1>5, <2>1, <2>2, <2>3 DEF Gate
<1>6. CASE MarkFailed(w)
  <2>1. RowsKept
    BY <1>6, SameRows DEF MarkFailed
  <2>2. CASE UNCHANGED task /\ Hold(w)
    BY <1>1, <1>3, <1>4, <2>1, <2>2
  <2>3. CASE task' = [task EXCEPT ![e] = "materialization_failed"] /\ (Goto(w, "ack") \/ Hold(w))
    <3>1. /\ task' \in [Events -> Statuses] /\ \A f \in Events : TaskKept(f)
          /\ task'[e] \in Terminal
      BY <1>1, <2>3 DEF TaskKept, Terminal, Statuses
    <3>2. ASSUME Goto(w, "ack") PROVE Quiet(w)
      <4>1. Moves(w, {"ack"})
        BY <3>2, GotoMoves DEF Labels
      <4>2. proc'[w].event = e
        BY <4>1 DEF Moves
      <4>. QED  BY <3>1, <4>1, <4>2 DEF Quiet, Outcome
    <3>. QED  BY <1>1, <1>3, <2>1, <2>3, <3>1, <3>2
  <2>. QED  BY <1>2, <1>6, <2>2, <2>3 DEF MarkFailed
<1>7. CASE MarkUncertain(w)
  <2>1. Hold(w) /\ UNCHANGED task
    BY <1>7 DEF MarkUncertain, Statement
  <2>2. CASE UNCHANGED slot
    BY <1>1, <1>3, <1>4, <2>1, <2>2, SameRows
  <2>3. CASE slot' = [slot EXCEPT ![e] = [slot[e] EXCEPT !.create = "uncertain"]]
                /\ slot[e].create \in {"submitting", "uncertain"}
    <3>. DEFINE r == [slot[e] EXCEPT !.create = "uncertain"]
    <3>1. /\ r \in Row /\ r.create = "uncertain" /\ r.status = slot[e].status
          /\ r.owner = slot[e].owner
      BY <1>2 DEF Row, CreateStates
    <3>2. /\ slot' \in [Events -> Row] /\ slot'[e] = r
          /\ \A f \in Events \ {e} : RowKept(f)
      <4>. HIDE DEF r
      <4>1. slot' = [slot EXCEPT ![e] = r]
        BY <2>3 DEF r
      <4>. QED  BY <1>1, <3>1, <4>1, OneRow
    <3>3. RowKept(e)
      BY <2>3, <3>1, <3>2 DEF RowKept, None
    <3>. QED  BY <1>1, <1>3, <1>4, <2>1, <3>2, <3>3 DEF RowsKept
  <2>. QED  BY <1>2, <1>7, <2>2, <2>3 DEF MarkUncertain, Statement
<1>8. CASE Commit(w)
  <2>. DEFINE r == [slot[e] EXCEPT !.create = "committed", !.job = proc[w].job]
  <2>1. /\ r \in Row /\ r.create = "committed" /\ r.status = slot[e].status
        /\ r.owner = slot[e].owner
    BY <1>2 DEF Row, Proc, CreateStates
  <2>2. CASE UNCHANGED slot /\ Hold(w)
    <3>1. UNCHANGED task
      BY <1>8, <2>2 DEF Commit
    <3>. QED  BY <1>1, <1>3, <1>4, <2>2, <3>1, SameRows
  <2>3. CASE /\ slot' = [slot EXCEPT ![e] = r]
             /\ slot[e].create \in {"submitting", "committed"}
             /\ Goto(w, "ack") \/ Hold(w)
    <3>1. /\ slot' \in [Events -> Row] /\ slot'[e] = r
          /\ \A f \in Events \ {e} : RowKept(f)
      <4>. HIDE DEF r
      <4>. QED  BY <1>1, <2>1, <2>3, OneRow
    <3>2. RowKept(e)
      BY <2>1, <2>3, <3>1 DEF RowKept, None
    <3>3. task' = task \/ task' = [task EXCEPT ![e] = "materializing"]
      BY <1>2, <1>8 DEF Commit
    <3>4. task' \in [Events -> Statuses] /\ \A f \in Events : TaskKept(f)
      BY <2>1, <3>1, <3>3 DEF TaskKept, Statuses
    <3>5. ASSUME Goto(w, "ack") PROVE Quiet(w)
      <4>1. Moves(w, {"ack"})
        BY <3>5, GotoMoves DEF Labels
      <4>2. proc'[w].event = e
        BY <4>1 DEF Moves
      <4>. QED  BY <2>1, <3>1, <4>1, <4>2 DEF Quiet, Outcome
    <3>. QED  BY <1>1, <1>3, <2>3, <3>1, <3>2, <3>4, <3>5 DEF RowsKept
  <2>. QED  BY <1>2, <1>8, <2>2, <2>3 DEF Commit, Statement
<1>. QED  BY <1>5, <1>6, <1>7, <1>8

(* The row of e becomes r, of which the given fields are known.             *)
RowBecomes(e, status, owner, create) ==
    /\ slot' \in [Events -> Row]
    /\ slot'[e].status = status /\ slot'[e].owner = owner /\ slot'[e].create = create
    /\ \A f \in Events \ {e} : slot'[f] = slot[f] /\ RowKept(f)

(* A missed or failed statement changes nothing and holds the delivery.     *)
Missed(w) == UNCHANGED <<slot, task>> /\ RowsKept /\ Quiet(w)

(* A worker at a label other than idle has an event with a row.             *)
LEMMA CurrentRow ==
    ASSUME CoreOK, NEW w \in Workers, proc[w].pc # "idle"
    PROVE  proc[w].event \in Events /\ Current(w) = proc[w].event /\ slot[proc[w].event] \in Row
BY DEF CoreOK, Busy, Current

(* A free slot is reserved for w, or nothing happens; only an ended slot is *)
(* acknowledged.                                                            *)
LEMMA AcquireEffect ==
    ASSUME CoreOK, NEW w \in Workers, Acquire(w)
    PROVE  /\ UNCHANGED <<task, transit, jobs>>
           /\ \/ Missed(w)
              \/ /\ slot[proc[w].event].status = None
                 /\ RowBecomes(proc[w].event, "active", w, "reserved")
                 /\ Rests(w) \/ Moves(w, {"mark"})
<1>. DEFINE e == proc[w].event
            g == NextGeneration(e)
            r == [status |-> "active", owner |-> w, gen |-> g, create |-> "reserved", job |-> 0]
<1>1. e \in Events /\ Current(w) = e /\ slot[e] \in Row
  BY CurrentRow DEF Acquire, At
<1>2. UNCHANGED <<task, transit, jobs>>
  BY DEF Acquire, replay
<1>3. g \in Generations
  BY <1>1, NextGenerationFresh
<1>4. ASSUME Hold(w) PROVE Rests(w) /\ Quiet(w)
  BY <1>4, HoldRests DEF Quiet, CoreOK
<1>5. CASE /\ UNCHANGED slot
           /\ (IF slot[e].status \in {"released", "timeout"} THEN Goto(w, "ack") ELSE Hold(w))
  <2>1. RowsKept
    BY <1>5, SameRows DEF CoreOK
  <2>2. CASE slot[e].status \in {"released", "timeout"}
    <3>1. Moves(w, {"ack"})
      BY <1>5, <2>2, GotoMoves DEF CoreOK, Labels
    <3>2. proc'[w].event = e
      BY <3>1 DEF Moves
    <3>. QED  BY <1>2, <1>5, <2>1, <2>2, <3>1, <3>2 DEF Missed, Quiet, Outcome
  <2>. QED  BY <1>2, <1>4, <1>5, <2>1, <2>2 DEF Missed
<1>6. CASE /\ slot[e].status = None /\ slot' = [slot EXCEPT ![e] = r]
           /\ \/ Holding(w, "mark", g)
              \/ IF slot[e].status \in {"released", "timeout"} THEN Goto(w, "ack") ELSE Hold(w)
  <2>1. r \in Row /\ r.status = "active" /\ r.owner = w /\ r.create = "reserved"
    BY <1>3 DEF Row, CreateStates, MaxJobs
  <2>2. RowBecomes(e, "active", w, "reserved")
    <3>. HIDE DEF r
    <3>. QED  BY <1>1, <1>6, <2>1, OneRow DEF CoreOK, RowBecomes
  <2>3. ASSUME Holding(w, "mark", g) PROVE Moves(w, {"mark"})
    <3>. HIDE DEF g
    <3>. QED  BY <1>3, <2>3, HoldingMoves DEF CoreOK, Labels
  <2>. QED  BY <1>2, <1>4, <1>6, <2>2, <2>3 DEF None
<1>. QED  BY <1>1, <1>5, <1>6 DEF Acquire, Statement

(* An active slot gets w as its owner, or nothing happens; one whose create *)
(* call may have been made is recovered, never started again.               *)
LEMMA TakeoverEffect ==
    ASSUME CoreOK, NEW w \in Workers, Takeover(w)
    PROVE  /\ UNCHANGED <<task, transit, jobs>>
           /\ \/ Missed(w)
              \/ /\ slot[proc[w].event].status = "active"
                 /\ RowBecomes(proc[w].event, "active", w, slot[proc[w].event].create)
                 /\ \/ Rests(w) \/ Moves(w, {"recover"})
                    \/ Moves(w, {"mark"}) /\ slot[proc[w].event].create # "submitting"
<1>. DEFINE e == proc[w].event
            g == NextGeneration(e)
            r == [slot[e] EXCEPT !.owner = w, !.gen = g]
            started == slot[e].create \in {"submitting", "uncertain"}
<1>1. e \in Events /\ Current(w) = e /\ slot[e] \in Row
  BY CurrentRow DEF Takeover, At
<1>2. UNCHANGED <<task, transit, jobs>>
  BY DEF Takeover, replay
<1>3. g \in Generations
  BY <1>1, NextGenerationFresh
<1>4. ASSUME Hold(w) PROVE Rests(w) /\ Quiet(w)
  BY <1>4, HoldRests DEF Quiet, CoreOK
<1>5. CASE UNCHANGED slot /\ Hold(w)
  BY <1>2, <1>4, <1>5, SameRows DEF Missed, CoreOK
<1>6. CASE /\ slot[e].status = "active" /\ slot' = [slot EXCEPT ![e] = r]
           /\ Holding(w, IF started THEN "recover" ELSE "mark", g) \/ Hold(w)
  <2>1. r \in Row /\ r.status = "active" /\ r.owner = w /\ r.create = slot[e].create
    BY <1>1, <1>3, <1>6 DEF Row
  <2>2. RowBecomes(e, "active", w, slot[e].create)
    <3>. HIDE DEF r
    <3>. QED  BY <1>1, <1>6, <2>1, OneRow DEF CoreOK, RowBecomes
  <2>3. ASSUME Holding(w, "recover", g) PROVE Moves(w, {"recover"})
    <3>. HIDE DEF g
    <3>. QED  BY <1>3, <2>3, HoldingMoves DEF CoreOK, Labels
  <2>4. ASSUME Holding(w, "mark", g) PROVE Moves(w, {"mark"})
    <3>. HIDE DEF g
    <3>. QED  BY <1>3, <2>4, HoldingMoves DEF CoreOK, Labels
  <2>. QED  BY <1>2, <1>4, <1>6, <2>2, <2>3, <2>4
<1>. QED  BY <1>1, <1>5, <1>6 DEF Takeover, Statement

(* The owner of a reservation marks its create call as started.             *)
LEMMA MarkEffect ==
    ASSUME CoreOK, NEW w \in Workers, MarkSubmitting(w)
    PROVE  /\ UNCHANGED <<task, transit, jobs>>
           /\ \/ Missed(w)
              \/ /\ slot[proc[w].event].status = "active" /\ slot[proc[w].event].owner = w
                 /\ slot[proc[w].event].create \in {"reserved", "submitting"}
                 /\ RowBecomes(proc[w].event, "active", w, "submitting")
                 /\ Rests(w) \/ Moves(w, {"submit"})
<1>. DEFINE e == proc[w].event
            r == [slot[e] EXCEPT !.create = "submitting"]
<1>1. e \in Events /\ Current(w) = e /\ slot[e] \in Row
  BY CurrentRow DEF MarkSubmitting, At
<1>2. UNCHANGED <<task, transit, jobs>>
  BY DEF MarkSubmitting, replay
<1>3. ASSUME Hold(w) PROVE Rests(w) /\ Quiet(w)
  BY <1>3, HoldRests DEF Quiet, CoreOK
<1>4. CASE UNCHANGED slot /\ Hold(w)
  BY <1>2, <1>3, <1>4, SameRows DEF Missed, CoreOK
<1>5. CASE /\ Fenced(w) /\ slot[e].create \in {"reserved", "submitting"}
           /\ slot' = [slot EXCEPT ![e] = r]
           /\ Goto(w, "submit") \/ Hold(w)
  <2>1. slot[e].status = "active" /\ slot[e].owner = w
    BY <1>1, <1>5 DEF Fenced
  <2>2. r \in Row /\ r.status = "active" /\ r.owner = w /\ r.create = "submitting"
    BY <1>1, <2>1 DEF Row, CreateStates
  <2>3. RowBecomes(e, "active", w, "submitting")
    <3>. HIDE DEF r
    <3>. QED  BY <1>1, <1>5, <2>2, OneRow DEF CoreOK, RowBecomes
  <2>4. ASSUME Goto(w, "submit") PROVE Moves(w, {"submit"})
    BY <2>4, GotoMoves DEF CoreOK, Labels
  <2>. QED  BY <1>2, <1>3, <1>5, <2>1, <2>3, <2>4
<1>. QED  BY <1>1, <1>4, <1>5 DEF MarkSubmitting, Statement

(* A refused create call ends the slot and the task, or nothing happens.    *)
LEMMA AbortEffect ==
    ASSUME CoreOK, NEW w \in Workers, Abort(w), task \in [Events -> Statuses]
    PROVE  /\ UNCHANGED <<transit, jobs>>
           /\ task' \in [Events -> Statuses] /\ \A f \in Events : TaskKept(f)
           /\ \/ Missed(w)
              \/ /\ slot[proc[w].event].status = "active"
                 /\ slot[proc[w].event].create = "submitting"
                 /\ RowBecomes(proc[w].event, "released", slot[proc[w].event].owner, "aborted")
                 /\ Rests(w) \/ Moves(w, {"ack"})
<1>. DEFINE e == proc[w].event
            r == [slot[e] EXCEPT !.status = "released", !.create = "aborted"]
<1>1. e \in Events /\ Current(w) = e /\ slot[e] \in Row
  BY CurrentRow DEF Abort, At
<1>2. UNCHANGED <<transit, jobs>>
  BY DEF Abort, replay
<1>3. task' \in [Events -> Statuses] /\ \A f \in Events : TaskKept(f)
  BY <1>1 DEF Abort, TaskKept, Statuses, Terminal
<1>4. ASSUME Hold(w) PROVE Rests(w) /\ Quiet(w)
  BY <1>4, HoldRests DEF Quiet, CoreOK
<1>5. CASE UNCHANGED slot /\ Hold(w)
  <2>1. UNCHANGED task
    BY <1>5 DEF Abort
  <2>. QED  BY <1>2, <1>3, <1>4, <1>5, <2>1, SameRows DEF Missed, CoreOK
<1>6. CASE /\ Fenced(w) /\ slot[e].create = "submitting"
           /\ slot' = [slot EXCEPT ![e] = r]
           /\ Goto(w, "ack") \/ Hold(w)
  <2>1. slot[e].status = "active"
    BY <1>1, <1>6 DEF Fenced
  <2>2. r \in Row /\ r.status = "released" /\ r.owner = slot[e].owner /\ r.create = "aborted"
    BY <1>1 DEF Row, CreateStates
  <2>3. RowBecomes(e, "released", slot[e].owner, "aborted")
    <3>. HIDE DEF r
    <3>. QED  BY <1>1, <1>6, <2>2, OneRow DEF CoreOK, RowBecomes
  <2>4. ASSUME Goto(w, "ack") PROVE Moves(w, {"ack"})
    BY <2>4, GotoMoves DEF CoreOK, Labels
  <2>. QED  BY <1>2, <1>3, <1>4, <1>6, <2>1, <2>3, <2>4
<1>. QED  BY <1>1, <1>5, <1>6 DEF Abort, Statement

(* The create call creates a job or leaves one on its way, at most one of   *)
(* the two; it is refused without either.                                   *)
LEMMA SubmitEffect ==
    ASSUME CoreOK, NEW w \in Workers, Submit(w), jobs \in [Events -> 0..MaxJobs]
    PROVE  /\ UNCHANGED <<slot, task>> /\ RowsKept
           /\ jobs' \in [Events -> 0..MaxJobs]
           /\ \A f \in Events \ {proc[w].event} : jobs'[f] = jobs[f] /\ (f \in transit' <=> f \in transit)
           /\ \/ Moves(w, {"abort"}) /\ UNCHANGED <<transit, jobs>>
              \/ /\ Moves(w, {"commit", "uncertain"})
                 /\ \/ UNCHANGED <<transit, jobs>>
                    \/ transit' = transit /\ jobs'[proc[w].event] = jobs[proc[w].event] + 1
                    \/ transit' = transit \cup {proc[w].event} /\ jobs' = jobs
<1>. DEFINE e == proc[w].event
<1>1. e \in Events /\ Current(w) = e /\ slot[e] \in Row
  BY CurrentRow DEF Submit, At
<1>2. UNCHANGED <<slot, task>> /\ RowsKept
  BY SameRows DEF Submit, CoreOK
<1>3. ASSUME NEW pc \in {"abort", "uncertain"}, Goto(w, pc) PROVE Moves(w, {pc})
  BY <1>3, GotoMoves DEF CoreOK, Labels
<1>4. ASSUME CreateJob(e)
      PROVE  /\ jobs[e] + 1 \in 0..MaxJobs /\ jobs' \in [Events -> 0..MaxJobs]
             /\ jobs'[e] = jobs[e] + 1 /\ \A f \in Events \ {e} : jobs'[f] = jobs[f]
  BY <1>1, <1>4 DEF CreateJob, MaxJobs
<1>5. CASE /\ CreateJob(e) /\ UNCHANGED transit
           /\ \/ proc' = [proc EXCEPT ![w].pc = "commit", ![w].job = jobs[e] + 1]
              \/ Goto(w, "uncertain")
  <2>1. ASSUME proc' = [proc EXCEPT ![w].pc = "commit", ![w].job = jobs[e] + 1]
        PROVE  Moves(w, {"commit"})
    <3>. DEFINE p == [proc[w] EXCEPT !.pc = "commit", !.job = jobs[e] + 1]
    <3>1. jobs[e] + 1 \in 0..MaxJobs /\ proc[w] \in Proc
      BY <1>4, <1>5 DEF CoreOK
    <3>2. p \in Proc /\ p.pc = "commit" /\ p.event = proc[w].event
      BY <3>1 DEF Proc, Labels
    <3>3. proc' = [proc EXCEPT ![w] = p]
      BY <2>1 DEF CoreOK
    <3>. HIDE DEF p
    <3>. QED  BY <3>2, <3>3, UpdateMoves DEF CoreOK
  <2>2. Moves(w, {"commit", "uncertain"})
    BY <1>3, <1>5, <2>1 DEF Moves
  <2>. QED  BY <1>2, <1>4, <1>5, <2>2
<1>6. CASE Goto(w, "abort") /\ UNCHANGED <<transit, jobs>>
  BY <1>2, <1>3, <1>6
<1>7. CASE Goto(w, "uncertain") /\ UNCHANGED jobs /\ transit' \in {transit, transit \cup {e}}
  <2>1. Moves(w, {"commit", "uncertain"})
    BY <1>3, <1>7 DEF Moves
  <2>. QED  BY <1>2, <1>7, <2>1
<1>. QED  BY <1>1, <1>5, <1>6, <1>7 DEF Submit

(* A delivery gives an idle worker its event.                               *)
LEMMA DeliverEffect ==
    ASSUME CoreOK, NEW w \in Workers, NEW e \in Events, ReadNew(w, e) \/ Reclaim(w, e)
    PROVE  /\ UNCHANGED <<slot, task, late, overdue, replay, faults>> /\ RowsKept
           /\ proc' \in [Workers -> Proc] /\ proc'[w].pc = "check" /\ proc'[w].event = e
           /\ \A v \in Workers \ {w} : proc'[v] = proc[v]
<1>1. PICK again \in BOOLEAN : Deliver(w, e, again)
  BY DEF ReadNew, Reclaim
<1>. DEFINE p == [Idle EXCEPT !.pc = "check", !.event = e, !.reclaimed = again]
<1>2. p \in Proc /\ p.pc = "check" /\ p.event = e
  BY IdleTypes DEF Idle, Proc, Labels
<1>3. proc' = [proc EXCEPT ![w] = p] /\ UNCHANGED <<slot, task, late, overdue, replay, faults>>
  BY <1>1 DEF Deliver
<1>4. RowsKept
  BY <1>3, SameRows DEF CoreOK
<1>. HIDE DEF p
<1>. QED  BY <1>2, <1>3, <1>4 DEF CoreOK

(* The surroundings never write a row but to release a started slot.        *)
LEMMA SurroundingsRows ==
    ASSUME CoreOK, NEW e \in Events, Surroundings(e)
    PROVE  UNCHANGED proc /\ RowsKept
<1>1. CASE SinkStable(e)
  <2>. DEFINE r == [slot[e] EXCEPT !.status = "released",
                        !.create = IF @ = "committed" THEN @ ELSE "sink_confirmed"]
  <2>1. slot[e] \in Row
    BY DEF CoreOK
  <2>2. /\ r \in Row /\ r.status = "released" /\ r.owner = slot[e].owner
        /\ r.create = IF slot[e].create = "committed" THEN "committed" ELSE "sink_confirmed"
    BY <2>1 DEF Row, CreateStates
  <2>3. slot' = [slot EXCEPT ![e] = r] /\ UNCHANGED proc
    BY <1>1 DEF SinkStable, CoreOK
  <2>4. slot[e].status = "active" /\ slot[e].create \in {"committed", "submitting", "uncertain"}
    BY <1>1 DEF SinkStable
  <2>5. /\ slot' \in [Events -> Row] /\ slot'[e] = r /\ \A f \in Events \ {e} : RowKept(f)
    <3>. HIDE DEF r
    <3>. QED  BY <2>2, <2>3, OneRow DEF CoreOK
  <2>6. RowKept(e)
    BY <2>2, <2>4, <2>5 DEF RowKept, None
  <2>. QED  BY <2>3, <2>5, <2>6 DEF RowsKept
<1>2. CASE ~ SinkStable(e)
  <2>1. UNCHANGED <<proc, slot>>
    BY <1>2 DEF Surroundings, Arrive, JobEnds, MediaCompletes, SlotDeadline, TaskDeadline, Expire
  <2>. QED  BY <2>1, SameRows DEF CoreOK
<1>. QED  BY <1>1, <1>2

(* What the surroundings do to the jobs and to the task.                    *)
LEMMA SurroundingsJobs ==
    ASSUME RestOK, NEW e \in Events, Surroundings(e)
    PROVE  /\ jobs' \in [Events -> 0..MaxJobs] /\ task' \in [Events -> Statuses]
           /\ \/ UNCHANGED <<transit, jobs>>
              \/ /\ e \in transit /\ transit' = transit \ {e}
                 /\ jobs'[e] = jobs[e] + 1 /\ \A f \in Events \ {e} : jobs'[f] = jobs[f]
           /\ \A f \in Events : TaskKept(f)
<1>1. CASE Arrive(e)
  <2>1. /\ jobs' \in [Events -> 0..MaxJobs]
        /\ jobs'[e] = jobs[e] + 1 /\ \A f \in Events \ {e} : jobs'[f] = jobs[f]
    BY <1>1 DEF Arrive, CreateJob, MaxJobs, RestOK
  <2>2. e \in transit /\ transit' = transit \ {e} /\ UNCHANGED task
    BY <1>1 DEF Arrive
  <2>. QED  BY <2>1, <2>2 DEF TaskKept, RestOK
<1>2. CASE ~ Arrive(e)
  <2>1. UNCHANGED <<transit, jobs>>
    BY <1>2 DEF Surroundings, JobEnds, SinkStable, MediaCompletes, SlotDeadline, TaskDeadline, Expire, replay
  <2>2. task' = task \/ \E s \in Terminal : task' = [task EXCEPT ![e] = s]
    BY <1>2 DEF Surroundings, JobEnds, SinkStable, MediaCompletes, SlotDeadline, TaskDeadline, Expire, Terminal
  <2>3. task' \in [Events -> Statuses] /\ \A f \in Events : TaskKept(f)
    BY <2>2 DEF TaskKept, RestOK, Statuses
  <2>. QED  BY <2>1, <2>3 DEF RestOK
<1>. QED  BY <1>1, <1>2

-----------------------------------------------------------------------------
(* Typing                                                                   *)

(* A fault is counted, whatever the step.                                   *)
LEMMA StepFaults ==
    ASSUME TypeOK, Next
    PROVE  faults' \in 0..MaxFaults
<1>1. UNCHANGED faults \/ Fault
  <2>1. ASSUME NEW w \in Workers, Process(w) \/ Crash(w) PROVE UNCHANGED faults \/ Fault
    BY <2>1 DEF Process, CheckTerminal, LoadSlot, Gate, MarkFailed, Load, Snapshot, Acquire, Takeover,
          Recover, MarkSubmitting, Submit, Abort, MarkUncertain, Commit, Ack, Crash, Statement
  <2>2. ASSUME NEW w \in Workers, NEW e \in Events, ReadNew(w, e) \/ Reclaim(w, e) PROVE UNCHANGED faults
    BY <2>2 DEF ReadNew, Reclaim, Deliver
  <2>3. ASSUME NEW e \in Events, Surroundings(e) PROVE UNCHANGED faults \/ Fault
    BY <2>3 DEF Surroundings, Arrive, JobEnds, SinkStable, MediaCompletes, SlotDeadline, TaskDeadline, Expire
  <2>. QED  BY <2>1, <2>2, <2>3 DEF Next, vars
<1>. QED  BY <1>1, TypeSplit, FaultCounts DEF RestOK

(* The sets of events stay sets of events; so does the stream's state.      *)
LEMMA StepSets ==
    ASSUME TypeOK, Next
    PROVE  /\ late' \subseteq Events /\ overdue' \subseteq Events /\ running' \subseteq Events
           /\ transit' \subseteq Events /\ video' \subseteq Events
           /\ msg' \in [Events -> {"new", "pending", "acked"}]
<1>. DEFINE Sets == /\ late' \subseteq Events /\ overdue' \subseteq Events /\ running' \subseteq Events
                    /\ transit' \subseteq Events /\ video' \subseteq Events
                    /\ msg' \in [Events -> {"new", "pending", "acked"}]
<1>. USE TypeSplit DEF RestOK
<1>1. ASSUME NEW w \in Workers, Process(w) \/ Crash(w) PROVE Sets
  <2>1. CASE Submit(w)
    <3>1. Current(w) \in Events
      BY <2>1, CurrentRow DEF Submit, At
    <3>. QED  BY <2>1, <3>1 DEF Submit, CreateJob
  <2>2. CASE Ack(w)
    BY <2>2 DEF Ack, replay
  <2>3. CASE ~ Submit(w) /\ ~ Ack(w)
    <3>1. UNCHANGED <<msg, late, overdue, replay>>
      BY <1>1, <2>3 DEF Process, CheckTerminal, LoadSlot, Gate, MarkFailed, Load, Snapshot, Acquire, Takeover,
          Recover, MarkSubmitting, Abort, MarkUncertain, Commit, Crash
    <3>. QED  BY <3>1 DEF replay
  <2>. QED  BY <2>1, <2>2, <2>3
<1>2. ASSUME NEW w \in Workers, NEW e \in Events, ReadNew(w, e) \/ Reclaim(w, e) PROVE Sets
  BY <1>2 DEF ReadNew, Reclaim, Deliver, replay
<1>3. ASSUME NEW e \in Events, Surroundings(e) PROVE Sets
  BY <1>3 DEF Surroundings, Arrive, JobEnds, SinkStable, MediaCompletes, SlotDeadline, TaskDeadline, Expire,
        CreateJob, replay
<1>4. ASSUME UNCHANGED vars PROVE Sets
  BY <1>4 DEF vars, replay
<1>. QED  BY <1>1, <1>2, <1>3, <1>4 DEF Next

(* A worker that goes on, rests or is given an event keeps Busy true.       *)
LEMMA StillBusy ==
    ASSUME Busy, proc' \in [Workers -> Proc], NEW w \in Workers,
           \/ Rests(w)
           \/ proc[w].event \in Events /\ Moves(w, Labels)
           \/ proc'[w].event \in Events /\ \A v \in Workers \ {w} : proc'[v] = proc[v]
    PROVE  Busy'
BY DEF Busy, Rests, Moves

(* A quiet step or one of the reservation moves is a typed step of proc.    *)
LEMMA QuietTyped ==
    ASSUME CoreOK, NEW w \in Workers, proc[w].pc # "idle",
           Quiet(w) \/ Rests(w) \/ \E L \in SUBSET Labels : Moves(w, L)
    PROVE  proc' \in [Workers -> Proc] /\ Busy'
<1>1. proc' \in [Workers -> Proc]
  BY DEF Quiet, Rests, Moves
<1>2. Rests(w) \/ Moves(w, Labels)
  BY DEF Quiet, Moves, Harmless, Labels
<1>3. proc[w].event \in Events /\ Busy
  BY DEF CoreOK, Busy
<1>. QED  BY <1>1, <1>2, <1>3, StillBusy

(* Every step keeps the types.                                              *)
LEMMA TypeStep ==
    ASSUME TypeOK, [Next]_vars
    PROVE  TypeOK'
<1>. USE TypeSplit
<1>1. CASE UNCHANGED vars
  BY <1>1 DEF TypeOK, vars, replay, At, Current
<1>2. CASE Next
  <2>1. CoreOK' /\ jobs' \in [Events -> 0..MaxJobs] /\ task' \in [Events -> Statuses]
    <3>1. ASSUME NEW w \in Workers, Process(w) \/ Crash(w)
          PROVE  CoreOK' /\ jobs' \in [Events -> 0..MaxJobs] /\ task' \in [Events -> Statuses]
      <4>1. proc[w].pc # "idle"
        BY <3>1 DEF Process, CheckTerminal, LoadSlot, Gate, MarkFailed, Load, Snapshot, Acquire, Takeover,
              Recover, MarkSubmitting, Submit, Abort, MarkUncertain, Commit, Ack, Crash, At
      <4>2. /\ slot' \in [Events -> Row]
            /\ jobs' \in [Events -> 0..MaxJobs] /\ task' \in [Events -> Statuses]
            /\ Quiet(w) \/ Rests(w) \/ \E L \in SUBSET Labels : Moves(w, L)
        <5>1. CASE CheckTerminal(w) \/ LoadSlot(w) \/ Load(w) \/ Snapshot(w) \/ Recover(w) \/ Ack(w) \/ Crash(w)
          BY <5>1, ReadersQuiet DEF RestOK, RowsKept
        <5>2. CASE Gate(w) \/ MarkFailed(w) \/ MarkUncertain(w) \/ Commit(w)
          BY <5>2, WritersQuiet DEF RestOK, RowsKept
        <5>3. CASE Acquire(w) \/ Takeover(w) \/ MarkSubmitting(w)
          <6>1. {"mark"} \in SUBSET Labels /\ {"recover"} \in SUBSET Labels /\ {"submit"} \in SUBSET Labels
            BY DEF Labels
          <6>2. /\ UNCHANGED <<task, jobs>> /\ slot' \in [Events -> Row]
                /\ Quiet(w) \/ Rests(w) \/ Moves(w, {"mark"}) \/ Moves(w, {"recover"}) \/ Moves(w, {"submit"})
            BY <5>3, AcquireEffect, TakeoverEffect, MarkEffect DEF Missed, RowsKept, RowBecomes
          <6>. QED  BY <6>1, <6>2 DEF RestOK
        <5>4. CASE Abort(w)
          <6>1. {"ack"} \in SUBSET Labels
            BY DEF Labels
          <6>. QED  BY <5>4, <6>1, AbortEffect DEF Missed, RowsKept, RowBecomes, RestOK
        <5>5. CASE Submit(w)
          <6>1. {"abort"} \in SUBSET Labels /\ {"commit", "uncertain"} \in SUBSET Labels
            BY DEF Labels
          <6>. QED  BY <5>5, <6>1, SubmitEffect DEF RowsKept, RestOK
        <5>. QED  BY <3>1, <5>1, <5>2, <5>3, <5>4, <5>5 DEF Process
      <4>. QED  BY <4>1, <4>2, QuietTyped DEF CoreOK
    <3>2. ASSUME NEW w \in Workers, NEW e \in Events, ReadNew(w, e) \/ Reclaim(w, e)
          PROVE  CoreOK' /\ jobs' \in [Events -> 0..MaxJobs] /\ task' \in [Events -> Statuses]
      <4>1. UNCHANGED <<jobs, task, slot>>
        BY <3>2, DeliverEffect DEF replay
      <4>2. proc' \in [Workers -> Proc] /\ Busy'
        BY <3>2, DeliverEffect, StillBusy DEF CoreOK
      <4>. QED  BY <4>1, <4>2 DEF CoreOK, RestOK
    <3>3. ASSUME NEW e \in Events, Surroundings(e)
          PROVE  CoreOK' /\ jobs' \in [Events -> 0..MaxJobs] /\ task' \in [Events -> Statuses]
      BY <3>3, SurroundingsRows, SurroundingsJobs DEF CoreOK, RowsKept, Busy
    <3>4. ASSUME UNCHANGED vars
          PROVE  CoreOK' /\ jobs' \in [Events -> 0..MaxJobs] /\ task' \in [Events -> Statuses]
      BY <3>4 DEF CoreOK, RestOK, Busy, vars, replay
    <3>. QED  BY <1>2, <3>1, <3>2, <3>3, <3>4 DEF Next
  <2>2. RestOK'
    BY <1>2, <2>1, StepFaults, StepSets DEF RestOK
  <2>. QED  BY <2>1, <2>2 DEF TypeOK, CoreOK, RestOK, Row, Proc, Busy, At, Current
<1>. QED  BY <1>1, <1>2

(* The initial state is well typed.                                         *)
LEMMA TypeInit == Init => TypeOK
<1>1. SUFFICES ASSUME Init PROVE CoreOK /\ RestOK
  BY TypeSplit
<1>2. CoreOK
  BY <1>1, IdleTypes DEF Init, CoreOK, Busy
<1>3. RestOK
  BY <1>1, ReplayAssumption DEF Init, RestOK, Statuses, MaxJobs
<1>. QED  BY <1>2, <1>3

-----------------------------------------------------------------------------
(* One job                                                                  *)

(* No worker starts a reservation or a call.                                *)
Calm == \A v \in Workers : proc'[v] = proc[v] \/ proc'[v].pc \notin {"mark", "submit", "abort"}

(* A quiet worker is calm.                                                  *)
LEMMA QuietCalm ==
    ASSUME NEW w \in Workers, Quiet(w) \/ Rests(w) \/ Moves(w, Harmless) \/ Moves(w, {"ack"})
    PROVE  Calm
BY DEF Quiet, Rests, Moves, Harmless, Calm

(* Steps that keep the rows, the workers calm and the jobs alone.           *)
LEMMA CalmKeeps ==
    ASSUME CoreOK, CoreOK', JobInv, RowsKept, Calm, UNCHANGED <<transit, jobs>>
    PROVE  JobInv'
<1>. USE DEF JobInv
<1>1. FreeRows'
  BY DEF FreeRows, RowsKept, RowKept
<1>2. NotStarted'
  BY DEF NotStarted, RowsKept, RowKept, Calm, CoreOK, Busy
<1>3. NoCall' /\ CallUntouched' /\ OneCall'
  BY DEF NoCall, CallUntouched, OneCall, Calling, Untouched, RowsKept, RowKept, Calm
<1>4. AtMostOneReplayJob'
  BY DEF AtMostOneReplayJob
<1>. QED  BY <1>1, <1>2, <1>3, <1>4

(* A job that arrives was on its way.                                       *)
LEMMA ArriveKeeps ==
    ASSUME TypeOK, JobInv, NEW e \in Events, RowsKept, UNCHANGED proc,
           e \in transit, transit' = transit \ {e},
           jobs'[e] = jobs[e] + 1, \A f \in Events \ {e} : jobs'[f] = jobs[f]
    PROVE  JobInv'
<1>. USE DEF JobInv
<1>0. CoreOK /\ jobs[e] \in Nat
  BY TypeSplit DEF RestOK
<1>1. FreeRows'
  BY DEF FreeRows, RowsKept, RowKept
<1>2. NotStarted'
  BY <1>0 DEF NotStarted, RowsKept, RowKept, CoreOK, Busy
<1>3. NoCall' /\ OneCall'
  BY DEF NoCall, OneCall, Calling, Untouched, RowsKept, RowKept
<1>4. CallUntouched'
  BY <1>0 DEF CallUntouched, Calling, Untouched, CoreOK, Busy
<1>5. AtMostOneReplayJob'
  BY <1>0 DEF AtMostOneReplayJob
<1>. QED  BY <1>1, <1>2, <1>3, <1>4, <1>5

(* A new reservation is made on a row without a create state.               *)
LEMMA AcquireKeeps ==
    ASSUME CoreOK, CoreOK', JobInv, NEW w \in Workers, Acquire(w)
    PROVE  JobInv'
<1>1. UNCHANGED <<transit, jobs>>
  BY AcquireEffect
<1>2. CASE Missed(w)
  BY <1>1, <1>2, QuietCalm, CalmKeeps DEF Missed
<1>3. CASE /\ slot[proc[w].event].status = None
           /\ RowBecomes(proc[w].event, "active", w, "reserved")
           /\ Rests(w) \/ Moves(w, {"mark"})
  <2>. DEFINE e == proc[w].event
  <2>. USE DEF JobInv
  <2>0. e \in Events /\ slot[e].create = None
    BY <1>3, CurrentRow DEF Acquire, At, FreeRows
  <2>1. FreeRows'
    BY <1>3 DEF FreeRows, RowBecomes, None
  <2>2. NotStarted'
    BY <1>3, <2>0 DEF NotStarted, RowBecomes, Rests, Moves, CoreOK, Busy
  <2>3. NoCall' /\ CallUntouched' /\ OneCall'
    BY <1>1, <1>3, <2>0 DEF NoCall, CallUntouched, OneCall, Calling, Untouched, RowBecomes, Rests, Moves
  <2>4. AtMostOneReplayJob'
    BY <1>1 DEF AtMostOneReplayJob
  <2>. QED  BY <2>1, <2>2, <2>3, <2>4
<1>. QED  BY <1>2, <1>3, AcquireEffect

(* A takeover changes the owner; it leads to a mark only for a reservation  *)
(* whose call was not started.                                              *)
LEMMA TakeoverKeeps ==
    ASSUME CoreOK, CoreOK', JobInv, NEW w \in Workers, Takeover(w)
    PROVE  JobInv'
<1>1. UNCHANGED <<transit, jobs>>
  BY TakeoverEffect
<1>2. CASE Missed(w)
  BY <1>1, <1>2, QuietCalm, CalmKeeps DEF Missed
<1>3. CASE /\ slot[proc[w].event].status = "active"
           /\ RowBecomes(proc[w].event, "active", w, slot[proc[w].event].create)
           /\ \/ Rests(w) \/ Moves(w, {"recover"})
              \/ Moves(w, {"mark"}) /\ slot[proc[w].event].create # "submitting"
  <2>. DEFINE e == proc[w].event
  <2>. USE DEF JobInv
  <2>0. e \in Events
    BY CurrentRow DEF Takeover, At
  <2>1. FreeRows'
    BY <1>3 DEF FreeRows, RowBecomes, None
  <2>2. NotStarted'
    BY <1>3, <2>0 DEF NotStarted, RowBecomes, Rests, Moves, CoreOK, Busy
  <2>3. NoCall' /\ CallUntouched' /\ OneCall'
    BY <1>1, <1>3, <2>0 DEF NoCall, CallUntouched, OneCall, Calling, Untouched, RowBecomes, Rests, Moves
  <2>4. AtMostOneReplayJob'
    BY <1>1 DEF AtMostOneReplayJob
  <2>. QED  BY <2>1, <2>2, <2>3, <2>4
<1>. QED  BY <1>2, <1>3, TakeoverEffect

(* The call that is marked is the first one of the reservation.             *)
LEMMA MarkKeeps ==
    ASSUME CoreOK, CoreOK', JobInv, NEW w \in Workers, MarkSubmitting(w)
    PROVE  JobInv'
<1>1. UNCHANGED <<transit, jobs>>
  BY MarkEffect
<1>2. CASE Missed(w)
  BY <1>1, <1>2, QuietCalm, CalmKeeps DEF Missed
<1>3. CASE /\ slot[proc[w].event].status = "active" /\ slot[proc[w].event].owner = w
           /\ slot[proc[w].event].create \in {"reserved", "submitting"}
           /\ RowBecomes(proc[w].event, "active", w, "submitting")
           /\ Rests(w) \/ Moves(w, {"submit"})
  <2>. DEFINE e == proc[w].event
  <2>. USE DEF JobInv
  <2>0. e \in Events /\ proc[w].pc = "mark"
    BY CurrentRow DEF MarkSubmitting, At
  <2>1. slot[e].create = "reserved"
    BY <1>3, <2>0 DEF NotStarted
  <2>2. Untouched(e) /\ \A v \in Workers : Calling(v) => proc[v].event # e
    BY <2>0, <2>1 DEF NoCall
  <2>3. FreeRows'
    BY <1>3 DEF FreeRows, RowBecomes, None
  <2>4. NotStarted'
    BY <1>3, <2>0 DEF NotStarted, RowBecomes, Rests, Moves, CoreOK, Busy
  <2>5. NoCall'
    BY <1>1, <1>3, <2>0 DEF NoCall, Calling, Untouched, RowBecomes, Rests, Moves, None
  <2>6. CallUntouched' /\ OneCall'
    BY <1>1, <1>3, <2>0, <2>2 DEF CallUntouched, OneCall, Calling, Untouched, Rests, Moves
  <2>7. AtMostOneReplayJob'
    BY <1>1 DEF AtMostOneReplayJob
  <2>. QED  BY <2>3, <2>4, <2>5, <2>6, <2>7
<1>. QED  BY <1>2, <1>3, MarkEffect

(* The one worker that is calling creates the one job, or is refused.       *)
LEMMA SubmitKeeps ==
    ASSUME TypeOK, CoreOK', JobInv, NEW w \in Workers, Submit(w)
    PROVE  JobInv'
<1>. DEFINE e == proc[w].event
<1>. USE DEF JobInv
<1>0. CoreOK /\ jobs \in [Events -> 0..MaxJobs]
  BY TypeSplit DEF RestOK
<1>1. /\ UNCHANGED slot
      /\ \A f \in Events \ {e} : jobs'[f] = jobs[f] /\ (f \in transit' <=> f \in transit)
      /\ \/ Moves(w, {"abort"}) /\ UNCHANGED <<transit, jobs>>
         \/ /\ Moves(w, {"commit", "uncertain"})
            /\ \/ UNCHANGED <<transit, jobs>>
               \/ transit' = transit /\ jobs'[e] = jobs[e] + 1
               \/ transit' = transit \cup {e} /\ jobs' = jobs
  BY <1>0, SubmitEffect
<1>2. e \in Events /\ proc[w].pc = "submit" /\ Calling(w)
  BY <1>0, CurrentRow DEF Submit, At, Calling
<1>3. jobs[e] = 0 /\ e \notin transit
  BY <1>2 DEF CallUntouched, Untouched
<1>4. slot[e].create \notin {None, "reserved", "aborted"}
  BY <1>2 DEF NoCall
<1>5. FreeRows'
  BY <1>1 DEF FreeRows
<1>6. NotStarted'
  BY <1>0, <1>1, <1>2 DEF NotStarted, Moves, CoreOK, Busy
<1>7. NoCall'
  BY <1>1, <1>2, <1>4 DEF NoCall, Calling, Untouched, Moves
<1>8. OneCall'
  BY <1>1, <1>2 DEF OneCall, Calling, Moves
<1>9. CallUntouched'
  <2>1. SUFFICES ASSUME NEW v \in Workers, Calling(v)' PROVE Untouched(proc[v].event)'
    BY DEF CallUntouched
  <2>2. CASE v = w
    BY <1>1, <1>3, <2>1, <2>2 DEF Calling, Untouched, Moves
  <2>3. CASE v # w
    <3>1. proc'[v] = proc[v] /\ Calling(v)
      BY <1>1, <2>1, <2>3 DEF Moves, Calling
    <3>2. proc[v].event # e /\ proc[v].event \in Events
      BY <1>0, <1>2, <2>3, <3>1 DEF OneCall, CoreOK, Busy, Calling
    <3>. QED  BY <1>1, <3>1, <3>2 DEF CallUntouched, Untouched
  <2>. QED  BY <2>2, <2>3
<1>10. AtMostOneReplayJob'
  BY <1>1, <1>3 DEF AtMostOneReplayJob
<1>. QED  BY <1>5, <1>6, <1>7, <1>8, <1>9, <1>10

(* The slot is aborted by the one worker that was calling.                  *)
LEMMA AbortKeeps ==
    ASSUME TypeOK, CoreOK', JobInv, NEW w \in Workers, Abort(w)
    PROVE  JobInv'
<1>. DEFINE e == proc[w].event
<1>0. CoreOK /\ task \in [Events -> Statuses]
  BY TypeSplit DEF RestOK
<1>1. UNCHANGED <<transit, jobs>>
  BY <1>0, AbortEffect
<1>2. CASE Missed(w)
  BY <1>0, <1>1, <1>2, QuietCalm, CalmKeeps DEF Missed
<1>3. CASE /\ slot[e].status = "active" /\ slot[e].create = "submitting"
           /\ RowBecomes(e, "released", slot[e].owner, "aborted")
           /\ Rests(w) \/ Moves(w, {"ack"})
  <2>. USE DEF JobInv
  <2>0. e \in Events /\ Calling(w)
    BY <1>0, CurrentRow DEF Abort, At, Calling
  <2>1. FreeRows'
    BY <1>3 DEF FreeRows, RowBecomes, None
  <2>2. NotStarted'
    BY <1>0, <1>3, <2>0 DEF NotStarted, RowBecomes, Rests, Moves, CoreOK, Busy
  <2>3. Untouched(e) /\ \A v \in Workers : Calling(v) /\ proc[v].event = e => v = w
    BY <2>0 DEF CallUntouched, OneCall
  <2>4. NoCall'
    BY <1>1, <1>3, <2>0, <2>3 DEF NoCall, Calling, Untouched, RowBecomes, Rests, Moves
  <2>5. CallUntouched' /\ OneCall'
    BY <1>1, <1>3 DEF CallUntouched, OneCall, Calling, Untouched, Rests, Moves
  <2>6. AtMostOneReplayJob'
    BY <1>1 DEF AtMostOneReplayJob
  <2>. QED  BY <2>1, <2>2, <2>4, <2>5, <2>6
<1>. QED  BY <1>0, <1>2, <1>3, AbortEffect

(* Every step keeps the invariant of the create calls.                      *)
LEMMA JobStep ==
    ASSUME TypeOK, TypeOK', JobInv, [Next]_vars
    PROVE  JobInv'
<1>0. CoreOK /\ RestOK
  BY TypeSplit
<1>1. CoreOK'
  BY DEF TypeOK, CoreOK, Row, Proc, Busy, At, Current
<1>2. ASSUME NEW w \in Workers, Process(w) \/ Crash(w) PROVE JobInv'
  <2>1. CASE CheckTerminal(w) \/ LoadSlot(w) \/ Load(w) \/ Snapshot(w) \/ Recover(w) \/ Ack(w) \/ Crash(w)
    <3>1. RowsKept /\ Quiet(w) /\ UNCHANGED <<transit, jobs>>
      BY <1>0, <2>1, ReadersQuiet DEF RestOK
    <3>. QED  BY <1>0, <1>1, <3>1, QuietCalm, CalmKeeps
  <2>2. CASE Gate(w) \/ MarkFailed(w) \/ MarkUncertain(w) \/ Commit(w)
    <3>1. RowsKept /\ Quiet(w) /\ UNCHANGED <<transit, jobs>>
      BY <1>0, <2>2, WritersQuiet DEF RestOK
    <3>. QED  BY <1>0, <1>1, <3>1, QuietCalm, CalmKeeps
  <2>. QED  BY <1>0, <1>1, <1>2, <2>1, <2>2, AcquireKeeps, TakeoverKeeps, MarkKeeps, SubmitKeeps, AbortKeeps DEF Process
<1>3. ASSUME NEW w \in Workers, NEW e \in Events, ReadNew(w, e) \/ Reclaim(w, e) PROVE JobInv'
  <2>1. RowsKept /\ Calm /\ UNCHANGED <<transit, jobs>>
    BY <1>0, <1>3, DeliverEffect DEF Calm, replay
  <2>. QED  BY <1>0, <1>1, <2>1, CalmKeeps
<1>4. ASSUME NEW e \in Events, Surroundings(e) PROVE JobInv'
  <2>1. RowsKept /\ UNCHANGED proc /\ Calm
    BY <1>0, <1>4, SurroundingsRows DEF Calm
  <2>2. CASE UNCHANGED <<transit, jobs>>
    BY <1>0, <1>1, <2>1, <2>2, CalmKeeps
  <2>. QED  BY <1>0, <1>4, <2>1, <2>2, SurroundingsJobs, ArriveKeeps
<1>5. ASSUME UNCHANGED vars PROVE JobInv'
  <2>1. RowsKept /\ Calm /\ UNCHANGED <<transit, jobs>>
    BY <1>0, <1>5, SameRows DEF vars, replay, Calm, CoreOK
  <2>. QED  BY <1>0, <1>1, <2>1, CalmKeeps
<1>. QED  BY <1>2, <1>3, <1>4, <1>5 DEF Next

-----------------------------------------------------------------------------
(* Acknowledgements                                                         *)

(* An outcome is never taken back.                                          *)
LEMMA OutcomeStays ==
    ASSUME NEW e \in Events, RowKept(e), TaskKept(e), Outcome(e)
    PROVE  Outcome(e)'
BY DEF RowKept, TaskKept, Outcome

(* What every step keeps of an outcome.                                     *)
LEMMA OutcomeStep ==
    ASSUME TypeOK, JobInv, [Next]_vars, NEW e \in Events, Outcome(e)
    PROVE  Outcome(e)'
<1>0. CoreOK /\ RestOK
  BY TypeSplit
<1>1. ASSUME UNCHANGED <<slot, task>> PROVE Outcome(e)'
  BY <1>1 DEF Outcome
<1>2. ASSUME NEW w \in Workers, Process(w) \/ Crash(w) PROVE Outcome(e)'
  <2>1. CASE CheckTerminal(w) \/ LoadSlot(w) \/ Load(w) \/ Snapshot(w) \/ Recover(w) \/ Ack(w) \/ Crash(w)
    BY <1>1, <2>1 DEF CheckTerminal, LoadSlot, Load, Snapshot, Recover, Ack, Crash
  <2>2. CASE Gate(w) \/ MarkFailed(w) \/ MarkUncertain(w) \/ Commit(w)
    BY <1>0, <2>2, WritersQuiet, OutcomeStays DEF RestOK, RowsKept
  <2>3. CASE Submit(w)
    BY <1>1, <2>3 DEF Submit
  <2>4. CASE Acquire(w)
    <3>1. slot[proc[w].event].status = None => slot[proc[w].event].create = None
      BY <1>0, <2>4, CurrentRow DEF JobInv, FreeRows, Acquire, At
    <3>. QED  BY <1>0, <1>1, <2>4, <3>1, AcquireEffect DEF RowBecomes, Outcome, Missed, None
  <2>5. CASE Takeover(w)
    BY <1>0, <1>1, <2>5, TakeoverEffect DEF RowBecomes, Outcome, Missed
  <2>6. CASE MarkSubmitting(w)
    BY <1>0, <1>1, <2>6, MarkEffect DEF RowBecomes, Outcome, Missed
  <2>7. CASE Abort(w)
    BY <1>0, <1>1, <2>7, AbortEffect DEF RowBecomes, RowKept, Outcome, Missed, RestOK, TaskKept
  <2>. QED  BY <1>2, <2>1, <2>2, <2>3, <2>4, <2>5, <2>6, <2>7 DEF Process
<1>3. ASSUME NEW w \in Workers, NEW f \in Events, ReadNew(w, f) \/ Reclaim(w, f) PROVE Outcome(e)'
  BY <1>1, <1>3 DEF ReadNew, Reclaim, Deliver
<1>4. ASSUME NEW f \in Events, Surroundings(f) PROVE Outcome(e)'
  BY <1>0, <1>4, SurroundingsRows, SurroundingsJobs, OutcomeStays DEF RowsKept
<1>5. ASSUME UNCHANGED vars PROVE Outcome(e)'
  BY <1>1, <1>5 DEF vars
<1>. QED  BY <1>2, <1>3, <1>4, <1>5 DEF Next

(* A worker that comes to acknowledge has the outcome before it.            *)
LEMMA AckStep ==
    ASSUME TypeOK, JobInv, [Next]_vars, AckReady
    PROVE  AckReady'
<1>0. CoreOK /\ RestOK
  BY TypeSplit
<1>1. SUFFICES ASSUME NEW v \in Workers, proc'[v].pc = "ack" PROVE Outcome(proc[v].event)'
  BY DEF AckReady
<1>2. ASSUME proc'[v] = proc[v] PROVE Outcome(proc[v].event)'
  <2>1. proc[v].pc = "ack" /\ Outcome(proc[v].event) /\ proc[v].event \in Events
    BY <1>0, <1>1, <1>2 DEF AckReady, CoreOK, Busy
  <2>2. PICK e \in Events : e = proc[v].event
    BY <2>1
  <2>3. Outcome(e)'
    BY <2>1, <2>2, OutcomeStep
  <2>. QED  BY <1>2, <2>2, <2>3 DEF Outcome
<1>3. ASSUME NEW w \in Workers, Quiet(w) PROVE Outcome(proc[v].event)'
  BY <1>1, <1>2, <1>3 DEF Quiet, Rests, Moves, Harmless
<1>4. ASSUME NEW w \in Workers, NEW L \in SUBSET Labels, "ack" \notin L, Rests(w) \/ Moves(w, L)
      PROVE  Outcome(proc[v].event)'
  BY <1>1, <1>2, <1>4 DEF Rests, Moves
<1>5. ASSUME NEW w \in Workers, Process(w) \/ Crash(w) PROVE Outcome(proc[v].event)'
  <2>0. {{"mark"}, {"recover"}, {"submit"}, {"abort"}, {"commit", "uncertain"}} \subseteq SUBSET Labels
    BY DEF Labels
  <2>1. CASE CheckTerminal(w) \/ LoadSlot(w) \/ Load(w) \/ Snapshot(w) \/ Recover(w) \/ Ack(w) \/ Crash(w)
    BY <1>0, <1>3, <2>1, ReadersQuiet DEF RestOK
  <2>2. CASE Gate(w) \/ MarkFailed(w) \/ MarkUncertain(w) \/ Commit(w)
    BY <1>0, <1>3, <2>2, WritersQuiet DEF RestOK
  <2>3. CASE Acquire(w) \/ Takeover(w) \/ MarkSubmitting(w)
    <3>1. Quiet(w) \/ Rests(w) \/ Moves(w, {"mark"}) \/ Moves(w, {"recover"}) \/ Moves(w, {"submit"})
      BY <1>0, <2>3, AcquireEffect, TakeoverEffect, MarkEffect DEF Missed
    <3>. QED  BY <1>3, <1>4, <2>0, <3>1
  <2>4. CASE Submit(w)
    <3>1. Moves(w, {"abort"}) \/ Moves(w, {"commit", "uncertain"})
      BY <1>0, <2>4, SubmitEffect DEF RestOK
    <3>. QED  BY <1>4, <2>0, <3>1
  <2>5. CASE Abort(w)
    <3>1. CASE Missed(w)
      BY <1>3, <3>1 DEF Missed
    <3>2. CASE /\ RowBecomes(proc[w].event, "released", slot[proc[w].event].owner, "aborted")
               /\ Rests(w) \/ Moves(w, {"ack"})
      <4>1. CASE v = w /\ Moves(w, {"ack"})
        BY <3>2, <4>1 DEF Moves, RowBecomes, Outcome
      <4>2. CASE v # w \/ Rests(w)
        BY <1>1, <1>2, <3>2, <4>2 DEF Rests, Moves
      <4>. QED  BY <3>2, <4>1, <4>2
    <3>. QED  BY <1>0, <2>5, <3>1, <3>2, AbortEffect DEF RestOK
  <2>. QED  BY <1>5, <2>1, <2>2, <2>3, <2>4, <2>5 DEF Process
<1>6. ASSUME NEW w \in Workers, NEW e \in Events, ReadNew(w, e) \/ Reclaim(w, e) PROVE Outcome(proc[v].event)'
  BY <1>0, <1>1, <1>2, <1>6, DeliverEffect
<1>7. ASSUME UNCHANGED proc PROVE Outcome(proc[v].event)'
  BY <1>2, <1>7
<1>. QED  BY <1>0, <1>5, <1>6, <1>7, SurroundingsRows DEF Next, vars

(* Only a worker at its acknowledgement acknowledges.                       *)
LEMMA AckedStep ==
    ASSUME TypeOK, JobInv, [Next]_vars, AckReady, AckedReady
    PROVE  AckedReady'
<1>0. CoreOK /\ RestOK
  BY TypeSplit
<1>1. SUFFICES ASSUME NEW e \in Events, msg'[e] = "acked" PROVE Outcome(e)'
  BY DEF AckedReady
<1>2. CASE msg[e] = "acked"
  BY <1>2, OutcomeStep DEF AckedReady
<1>3. CASE msg[e] # "acked"
  <2>1. PICK w \in Workers : Ack(w)
    BY <1>0, <1>1, <1>3, ZenonT(60)
    DEF RestOK, Next, vars, Process, CheckTerminal, LoadSlot, Gate, MarkFailed, Load,
        Snapshot, Acquire, Takeover, Recover, MarkSubmitting, Submit, Abort, MarkUncertain, Commit, Crash,
        ReadNew, Reclaim, Surroundings, Arrive, JobEnds, SinkStable, MediaCompletes, SlotDeadline,
        TaskDeadline, Expire
  <2>2. proc[w].pc = "ack" /\ proc[w].event = e
    BY <1>0, <1>1, <1>3, <2>1 DEF RestOK, Ack, At, Current
  <2>. QED  BY <2>2, OutcomeStep, SMTT(30) DEF AckReady
<1>. QED  BY <1>2, <1>3

-----------------------------------------------------------------------------
(* Theorems                                                                 *)

(* The initial state satisfies the invariant.                               *)
LEMMA ReplayInvInit == Init => ReplayInv
<1>1. SUFFICES ASSUME Init PROVE ReplayInv
  OBVIOUS
<1>2. TypeOK /\ CoreOK
  BY <1>1, TypeInit, TypeSplit
<1>3. \A w \in Workers : proc[w].pc = "idle"
  BY <1>1, IdleTypes DEF Init
<1>4. \A e \in Events : slot[e].status = None /\ slot[e].create = None /\ jobs[e] = 0 /\ e \notin transit
  BY <1>1, IdleTypes DEF Init
<1>5. FreeRows /\ NotStarted /\ NoCall /\ CallUntouched /\ OneCall
  BY <1>3, <1>4 DEF FreeRows, NotStarted, NoCall, CallUntouched, OneCall, Calling, Untouched
<1>6. AtMostOneReplayJob
  BY <1>4 DEF AtMostOneReplayJob
<1>7. AckReady
  BY <1>3 DEF AckReady
<1>8. AckedReady
  BY <1>1 DEF Init, AckedReady
<1>. QED  BY <1>2, <1>5, <1>6, <1>7, <1>8 DEF ReplayInv, JobInv

(* ReplayInv is an inductive invariant of the coordinator.                  *)
LEMMA ReplayInvariant == Spec => []ReplayInv
<1>1. ReplayInv /\ [Next]_vars => ReplayInv'
  <2>1. SUFFICES ASSUME ReplayInv, [Next]_vars PROVE ReplayInv'
    OBVIOUS
  <2>2. TypeOK'
    BY <2>1, TypeStep DEF ReplayInv
  <2>3. JobInv'
    BY <2>1, <2>2, JobStep DEF ReplayInv
  <2>4. AckReady' /\ AckedReady'
    BY <2>1, AckStep, AckedStep DEF ReplayInv
  <2>. QED  BY <2>2, <2>3, <2>4 DEF ReplayInv
<1>. QED  BY <1>1, ReplayInvInit, PTL DEF Spec

(* Rows, workers, jobs and deliveries keep their types; in particular a     *)
(* generation that nobody remembers can always be found for a reservation.  *)
THEOREM TypeCorrect == Spec => []TypeOK
<1>1. ReplayInv => TypeOK
  BY DEF ReplayInv
<1>. QED  BY <1>1, ReplayInvariant, PTL

(* FencedReplayExecutor makes at most one Replay job for an event, whatever *)
(* workers crash, answers are lost and deliveries are reclaimed.            *)
THEOREM AtMostOneReplayJobHolds == Spec => []AtMostOneReplayJob
<1>1. ReplayInv => AtMostOneReplayJob
  BY DEF ReplayInv, JobInv
<1>. QED  BY <1>1, ReplayInvariant, PTL

(* A slot that abort_fenced_replay_create ended has no Replay job and none  *)
(* will arrive.                                                             *)
THEOREM AbortedHasNoJobHolds == Spec => []AbortedHasNoJob
<1>1. ReplayInv => AbortedHasNoJob
  BY DEF ReplayInv, JobInv, NoCall, Untouched, AbortedHasNoJob
<1>. QED  BY <1>1, ReplayInvariant, PTL

(* A record request is acknowledged only with an outcome in its row.        *)
THEOREM AckHasOutcomeHolds == Spec => []AckHasOutcome
<1>1. ReplayInv => AckHasOutcome
  BY DEF ReplayInv, AckedReady, Outcome, AckHasOutcome
<1>. QED  BY <1>1, ReplayInvariant, PTL
=============================================================================
