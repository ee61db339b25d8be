------------------------ MODULE SourceRotation_proofs ------------------------
(***************************************************************************)
(* Proofs about SourceRotation, for every set of cameras and processes,    *)
(* every backlog and priority and every limit: rows, cursors and polls     *)
(* keep their types, and the rotation bounds how often a waiting camera is *)
(* overtaken.                                                              *)
(*                                                                         *)
(* Camera s is overtaken by t.  Until t is marked as served, every claim   *)
(* of t still has its mark to come (Pend) or its mark has failed.  From    *)
(* then on no poll begins for t before s, so that only the polls under way *)
(* can still claim t (Threats), each of them once.                         *)
(***************************************************************************)
EXTENDS SourceRotation, FiniteSetTheorems, SequenceTheorems, NaturalsInduction, WellFoundedInduction, TLAPS

TaskRec == [status : {"later", "ready", "running", "done"}, due : Nat, by : Processes \cup {Nobody}]
PollRec == [stage : {"idle", "turns", "rows"}, turns : SUBSET Sources, rows : Seq(Tasks),
            left : 0..Workers, mark : Tasks \cup {NoTask}]

Types ==
    /\ task \in [Tasks -> TaskRec]
    /\ clock \in Nat /\ seq \in Nat /\ deferrals \in 0..MaxDeferrals /\ faults \in 0..MaxFaults
    /\ cursor \in [Sources -> Nat \cup {NeverServed}]
    /\ poll \in [Processes -> PollRec]
    /\ passed \in [Sources -> [Sources -> Nat]]

(* A row belongs to a process while it runs.                                *)
Owned == \A k \in Tasks : task[k].status = "running" <=> task[k].by # Nobody

(* With one worker a poll looks at one row, and its mark is the last thing  *)
(* it does.                                                                 *)
OneRow(p) ==
    /\ poll[p].stage # "rows" => poll[p].rows = <<>> /\ poll[p].mark = NoTask
    /\ Len(poll[p].rows) <= 1
    /\ poll[p].mark # NoTask => poll[p].rows = <<>>

(* A camera that does not wait has not been overtaken.                      *)
Waits(s) ==
    /\ passed[s][s] = 0
    /\ ReadyOf(s) = {} => \A t \in Sources : passed[s][t] = 0

(* The processes that have claimed t and are about to mark it.              *)
Pend(t) == {p \in Processes : poll[p].mark # NoTask /\ TaskSource[poll[p].mark] = t}

(* The processes whose poll may still claim t although s waits.             *)
Threat(p, s, t) ==
    \/ /\ poll[p].stage = "turns"
       /\ \/ poll[p].turns = {}
          \/ t \in poll[p].turns /\ (ReadyOf(t) = {} \/ TopPriority(t) <= TopPriority(s))
    \/ /\ poll[p].stage = "rows" /\ poll[p].rows # <<>>
       /\ TaskSource[Row(p)] = t /\ TaskPriority[Row(p)] <= TopPriority(s)
Threats(s, t) == {p \in Processes : Threat(p, s, t)}

Counted(s, t) ==
    passed[s][t] > 0 =>
        IF cursor[t] > cursor[s]
        THEN passed[s][t] + Cardinality(Threats(s, t)) <= Cardinality(Processes) + faults
        ELSE passed[s][t] <= Cardinality(Pend(t)) + faults

Fair ==
    /\ \A s \in Sources : cursor[s] <= seq /\ Waits(s)
    /\ \A p \in Processes : OneRow(p)
    /\ \A s, t \in Sources : Counted(s, t)

RotationInv == Types /\ Owned /\ (Workers = 1 => Fair)

-----------------------------------------------------------------------------
(* Numbers and priorities                                                   *)

(* A function to the naturals has a least value.                            *)
LEMMA Least ==
    ASSUME NEW R, R # {}, NEW f, \A x \in R : f[x] \in Nat
    PROVE  \E x \in R : \A y \in R : f[x] <= f[y]
<1>. DEFINE S == {f[x] : x \in R}
<1>1. S \in SUBSET Nat /\ S # {}
  OBVIOUS
<1>2. PICK m \in S : \A y \in S : ~ (<<y, m>> \in OpToRel(<, Nat))
  <2>. HIDE DEF S
  <2>. QED  BY <1>1, NatLessThanWellFounded, WFMin
<1>3. PICK x \in R : m = f[x]
  OBVIOUS
<1>4. ASSUME NEW y \in R PROVE f[x] <= f[y]
  <2>1. f[y] \in S /\ f[y] \in Nat /\ m \in Nat
    OBVIOUS
  <2>2. ~ (f[y] < m)
    BY <1>2, <2>1 DEF OpToRel
  <2>. QED  BY <1>3, <2>1, <2>2
<1>. QED  BY <1>4

(* The tasks.                                                               *)
LEMMA TaskFacts ==
    /\ Len(TaskSource) \in Nat /\ Tasks = 1..Len(TaskSource) /\ IsFiniteSet(Tasks) /\ NoTask \notin Tasks
    /\ \A k \in Tasks : k \in Nat /\ TaskSource[k] \in Sources /\ TaskPriority[k] \in Nat
<1>1. Len(TaskSource) \in Nat /\ Tasks = 1..Len(TaskSource)
  BY TasksAssumption DEF Tasks
<1>2. IsFiniteSet(Tasks)
  BY <1>1, FS_Interval
<1>3. \A k \in Tasks : k \in Nat /\ TaskSource[k] \in Sources /\ TaskPriority[k] \in Nat
  BY <1>1, TasksAssumption DEF Tasks
<1>. QED  BY <1>1, <1>2, <1>3 DEF NoTask

(* Priorities are bounded: the first task with none would leave a bound for *)
(* those before it.                                                         *)
LEMMA PriorityBound == \E b \in Nat : \A k \in Tasks : TaskPriority[k] <= b
<1>. DEFINE Bounded(n) == \E b \in Nat : \A k \in Tasks : k <= n => TaskPriority[k] <= b
            Open1 == {n \in Nat : ~ Bounded(n)}
<1>1. SUFFICES ASSUME Open1 # {} PROVE FALSE
  <2>1. PICK n \in Nat : Bounded(n) /\ n = Len(TaskSource)
    BY <1>1, TaskFacts
  <2>2. PICK b \in Nat : \A k \in Tasks : k <= n => TaskPriority[k] <= b
    BY <2>1
  <2>3. \A k \in Tasks : k <= n
    BY <2>1, TaskFacts
  <2>. QED  BY <2>2, <2>3
<1>2. PICK n \in Open1 : \A m \in Open1 : n <= m
  <2>1. PICK f : f = [x \in Open1 |-> x]
    OBVIOUS
  <2>2. \A x \in Open1 : f[x] \in Nat /\ f[x] = x
    BY <2>1
  <2>3. PICK x \in Open1 : \A y \in Open1 : f[x] <= f[y]
    <3>. HIDE DEF Open1
    <3>. QED  BY <1>1, <2>2, Least
  <2>. QED  BY <2>2, <2>3
<1>3. n \in Nat /\ ~ Bounded(n)
  OBVIOUS
<1>4. n # 0
  <2>1. Bounded(0)
    BY TaskFacts
  <2>. QED  BY <1>3, <2>1
<1>5. n - 1 \in Nat /\ n - 1 \notin Open1
  BY <1>2, <1>3, <1>4
<1>6. PICK b \in Nat : \A k \in Tasks : k <= n - 1 => TaskPriority[k] <= b
  BY <1>5
<1>7. CASE n \in Tasks
  <2>1. PICK c \in Nat : b <= c /\ TaskPriority[n] <= c
    <3>1. PICK t \in Nat : t = TaskPriority[n]
      BY <1>7, TaskFacts
    <3>2. b + t \in Nat /\ b <= b + t /\ t <= b + t
      OBVIOUS
    <3>. QED  BY <3>1, <3>2
  <2>2. \A k \in Tasks : k <= n => TaskPriority[k] <= c
    <3>1. SUFFICES ASSUME NEW k \in Tasks, k <= n PROVE TaskPriority[k] <= c
      OBVIOUS
    <3>2. k \in Nat /\ TaskPriority[k] \in Nat
      BY TaskFacts
    <3>3. k = n \/ k <= n - 1
      BY <1>3, <3>1, <3>2
    <3>. QED  BY <1>6, <2>1, <3>2, <3>3
  <2>. QED  BY <1>3, <2>2
<1>8. CASE n \notin Tasks
  <2>1. \A k \in Tasks : k <= n => k <= n - 1
    BY <1>3, <1>8, TaskFacts
  <2>. QED  BY <1>3, <1>6, <2>1
<1>. QED  BY <1>7, <1>8

(* The greatest priority of some tasks.                                     *)
LEMMA MaxPriority ==
    ASSUME NEW R \in SUBSET Tasks, R # {}, NEW m,
           m = CHOOSE n \in {TaskPriority[k] : k \in R} : \A k \in R : TaskPriority[k] <= n
    PROVE  m \in Nat /\ (\A k \in R : TaskPriority[k] <= m) /\ \E k \in R : TaskPriority[k] = m
<1>1. PICK b \in Nat : \A k \in Tasks : TaskPriority[k] <= b
  BY PriorityBound
<1>2. PICK f : f = [k \in R |-> b - TaskPriority[k]]
  OBVIOUS
<1>3. \A k \in R : TaskPriority[k] \in Nat /\ f[k] = b - TaskPriority[k] /\ f[k] \in Nat
  BY <1>1, <1>2, TaskFacts
<1>4. PICK x \in R : \A y \in R : f[x] <= f[y]
  BY <1>3, Least
<1>5. \A y \in R : TaskPriority[y] <= TaskPriority[x]
  BY <1>3, <1>4
<1>6. \E n \in {TaskPriority[k] : k \in R} : \A k \in R : TaskPriority[k] <= n
  BY <1>5
<1>7. m \in {TaskPriority[k] : k \in R} /\ \A k \in R : TaskPriority[k] <= m
  BY <1>6
<1>. QED  BY <1>3, <1>7

(* The top priority of a camera with ready tasks, before and after a step.  *)
LEMMA TopFacts ==
    ASSUME NEW s
    PROVE  /\ ReadyOf(s) \subseteq Tasks /\ ReadyOf(s)' \subseteq Tasks
           /\ ReadyOf(s) # {} =>
                 /\ TopPriority(s) \in Nat /\ \A k \in ReadyOf(s) : TaskPriority[k] <= TopPriority(s)
                 /\ \E k \in ReadyOf(s) : TaskPriority[k] = TopPriority(s)
           /\ ReadyOf(s)' # {} =>
                 /\ TopPriority(s)' \in Nat /\ \A k \in ReadyOf(s)' : TaskPriority[k] <= TopPriority(s)'
                 /\ \E k \in ReadyOf(s)' : TaskPriority[k] = TopPriority(s)'
           /\ ReadyOf(s)' = ReadyOf(s) => TopPriority(s)' = TopPriority(s)
<1>1. ReadyOf(s) \subseteq Tasks /\ ReadyOf(s)' \subseteq Tasks
  BY DEF ReadyOf
<1>2. ASSUME ReadyOf(s) # {}
      PROVE  /\ TopPriority(s) \in Nat /\ \A k \in ReadyOf(s) : TaskPriority[k] <= TopPriority(s)
             /\ \E k \in ReadyOf(s) : TaskPriority[k] = TopPriority(s)
  <2>1. PICK R \in SUBSET Tasks : R = ReadyOf(s)
    BY <1>1
  <2>2. PICK m : m = TopPriority(s)
    OBVIOUS
  <2>3. m = CHOOSE n \in {TaskPriority[k] : k \in R} : \A k \in R : TaskPriority[k] <= n
    BY <2>1, <2>2 DEF TopPriority
  <2>. QED  BY <1>2, <2>1, <2>2, <2>3, MaxPriority
<1>3. ASSUME ReadyOf(s)' # {}
      PROVE  /\ TopPriority(s)' \in Nat /\ \A k \in ReadyOf(s)' : TaskPriority[k] <= TopPriority(s)'
             /\ \E k \in ReadyOf(s)' : TaskPriority[k] = TopPriority(s)'
  <2>1. PICK R \in SUBSET Tasks : R = ReadyOf(s)'
    BY <1>1
  <2>2. PICK m : m = TopPriority(s)'
    OBVIOUS
  <2>3. m = CHOOSE n \in {TaskPriority[k] : k \in R} : \A k \in R : TaskPriority[k] <= n
    BY <2>1, <2>2 DEF TopPriority
  <2>. QED  BY <1>3, <2>1, <2>2, <2>3, MaxPriority
<1>4. ReadyOf(s)' = ReadyOf(s) => TopPriority(s)' = TopPriority(s)
  BY DEF TopPriority
<1>. QED  BY <1>1, <1>2, <1>3, <1>4

(* The oldest due time.                                                     *)
LEMMA DueFacts ==
    ASSUME Types, NEW s \in Sources, ReadyOf(s) # {}
    PROVE  OldestDue(s) \in Nat
<1>1. PICK R : R = ReadyOf(s) /\ R # {} /\ \A k \in R : task[k].due \in Nat
  <2>1. \A k \in Tasks : task[k].due \in Nat
    BY DEF Types, TaskRec
  <2>2. ReadyOf(s) \subseteq Tasks
    BY DEF ReadyOf
  <2>. QED  BY <2>1, <2>2
<1>2. PICK f : f = [k \in R |-> task[k].due]
  OBVIOUS
<1>3. \A k \in R : f[k] = task[k].due /\ f[k] \in Nat
  BY <1>1, <1>2
<1>4. PICK x \in R : \A y \in R : f[x] <= f[y]
  BY <1>1, <1>3, Least
<1>5. \E n \in {task[k].due : k \in R} : \A k \in R : n <= task[k].due
  BY <1>3, <1>4
<1>6. OldestDue(s) \in {task[k].due : k \in R}
  BY <1>1, <1>5 DEF OldestDue
<1>. QED  BY <1>1, <1>6

-----------------------------------------------------------------------------
(* The two queries                                                          *)

(* Some camera with ready tasks has no other one before it.                 *)
LEMMA FirstTurn ==
    ASSUME Types, NEW S, S = {s \in Sources : ReadyOf(s) # {}}, S # {}
    PROVE  \E s \in S : \A t \in S : ~ TurnBefore(t, s)
<1>1. PICK b \in Nat : \A k \in Tasks : TaskPriority[k] <= b
  BY PriorityBound
<1>2. \A s \in S : TopPriority(s) \in Nat /\ TopPriority(s) <= b
  BY <1>1, TopFacts
<1>3. PICK top : top = [s \in S |-> TopPriority(s)]
  OBVIOUS
<1>4. \A s \in S : top[s] = TopPriority(s) /\ top[s] \in Nat /\ top[s] <= b
  BY <1>2, <1>3
<1>5. PICK x \in S : \A y \in S : top[y] <= top[x]
  <2>1. PICK f : f = [s \in S |-> b - top[s]]
    OBVIOUS
  <2>2. \A s \in S : f[s] = b - top[s] /\ f[s] \in Nat
    BY <1>4, <2>1
  <2>3. PICK x \in S : \A y \in S : f[x] <= f[y]
    BY <2>2, Least
  <2>4. \A y \in S : top[y] <= top[x]
    BY <1>4, <2>2, <2>3
  <2>. QED  BY <2>4
<1>6. PICK S1 : S1 = {s \in S : top[s] = top[x]} /\ S1 # {} /\ S1 \subseteq S
  OBVIOUS
<1>7. \A s \in Sources : cursor[s] \in Int /\ cursor[s] + 1 \in Nat
  BY DEF Types, NeverServed
<1>8. PICK y \in S1 : \A z \in S1 : cursor[y] <= cursor[z]
  <2>1. PICK f : f = [s \in S1 |-> cursor[s] + 1]
    OBVIOUS
  <2>2. \A s \in S1 : f[s] = cursor[s] + 1 /\ f[s] \in Nat /\ cursor[s] \in Int
    BY <1>6, <1>7, <2>1
  <2>3. PICK y \in S1 : \A z \in S1 : f[y] <= f[z]
    BY <1>6, <2>2, Least
  <2>. QED  BY <2>2, <2>3
<1>9. PICK S2 : S2 = {s \in S1 : cursor[s] = cursor[y]} /\ S2 # {} /\ S2 \subseteq S
  BY <1>6
<1>10. PICK z \in S2 : \A s \in S2 : OldestDue(z) <= OldestDue(s)
  <2>1. PICK f : f = [s \in S2 |-> OldestDue(s)]
    OBVIOUS
  <2>2. \A s \in S2 : f[s] = OldestDue(s) /\ f[s] \in Nat
    BY <1>9, <2>1, DueFacts
  <2>3. PICK z \in S2 : \A s \in S2 : f[z] <= f[s]
    BY <1>9, <2>2, Least
  <2>. QED  BY <2>2, <2>3
<1>11. ASSUME NEW t \in S PROVE ~ TurnBefore(t, z)
  <2>1. z \in S /\ top[z] = top[x] /\ cursor[z] = cursor[y] /\ z \in Sources /\ t \in Sources
    BY <1>6, <1>9
  <2>2. TopPriority(z) \in Nat /\ TopPriority(t) \in Nat /\ TopPriority(t) <= TopPriority(z)
    BY <1>4, <1>5, <2>1
  <2>3. CASE TopPriority(t) # TopPriority(z)
    BY <2>2, <2>3 DEF TurnBefore
  <2>4. CASE TopPriority(t) = TopPriority(z)
    <3>1. t \in S1
      BY <1>4, <1>6, <2>1, <2>4
    <3>2. cursor[z] <= cursor[t] /\ cursor[z] \in Int /\ cursor[t] \in Int
      BY <1>7, <1>8, <2>1, <3>1
    <3>3. CASE cursor[t] # cursor[z]
      BY <2>2, <2>4, <3>2, <3>3 DEF TurnBefore
    <3>4. CASE cursor[t] = cursor[z]
      <4>1. t \in S2
        BY <1>9, <2>1, <3>1, <3>4
      <4>2. OldestDue(z) <= OldestDue(t) /\ OldestDue(z) \in Nat /\ OldestDue(t) \in Nat
        BY <1>10, <2>1, <4>1, DueFacts
      <4>. QED  BY <2>2, <2>4, <3>2, <3>4, <4>2 DEF TurnBefore
    <3>. QED  BY <3>3, <3>4
  <2>. QED  BY <2>3, <2>4
<1>. QED  BY <1>9, <1>11

(* The places of a process.                                                 *)
LEMMA AvailableFacts ==
    ASSUME NEW p
    PROVE  /\ Available(p) \in Int /\ Available(p) <= Workers
           /\ Available(p) > 0 => ClaimLimit(p) \in 0..Workers
           /\ Workers = 1 /\ Available(p) > 0 =>
                 Available(p) = 1 /\ RunningBy(p) = {} /\ \A s : ~ Saturated(p, s)
<1>1. PICK R : R = RunningBy(p) /\ R \subseteq Tasks
  BY DEF RunningBy
<1>2. IsFiniteSet(R) /\ Cardinality(R) \in Nat
  BY <1>1, TaskFacts, FS_Subset, FS_CardinalityType
<1>3. Available(p) = Workers - Cardinality(R)
  BY <1>1 DEF Available
<1>4. Workers \in Nat /\ MaxPerPoll \in Nat
  BY LimitsAssumption
<1>5. ASSUME Workers = 1, Available(p) > 0
      PROVE  Available(p) = 1 /\ RunningBy(p) = {} /\ \A s : ~ Saturated(p, s)
  <2>1. Cardinality(R) = 0
    BY <1>2, <1>3, <1>5
  <2>2. R = {}
    BY <1>2, <2>1, FS_EmptySet
  <2>3. \A s : SlotsOf(p, s) = {}
    BY <1>1, <2>2 DEF SlotsOf
  <2>4. \A s : Cardinality(SlotsOf(p, s)) = 0
    BY <2>3, FS_EmptySet
  <2>5. ~ (0 >= SourceLimit)
    BY LimitsAssumption
  <2>6. \A s : ~ Saturated(p, s)
    BY <2>4, <2>5 DEF Saturated
  <2>. QED  BY <1>1, <1>3, <1>5, <2>1, <2>2, <2>6
<1>. QED  BY <1>2, <1>3, <1>4, <1>5 DEF ClaimLimit

(* next_source_turns with one free place: a camera nobody comes before.     *)
LEMMA TurnFacts ==
    ASSUME Types, NEW p, Workers = 1, Available(p) > 0, \E s \in Sources : ReadyOf(s) # {}
    PROVE  /\ Turns(p) \subseteq Sources /\ Turns(p) # {}
           /\ \A t \in Turns(p) : \A s \in Sources : ReadyOf(s) # {} => ~ TurnBefore(s, t)
<1>1. PICK S : S = {s \in Sources : ReadyOf(s) # {}} /\ S # {}
  OBVIOUS
<1>2. S = {s \in Sources : ReadyOf(s) # {} /\ ~ Saturated(p, s)}
  BY <1>1, AvailableFacts
<1>3. Turns(p) = {s \in S : Cardinality({t \in S : TurnBefore(t, s)}) < 1}
  BY <1>2, AvailableFacts DEF Turns
<1>4. IsFiniteSet(S)
  BY <1>1, TasksAssumption, FS_Subset
<1>5. ASSUME NEW t \in S
      PROVE  Cardinality({x \in S : TurnBefore(x, t)}) < 1 <=> \A x \in S : ~ TurnBefore(x, t)
  <2>1. PICK B : B = {x \in S : TurnBefore(x, t)}
    OBVIOUS
  <2>2. IsFiniteSet(B) /\ Cardinality(B) \in Nat
    BY <1>4, <2>1, FS_Subset, FS_CardinalityType
  <2>3. Cardinality(B) = 0 <=> B = {}
    BY <2>2, FS_EmptySet
  <2>4. B = {} <=> \A x \in S : ~ TurnBefore(x, t)
    BY <2>1
  <2>. QED  BY <2>1, <2>2, <2>3, <2>4
<1>6. Turns(p) = {t \in S : \A x \in S : ~ TurnBefore(x, t)}
  BY <1>3, <1>5
<1>7. \E s \in S : \A t \in S : ~ TurnBefore(t, s)
  BY <1>1, FirstTurn
<1>. QED  BY <1>1, <1>6, <1>7

(* ROW_NUMBER() = 1: a row of the top priority.                             *)
LEMMA FirstRow ==
    ASSUME Types, NEW t \in Sources, ReadyOf(t) # {}
    PROVE  \E k \in ReadyOf(t) : TaskPriority[k] = TopPriority(t) /\ Rank(k) = 1
<1>1. PICK R : R = {k \in ReadyOf(t) : TaskPriority[k] = TopPriority(t)} /\ R # {} /\ R \subseteq Tasks
  BY TopFacts
<1>2. PICK f : f = [k \in R |-> task[k].due]
  OBVIOUS
<1>3. \A k \in Tasks : task[k].due \in Nat
  BY DEF Types, TaskRec
<1>4. \A k \in R : f[k] = task[k].due /\ f[k] \in Nat
  BY <1>1, <1>2, <1>3
<1>5. PICK x \in R : \A y \in R : f[x] <= f[y]
  BY <1>1, <1>4, Least
<1>6. x \in ReadyOf(t) /\ TaskSource[x] = t /\ TaskPriority[x] = TopPriority(t)
  BY <1>1 DEF ReadyOf
<1>7. ASSUME NEW j \in ReadyOf(t) PROVE ~ Ahead(j, x)
  <2>1. /\ TaskPriority[j] \in Nat /\ TaskPriority[x] \in Nat /\ TaskPriority[j] <= TaskPriority[x]
        /\ task[j].due \in Nat /\ task[x].due \in Nat
    BY <1>3, <1>6, TopFacts, TaskFacts
  <2>2. CASE TaskPriority[j] = TaskPriority[x]
    <3>1. j \in R
      BY <1>1, <1>6, <2>2
    <3>. QED  BY <1>4, <1>5, <2>1, <2>2, <3>1 DEF Ahead
  <2>3. CASE TaskPriority[j] # TaskPriority[x]
    BY <2>1, <2>3 DEF Ahead
  <2>. QED  BY <2>2, <2>3
<1>8. {j \in ReadyOf(TaskSource[x]) : Ahead(j, x)} = {}
  BY <1>6, <1>7
<1>9. Rank(x) = 1
  BY <1>8, FS_EmptySet DEF Rank
<1>. QED  BY <1>6, <1>9

(* _rolling_cache_candidate_tasks: rows of the turns; with one worker the   *)
(* one that comes first, a row of the top priority of its camera.           *)
LEMMA RowFacts ==
    ASSUME Types, NEW turns, NEW rows \in CandidateRows(turns)
    PROVE  /\ rows \in Seq(Tasks)
           /\ Workers = 1 => Len(rows) <= 1
           /\ Workers = 1 /\ rows # <<>> =>
                 /\ Head(rows) \in Tasks /\ ReadyOf(TaskSource[Head(rows)]) # {}
                 /\ turns = {} \/ TaskSource[Head(rows)] \in turns
                 /\ TopPriority(TaskSource[Head(rows)]) <= TaskPriority[Head(rows)]
<1>1. PICK E : E = Eligible(turns) /\ E \subseteq Tasks
  BY DEF Eligible
<1>2. PICK n : n = IF Cardinality(E) < Workers THEN Cardinality(E) ELSE Workers
  OBVIOUS
<1>3. n \in Nat /\ n <= Workers
  <2>1. IsFiniteSet(E) /\ Cardinality(E) \in Nat
    BY <1>1, TaskFacts, FS_Subset, FS_CardinalityType
  <2>. QED  BY <1>2, <2>1, LimitsAssumption
<1>4. /\ rows \in [1..n -> E]
      /\ \A i \in 1..n : \A k \in E : RowBefore(rows[i], k) \/ \E j \in 1..n : rows[j] = k
  BY <1>1, <1>2 DEF CandidateRows
<1>5. rows \in Seq(Tasks) /\ Len(rows) = n
  BY <1>1, <1>3, <1>4
<1>6. ASSUME Workers = 1, rows # <<>>
      PROVE  /\ Head(rows) \in Tasks /\ ReadyOf(TaskSource[Head(rows)]) # {}
             /\ turns = {} \/ TaskSource[Head(rows)] \in turns
             /\ TopPriority(TaskSource[Head(rows)]) <= TaskPriority[Head(rows)]
  <2>1. n = 1
    BY <1>3, <1>5, <1>6
  <2>2. PICK k \in E : k = rows[1] /\ k = Head(rows) /\ k \in Tasks
    BY <1>1, <1>4, <1>5, <2>1
  <2>3. k \in ReadyOf(TaskSource[k]) /\ (turns = {} \/ TaskSource[k] \in turns)
    BY <1>1, <2>2 DEF Eligible, ReadyOf
  <2>4. PICK t \in Sources : t = TaskSource[k]
    BY <2>2, TaskFacts
  <2>5. PICK x \in ReadyOf(t) : TaskPriority[x] = TopPriority(t) /\ Rank(x) = 1
    BY <2>3, <2>4, FirstRow
  <2>6. x \in Tasks /\ task[x].status = "ready" /\ TaskSource[x] = t
    BY <2>5 DEF ReadyOf
  <2>7. x \in E
    <3>1. 1 <= SourceLimit
      BY LimitsAssumption
    <3>. QED  BY <1>1, <2>3, <2>4, <2>5, <2>6, <3>1 DEF Eligible
  <2>8. RowBefore(k, x) \/ k = x
    BY <1>4, <2>1, <2>2, <2>7
  <2>9. TaskPriority[x] <= TaskPriority[k]
    BY <2>2, <2>6, <2>8, TaskFacts DEF RowBefore
  <2>. QED  BY <2>2, <2>3, <2>4, <2>5, <2>9
<1>. QED  BY <1>3, <1>5, <1>6

-----------------------------------------------------------------------------
(* Counting processes                                                       *)

(* Sets of processes and their parts.                                       *)
LEMMA ProcessCount ==
    ASSUME NEW X, NEW Y, X \subseteq Y, Y \subseteq Processes
    PROVE  /\ Cardinality(X) \in Nat /\ Cardinality(Y) \in Nat /\ Cardinality(Processes) \in Nat
           /\ Cardinality(X) <= Cardinality(Y) /\ Cardinality(Y) <= Cardinality(Processes)
<1>1. IsFiniteSet(Processes) /\ IsFiniteSet(Y) /\ IsFiniteSet(X)
  BY ProcessesAssumption, FS_Subset
<1>2. Cardinality(X) <= Cardinality(Y) /\ Cardinality(Y) <= Cardinality(Processes)
  BY <1>1, ProcessesAssumption, FS_Subset
<1>. QED  BY <1>1, <1>2, FS_CardinalityType

(* One process less.                                                        *)
LEMMA OneLess ==
    ASSUME NEW X, NEW Y, NEW p \in Y, X \subseteq Y \ {p}, Y \subseteq Processes
    PROVE  Cardinality(X) + 1 <= Cardinality(Y)
<1>1. IsFiniteSet(Y) /\ Cardinality(Y) \in Nat
  BY ProcessesAssumption, FS_Subset, FS_CardinalityType
<1>2. Cardinality(Y \ {p}) = Cardinality(Y) - 1
  BY <1>1, FS_RemoveElement
<1>3. Cardinality(X) \in Nat /\ Cardinality(X) <= Cardinality(Y \ {p})
  BY ProcessCount
<1>. QED  BY <1>1, <1>2, <1>3

(* Disjoint sets of processes.                                              *)
LEMMA Apart ==
    ASSUME NEW X, NEW Y, X \subseteq Processes, Y \subseteq Processes, X \cap Y = {}
    PROVE  Cardinality(X) + Cardinality(Y) <= Cardinality(Processes)
<1>1. IsFiniteSet(X) /\ IsFiniteSet(Y) /\ X \cup Y \subseteq Processes
  BY ProcessesAssumption, FS_Subset
<1>2. Cardinality(X \cup Y) = Cardinality(X) + Cardinality(Y) - Cardinality(X \cap Y)
  BY <1>1, FS_Union
<1>3. Cardinality(X \cap Y) = 0
  BY FS_EmptySet
<1>4. Cardinality(X) \in Nat /\ Cardinality(Y) \in Nat
  BY ProcessCount
<1>5. Cardinality(X \cup Y) <= Cardinality(Processes)
  BY <1>1, ProcessCount
<1>. QED  BY <1>2, <1>3, <1>4, <1>5

(* The numbers that Counted compares.                                       *)
LEMMA CountFacts ==
    ASSUME RotationInv, Workers = 1, NEW s \in Sources, NEW t \in Sources
    PROVE  /\ passed[s][t] \in Nat /\ faults \in Nat /\ Counted(s, t) /\ Waits(s)
           /\ cursor[s] \in Int /\ cursor[t] \in Int /\ cursor[s] <= seq /\ seq \in Nat
  BY DEF RotationInv, Types, Fair, NeverServed

(* A step that overtakes nobody keeps the counts, if only its own process p *)
(* is disturbed, and p becomes no threat and keeps its mark, or else a      *)
(* statement has failed.                                                    *)
LEMMA CountStays ==
    ASSUME RotationInv, Workers = 1, Types', NEW s \in Sources, NEW t \in Sources,
           NEW p \in Processes \cup {Nobody},
           passed'[s][t] = passed[s][t], cursor'[s] = cursor[s], cursor'[t] = cursor[t], faults <= faults',
           passed[s][t] > 0 =>
               /\ \A q \in Processes : Threat(q, s, t)' =>
                      Threat(q, s, t) \/ ~ (cursor[t] > cursor[s]) \/ (q = p /\ faults + 1 <= faults')
               /\ \A q \in Processes : q \in Pend(t) =>
                      q \in Pend(t)' \/ (q = p /\ faults + 1 <= faults')
    PROVE  Counted(s, t)'
<1>1. passed[s][t] \in Nat /\ faults \in Nat /\ faults' \in Nat /\ Counted(s, t)
  BY CountFacts DEF Types
<1>2. PICK A : A = Threats(s, t) /\ A \subseteq Processes
  BY DEF Threats
<1>3. PICK B : B = Threats(s, t)' /\ B \subseteq Processes
  BY DEF Threats
<1>4. PICK C : C = Pend(t) /\ C \subseteq Processes
  BY DEF Pend
<1>5. PICK D : D = Pend(t)' /\ D \subseteq Processes
  BY DEF Pend
<1>6. /\ Cardinality(A) \in Nat /\ Cardinality(B) \in Nat /\ Cardinality(C) \in Nat
      /\ Cardinality(D) \in Nat /\ Cardinality(Processes) \in Nat
  BY <1>2, <1>3, <1>4, <1>5, ProcessCount
<1>7. SUFFICES ASSUME passed[s][t] > 0
      PROVE  IF cursor[t] > cursor[s]
             THEN passed[s][t] + Cardinality(B) <= Cardinality(Processes) + faults'
             ELSE passed[s][t] <= Cardinality(D) + faults'
  BY <1>3, <1>5 DEF Counted
<1>8. ASSUME NEW X, NEW Y, X \subseteq Processes, Y \subseteq Processes, X \subseteq Y \cup {p},
             X \subseteq Y \/ faults + 1 <= faults'
      PROVE  Cardinality(X) + faults <= Cardinality(Y) + faults'
  <2>1. Cardinality(X) \in Nat /\ Cardinality(Y) \in Nat /\ IsFiniteSet(X) /\ IsFiniteSet(Y)
    BY <1>8, ProcessCount, ProcessesAssumption, FS_Subset
  <2>2. CASE X \subseteq Y
    <3>1. Cardinality(X) <= Cardinality(Y)
      BY <1>8, <2>2, ProcessCount
    <3>. QED  BY <1>1, <2>1, <3>1
  <2>3. CASE faults + 1 <= faults'
    <3>1. X \ {p} \subseteq Y /\ Cardinality(X \ {p}) <= Cardinality(Y)
      BY <1>8, ProcessCount
    <3>2. Cardinality(X \ {p}) = Cardinality(X) \/ Cardinality(X \ {p}) = Cardinality(X) - 1
      BY <2>1, FS_RemoveElement
    <3>. QED  BY <1>1, <2>1, <2>3, <3>1, <3>2
  <2>. QED  BY <1>8, <2>2, <2>3
<1>9. CASE cursor[t] > cursor[s]
  <2>1. passed[s][t] + Cardinality(A) <= Cardinality(Processes) + faults
    BY <1>1, <1>2, <1>7, <1>9 DEF Counted
  <2>2. B \subseteq A \cup {p} /\ (B \subseteq A \/ faults + 1 <= faults')
    BY <1>2, <1>3, <1>7, <1>9 DEF Threats
  <2>3. Cardinality(B) + faults <= Cardinality(A) + faults'
    BY <1>2, <1>3, <1>8, <2>2
  <2>. QED  BY <1>1, <1>6, <1>9, <2>1, <2>3
<1>10. CASE ~ (cursor[t] > cursor[s])
  <2>1. passed[s][t] <= Cardinality(C) + faults
    BY <1>1, <1>4, <1>7, <1>10 DEF Counted
  <2>2. C \subseteq D \cup {p} /\ (C \subseteq D \/ faults + 1 <= faults')
    BY <1>4, <1>5, <1>7 DEF Pend
  <2>3. Cardinality(C) + faults <= Cardinality(D) + faults'
    BY <1>4, <1>5, <1>8, <2>2
  <2>. QED  BY <1>1, <1>6, <1>10, <2>1, <2>3
<1>. QED  BY <1>9, <1>10

(* Nothing to bound.                                                        *)
LEMMA NoneCounted ==
    ASSUME NEW s, NEW t, passed'[s][t] = 0
    PROVE  Counted(s, t)'
  BY DEF Counted

-----------------------------------------------------------------------------
(* Types                                                                    *)

(* Sources that start over, and those that do not.                          *)
LEMMA RestartFacts ==
    ASSUME Types, NEW ss, Restart(ss)
    PROVE  /\ passed' \in [Sources -> [Sources -> Nat]]
           /\ \A s, t \in Sources : passed'[s][t] = IF s \in ss THEN 0 ELSE passed[s][t]
<1>1. \A s \in Sources : passed'[s] = IF s \in ss THEN [t \in Sources |-> 0] ELSE passed[s]
  BY DEF Restart
<1>2. \A s \in Sources : passed[s] \in [Sources -> Nat]
  BY DEF Types
<1>3. \A s \in Sources : passed'[s] \in [Sources -> Nat]
  BY <1>1, <1>2
<1>. QED  BY <1>1, <1>3 DEF Restart

(* One row changes.                                                         *)
LEMMA TaskTyped ==
    ASSUME Types, Owned, NEW k \in Tasks, NEW v \in TaskRec, v.status = "running" <=> v.by # Nobody,
           task' = [task EXCEPT ![k] = v]
    PROVE  task' \in [Tasks -> TaskRec] /\ Owned' /\ \A j \in Tasks : task'[j] = IF j = k THEN v ELSE task[j]
<1>1. task \in [Tasks -> TaskRec]
  BY DEF Types
<1>2. task' \in [Tasks -> TaskRec] /\ \A j \in Tasks : task'[j] = IF j = k THEN v ELSE task[j]
  BY <1>1
<1>3. Tasks' = Tasks
  BY DEF Tasks
<1>. QED  BY <1>2, <1>3 DEF Owned

(* One poll changes.                                                        *)
LEMMA PollTyped ==
    ASSUME Types, NEW p \in Processes, NEW c \in PollRec, poll' = [poll EXCEPT ![p] = c]
    PROVE  poll' \in [Processes -> PollRec] /\ \A q \in Processes : poll'[q] = IF q = p THEN c ELSE poll[q]
<1>1. poll \in [Processes -> PollRec]
  BY DEF Types
<1>. QED  BY <1>1

(* A row that is put back.                                                  *)
LEMMA DeferredFacts ==
    ASSUME Types, Owned, NEW k \in Tasks, task' = Deferred(k)
    PROVE  /\ task' \in [Tasks -> TaskRec] /\ Owned'
           /\ \A j \in Tasks : j # k => task'[j] = task[j]
           /\ task'[k].status = "later"
<1>. DEFINE v == [task[k] EXCEPT !.status = "later", !.by = Nobody]
<1>1. task[k] \in TaskRec /\ DOMAIN task = Tasks
  BY DEF Types
<1>2. v \in TaskRec /\ v.by = Nobody /\ v.status = "later"
  BY <1>1 DEF TaskRec
<1>3. task' = [task EXCEPT ![k] = v]
  BY <1>1 DEF Deferred
<1>. HIDE DEF v
<1>. QED  BY <1>2, <1>3, TaskTyped

(* The row a process looks at.                                              *)
LEMMA HeadFacts ==
    ASSUME Types, NEW p \in Processes, poll[p].rows # <<>>
    PROVE  /\ Row(p) \in Tasks /\ Tail(poll[p].rows) \in Seq(Tasks)
           /\ Len(poll[p].rows) = 1 => Tail(poll[p].rows) = <<>>
<1>1. PICK r \in Seq(Tasks) : r = poll[p].rows /\ r # <<>>
  BY DEF Types, PollRec
<1>2. Len(r) \in Nat /\ Len(r) # 0 /\ Head(r) = r[1] /\ r[1] \in Tasks /\ Tail(r) \in Seq(Tasks)
  BY <1>1
<1>3. Len(r) = 1 => Tail(r) = <<>>
  <2>1. PICK u \in Seq(Tasks) : u = Tail(r) /\ Len(u) = Len(r) - 1
    BY <1>1, HeadTailProperties
  <2>2. u # <<>> => Len(u) \in Nat \ {0}
    BY EmptySeq
  <2>. QED  BY <2>1, <2>2
<1>. QED  BY <1>1, <1>2, <1>3 DEF Row

-----------------------------------------------------------------------------
(* Steps of a poll that take no row                                         *)

(* A process that does not move becomes no threat unless the priorities     *)
(* move.                                                                    *)
LEMMA ThreatKept ==
    ASSUME NEW q, NEW s, NEW t, poll'[q] = poll[q], TopPriority(s)' = TopPriority(s),
           \/ ReadyOf(t)' = ReadyOf(t)
           \/ ReadyOf(t)' # {} /\ ~ (TopPriority(t)' <= TopPriority(s))
           \/ ReadyOf(t) = {} \/ TopPriority(t) <= TopPriority(s)
    PROVE  Threat(q, s, t)' => Threat(q, s, t)
<1>1. ReadyOf(t)' = ReadyOf(t) => TopPriority(t)' = TopPriority(t)
  BY TopFacts
<1>. QED  BY <1>1 DEF Threat, Row

(* A poll of which only the process itself sees the change.                 *)
LEMMA PollStep ==
    ASSUME RotationInv, Types', Owned', NEW p \in Processes, NEW c \in PollRec,
           poll' = [poll EXCEPT ![p] = c],
           \A s \in Sources : ReadyOf(s)' = ReadyOf(s), cursor' = cursor, seq' = seq, faults <= faults',
           \A s, t \in Sources : passed'[s][t] = 0 \/ passed'[s][t] = passed[s][t],
           Workers = 1 =>
               /\ c.stage # "rows" => c.rows = <<>> /\ c.mark = NoTask
               /\ Len(c.rows) <= 1
               /\ c.mark # NoTask => c.rows = <<>>
               /\ c.mark = poll[p].mark \/ faults + 1 <= faults'
               /\ \/ faults + 1 <= faults'
                  \/ \A s, t \in Sources :
                        passed[s][t] > 0 /\ Threat(p, s, t)' => Threat(p, s, t) \/ ~ (cursor[t] > cursor[s])
    PROVE  RotationInv'
<1>1. Types /\ \A q \in Processes : poll'[q] = IF q = p THEN c ELSE poll[q]
  BY PollTyped DEF RotationInv
<1>2. ASSUME Workers = 1 PROVE Fair'
  <2>1. ASSUME NEW s \in Sources PROVE (cursor[s] <= seq)' /\ Waits(s)'
    <3>1. cursor[s] <= seq /\ passed[s][s] = 0 /\ (ReadyOf(s) = {} => \A t \in Sources : passed[s][t] = 0)
      BY <1>2 DEF RotationInv, Fair, Waits
    <3>. QED  BY <3>1 DEF Waits
  <2>2. ASSUME NEW q \in Processes PROVE OneRow(q)'
    <3>1. OneRow(q)
      BY <1>2 DEF RotationInv, Fair
    <3>. QED  BY <1>1, <1>2, <3>1 DEF OneRow
  <2>3. ASSUME NEW s \in Sources, NEW t \in Sources PROVE Counted(s, t)'
    <3>1. CASE passed'[s][t] = 0
      BY <3>1, NoneCounted
    <3>2. CASE passed'[s][t] = passed[s][t]
      <4>1. TopPriority(s)' = TopPriority(s) /\ ReadyOf(t)' = ReadyOf(t)
        BY TopFacts
      <4>2. \A q \in Processes : q # p => poll'[q] = poll[q]
        BY <1>1
      <4>3. \A q \in Processes : q # p /\ Threat(q, s, t)' => Threat(q, s, t)
        BY <4>1, <4>2, ThreatKept
      <4>4. \A q \in Processes : q # p /\ q \in Pend(t) => q \in Pend(t)'
        BY <4>2 DEF Pend
      <4>5. p \in Pend(t) => p \in Pend(t)' \/ faults + 1 <= faults'
        BY <1>1, <1>2 DEF Pend
      <4>6. passed[s][t] > 0 =>
               /\ \A q \in Processes : Threat(q, s, t)' =>
                      Threat(q, s, t) \/ ~ (cursor[t] > cursor[s]) \/ (q = p /\ faults + 1 <= faults')
               /\ \A q \in Processes : q \in Pend(t) =>
                      q \in Pend(t)' \/ (q = p /\ faults + 1 <= faults')
        BY <1>2, <4>3, <4>4, <4>5
      <4>. QED  BY <1>2, <3>2, <4>6, CountStays
    <3>. QED  BY <3>1, <3>2
  <2>. QED  BY <2>1, <2>2, <2>3 DEF Fair
<1>. QED  BY <1>2 DEF RotationInv

(* A poll record, field by field.                                           *)
LEMMA PollFacts ==
    ASSUME Types, NEW p \in Processes
    PROVE  /\ poll[p] \in PollRec /\ poll[p].turns \subseteq Sources /\ poll[p].rows \in Seq(Tasks)
           /\ poll[p].left \in 0..Workers /\ poll[p].mark \in Tasks \cup {NoTask}
           /\ NoPoll \in PollRec /\ NoPoll.stage = "idle" /\ NoPoll.rows = <<>> /\ NoPoll.mark = NoTask
<1>1. 0 \in 0..Workers /\ <<>> \in Seq(Tasks)
  BY LimitsAssumption
<1>. QED  BY <1>1 DEF Types, PollRec, NoPoll

(* An idle process holds neither rows nor a mark.                           *)
LEMMA IdleFacts ==
    ASSUME RotationInv, Workers = 1, NEW p \in Processes
    PROVE  /\ Types /\ Owned /\ Fair /\ OneRow(p)
           /\ Len(poll[p].rows) \in Nat
  BY PollFacts DEF RotationInv, Fair

(* With one worker no row comes after the row in hand.                      *)
LEMMA LastRow ==
    ASSUME RotationInv, Workers = 1, NEW p \in Processes, poll[p].rows # <<>>
    PROVE  Tail(poll[p].rows) = <<>>
<1>1. PICK r \in Seq(Tasks) : r = poll[p].rows /\ Len(r) <= 1 /\ r # <<>>
  BY PollFacts, IdleFacts DEF OneRow
<1>2. r # <<>> => Len(r) \in Nat \ {0}
  BY EmptySeq
<1>3. PICK n \in Nat \ {0} : n = Len(r) /\ n <= 1
  BY <1>1, <1>2
<1>4. n = 1
  BY <1>3
<1>. QED  BY <1>1, <1>3, <1>4, HeadFacts, IdleFacts

(* The ready rows where no row moves.                                       *)
LEMMA SameRows ==
    ASSUME UNCHANGED task
    PROVE  (Owned => Owned') /\ \A s \in Sources : ReadyOf(s)' = ReadyOf(s)
  BY DEF Owned, ReadyOf, Tasks

(* The turn query lets nobody of equal priority and a later turn pass.      *)
LEMMA BeginPollKeeps ==
    ASSUME RotationInv, NEW p \in Processes, BeginPoll(p)
    PROVE  RotationInv'
<1>1. /\ Available(p) > 0 /\ poll[p].stage = "idle" /\ \E s \in Sources : ReadyOf(s) # {}
      /\ UNCHANGED <<task, clock, cursor, seq, deferrals, faults, passed>> /\ Types /\ Owned
  BY DEF BeginPoll, RotationInv
<1>. DEFINE c == [NoPoll EXCEPT !.stage = "turns", !.turns = Turns(p), !.left = ClaimLimit(p)]
<1>2. Turns(p) \subseteq Sources
  BY DEF Turns
<1>3. /\ c \in PollRec /\ c.stage = "turns" /\ c.turns = Turns(p) /\ c.rows = <<>> /\ c.mark = NoTask
  BY <1>1, <1>2, AvailableFacts, PollFacts DEF PollRec, NoPoll
<1>4. poll' = [poll EXCEPT ![p] = c]
  BY DEF BeginPoll
<1>. HIDE DEF c
<1>5. poll' \in [Processes -> PollRec] /\ poll'[p] = c
  BY <1>1, <1>3, <1>4, PollTyped
<1>6. Types' /\ Owned' /\ \A s \in Sources : ReadyOf(s)' = ReadyOf(s)
  BY <1>1, <1>5, SameRows DEF Types, Tasks
<1>7. faults \in Nat /\ faults <= faults'
  BY <1>1, LimitsAssumption DEF Types
<1>8. ASSUME Workers = 1, NEW s \in Sources, NEW t \in Sources, passed[s][t] > 0, Threat(p, s, t)'
      PROVE  ~ (cursor[t] > cursor[s])
  <2>1. ReadyOf(s) # {}
    BY <1>8 DEF RotationInv, Fair, Waits
  <2>2. poll'[p].stage = "turns" /\ poll'[p].turns = Turns(p) /\ Turns(p) # {}
    BY <1>1, <1>3, <1>5, <1>8, TurnFacts
  <2>3. t \in Turns(p) /\ (ReadyOf(t)' = {} \/ TopPriority(t)' <= TopPriority(s)')
    BY <1>8, <2>2 DEF Threat
  <2>4. ReadyOf(t) # {}
    BY <2>3 DEF Turns
  <2>5. ~ TurnBefore(s, t)
    BY <1>1, <1>8, <2>1, <2>3, TurnFacts
  <2>6. ReadyOf(t)' = ReadyOf(t) /\ TopPriority(s)' = TopPriority(s) /\ TopPriority(t)' = TopPriority(t)
    BY <1>6, TopFacts
  <2>7. TopPriority(t) <= TopPriority(s) /\ TopPriority(t) \in Nat /\ TopPriority(s) \in Nat
    BY <2>1, <2>3, <2>4, <2>6, TopFacts
  <2>. QED  BY <2>5, <2>7, <1>8, CountFacts DEF TurnBefore
<1>9. Workers = 1 => /\ c.stage # "rows" => c.rows = <<>> /\ c.mark = NoTask
                     /\ Len(c.rows) <= 1
                     /\ c.mark # NoTask => c.rows = <<>>
                     /\ c.mark = poll[p].mark \/ faults + 1 <= faults'
  BY <1>1, <1>3, IdleFacts DEF OneRow
<1>. QED  BY <1>1, <1>3, <1>4, <1>6, <1>7, <1>8, <1>9, PollStep

(* Without turns a poll is a threat to everybody, and a statement failed.   *)
LEMMA BeginPollUnturnedKeeps ==
    ASSUME RotationInv, NEW p \in Processes, BeginPollUnturned(p)
    PROVE  RotationInv'
<1>1. /\ Available(p) > 0 /\ poll[p].stage = "idle" /\ faults < MaxFaults /\ faults' = faults + 1
      /\ UNCHANGED <<task, clock, cursor, seq, deferrals, passed>> /\ Types /\ Owned
  BY DEF BeginPollUnturned, RotationInv
<1>. DEFINE c == [NoPoll EXCEPT !.stage = "turns", !.left = ClaimLimit(p)]
<1>2. /\ c \in PollRec /\ c.stage = "turns" /\ c.rows = <<>> /\ c.mark = NoTask
  BY <1>1, AvailableFacts, PollFacts DEF PollRec, NoPoll
<1>3. poll' = [poll EXCEPT ![p] = c]
  BY DEF BeginPollUnturned
<1>. HIDE DEF c
<1>4. poll' \in [Processes -> PollRec]
  BY <1>1, <1>2, <1>3, PollTyped
<1>5. faults' \in 0..MaxFaults /\ faults <= faults' /\ faults + 1 <= faults'
  BY <1>1, LimitsAssumption DEF Types
<1>6. Types' /\ Owned' /\ \A s \in Sources : ReadyOf(s)' = ReadyOf(s)
  BY <1>1, <1>4, <1>5, SameRows DEF Types, Tasks
<1>7. /\ c.stage # "rows" => c.rows = <<>> /\ c.mark = NoTask
      /\ Len(c.rows) <= 1
      /\ c.mark # NoTask => c.rows = <<>>
      /\ c.mark = poll[p].mark \/ faults + 1 <= faults'
  BY <1>2, <1>5
<1>. QED  BY <1>1, <1>2, <1>3, <1>5, <1>6, <1>7, PollStep

(* The candidate query gives a row of the top priority of its camera.       *)
LEMMA FetchKeeps ==
    ASSUME RotationInv, NEW p \in Processes, Fetch(p)
    PROVE  RotationInv'
<1>1. /\ poll[p].stage = "turns" /\ UNCHANGED <<task, clock, cursor, seq, deferrals, faults, passed>>
      /\ Types /\ Owned
  BY DEF Fetch, RotationInv
<1>2. PICK rows \in CandidateRows(poll[p].turns) :
         poll' = [poll EXCEPT ![p].stage = "rows", ![p].turns = {}, ![p].rows = rows]
  BY DEF Fetch
<1>. DEFINE c == [poll[p] EXCEPT !.stage = "rows", !.turns = {}, !.rows = rows]
<1>3. rows \in Seq(Tasks) /\ Len(rows) \in Nat
  BY <1>1, RowFacts
<1>4. c \in PollRec /\ c.stage = "rows" /\ c.turns = {} /\ c.rows = rows /\ c.mark = poll[p].mark
  BY <1>1, <1>3, PollFacts DEF PollRec
<1>5. poll' = [poll EXCEPT ![p] = c]
  BY <1>2
<1>. HIDE DEF c
<1>6. poll' \in [Processes -> PollRec] /\ poll'[p] = c
  BY <1>1, <1>4, <1>5, PollTyped
<1>7. Types' /\ Owned' /\ \A s \in Sources : ReadyOf(s)' = ReadyOf(s)
  BY <1>1, <1>6, SameRows DEF Types, Tasks
<1>8. faults \in Nat /\ faults <= faults'
  BY <1>1, LimitsAssumption DEF Types
<1>9. ASSUME Workers = 1 PROVE Len(c.rows) <= 1 /\ c.mark = NoTask
  BY <1>1, <1>4, <1>9, RowFacts, IdleFacts DEF OneRow
<1>10. ASSUME Workers = 1, NEW s \in Sources, NEW t \in Sources, passed[s][t] > 0, Threat(p, s, t)'
       PROVE  Threat(p, s, t)
  <2>1. /\ poll'[p].stage = "rows" /\ poll'[p].rows = rows /\ rows # <<>>
        /\ TaskSource[Head(rows)] = t /\ TaskPriority[Head(rows)] <= TopPriority(s)'
    BY <1>4, <1>6, <1>10 DEF Threat, Row
  <2>2. ReadyOf(s) # {} /\ TopPriority(s)' = TopPriority(s) /\ TopPriority(s) \in Nat
    BY <1>7, <1>10, TopFacts DEF RotationInv, Fair, Waits
  <2>3. /\ Head(rows) \in Tasks /\ ReadyOf(t) # {} /\ (poll[p].turns = {} \/ t \in poll[p].turns)
        /\ TopPriority(t) <= TaskPriority[Head(rows)]
    BY <1>1, <1>10, <2>1, RowFacts
  <2>4. TopPriority(t) <= TopPriority(s)
    <3>1. TaskPriority[Head(rows)] \in Nat /\ TopPriority(t) \in Nat
      BY <2>3, TaskFacts, TopFacts
    <3>. QED  BY <2>1, <2>2, <2>3, <3>1
  <2>. QED  BY <1>1, <2>3, <2>4 DEF Threat
<1>. QED  BY <1>1, <1>4, <1>5, <1>7, <1>8, <1>9, <1>10, PollStep

(* A poll that ends is no threat.                                           *)
LEMMA EndPollKeeps ==
    ASSUME RotationInv, NEW p \in Processes, EndPoll(p) \/ NoPermit(p)
    PROVE  RotationInv'
<1>1. /\ poll[p].mark = NoTask /\ UNCHANGED <<task, clock, cursor, seq, deferrals, faults, passed>>
      /\ Types /\ Owned /\ poll' = [poll EXCEPT ![p] = NoPoll]
  BY DEF EndPoll, NoPermit, Trying, RotationInv
<1>2. PICK c \in PollRec : c = NoPoll /\ c.stage = "idle" /\ c.rows = <<>> /\ c.mark = NoTask
  BY <1>1, PollFacts
<1>3. poll' = [poll EXCEPT ![p] = c]
  BY <1>1, <1>2
<1>4. poll' \in [Processes -> PollRec] /\ poll'[p] = c
  BY <1>1, <1>2, <1>3, PollTyped
<1>5. Types' /\ Owned' /\ \A s \in Sources : ReadyOf(s)' = ReadyOf(s)
  BY <1>1, <1>4, SameRows DEF Types, Tasks
<1>6. faults \in Nat /\ faults <= faults'
  BY <1>1, LimitsAssumption DEF Types
<1>7. /\ c.stage # "rows" => c.rows = <<>> /\ c.mark = NoTask
      /\ Len(c.rows) <= 1
      /\ c.mark # NoTask => c.rows = <<>>
      /\ c.mark = poll[p].mark \/ faults + 1 <= faults'
  BY <1>1, <1>2
<1>8. \A s, t : ~ Threat(p, s, t)'
  BY <1>2, <1>4 DEF Threat
<1>. QED  BY <1>1, <1>2, <1>3, <1>5, <1>6, <1>7, <1>8, PollStep

(* A row passed over leaves nothing to claim.                               *)
LEMMA SkipRowKeeps ==
    ASSUME RotationInv, NEW p \in Processes, SkipRow(p)
    PROVE  RotationInv'
<1>1. /\ poll[p].mark = NoTask /\ poll[p].stage = "rows" /\ poll[p].rows # <<>>
      /\ UNCHANGED <<task, clock, cursor, seq, deferrals, faults, passed>> /\ Types /\ Owned
  BY DEF SkipRow, Trying, Open, RotationInv
<1>. DEFINE c == [poll[p] EXCEPT !.rows = Tail(@)]
<1>2. c \in PollRec /\ c.stage = "rows" /\ c.rows = Tail(poll[p].rows) /\ c.mark = NoTask
  BY <1>1, PollFacts, HeadFacts DEF PollRec
<1>3. poll' = [poll EXCEPT ![p] = c]
  BY DEF SkipRow
<1>. HIDE DEF c
<1>4. poll' \in [Processes -> PollRec] /\ poll'[p] = c
  BY <1>1, <1>2, <1>3, PollTyped
<1>5. Types' /\ Owned' /\ \A s \in Sources : ReadyOf(s)' = ReadyOf(s)
  BY <1>1, <1>4, SameRows DEF Types, Tasks
<1>6. faults \in Nat /\ faults <= faults'
  BY <1>1, LimitsAssumption DEF Types
<1>7. Workers = 1 => c.rows = <<>>
  BY <1>1, <1>2, LastRow
<1>8. Workers = 1 => /\ c.stage # "rows" => c.rows = <<>> /\ c.mark = NoTask
                     /\ Len(c.rows) <= 1
                     /\ c.mark # NoTask => c.rows = <<>>
                     /\ c.mark = poll[p].mark \/ faults + 1 <= faults'
  BY <1>1, <1>2, <1>7, SMTT(30)
<1>9. Workers = 1 => \A s, t : ~ Threat(p, s, t)'
  BY <1>2, <1>4, <1>7 DEF Threat
<1>. QED  BY <1>1, <1>2, <1>3, <1>5, <1>6, <1>8, <1>9, PollStep

(* A cursor that is not moved, and a statement that failed.                 *)
LEMMA MarkFailsKeeps ==
    ASSUME RotationInv, NEW p \in Processes, MarkFails(p)
    PROVE  RotationInv'
<1>1. /\ poll[p].mark # NoTask /\ faults < MaxFaults /\ faults' = faults + 1
      /\ UNCHANGED <<task, clock, cursor, seq, deferrals, passed>> /\ Types /\ Owned
  BY DEF MarkFails, RotationInv
<1>. DEFINE c == [poll[p] EXCEPT !.mark = NoTask]
<1>2. /\ c \in PollRec /\ c.stage = poll[p].stage /\ c.rows = poll[p].rows /\ c.mark = NoTask
  BY <1>1, PollFacts DEF PollRec
<1>3. poll' = [poll EXCEPT ![p] = c]
  BY DEF MarkFails
<1>. HIDE DEF c
<1>4. poll' \in [Processes -> PollRec]
  BY <1>1, <1>2, <1>3, PollTyped
<1>5. faults' \in 0..MaxFaults /\ faults <= faults' /\ faults + 1 <= faults'
  BY <1>1, LimitsAssumption DEF Types
<1>6. Types' /\ Owned' /\ \A s \in Sources : ReadyOf(s)' = ReadyOf(s)
  BY <1>1, <1>4, <1>5, SameRows DEF Types, Tasks
<1>7. Workers = 1 => /\ c.stage # "rows" => c.rows = <<>> /\ c.mark = NoTask
                     /\ Len(c.rows) <= 1
                     /\ c.mark # NoTask => c.rows = <<>>
                     /\ c.mark = poll[p].mark \/ faults + 1 <= faults'
  BY <1>2, <1>5, IdleFacts DEF OneRow
<1>. QED  BY <1>1, <1>2, <1>3, <1>5, <1>6, <1>7, PollStep

(* A row that a process gives up was running: the ready rows are the same.  *)
LEMMA SettleKeeps ==
    ASSUME RotationInv, NEW p \in Processes, NEW k \in Tasks, Settle(p, k)
    PROVE  RotationInv'
<1>1. /\ task[k].by = p /\ UNCHANGED <<clock, cursor, seq, poll, faults>> /\ Types /\ Owned
      /\ IF Saturated(p, TaskSource[k]) THEN Restart({TaskSource[k]}) ELSE UNCHANGED passed
  BY DEF Settle, RotationInv
<1>2. task[k].status = "running" /\ task[k] \in TaskRec /\ DOMAIN task = Tasks
  BY <1>1, ProcessesAssumption DEF Types, Owned
<1>3. /\ task' \in [Tasks -> TaskRec] /\ Owned' /\ task'[k].status # "ready"
      /\ \A j \in Tasks : j # k => task'[j] = task[j]
  <2>1. CASE task' = [task EXCEPT ![k].status = "done", ![k].by = Nobody]
    <3>. DEFINE v == [task[k] EXCEPT !.status = "done", !.by = Nobody]
    <3>1. v \in TaskRec /\ v.by = Nobody /\ v.status = "done"
      BY <1>2 DEF TaskRec
    <3>2. task' = [task EXCEPT ![k] = v]
      BY <1>2, <2>1
    <3>. HIDE DEF v
    <3>. QED  BY <1>1, <3>1, <3>2, TaskTyped
  <2>2. CASE task' = Deferred(k)
    BY <1>1, <2>2, DeferredFacts
  <2>. QED  BY <2>1, <2>2 DEF Settle
<1>4. deferrals' \in 0..MaxDeferrals
  BY <1>1, LimitsAssumption DEF Settle, Types
<1>5. /\ passed' \in [Sources -> [Sources -> Nat]]
      /\ \A s, t \in Sources : passed'[s][t] = 0 \/ passed'[s][t] = passed[s][t]
  <2>1. CASE Saturated(p, TaskSource[k])
    BY <1>1, <2>1, RestartFacts
  <2>2. CASE ~ Saturated(p, TaskSource[k])
    BY <1>1, <2>2 DEF Types
  <2>. QED  BY <2>1, <2>2
<1>6. Tasks' = Tasks
  BY DEF Tasks
<1>7. Types'
  BY <1>1, <1>3, <1>4, <1>5, <1>6 DEF Types
<1>8. \A s \in Sources : ReadyOf(s)' = ReadyOf(s)
  BY <1>2, <1>3, <1>6 DEF ReadyOf
<1>9. faults \in Nat /\ faults <= faults'
  BY <1>1, LimitsAssumption DEF Types
<1>10. PICK c \in PollRec : c = poll[p] /\ poll' = [poll EXCEPT ![p] = c]
  BY <1>1 DEF Types
<1>11. \A s, t \in Sources : Threat(p, s, t)' => Threat(p, s, t)
  <2>1. SUFFICES ASSUME NEW s \in Sources, NEW t \in Sources PROVE Threat(p, s, t)' => Threat(p, s, t)
    OBVIOUS
  <2>2. TopPriority(s)' = TopPriority(s) /\ ReadyOf(t)' = ReadyOf(t) /\ poll'[p] = poll[p]
    BY <1>1, <1>8, TopFacts
  <2>. QED  BY <2>2, ThreatKept
<1>12. Workers = 1 => /\ c.stage # "rows" => c.rows = <<>> /\ c.mark = NoTask
                      /\ Len(c.rows) <= 1
                      /\ c.mark # NoTask => c.rows = <<>>
                      /\ c.mark = poll[p].mark \/ faults + 1 <= faults'
  BY <1>10, IdleFacts DEF OneRow
<1>. QED  BY <1>1, <1>3, <1>5, <1>7, <1>8, <1>9, <1>10, <1>11, <1>12, PollStep, ZenonT(60)

-----------------------------------------------------------------------------
(* Steps that take a row                                                    *)

(* The row leaves the ready rows of its camera.                             *)
LEMMA TakenFacts ==
    ASSUME NEW k \in Tasks, task'[k].status # "ready",
           \A j \in Tasks : j # k => task'[j] = task[j]
    PROVE  /\ ReadyOf(TaskSource[k])' = ReadyOf(TaskSource[k]) \ {k}
           /\ \A s \in Sources : s # TaskSource[k] => ReadyOf(s)' = ReadyOf(s)
  BY DEF ReadyOf, Tasks

(* The row of another camera was not of a higher priority than a waiting    *)
(* one: what is left of that camera compares as before.                     *)
LEMMA RowTaken ==
    ASSUME NEW p, NEW k \in Tasks, k \in ReadyOf(TaskSource[k]),
           ReadyOf(TaskSource[k])' = ReadyOf(TaskSource[k]) \ {k},
           \A s \in Sources : s # TaskSource[k] => ReadyOf(s)' = ReadyOf(s),
           NEW s \in Sources, s \notin NotOvertaken(p, k), NEW t \in Sources
    PROVE  \A q : poll'[q] = poll[q] => (Threat(q, s, t)' => Threat(q, s, t))
<1>1. s # TaskSource[k] /\ ReadyOf(s) # {} /\ TopPriority(s) >= TaskPriority[k]
  BY DEF NotOvertaken, WaitsFor
<1>2. TopPriority(s)' = TopPriority(s) /\ TopPriority(s) \in Nat
  BY <1>1, TopFacts
<1>3. \/ ReadyOf(t)' = ReadyOf(t)
      \/ ReadyOf(t)' # {} /\ ~ (TopPriority(t)' <= TopPriority(s))
      \/ ReadyOf(t) = {} \/ TopPriority(t) <= TopPriority(s)
  <2>1. CASE t # TaskSource[k]
    BY <2>1
  <2>2. CASE t = TaskSource[k] /\ ReadyOf(t) # {} /\ ~ (TopPriority(t) <= TopPriority(s))
    <3>1. TopPriority(t) \in Nat /\ TaskPriority[k] \in Nat
      BY <2>2, TopFacts, TaskFacts
    <3>2. PICK j \in ReadyOf(t) : TaskPriority[j] = TopPriority(t)
      BY <2>2, TopFacts
    <3>3. j # k
      BY <1>1, <1>2, <2>2, <3>1, <3>2
    <3>4. j \in ReadyOf(t)' /\ ReadyOf(t)' # {}
      BY <2>2, <3>2, <3>3
    <3>5. TopPriority(t)' \in Nat /\ TopPriority(t) <= TopPriority(t)'
      BY <3>2, <3>4, TopFacts
    <3>. QED  BY <1>2, <2>2, <3>1, <3>4, <3>5
  <2>3. CASE t = TaskSource[k] /\ (ReadyOf(t) = {} \/ TopPriority(t) <= TopPriority(s))
    BY <2>3
  <2>. QED  BY <2>1, <2>2, <2>3
<1>. QED  BY <1>2, <1>3, ThreatKept

(* The row in hand is the only one, and it is taken.                        *)
LEMMA InHand ==
    ASSUME RotationInv, NEW p \in Processes, Claimable(p)
    PROVE  /\ Types /\ Owned /\ Row(p) \in Tasks /\ Row(p) \in ReadyOf(TaskSource[Row(p)])
           /\ poll[p].stage = "rows" /\ poll[p].mark = NoTask /\ poll[p].rows # <<>> /\ poll[p].left > 0
           /\ Tail(poll[p].rows) \in Seq(Tasks)
           /\ Workers = 1 => Tail(poll[p].rows) = <<>>
<1>1. /\ Types /\ Owned /\ poll[p].stage = "rows" /\ poll[p].mark = NoTask /\ poll[p].rows # <<>>
      /\ poll[p].left > 0 /\ task[Row(p)].status = "ready"
  BY DEF Claimable, Trying, Open, RotationInv
<1>2. Row(p) \in Tasks /\ Tail(poll[p].rows) \in Seq(Tasks)
  BY <1>1, HeadFacts
<1>3. Workers = 1 => Tail(poll[p].rows) = <<>>
  BY <1>1, LastRow
<1>. QED  BY <1>1, <1>2, <1>3 DEF ReadyOf

(* A row put back overtakes nobody.                                         *)
LEMMA DeferAtClaimKeeps ==
    ASSUME RotationInv, NEW p \in Processes, DeferAtClaim(p)
    PROVE  RotationInv'
<1>1. PICK k \in Tasks : /\ k = Row(p) /\ k \in ReadyOf(TaskSource[k]) /\ task' = Deferred(k)
                         /\ Restart(NotOvertaken(p, k))
  BY InHand DEF DeferAtClaim
<1>2. /\ Types /\ Owned /\ poll[p].stage = "rows" /\ poll[p].mark = NoTask
      /\ deferrals < MaxDeferrals /\ deferrals' = deferrals + 1 /\ UNCHANGED <<clock, cursor, seq, faults>>
  BY InHand DEF DeferAtClaim
<1>. DEFINE c == [poll[p] EXCEPT !.rows = Tail(@)]
<1>3. /\ c \in PollRec /\ c.stage = "rows" /\ c.rows = Tail(poll[p].rows) /\ c.mark = NoTask
      /\ Workers = 1 => c.rows = <<>>
  BY <1>2, PollFacts, InHand DEF PollRec, DeferAtClaim
<1>4. poll' = [poll EXCEPT ![p] = c]
  BY DEF DeferAtClaim
<1>. HIDE DEF c
<1>5. poll' \in [Processes -> PollRec] /\ \A q \in Processes : poll'[q] = IF q = p THEN c ELSE poll[q]
  BY <1>2, <1>3, <1>4, PollTyped
<1>6. /\ task' \in [Tasks -> TaskRec] /\ Owned' /\ task'[k].status # "ready"
      /\ \A j \in Tasks : j # k => task'[j] = task[j]
  BY <1>1, <1>2, DeferredFacts
<1>7. /\ passed' \in [Sources -> [Sources -> Nat]]
      /\ \A s, t \in Sources : passed'[s][t] = IF s \in NotOvertaken(p, k) THEN 0 ELSE passed[s][t]
  BY <1>1, <1>2, RestartFacts
<1>8. deferrals' \in 0..MaxDeferrals /\ faults \in Nat /\ faults <= faults'
  BY <1>2, LimitsAssumption DEF Types
<1>9. Types'
  BY <1>2, <1>5, <1>6, <1>7, <1>8 DEF Types, Tasks
<1>10. /\ ReadyOf(TaskSource[k])' = ReadyOf(TaskSource[k]) \ {k}
       /\ \A s \in Sources : s # TaskSource[k] => ReadyOf(s)' = ReadyOf(s)
  BY <1>6, TakenFacts
<1>11. ASSUME Workers = 1 PROVE Fair'
  <2>1. ASSUME NEW s \in Sources PROVE (cursor[s] <= seq)' /\ Waits(s)'
    <3>1. cursor[s] <= seq /\ passed[s][s] = 0
      BY <1>11 DEF RotationInv, Fair, Waits
    <3>2. s \notin NotOvertaken(p, k) => ReadyOf(s)' # {}
      BY <1>10 DEF NotOvertaken, WaitsFor
    <3>. QED  BY <1>2, <1>7, <3>1, <3>2 DEF Waits
  <2>2. ASSUME NEW q \in Processes PROVE OneRow(q)'
    <3>1. OneRow(q)
      BY <1>11 DEF RotationInv, Fair
    <3>2. Len(<<>>) <= 1
      OBVIOUS
    <3>. QED  BY <1>3, <1>5, <1>11, <3>1, <3>2 DEF OneRow
  <2>3. ASSUME NEW s \in Sources, NEW t \in Sources PROVE Counted(s, t)'
    <3>1. CASE s \in NotOvertaken(p, k)
      BY <1>7, <3>1, NoneCounted
    <3>2. CASE s \notin NotOvertaken(p, k)
      <4>1. passed'[s][t] = passed[s][t]
        BY <1>7, <3>2
      <4>2. \A q : poll'[q] = poll[q] => (Threat(q, s, t)' => Threat(q, s, t))
        BY <1>1, <1>10, <3>2, RowTaken
      <4>3. ~ Threat(p, s, t)'
        BY <1>3, <1>5, <1>11 DEF Threat
      <4>4. \A q \in Processes : Threat(q, s, t)' => Threat(q, s, t)
        BY <1>5, <4>2, <4>3
      <4>5. \A q \in Processes : q \in Pend(t) => q \in Pend(t)'
        BY <1>2, <1>5 DEF Pend
      <4>6. passed[s][t] > 0 =>
               /\ \A q \in Processes : Threat(q, s, t)' =>
                      Threat(q, s, t) \/ ~ (cursor[t] > cursor[s]) \/ (q = p /\ faults + 1 <= faults')
               /\ \A q \in Processes : q \in Pend(t) =>
                      q \in Pend(t)' \/ (q = p /\ faults + 1 <= faults')
        BY <4>4, <4>5
      <4>7. cursor'[s] = cursor[s] /\ cursor'[t] = cursor[t]
        BY <1>2
      <4>. QED  BY <1>8, <1>9, <1>11, <4>1, <4>6, <4>7, CountStays
    <3>. QED  BY <3>1, <3>2
  <2>. QED  BY <2>1, <2>2, <2>3 DEF Fair
<1>. QED  BY <1>6, <1>9, <1>11 DEF RotationInv

(* A claim overtakes the waiting cameras once: the process was a threat to  *)
(* them and is one no more, or its mark is now to come.                     *)
LEMMA ClaimKeeps ==
    ASSUME RotationInv, NEW p \in Processes, Claim(p)
    PROVE  RotationInv'
<1>1. PICK k \in Tasks : k = Row(p) /\ k \in ReadyOf(TaskSource[k]) /\ TaskSource[k] \in Sources
  BY InHand, TaskFacts DEF Claim
<1>2. /\ Types /\ Owned /\ poll[p].stage = "rows" /\ poll[p].mark = NoTask /\ poll[p].rows # <<>>
      /\ poll[p].left > 0 /\ UNCHANGED <<clock, cursor, seq, deferrals, faults>>
  BY InHand DEF Claim
<1>. DEFINE c == [poll[p] EXCEPT !.rows = Tail(@), !.left = @ - 1, !.mark = k]
            v == [task[k] EXCEPT !.status = "running", !.by = p]
<1>3. /\ c \in PollRec /\ c.stage = "rows" /\ c.rows = Tail(poll[p].rows) /\ c.mark = k
      /\ Workers = 1 => c.rows = <<>>
  <2>1. poll[p].left - 1 \in 0..Workers
    BY <1>2, PollFacts, LimitsAssumption
  <2>2. Tail(poll[p].rows) \in Seq(Tasks) /\ (Workers = 1 => Tail(poll[p].rows) = <<>>)
    BY InHand DEF Claim
  <2>. QED  BY <1>2, <2>1, <2>2, PollFacts DEF PollRec
<1>4. poll' = [poll EXCEPT ![p] = c]
  BY <1>1 DEF Claim
<1>5. v \in TaskRec /\ v.status = "running" /\ v.by # Nobody
  <2>1. task[k] \in TaskRec
    BY <1>2 DEF Types
  <2>. QED  BY <2>1, ProcessesAssumption DEF TaskRec
<1>6. task' = [task EXCEPT ![k] = v]
  BY <1>1, <1>2 DEF Claim, Types
<1>. HIDE DEF c, v
<1>7. poll' \in [Processes -> PollRec] /\ \A q \in Processes : poll'[q] = IF q = p THEN c ELSE poll[q]
  BY <1>2, <1>3, <1>4, PollTyped
<1>8. /\ task' \in [Tasks -> TaskRec] /\ Owned' /\ task'[k].status # "ready"
      /\ \A j \in Tasks : j # k => task'[j] = task[j]
  BY <1>2, <1>5, <1>6, TaskTyped
<1>9. \A s \in Sources : passed'[s] = IF s \in NotOvertaken(p, k) THEN [t \in Sources |-> 0]
                                      ELSE [passed[s] EXCEPT ![TaskSource[k]] = @ + 1]
  BY <1>1 DEF Claim
<1>10. /\ passed' \in [Sources -> [Sources -> Nat]]
       /\ \A s, t \in Sources :
             passed'[s][t] = IF s \in NotOvertaken(p, k) THEN 0
                             ELSE IF t = TaskSource[k] THEN passed[s][t] + 1 ELSE passed[s][t]
  <2>1. \A s \in Sources : passed[s] \in [Sources -> Nat]
    BY <1>2 DEF Types
  <2>2. ASSUME NEW s \in Sources
        PROVE  /\ passed'[s] \in [Sources -> Nat]
               /\ \A t \in Sources :
                     passed'[s][t] = IF s \in NotOvertaken(p, k) THEN 0
                                     ELSE IF t = TaskSource[k] THEN passed[s][t] + 1 ELSE passed[s][t]
    <3>1. CASE s \in NotOvertaken(p, k)
      <4>1. PICK f : f = passed'[s] /\ f = [t \in Sources |-> 0]
        BY <1>9, <3>1
      <4>2. f \in [Sources -> Nat] /\ \A t \in Sources : f[t] = 0
        BY <4>1
      <4>. QED  BY <3>1, <4>1, <4>2
    <3>2. CASE s \notin NotOvertaken(p, k)
      <4>1. PICK f \in [Sources -> Nat] : f = passed[s]
        BY <2>1
      <4>2. passed'[s] = [f EXCEPT ![TaskSource[k]] = @ + 1]
        BY <1>9, <3>2, <4>1
      <4>. QED  BY <1>1, <3>2, <4>1, <4>2
    <3>. QED  BY <3>1, <3>2
  <2>3. passed' = [s \in Sources |-> passed'[s]]
    BY <1>1 DEF Claim
  <2>. QED  BY <2>2, <2>3
<1>11. Types'
  BY <1>2, <1>7, <1>8, <1>10 DEF Types, Tasks
<1>12. /\ ReadyOf(TaskSource[k])' = ReadyOf(TaskSource[k]) \ {k}
       /\ \A s \in Sources : s # TaskSource[k] => ReadyOf(s)' = ReadyOf(s)
  BY <1>8, TakenFacts
<1>13. k # NoTask
  BY TaskFacts
<1>14. ASSUME Workers = 1 PROVE Fair'
  <2>1. ASSUME NEW s \in Sources PROVE (cursor[s] <= seq)' /\ Waits(s)'
    <3>1. cursor[s] <= seq /\ passed[s][s] = 0
      BY <1>14 DEF RotationInv, Fair, Waits
    <3>2. s \notin NotOvertaken(p, k) => s # TaskSource[k] /\ ReadyOf(s)' # {}
      BY <1>12 DEF NotOvertaken, WaitsFor
    <3>. QED  BY <1>2, <1>10, <3>1, <3>2 DEF Waits
  <2>2. ASSUME NEW q \in Processes PROVE OneRow(q)'
    <3>1. OneRow(q)
      BY <1>14 DEF RotationInv, Fair
    <3>2. Len(<<>>) <= 1
      OBVIOUS
    <3>. QED  BY <1>3, <1>7, <1>14, <3>1, <3>2 DEF OneRow
  <2>3. ASSUME NEW s \in Sources, NEW t \in Sources PROVE Counted(s, t)'
    <3>1. CASE s \in NotOvertaken(p, k)
      BY <1>10, <3>1, NoneCounted
    <3>2. ASSUME s \notin NotOvertaken(p, k)
          PROVE  /\ ~ Threat(p, s, t)' /\ p \notin Pend(t) /\ cursor'[s] = cursor[s] /\ cursor'[t] = cursor[t]
                 /\ \A q \in Processes : Threat(q, s, t)' => Threat(q, s, t)
                 /\ \A q \in Processes : q \in Pend(t) => q \in Pend(t)'
                 /\ t = TaskSource[k] => Threat(p, s, t) /\ p \in Pend(t)'
      <4>1. \A q : poll'[q] = poll[q] => (Threat(q, s, t)' => Threat(q, s, t))
        BY <1>1, <1>12, <3>2, RowTaken
      <4>2. ~ Threat(p, s, t)'
        BY <1>3, <1>7, <1>14 DEF Threat
      <4>3. \A q \in Processes : Threat(q, s, t)' => Threat(q, s, t)
        BY <1>7, <4>1, <4>2
      <4>4. p \notin Pend(t) /\ \A q \in Processes : q \in Pend(t) => q \in Pend(t)'
        BY <1>2, <1>7 DEF Pend
      <4>5. ASSUME t = TaskSource[k] PROVE Threat(p, s, t) /\ p \in Pend(t)'
        <5>1. TaskPriority[k] <= TopPriority(s)
          <6>1. ReadyOf(s) # {} /\ TopPriority(s) >= TaskPriority[k]
            BY <3>2 DEF NotOvertaken, WaitsFor
          <6>. QED  BY <6>1, TopFacts, TaskFacts
        <5>2. Threat(p, s, t)
          BY <1>1, <1>2, <4>5, <5>1 DEF Threat
        <5>. QED  BY <1>3, <1>7, <1>13, <4>5, <5>2 DEF Pend
      <4>. QED  BY <1>2, <4>2, <4>3, <4>4, <4>5
    <3>3. CASE s \notin NotOvertaken(p, k) /\ t # TaskSource[k]
      <4>1. passed'[s][t] = passed[s][t]
        BY <1>10, <3>3
      <4>2. faults <= faults'
        BY <1>2, CountFacts, <1>14
      <4>3. passed[s][t] > 0 =>
               /\ \A q \in Processes : Threat(q, s, t)' =>
                      Threat(q, s, t) \/ ~ (cursor[t] > cursor[s]) \/ (q = p /\ faults + 1 <= faults')
               /\ \A q \in Processes : q \in Pend(t) =>
                      q \in Pend(t)' \/ (q = p /\ faults + 1 <= faults')
        BY <3>2, <3>3
      <4>. QED  BY <1>11, <1>14, <3>2, <3>3, <4>1, <4>2, <4>3, CountStays
    <3>4. CASE s \notin NotOvertaken(p, k) /\ t = TaskSource[k]
      <4>1. passed[s][t] \in Nat /\ faults \in Nat /\ Counted(s, t) /\ passed'[s][t] = passed[s][t] + 1
        BY <1>10, <1>14, <3>4, CountFacts
      <4>2. PICK A : A = Threats(s, t) /\ A \subseteq Processes /\ p \in A
        BY <3>2, <3>4 DEF Threats
      <4>3. PICK B : B = Threats(s, t)' /\ B \subseteq A \ {p} /\ B \subseteq Processes
        BY <3>2, <3>4, <4>2 DEF Threats
      <4>4. PICK C : C = Pend(t) /\ C \subseteq Processes
        BY DEF Pend
      <4>5. PICK D : D = Pend(t)' /\ C \subseteq D \ {p} /\ p \in D /\ D \subseteq Processes
        BY <3>2, <3>4, <4>4 DEF Pend
      <4>6. /\ Cardinality(A) \in Nat /\ Cardinality(B) \in Nat /\ Cardinality(C) \in Nat
            /\ Cardinality(D) \in Nat /\ Cardinality(Processes) \in Nat
        BY <4>2, <4>3, <4>4, <4>5, ProcessCount
      <4>7. Cardinality(B) + 1 <= Cardinality(A) /\ Cardinality(A) <= Cardinality(Processes)
        BY <4>2, <4>3, OneLess, ProcessCount
      <4>8. Cardinality(C) + 1 <= Cardinality(D)
        BY <4>4, <4>5, OneLess
      <4>9. IF cursor[t] > cursor[s]
            THEN passed[s][t] + 1 + Cardinality(B) <= Cardinality(Processes) + faults
            ELSE passed[s][t] + 1 <= Cardinality(D) + faults
        <5>1. CASE passed[s][t] = 0
          BY <4>1, <4>6, <4>7, <4>8, <5>1
        <5>2. CASE passed[s][t] > 0
          <6>1. IF cursor[t] > cursor[s]
                THEN passed[s][t] + Cardinality(A) <= Cardinality(Processes) + faults
                ELSE passed[s][t] <= Cardinality(C) + faults
            BY <4>1, <4>2, <4>4, <5>2 DEF Counted
          <6>. QED  BY <4>1, <4>6, <4>7, <4>8, <6>1
        <5>. QED  BY <4>1, <5>1, <5>2
      <4>. QED  BY <1>2, <3>2, <3>4, <4>1, <4>3, <4>5, <4>9 DEF Counted
    <3>. QED  BY <3>1, <3>3, <3>4
  <2>. QED  BY <2>1, <2>2, <2>3 DEF Fair
<1>. QED  BY <1>8, <1>11, <1>14 DEF RotationInv

-----------------------------------------------------------------------------
(* The mark and the arrival of a row                                        *)

(* The camera marked goes behind all others.  Those about to mark it are no *)
(* threat, so that the two counts together are no more than the processes.  *)
LEMMA MarkServedKeeps ==
    ASSUME RotationInv, NEW p \in Processes, MarkServed(p)
    PROVE  RotationInv'
<1>1. PICK u \in Sources : /\ u = TaskSource[poll[p].mark] /\ Restart({u})
                           /\ cursor' = [cursor EXCEPT ![u] = seq + 1]
  <2>1. poll[p].mark \in Tasks
    BY PollFacts DEF MarkServed, RotationInv
  <2>2. TaskSource[poll[p].mark] \in Sources
    BY <2>1, TaskFacts
  <2>. QED  BY <2>2 DEF MarkServed, Served
<1>2. /\ poll[p].mark # NoTask /\ seq' = seq + 1 /\ UNCHANGED <<task, clock, deferrals, faults>>
      /\ Types /\ Owned
  BY DEF MarkServed, RotationInv
<1>. DEFINE c == [poll[p] EXCEPT !.mark = NoTask]
<1>3. /\ c \in PollRec /\ c.stage = poll[p].stage /\ c.turns = poll[p].turns
      /\ c.rows = poll[p].rows /\ c.mark = NoTask
  BY <1>2, PollFacts DEF PollRec
<1>4. poll' = [poll EXCEPT ![p] = c]
  BY DEF MarkServed
<1>. HIDE DEF c
<1>5. poll' \in [Processes -> PollRec] /\ \A q \in Processes : poll'[q] = IF q = p THEN c ELSE poll[q]
  BY <1>2, <1>3, <1>4, PollTyped
<1>6. /\ passed' \in [Sources -> [Sources -> Nat]]
      /\ \A s, t \in Sources : passed'[s][t] = IF s \in {u} THEN 0 ELSE passed[s][t]
  BY <1>1, <1>2, RestartFacts
<1>7. /\ seq \in Nat /\ seq' \in Nat /\ faults \in Nat /\ faults <= faults'
      /\ cursor' \in [Sources -> Nat \cup {NeverServed}]
      /\ cursor'[u] = seq + 1 /\ \A s \in Sources : s # u => cursor'[s] = cursor[s]
  BY <1>1, <1>2, LimitsAssumption DEF Types
<1>8. Types' /\ Owned' /\ \A s \in Sources : ReadyOf(s)' = ReadyOf(s)
  BY <1>2, <1>5, <1>6, <1>7, SameRows DEF Types, Tasks
<1>9. ASSUME Workers = 1 PROVE Fair'
  <2>1. ASSUME NEW s \in Sources PROVE (cursor[s] <= seq)' /\ Waits(s)'
    <3>1. /\ cursor[s] <= seq /\ cursor[s] \in Int /\ passed[s][s] = 0
          /\ ReadyOf(s) = {} => \A t \in Sources : passed[s][t] = 0
      BY <1>9, CountFacts DEF RotationInv, Fair, Waits
    <3>2. (cursor[s] <= seq)'
      BY <1>2, <1>7, <3>1
    <3>. QED  BY <1>6, <1>8, <3>1, <3>2 DEF Waits
  <2>2. ASSUME NEW q \in Processes PROVE OneRow(q)'
    <3>1. OneRow(q)
      BY <1>9 DEF RotationInv, Fair
    <3>. QED  BY <1>3, <1>5, <3>1 DEF OneRow
  <2>3. ASSUME NEW s \in Sources, NEW t \in Sources PROVE Counted(s, t)'
    <3>1. CASE s = u
      BY <1>6, <3>1, NoneCounted
    <3>2. ASSUME s # u
          PROVE  /\ passed'[s][t] = passed[s][t] /\ cursor'[s] = cursor[s]
                 /\ \A q \in Processes : Threat(q, s, t)' => Threat(q, s, t)
                 /\ \A q \in Processes : q \in Pend(t) /\ t # u => q \in Pend(t)'
      <4>1. TopPriority(s)' = TopPriority(s) /\ TopPriority(t)' = TopPriority(t) /\ ReadyOf(t)' = ReadyOf(t)
        BY <1>8, TopFacts
      <4>2. \A q \in Processes : Threat(q, s, t)' => Threat(q, s, t)
        BY <1>3, <1>5, <4>1 DEF Threat, Row
      <4>3. \A q \in Processes : q \in Pend(t) /\ t # u => q \in Pend(t)'
        BY <1>1, <1>5 DEF Pend
      <4>. QED  BY <1>6, <1>7, <3>2, <4>2, <4>3
    <3>3. CASE s # u /\ t # u
      <4>1. passed[s][t] > 0 =>
               /\ \A q \in Processes : Threat(q, s, t)' =>
                      Threat(q, s, t) \/ ~ (cursor[t] > cursor[s]) \/ (q = p /\ faults + 1 <= faults')
               /\ \A q \in Processes : q \in Pend(t) =>
                      q \in Pend(t)' \/ (q = p /\ faults + 1 <= faults')
        BY <3>2, <3>3
      <4>2. cursor'[t] = cursor[t]
        BY <1>7, <3>3
      <4>. QED  BY <1>7, <1>8, <1>9, <3>2, <3>3, <4>1, <4>2, CountStays
    <3>4. CASE s # u /\ t = u
      <4>1. /\ passed[s][t] \in Nat /\ Counted(s, t) /\ cursor[s] <= seq /\ cursor[s] \in Int
            /\ cursor'[t] > cursor'[s]
        BY <1>7, <1>9, <3>2, <3>4, CountFacts
      <4>2. PICK A : A = Threats(s, t) /\ A \subseteq Processes
        BY DEF Threats
      <4>3. PICK B : B = Threats(s, t)' /\ B \subseteq A /\ B \subseteq Processes
        BY <3>2, <3>4, <4>2 DEF Threats
      <4>4. PICK C : C = Pend(t) /\ C \subseteq Processes
        BY DEF Pend
      <4>5. C \cap B = {}
        <5>1. SUFFICES ASSUME NEW q \in Processes, q \in Pend(t), Threat(q, s, t) PROVE FALSE
          BY <4>2, <4>3, <4>4 DEF Threats
        <5>2. OneRow(q) /\ poll[q].mark # NoTask
          BY <1>9, <5>1 DEF RotationInv, Fair, Pend
        <5>. QED  BY <5>1, <5>2 DEF OneRow, Threat
      <4>6. /\ Cardinality(A) \in Nat /\ Cardinality(B) \in Nat /\ Cardinality(C) \in Nat
            /\ Cardinality(Processes) \in Nat /\ Cardinality(B) <= Cardinality(A)
        BY <4>2, <4>3, <4>4, ProcessCount
      <4>7. Cardinality(C) + Cardinality(B) <= Cardinality(Processes)
        BY <4>3, <4>4, <4>5, Apart
      <4>8. passed[s][t] > 0 => passed[s][t] + Cardinality(B) <= Cardinality(Processes) + faults
        <5>1. passed[s][t] > 0 =>
                 IF cursor[t] > cursor[s]
                 THEN passed[s][t] + Cardinality(A) <= Cardinality(Processes) + faults
                 ELSE passed[s][t] <= Cardinality(C) + faults
          BY <4>1, <4>2, <4>4 DEF Counted
        <5>. QED  BY <1>7, <4>1, <4>6, <4>7, <5>1
      <4>. QED  BY <1>2, <3>2, <3>4, <4>1, <4>3, <4>8 DEF Counted
    <3>. QED  BY <3>1, <3>3, <3>4
  <2>. QED  BY <2>1, <2>2, <2>3 DEF Fair
<1>. QED  BY <1>8, <1>9 DEF RotationInv

(* A row arrives: the counts of its camera start over unless it waits at    *)
(* that priority already.                                                   *)
LEMMA BecomeReadyKeeps ==
    ASSUME RotationInv, NEW k \in Tasks, BecomeReady(k)
    PROVE  RotationInv'
<1>1. /\ task[k].status = "later" /\ UNCHANGED <<cursor, seq, poll, deferrals, faults>>
      /\ clock' = clock + 1 /\ Types /\ Owned /\ DOMAIN task = Tasks /\ task[k] \in TaskRec /\ clock \in Nat
  BY DEF BecomeReady, RotationInv, Types
<1>2. PICK u \in Sources : u = TaskSource[k]
  BY TaskFacts
<1>. DEFINE v == [task[k] EXCEPT !.status = "ready", !.due = clock + 1]
<1>3. v \in TaskRec /\ v.status = "ready" /\ v.by = Nobody
  <2>1. task[k].by = Nobody /\ clock + 1 \in Nat
    BY <1>1 DEF Owned
  <2>. QED  BY <1>1, <2>1 DEF TaskRec
<1>4. task' = [task EXCEPT ![k] = v]
  BY <1>1 DEF BecomeReady
<1>. HIDE DEF v
<1>5. /\ task' \in [Tasks -> TaskRec] /\ Owned' /\ task'[k].status = "ready"
      /\ \A j \in Tasks : j # k => task'[j] = task[j]
  BY <1>1, <1>3, <1>4, TaskTyped
<1>6. /\ passed' \in [Sources -> [Sources -> Nat]]
      /\ \A s, t \in Sources :
            \/ passed'[s][t] = 0
            \/ /\ passed'[s][t] = passed[s][t]
               /\ s = u => ReadyOf(u) # {} /\ ~ (TaskPriority[k] > TopPriority(u))
  <2>1. CASE Restart({u})
    BY <1>1, <2>1, RestartFacts
  <2>2. CASE UNCHANGED passed /\ ReadyOf(u) # {} /\ ~ (TaskPriority[k] > TopPriority(u))
    BY <1>1, <2>2 DEF Types
  <2>. QED  BY <1>2, <2>1, <2>2 DEF BecomeReady
<1>7. clock' \in Nat /\ faults \in Nat /\ faults <= faults'
  BY <1>1, LimitsAssumption DEF Types
<1>8. Types'
  BY <1>1, <1>5, <1>6, <1>7 DEF Types, Tasks
<1>9. ReadyOf(u)' = ReadyOf(u) \cup {k} /\ \A s \in Sources : s # u => ReadyOf(s)' = ReadyOf(s)
  BY <1>1, <1>2, <1>5 DEF ReadyOf, Tasks
<1>10. ASSUME Workers = 1 PROVE Fair'
  <2>1. ASSUME NEW s \in Sources PROVE (cursor[s] <= seq)' /\ Waits(s)'
    <3>1. /\ cursor[s] <= seq /\ passed[s][s] = 0
          /\ ReadyOf(s) = {} => \A t \in Sources : passed[s][t] = 0
      BY <1>10 DEF RotationInv, Fair, Waits
    <3>. QED  BY <1>1, <1>6, <1>9, <3>1 DEF Waits
  <2>2. ASSUME NEW q \in Processes PROVE OneRow(q)'
    BY <1>1, <1>10 DEF RotationInv, Fair, OneRow
  <2>3. ASSUME NEW s \in Sources, NEW t \in Sources PROVE Counted(s, t)'
    <3>1. CASE passed'[s][t] = 0
      BY <3>1, NoneCounted
    <3>2. CASE passed'[s][t] = passed[s][t] /\ passed[s][t] = 0
      BY <3>2, NoneCounted
    <3>3. CASE /\ passed'[s][t] = passed[s][t] /\ passed[s][t] # 0
               /\ s = u => ReadyOf(u) # {} /\ ~ (TaskPriority[k] > TopPriority(u))
      <4>1. s # t
        BY <1>10, <3>3 DEF RotationInv, Fair, Waits
      <4>2. TopPriority(s)' = TopPriority(s)
        <5>1. CASE s # u
          BY <1>9, <5>1, TopFacts
        <5>2. CASE s = u
          <6>1. /\ TaskPriority[k] \in Nat /\ TopPriority(u) \in Nat
                /\ \A j \in ReadyOf(u) : TaskPriority[j] <= TopPriority(u)
                /\ \E j \in ReadyOf(u) : TaskPriority[j] = TopPriority(u)
            BY <3>3, <5>2, TopFacts, TaskFacts
          <6>2. /\ TopPriority(u)' \in Nat /\ \A j \in ReadyOf(u)' : TaskPriority[j] <= TopPriority(u)'
                /\ \E j \in ReadyOf(u)' : TaskPriority[j] = TopPriority(u)'
            BY <1>9, TopFacts
          <6>3. TaskPriority[k] <= TopPriority(u)
            BY <3>3, <5>2, <6>1
          <6>4. TopPriority(u)' <= TopPriority(u)
            BY <1>9, <6>1, <6>2, <6>3
          <6>5. TopPriority(u) <= TopPriority(u)'
            BY <1>9, <6>1, <6>2
          <6>. QED  BY <5>2, <6>1, <6>2, <6>4, <6>5
        <5>. QED  BY <5>1, <5>2
      <4>3. \/ ReadyOf(t)' = ReadyOf(t)
            \/ ReadyOf(t)' # {} /\ ~ (TopPriority(t)' <= TopPriority(s))
            \/ ReadyOf(t) = {} \/ TopPriority(t) <= TopPriority(s)
        <5>1. CASE t # u
          BY <1>9, <5>1
        <5>2. CASE t = u /\ ReadyOf(t) # {} /\ ~ (TopPriority(t) <= TopPriority(s))
          <6>1. ReadyOf(s) # {} /\ TopPriority(s) \in Nat
            BY <1>10, <3>3, CountFacts, TopFacts DEF Waits
          <6>2. TopPriority(t) \in Nat /\ \E j \in ReadyOf(t) : TaskPriority[j] = TopPriority(t)
            BY <5>2, TopFacts
          <6>3. /\ ReadyOf(t)' # {} /\ TopPriority(t)' \in Nat
                /\ \A j \in ReadyOf(t)' : TaskPriority[j] <= TopPriority(t)'
            BY <1>9, <5>2, TopFacts
          <6>4. TopPriority(t) <= TopPriority(t)'
            BY <1>9, <5>2, <6>2, <6>3
          <6>. QED  BY <5>2, <6>1, <6>2, <6>3, <6>4
        <5>3. CASE t = u /\ (ReadyOf(t) = {} \/ TopPriority(t) <= TopPriority(s))
          BY <5>3
        <5>. QED  BY <5>1, <5>2, <5>3
      <4>4. \A q : Threat(q, s, t)' => Threat(q, s, t)
        BY <1>1, <4>2, <4>3, ThreatKept
      <4>5. \A q : q \in Pend(t) => q \in Pend(t)'
        BY <1>1 DEF Pend
      <4>6. passed[s][t] > 0 =>
               /\ \A q \in Processes : Threat(q, s, t)' =>
                      Threat(q, s, t) \/ ~ (cursor[t] > cursor[s]) \/ (q = Nobody /\ faults + 1 <= faults')
               /\ \A q \in Processes : q \in Pend(t) =>
                      q \in Pend(t)' \/ (q = Nobody /\ faults + 1 <= faults')
        BY <4>4, <4>5
      <4>7. cursor'[s] = cursor[s] /\ cursor'[t] = cursor[t] /\ Nobody \in Processes \cup {Nobody}
        BY <1>1
      <4>. QED  BY <1>7, <1>8, <1>10, <3>3, <4>6, <4>7, CountStays
    <3>. QED  BY <1>6, <3>1, <3>2, <3>3
  <2>. QED  BY <2>1, <2>2, <2>3 DEF Fair
<1>. QED  BY <1>5, <1>8, <1>10 DEF RotationInv

-----------------------------------------------------------------------------
(* The invariant and the theorems                                           *)

(* No rows, no polls, nothing counted.                                      *)
LEMMA InitRotation == Init => RotationInv
<1>. SUFFICES ASSUME Init PROVE RotationInv
  OBVIOUS
<1>1. 0 \in 0..MaxDeferrals /\ 0 \in 0..MaxFaults /\ 0 \in 0..Workers /\ <<>> \in Seq(Tasks)
  BY LimitsAssumption
<1>2. NoPoll \in PollRec /\ NoPoll.stage = "idle" /\ NoPoll.rows = <<>> /\ NoPoll.mark = NoTask
  BY <1>1 DEF PollRec, NoPoll
<1>3. \A s, t \in Sources : passed[s][t] = 0
  BY DEF Init
<1>4. Types
  <2>1. task \in [Tasks -> TaskRec]
    BY DEF Init, TaskRec
  <2>2. poll \in [Processes -> PollRec]
    BY <1>2 DEF Init
  <2>3. passed \in [Sources -> [Sources -> Nat]] /\ cursor \in [Sources -> Nat \cup {NeverServed}]
    BY DEF Init
  <2>. QED  BY <1>1, <2>1, <2>2, <2>3 DEF Types, Init
<1>5. Owned
  BY DEF Init, Owned
<1>6. \A s \in Sources : cursor[s] <= seq /\ Waits(s)
  BY <1>3 DEF Init, NeverServed, Waits
<1>7. \A p \in Processes : OneRow(p)
  <2>1. Len(<<>>) <= 1
    OBVIOUS
  <2>2. \A p \in Processes : poll[p] = NoPoll
    BY DEF Init
  <2>. QED  BY <1>2, <2>1, <2>2 DEF OneRow
<1>8. \A s, t \in Sources : Counted(s, t)
  BY <1>3 DEF Counted
<1>. QED  BY <1>4, <1>5, <1>6, <1>7, <1>8 DEF RotationInv, Fair

(* A step of nobody.                                                        *)
LEMMA StutterRotation == RotationInv /\ UNCHANGED vars => RotationInv'
<1>. SUFFICES ASSUME RotationInv, UNCHANGED vars PROVE RotationInv'
  OBVIOUS
<1>1. /\ task' = task /\ clock' = clock /\ cursor' = cursor /\ seq' = seq /\ poll' = poll
      /\ deferrals' = deferrals /\ faults' = faults /\ passed' = passed
  BY DEF vars
<1>2. Types' /\ Owned'
  BY <1>1 DEF RotationInv, Types, Owned, Tasks
<1>3. \A s : ReadyOf(s)' = ReadyOf(s) /\ TopPriority(s)' = TopPriority(s)
  BY <1>1, TopFacts DEF ReadyOf, Tasks
<1>4. \A s, t : Threats(s, t)' = Threats(s, t) /\ Pend(t)' = Pend(t)
  BY <1>1, <1>3 DEF Threats, Threat, Row, Pend
<1>5. Fair => Fair'
  BY <1>1, <1>3, <1>4 DEF Fair, Waits, OneRow, Counted
<1>. QED  BY <1>2, <1>5 DEF RotationInv

(* RotationInv is inductive.                                                *)
LEMMA NextRotation == RotationInv /\ [Next]_vars => RotationInv'
<1>. SUFFICES ASSUME RotationInv, Next PROVE RotationInv'
  BY StutterRotation
<1>1. ASSUME NEW k \in Tasks, BecomeReady(k) PROVE RotationInv'
  BY <1>1, BecomeReadyKeeps
<1>2. ASSUME NEW p \in Processes, BeginPoll(p) \/ BeginPollUnturned(p) \/ Fetch(p) PROVE RotationInv'
  BY <1>2, BeginPollKeeps, BeginPollUnturnedKeeps, FetchKeeps
<1>3. ASSUME NEW p \in Processes, EndPoll(p) \/ NoPermit(p) \/ SkipRow(p) PROVE RotationInv'
  BY <1>3, EndPollKeeps, SkipRowKeeps
<1>4. ASSUME NEW p \in Processes, Claim(p) \/ DeferAtClaim(p) PROVE RotationInv'
  BY <1>4, ClaimKeeps, DeferAtClaimKeeps
<1>5. ASSUME NEW p \in Processes, MarkServed(p) \/ MarkFails(p) PROVE RotationInv'
  BY <1>5, MarkServedKeeps, MarkFailsKeeps
<1>6. ASSUME NEW p \in Processes, NEW k \in Tasks, Settle(p, k) PROVE RotationInv'
  BY <1>6, SettleKeeps
<1>. QED  BY <1>1, <1>2, <1>3, <1>4, <1>5, <1>6, StutterRotation DEF Next

(* RotationInv holds in every state of the rotation.                        *)
LEMMA RotationInvHolds == Spec => []RotationInv
  BY InitRotation, NextRotation, PTL DEF Spec

(* Rows, cursors and polls stay within their types.                         *)
THEOREM TypeCorrect == Spec => []TypeOK
<1>1. RotationInv => TypeOK
  <2>1. Types => TypeOK
    <3>. SUFFICES ASSUME Types PROVE TypeOK
      OBVIOUS
    <3>1. ASSUME NEW p \in Processes
          PROVE  /\ poll[p].stage \in {"idle", "turns", "rows"} /\ poll[p].turns \subseteq Sources
                 /\ poll[p].rows \in Seq(Tasks) /\ poll[p].left \in 0..Workers
                 /\ poll[p].mark \in Tasks \cup {NoTask}
      BY PollFacts DEF PollRec
    <3>. QED  BY <3>1 DEF Types, TypeOK, TaskRec
  <2>. QED  BY <2>1 DEF RotationInv
<1>. QED  BY <1>1, RotationInvHolds, PTL

(* source_rotation.py with one remux worker per process: however many       *)
(* cameras, processes and rows there are and whatever their priorities, a   *)
(* waiting camera is overtaken by another one at most once per process, and *)
(* once more per rotation statement that fails.                             *)
THEOREM BoundedOvertakingHolds == Spec => []BoundedOvertaking
<1>1. RotationInv => BoundedOvertaking
  <2>. SUFFICES ASSUME RotationInv, Workers = 1, NEW s \in Sources, NEW t \in Sources
                PROVE  passed[s][t] <= Cardinality(Processes) + faults
    BY DEF BoundedOvertaking
  <2>1. passed[s][t] \in Nat /\ faults \in Nat /\ Counted(s, t)
    BY CountFacts
  <2>2. PICK A : A = Threats(s, t) /\ A \subseteq Processes
    BY DEF Threats
  <2>3. PICK C : C = Pend(t) /\ C \subseteq Processes
    BY DEF Pend
  <2>4. /\ Cardinality(A) \in Nat /\ Cardinality(C) \in Nat /\ Cardinality(Processes) \in Nat
        /\ Cardinality(C) <= Cardinality(Processes)
    BY <2>2, <2>3, ProcessCount
  <2>5. passed[s][t] > 0 => IF cursor[t] > cursor[s]
                            THEN passed[s][t] + Cardinality(A) <= Cardinality(Processes) + faults
                            ELSE passed[s][t] <= Cardinality(C) + faults
    BY <2>1, <2>2, <2>3 DEF Counted
  <2>. QED  BY <2>1, <2>4, <2>5
<1>. QED  BY <1>1, RotationInvHolds, PTL
=============================================================================
