----------------------- MODULE EventIngestion_proofs -----------------------
(***************************************************************************)
(* Proofs about EventIngestion, for every number of workers, every stream  *)
(* and every policy: an event is announced and recorded at most once, a    *)
(* message leaves the pending entries list only when its row is stored,    *)
(* suppression has a cause, and no stored event loses its evidence task    *)
(* without a fault.                                                        *)
(*                                                                         *)
(* All of it rests on one fact, OneInserter: of all the handlers that work *)
(* on deliveries of one event, at most one has got an id from insert_event *)
(* (new), and only that one goes on to announce, create and record.  Fits  *)
(* says what such a handler may still rely on at each of its labels.       *)
(***************************************************************************)
EXTENDS EventIngestion, FiniteSetTheorems, TLAPS

Proc == [pc : Labels, turn : Labels, batch : Seq(Msgs), new : BOOLEAN,
         allowed : BOOLEAN, status : TaskStatuses]
Memory == [published : Nat, last : [Keys -> Nat]]

Polls == {"pollPending", "pollNew"}
Early == {"policy", "suppress", "admit", "create"}
Late == {"gate", "append", "clip", "ack"}

Cur(p) == Stream[Head(p.batch)]

(* A handler by itself.                                                     *)
ProcOK(p) ==
    /\ p.turn \in Polls
    /\ p.pc \in Early \cup Late \cup {"insert"} <=> p.batch # <<>>
    /\ p.new => p.pc \in Early \cup Late
    /\ p.pc \in Early => p.new
    /\ p.status # None => p.new /\ p.pc \in Late
    /\ p.pc \in {"append", "clip"} => p.status = "materialization_pending"

HasCause(s) ==
    \E e \in Sids \ {s} :
        /\ events[e] # None /\ KeyOf[e] = KeyOf[s]
        /\ TsOf[e] <= TsOf[s] /\ TsOf[s] - TsOf[e] < AlertCooldown

(* A handler and the rows of its event.                                     *)
FitsAt(p, s) ==
    /\ p.pc \in Early \cup Late => events[s] # None
    /\ p.pc \in {"policy", "suppress"} => alerts[s] = 0 /\ events[s] = "new"
    /\ p.pc = "suppress" => HasCause(s)
    /\ p.new /\ p.pc \in Early \cup {"gate", "append"} => requests[s] = 0
    /\ p.status = "materialization_pending" /\ p.pc \in {"gate", "append"} =>
          task[s] \in {"materialization_pending", "ended"}
    /\ p.new /\ p.pc \in Late => task[s] # None \/ s \in cut \/ events[s] = "suppressed"

Fits(p) == p.batch # <<>> => FitsAt(p, Cur(p))

(* At most one handler has inserted the event it works on.                  *)
OneInserter ==
    \A v, w \in Workers : proc[v].new /\ proc[w].new /\ Current(v) = Current(w) => v = w

RowOK(s) ==
    /\ alerts[s] <= 1 /\ (alerts[s] # 0 => events[s] = "new")
    /\ requests[s] <= 1
    /\ requests[s] # 0 => events[s] # None /\ task[s] \in {"materialization_pending", "ended"}
    /\ events[s] = "suppressed" => HasCause(s)

Handlers == \A w \in Workers : ProcOK(proc[w]) /\ Fits(proc[w])
Rows == \A s \in Sids : RowOK(s)
NoGroupNoList == ~ group => \A m \in Msgs : pel[m] = None

IngestInv ==
    TypeOK /\ Handlers /\ OneInserter /\ Rows /\ EvidenceAccounted /\ NoGroupNoList

-----------------------------------------------------------------------------
(* Batches                                                                  *)

(* The length of the stream is a number, and each of its messages an event. *)
LEMMA StreamFacts ==
    /\ Len(Stream) \in Nat /\ \A m \in Msgs : Stream[m] \in Sids
    /\ IsFiniteSet(Msgs)
<1>1. Len(Stream) \in Nat /\ \A m \in Msgs : Stream[m] \in Sids
  BY StreamAssumption DEF Msgs
<1>2. IsFiniteSet(Msgs)
  BY <1>1, FS_Interval DEF Msgs
<1>. QED  BY <1>1, <1>2

(* InOrder lists messages: the rank of a message in S, the number of        *)
(* messages up to it, is an injection of S into 1..Cardinality(S), and so a *)
(* surjection.                                                              *)
LEMMA InOrderSeq ==
    ASSUME NEW S \in SUBSET Msgs
    PROVE  InOrder(S) \in Seq(Msgs)
<1>. DEFINE Upto(m) == {n \in S : n <= m}
            N == Cardinality(S)
            rank == [m \in S |-> Cardinality(Upto(m))]
<1>1. IsFiniteSet(S) /\ N \in Nat /\ S \subseteq Nat
  <2>1. IsFiniteSet(S)
    BY StreamFacts, FS_Subset
  <2>2. Msgs \subseteq Nat
    BY StreamFacts DEF Msgs
  <2>. QED  BY <2>1, <2>2, FS_CardinalityType
<1>2. \A m \in S : /\ IsFiniteSet(Upto(m)) /\ Cardinality(Upto(m)) \in Nat
                   /\ Cardinality(Upto(m)) <= N /\ Upto(m) \subseteq S /\ m \in Upto(m)
  <2>1. SUFFICES ASSUME NEW m \in S
                 PROVE  /\ IsFiniteSet(Upto(m)) /\ Cardinality(Upto(m)) \in Nat
                        /\ Cardinality(Upto(m)) <= N /\ Upto(m) \subseteq S /\ m \in Upto(m)
    OBVIOUS
  <2>2. Upto(m) \subseteq S /\ m \in Upto(m)
    BY <1>1
  <2>. HIDE DEF Upto
  <2>. QED  BY <1>1, <2>2, FS_Subset, FS_CardinalityType
<1>3. \A m \in S : Cardinality(Upto(m)) \in 1..N
  <2>1. SUFFICES ASSUME NEW m \in S PROVE Cardinality(Upto(m)) # 0
    BY <1>1, <1>2
  <2>. HIDE DEF Upto
  <2>. QED  BY <1>2, FS_EmptySet
<1>4. \A m, n \in S : m < n => Cardinality(Upto(m)) # Cardinality(Upto(n))
  <2>1. SUFFICES ASSUME NEW m \in S, NEW n \in S, m < n, Cardinality(Upto(m)) = Cardinality(Upto(n))
                 PROVE  FALSE
    OBVIOUS
  <2>2. Upto(m) \subseteq Upto(n) /\ n \notin Upto(m) /\ n \in Upto(n)
    <3>1. \A k \in S : k <= m => k <= n
      BY <1>1, <2>1
    <3>2. ~ (n <= m)
      BY <1>1, <2>1
    <3>. QED  BY <1>2, <3>1, <3>2
  <2>. HIDE DEF Upto
  <2>3. Upto(m) = Upto(n)
    BY <1>2, <2>1, <2>2, FS_Subset
  <2>. QED  BY <2>2, <2>3
<1>5. \A m, n \in S : rank[m] = rank[n] => m = n
  <2>1. \A m, n \in S : m = n \/ m < n \/ n < m
    BY <1>1
  <2>. HIDE DEF Upto
  <2>. QED  BY <1>4, <2>1
<1>. HIDE DEF Upto
<1>6. rank \in Injection(S, 1..N)
  BY <1>3, <1>5 DEF Injection, IsInjective
<1>7. IsFiniteSet(1..N) /\ Cardinality(1..N) = N
  BY <1>1, FS_Interval
<1>. HIDE DEF rank
<1>8. rank \in Surjection(S, 1..N)
  BY <1>6, <1>7, FS_Injection
<1>9. \A i \in 1..N : \E m \in S : rank[m] = i
  BY <1>8 DEF Surjection
<1>10. \A i \in 1..N : \E m \in S : Cardinality({n \in S : n <= m}) = i
  BY <1>9 DEF rank, Upto
<1>11. \A i \in 1..N : (CHOOSE m \in S : Cardinality({n \in S : n <= m}) = i) \in S
  BY <1>10
<1>. DEFINE f == [i \in 1..N |-> CHOOSE m \in S : Cardinality({n \in S : n <= m}) = i]
<1>12. f \in [1..N -> Msgs]
  <2>. HIDE DEF N
  <2>. QED  BY <1>11
<1>13. f \in Seq(Msgs)
  <2>. HIDE DEF f, N
  <2>. QED  BY <1>1, <1>12
<1>. QED  BY <1>13 DEF InOrder

(* A handler that has not inserted anything.                                *)
FreshProc(p) == p \in Proc /\ ProcOK(p) /\ ~ p.new /\ p.pc \notin Early \cup Late

(* The next message of a batch, or the next read.                           *)
LEMMA BeginFresh ==
    ASSUME NEW b \in Seq(Msgs), NEW t \in Polls
    PROVE  FreshProc(Begin(b, t))
<1>1. Begin(b, t) \in Proc
  BY DEF Begin, Idle, Proc, Labels, Polls, TaskStatuses
<1>2. ProcOK(Begin(b, t)) /\ ~ Begin(b, t).new /\ Begin(b, t).pc \notin Early \cup Late
  BY DEF Begin, Idle, ProcOK, Polls, Early, Late
<1>. QED  BY <1>1, <1>2 DEF FreshProc

(* A process that has no batch.                                             *)
LEMMA IdleFresh == FreshProc(Idle) /\ FreshProc([Idle EXCEPT !.pc = "down"])
<1>1. Idle \in Proc /\ [Idle EXCEPT !.pc = "down"] \in Proc
  <2>1. <<>> \in Seq(Msgs)
    OBVIOUS
  <2>2. Idle \in Proc
    BY <2>1 DEF Idle, Proc, Labels, TaskStatuses
  <2>3. \A p \in Proc : [p EXCEPT !.pc = "down"] \in Proc
    BY DEF Proc, Labels
  <2>. QED  BY <2>2, <2>3
<1>2. ProcOK(Idle) /\ ~ Idle.new /\ Idle.pc \notin Early \cup Late
  BY DEF Idle, ProcOK, Polls, Early, Late
<1>3. /\ ProcOK([Idle EXCEPT !.pc = "down"]) /\ ~ [Idle EXCEPT !.pc = "down"].new
      /\ [Idle EXCEPT !.pc = "down"].pc \notin Early \cup Late
  BY DEF Idle, ProcOK, Polls, Early, Late
<1>. QED  BY <1>1, <1>2, <1>3 DEF FreshProc

(* The rest of a batch.                                                     *)
LEMMA RestFresh ==
    ASSUME TypeOK, NEW w \in Workers, ProcOK(proc[w]), proc[w].batch # <<>>
    PROVE  FreshProc(Rest(w))
<1>1. Tail(proc[w].batch) \in Seq(Msgs) /\ proc[w].turn \in Polls
  BY DEF TypeOK, ProcOK
<1>. QED  BY <1>1, BeginFresh DEF Rest

-----------------------------------------------------------------------------
(* Types                                                                    *)

RedisOK ==
    /\ produced \in 0..Len(Stream) /\ last \in 0..produced /\ group \in BOOLEAN
    /\ pel \in [Msgs -> Workers \cup {None}] /\ skipped \subseteq Msgs

TableOK ==
    /\ events \in [Sids -> {None, "new", "suppressed"}] /\ clip \in [Sids -> ClipStatuses]
    /\ task \in [Sids -> TaskStatuses] /\ alerts \in [Sids -> Nat] /\ requests \in [Sids -> Nat]
    /\ dedupe \subseteq Sids /\ cut \subseteq Sids

LocalOK == mem \in [Workers -> Memory] /\ rolling \in BOOLEAN /\ faults \in 0..MaxFaults

ProcsOK == proc \in [Workers -> Proc]

(* The parts of the type invariant.                                         *)
LEMMA TypeSplit == TypeOK <=> RedisOK /\ TableOK /\ LocalOK /\ ProcsOK
  BY DEF TypeOK, RedisOK, TableOK, LocalOK, ProcsOK, Proc, Memory

(* What the invariant says of one worker and its event.                     *)
LEMMA WorkerFacts ==
    ASSUME IngestInv, NEW w \in Workers
    PROVE  /\ proc[w] \in Proc /\ ProcOK(proc[w]) /\ Fits(proc[w]) /\ Current(w) = Cur(proc[w])
           /\ proc[w].batch # <<>> => Current(w) \in Sids /\ Head(proc[w].batch) \in Msgs /\ FitsAt(proc[w], Current(w))
           /\ proc[w].new => proc[w].batch # <<>>
<1>1. proc[w] \in Proc /\ ProcOK(proc[w]) /\ Fits(proc[w]) /\ Current(w) = Cur(proc[w])
  BY TypeSplit DEF IngestInv, ProcsOK, Handlers, Current, Cur
<1>2. ASSUME proc[w].batch # <<>> PROVE Current(w) \in Sids /\ Head(proc[w].batch) \in Msgs
  <2>1. proc[w].batch \in Seq(Msgs)
    BY <1>1 DEF Proc
  <2>2. Head(proc[w].batch) \in Msgs
    BY <1>2, <2>1
  <2>. QED  BY <2>2, StreamFacts DEF Current
<1>. QED  BY <1>1, <1>2 DEF Fits, ProcOK

-----------------------------------------------------------------------------
(* Steps                                                                    *)

(* A cause that is stored stays a cause.                                    *)
LEMMA CauseStays ==
    ASSUME \A t \in Sids : events[t] # None => events'[t] # None
    PROVE  \A s \in Sids : HasCause(s) => HasCause(s)'
  BY DEF HasCause

(* A worker that is not moving, at an event whose rows do not change.       *)
LEMMA FitsStays ==
    ASSUME NEW p, NEW t \in Sids, FitsAt(p, t),
           \A u \in Sids : events[u] # None => events'[u] # None,
           events'[t] = events[t], alerts'[t] = alerts[t], requests'[t] = requests[t],
           task'[t] = task[t] \/ (task[t] = "materialization_pending" /\ task'[t] = "ended"),
           cut \subseteq cut'
    PROVE  FitsAt(p, t)'
<1>1. HasCause(t) => HasCause(t)'
  BY CauseStays
<1>. QED  BY <1>1 DEF FitsAt, None

(* The same of the rows themselves.                                         *)
LEMMA RowStays ==
    ASSUME NEW t \in Sids, RowOK(t),
           \A u \in Sids : events[u] # None => events'[u] # None,
           events'[t] = events[t], alerts'[t] = alerts[t], requests'[t] = requests[t],
           task'[t] = task[t] \/ (task[t] = "materialization_pending" /\ task'[t] = "ended")
    PROVE  RowOK(t)'
<1>1. HasCause(t) => HasCause(t)'
  BY CauseStays
<1>. QED  BY <1>1 DEF RowOK

(* What a step of the handlers must keep.                                   *)
Core == ProcsOK /\ Handlers /\ OneInserter /\ Rows /\ EvidenceAccounted

(* The environment ends a task, if anything.                                *)
LEMMA EnvStep ==
    ASSUME IngestInv, UNCHANGED <<proc, events, alerts, requests, cut>>,
           \A t \in Sids : task'[t] = task[t] \/ (task[t] = "materialization_pending" /\ task'[t] = "ended")
    PROVE  Core'
<1>1. ProcsOK'
  BY TypeSplit DEF IngestInv, ProcsOK
<1>2. Handlers'
  <2>1. SUFFICES ASSUME NEW w \in Workers PROVE ProcOK(proc[w])' /\ Fits(proc[w])'
    BY DEF Handlers
  <2>2. ProcOK(proc[w])'
    BY WorkerFacts DEF ProcOK
  <2>3. proc[w].batch # <<>> => Cur(proc[w]) \in Sids /\ FitsAt(proc[w], Cur(proc[w]))
    BY WorkerFacts
  <2>4. proc[w].batch # <<>> => FitsAt(proc[w], Cur(proc[w]))'
    <3>1. PICK p : p = proc[w] /\ p = proc'[w]
      OBVIOUS
    <3>2. SUFFICES ASSUME p.batch # <<>>, NEW t \in Sids, t = Cur(p), FitsAt(p, t) PROVE FitsAt(p, t)'
      BY <2>3, <3>1 DEF FitsAt, Cur, HasCause
    <3>. QED  BY <3>2, FitsStays
  <2>. QED  BY <2>2, <2>4 DEF Fits
<1>3. OneInserter'
  BY DEF IngestInv, OneInserter, Current
<1>4. Rows'
  BY RowStays DEF IngestInv, Rows
<1>5. EvidenceAccounted'
  BY DEF IngestInv, EvidenceAccounted, Current, None
<1>. QED  BY <1>1, <1>2, <1>3, <1>4, <1>5 DEF Core

(* A worker that has not inserted the event it works on has nothing to fit. *)
LEMMA FreshFits ==
    ASSUME NEW p, NEW t, FreshProc(p)
    PROVE  FitsAt(p, t)'
  BY DEF FreshProc, FitsAt, Early, Late

(* The other workers keep fitting while the rows of their events change in  *)
(* no way that matters to them.                                             *)
LEMMA OthersFit ==
    ASSUME IngestInv, NEW w \in Workers, NEW p, proc' = [proc EXCEPT ![w] = p],
           p \in Proc, ProcOK(p), p.batch # <<>> => FitsAt(p, Cur(p))',
           \A v \in Workers \ {w} :
               proc[v].batch # <<>> => FitsAt(proc[v], Cur(proc[v]))'
    PROVE  ProcsOK' /\ Handlers'
<1>1. proc \in [Workers -> Proc]
  BY TypeSplit DEF IngestInv, ProcsOK
<1>2. proc'[w] = p /\ \A v \in Workers \ {w} : proc'[v] = proc[v]
  BY <1>1
<1>3. ProcsOK'
  BY <1>1 DEF ProcsOK
<1>4. SUFFICES ASSUME NEW v \in Workers PROVE ProcOK(proc[v])' /\ Fits(proc[v])'
  BY <1>3 DEF Handlers
<1>5. CASE v = w
  <2>1. PICK q : q = p /\ q = proc'[v]
    BY <1>2, <1>5
  <2>2. ProcOK(q) /\ (q.batch # <<>> => FitsAt(q, Cur(q))')
    BY <2>1
  <2>3. ProcOK(proc[v])'
    BY <2>1, <2>2, SMTT(30) DEF ProcOK
  <2>4. Fits(proc[v])'
    BY <2>1, <2>2, ZenonT(40) DEF Fits, FitsAt, Cur, HasCause
  <2>. QED  BY <2>3, <2>4
<1>6. CASE v # w
  <2>1. PICK q : q = proc[v] /\ q = proc'[v]
    BY <1>2, <1>6
  <2>2. ProcOK(q) /\ (q.batch # <<>> => FitsAt(q, Cur(q))')
    BY <2>1, <1>6, WorkerFacts DEF FitsAt, Cur, HasCause
  <2>3. ProcOK(proc[v])'
    BY <2>1, <2>2 DEF ProcOK
  <2>4. Fits(proc[v])'
    BY <2>1, <2>2, ZenonT(40) DEF Fits, FitsAt, Cur, HasCause
  <2>. QED  BY <2>3, <2>4
<1>. QED  BY <1>5, <1>6

(* A worker drops what it worked on: it starts, reads, goes on to the next  *)
(* message, or stops.                                                       *)
LEMMA FreshStep ==
    ASSUME IngestInv, NEW w \in Workers, NEW p, FreshProc(p), proc' = [proc EXCEPT ![w] = p],
           UNCHANGED <<events, task, alerts, requests>>, cut \subseteq cut',
           proc[w].new => \/ events[Current(w)] # "new" \/ task[Current(w)] # None
                          \/ Current(w) \in cut'
    PROVE  Core'
<1>1. proc \in [Workers -> Proc]
  BY TypeSplit DEF IngestInv, ProcsOK
<1>2. proc'[w] = p /\ \A v \in Workers \ {w} : proc'[v] = proc[v]
  BY <1>1
<1>3. ProcsOK' /\ Handlers'
  <2>1. p.batch # <<>> => FitsAt(p, Cur(p))'
    BY FreshFits
  <2>2. ASSUME NEW v \in Workers \ {w}, proc[v].batch # <<>> PROVE FitsAt(proc[v], Cur(proc[v]))'
    <3>1. PICK q : q = proc[v] /\ q = proc'[v]
      BY <1>2
    <3>2. Cur(q) \in Sids /\ FitsAt(q, Cur(q))
      BY <2>2, <3>1, WorkerFacts
    <3>3. SUFFICES ASSUME NEW t \in Sids, t = Cur(q), FitsAt(q, t) PROVE FitsAt(q, t)'
      BY <3>1, <3>2 DEF FitsAt, Cur, HasCause
    <3>. QED  BY <3>3, FitsStays
  <2>. QED  BY <2>1, <2>2, OthersFit DEF FreshProc
<1>4. OneInserter'
  <2>1. ~ p.new
    BY DEF FreshProc
  <2>. QED  BY <1>2, <2>1 DEF IngestInv, OneInserter, Current
<1>5. Rows'
  BY RowStays DEF IngestInv, Rows
<1>6. EvidenceAccounted'
  <2>1. SUFFICES ASSUME NEW s \in Sids, events'[s] = "new", task'[s] = None, s \notin cut'
                 PROVE  \E v \in Workers : proc'[v].new /\ proc'[v].batch # <<>> /\ Current(v)' = s
    BY DEF EvidenceAccounted
  <2>2. PICK v \in Workers : proc[v].new /\ proc[v].batch # <<>> /\ Current(v) = s
    BY <2>1 DEF IngestInv, EvidenceAccounted
  <2>3. v # w
    BY <2>1, <2>2
  <2>. QED  BY <1>2, <2>2, <2>3 DEF Current
<1>. QED  BY <1>3, <1>4, <1>5, <1>6 DEF Core

(* The handler of worker w makes a step at its event: no other row changes, *)
(* the rows of the event change only in the hands of its inserter, and the  *)
(* event is accounted for afterwards.                                       *)
LEMMA MoveStep ==
    ASSUME IngestInv, NEW w \in Workers, NEW p, proc' = [proc EXCEPT ![w] = p],
           p \in Proc, ProcOK(p), p.batch = proc[w].batch, p.batch # <<>>,
           NEW s \in Sids, s = Current(w), FitsAt(p, s)', RowOK(s)',
           \A t \in Sids : events[t] # None => events'[t] # None,
           \A t \in Sids \ {s} : /\ events'[t] = events[t] /\ alerts'[t] = alerts[t]
                                 /\ requests'[t] = requests[t] /\ task'[t] = task[t],
           cut \subseteq cut',
           p.new => proc[w].new \/ events[s] = None,
           \/ proc[w].new \/ events[s] = None
           \/ /\ events'[s] = events[s] /\ alerts'[s] = alerts[s]
              /\ requests'[s] = requests[s] /\ task'[s] = task[s],
           events'[s] = "new" /\ task'[s] = None /\ s \notin cut' =>
               p.new \/ (~ proc[w].new /\ events'[s] = events[s] /\ task'[s] = task[s])
    PROVE  Core'
<1>1. proc \in [Workers -> Proc]
  BY TypeSplit DEF IngestInv, ProcsOK
<1>2. proc'[w] = p /\ \A v \in Workers \ {w} : proc'[v] = proc[v]
  BY <1>1, SMTT(30)
<1>3. Cur(p) = s
  BY DEF Current, Cur
<1>4. \A v \in Workers \ {w} : proc[v].new /\ proc[v].batch # <<>> /\ Cur(proc[v]) = s =>
          ~ proc[w].new /\ events[s] # None
  <2>1. SUFFICES ASSUME NEW v \in Workers \ {w}, proc[v].new, proc[v].batch # <<>>, Cur(proc[v]) = s
                 PROVE  ~ proc[w].new /\ events[s] # None
    OBVIOUS
  <2>2. Current(v) = s /\ FitsAt(proc[v], s) /\ ProcOK(proc[v])
    BY <2>1, WorkerFacts
  <2>3. events[s] # None
    BY <2>1, <2>2 DEF FitsAt, ProcOK
  <2>4. ~ proc[w].new
    BY <2>1, <2>2 DEF IngestInv, OneInserter
  <2>. QED  BY <2>3, <2>4
<1>5. ProcsOK' /\ Handlers'
  <2>1. p.batch # <<>> => FitsAt(p, Cur(p))'
    BY <1>3 DEF FitsAt, HasCause
  <2>2. ASSUME NEW v \in Workers \ {w}, proc[v].batch # <<>> PROVE FitsAt(proc[v], Cur(proc[v]))'
    <3>1. PICK q : q = proc[v] /\ q = proc'[v]
      BY <1>2
    <3>2. Cur(q) \in Sids /\ FitsAt(q, Cur(q)) /\ ProcOK(q) /\ q.batch # <<>>
      BY <2>2, <3>1, WorkerFacts
    <3>3. SUFFICES ASSUME NEW t \in Sids, t = Cur(q), FitsAt(q, t) PROVE FitsAt(q, t)'
      BY <3>1, <3>2 DEF FitsAt, Cur, HasCause
    <3>4. CASE events'[t] = events[t] /\ alerts'[t] = alerts[t]
               /\ requests'[t] = requests[t] /\ task'[t] = task[t]
      BY <3>3, <3>4, FitsStays
    <3>5. CASE t = s /\ (proc[w].new \/ events[s] = None)
      <4>1. ~ q.new
        BY <1>4, <3>1, <3>2, <3>3, <3>5
      <4>2. q.pc \notin Early /\ q.status = None
        BY <3>2, <4>1 DEF ProcOK
      <4>3. q.pc \in Late => events'[t] # None
        BY <3>3 DEF FitsAt
      <4>. QED  BY <4>1, <4>2, <4>3 DEF FitsAt, None, Early
    <3>. QED  BY <3>4, <3>5
  <2>. QED  BY <2>1, <2>2, OthersFit
<1>6. OneInserter'
  <2>1. SUFFICES ASSUME NEW v \in Workers, v # w, proc'[v].new, p.new, Current(v)' = s
                 PROVE  FALSE
    <3>1. SUFFICES ASSUME NEW u \in Workers, NEW v \in Workers, u # v, proc'[u].new, proc'[v].new,
                          Current(u)' = Current(v)'
                   PROVE  FALSE
      BY SMTT(30) DEF OneInserter
    <3>2. Current(w)' = s
      BY <1>2, <1>3 DEF Current, Cur
    <3>3. CASE u # w /\ v # w
      <4>1. proc'[u] = proc[u] /\ proc'[v] = proc[v]
        BY <1>2, <3>3, SMTT(30)
      <4>2. Current(u) = Current(v) /\ proc[u].new /\ proc[v].new
        BY <3>1, <4>1 DEF Current
      <4>. QED  BY <3>1, <4>2 DEF IngestInv, OneInserter
    <3>. QED  BY <1>2, <2>1, <3>1, <3>2, <3>3
  <2>2. proc[v].new /\ Cur(proc[v]) = s
    BY <1>2, <2>1 DEF Current, Cur
  <2>3. proc[v].batch # <<>>
    BY <2>2, WorkerFacts
  <2>4. v \in Workers \ {w}
    BY <2>1
  <2>5. ~ proc[w].new /\ events[s] # None
    BY <1>4, <2>2, <2>3, <2>4
  <2>. QED  BY <2>1, <2>5
<1>7. Rows'
  <2>1. SUFFICES ASSUME NEW t \in Sids, t # s PROVE RowOK(t)'
    BY DEF Rows
  <2>2. RowOK(t)
    BY DEF IngestInv, Rows
  <2>. QED  BY <2>1, <2>2, RowStays
<1>8. EvidenceAccounted'
  <2>1. SUFFICES ASSUME NEW t \in Sids, events'[t] = "new", task'[t] = None, t \notin cut'
                 PROVE  \E v \in Workers : proc'[v].new /\ proc'[v].batch # <<>> /\ Current(v)' = t
    BY SMTT(30) DEF EvidenceAccounted
  <2>2. Current(w)' = s
    BY <1>2, <1>3 DEF Current, Cur
  <2>3. CASE t = s /\ p.new
    BY <1>2, <2>2, <2>3, SMTT(30)
  <2>4. CASE ~ (t = s /\ p.new)
    <3>1. events[t] = "new" /\ task[t] = None /\ t \notin cut
      BY <2>1, <2>4
    <3>2. PICK v \in Workers : proc[v].new /\ proc[v].batch # <<>> /\ Current(v) = t
      BY <3>1 DEF IngestInv, EvidenceAccounted
    <3>3. v # w
      BY <2>1, <2>4, <3>2
    <3>. QED  BY <1>2, <3>2, <3>3 DEF Current
  <2>. QED  BY <2>3, <2>4
<1>. QED  BY <1>5, <1>6, <1>7, <1>8 DEF Core

-----------------------------------------------------------------------------
(* The parts that most actions leave alone                                  *)

(* The parts of the invariant after a step.                                 *)
LEMMA Assemble ==
    ASSUME Core', RedisOK', TableOK', LocalOK', NoGroupNoList'
    PROVE  IngestInv'
<1>1. TypeOK'
  BY DEF TypeOK, Core, RedisOK, TableOK, LocalOK, ProcsOK, Proc, Memory
<1>. QED  BY <1>1 DEF Core, IngestInv

(* The invariant holds of the parts before a step.                          *)
LEMMA Parts ==
    ASSUME IngestInv
    PROVE  RedisOK /\ TableOK /\ LocalOK /\ ProcsOK /\ NoGroupNoList
  BY TypeSplit DEF IngestInv

(* A handler does not touch the group, except to acknowledge.               *)
LEMMA RedisStays ==
    ASSUME IngestInv, UNCHANGED redis
    PROVE  RedisOK' /\ NoGroupNoList'
<1>1. UNCHANGED <<produced, group, last, pel, skipped>>
  BY DEF redis
<1>2. RedisOK'
  BY <1>1, Parts DEF RedisOK
<1>3. NoGroupNoList'
  BY <1>1, Parts DEF NoGroupNoList
<1>. QED  BY <1>2, <1>3

(* A statement succeeds, or a fault is counted.                             *)
LEMMA LocalStays ==
    ASSUME IngestInv, UNCHANGED <<mem, rolling>>, UNCHANGED faults \/ Fault
    PROVE  LocalOK'
<1>1. faults' \in 0..MaxFaults
  BY Parts, BoundsAssumption DEF LocalOK, Fault
<1>. QED  BY <1>1, Parts DEF LocalOK

(* The tables are left alone, but for the events cut short.                 *)
LEMMA TableStays ==
    ASSUME IngestInv, UNCHANGED store, cut' \subseteq Sids
    PROVE  TableOK' /\ UNCHANGED <<events, clip, task, alerts, dedupe, requests>>
<1>1. UNCHANGED <<events, clip, task, alerts, dedupe, requests>>
  BY DEF store
<1>. QED  BY <1>1, Parts DEF TableOK

(* CutShort records an event that its inserter leaves without a task.       *)
LEMMA CutFacts ==
    ASSUME IngestInv, NEW w \in Workers, CutShort(w), proc[w].batch # <<>>
    PROVE  /\ cut \subseteq cut' /\ cut' \subseteq Sids
           /\ proc[w].new => task[Current(w)] # None \/ Current(w) \in cut'
<1>1. Current(w) \in Sids /\ cut \subseteq Sids
  BY Parts, WorkerFacts DEF TableOK
<1>. QED  BY <1>1 DEF CutShort

-----------------------------------------------------------------------------
(* Actions that leave the handlers alone                                    *)

(* A producer appends.                                                     *)
LEMMA ProduceKeeps ==
    ASSUME IngestInv, Produce
    PROVE  IngestInv'
<1>1. Core'
  <2>1. UNCHANGED <<proc, events, alerts, requests, cut, task>>
    BY DEF Produce, store
  <2>. QED  BY <2>1, EnvStep
<1>2. RedisOK'
  BY Parts, StreamFacts DEF RedisOK, Produce
<1>3. NoGroupNoList'
  BY Parts DEF NoGroupNoList, Produce
<1>4. TableOK' /\ LocalOK'
  BY TableStays, LocalStays, Parts DEF Produce, TableOK
<1>. QED  BY <1>1, <1>2, <1>3, <1>4, Assemble

(* The group is deleted.                                                   *)
LEMMA LoseGroupKeeps ==
    ASSUME IngestInv, LoseGroup
    PROVE  IngestInv'
<1>1. Core'
  <2>1. UNCHANGED <<proc, events, alerts, requests, cut, task>>
    BY DEF LoseGroup, store
  <2>. QED  BY <2>1, EnvStep
<1>2. RedisOK'
  <2>1. group' = FALSE /\ last' = 0 /\ pel' = [m \in Msgs |-> None] /\ UNCHANGED <<produced, skipped>>
    BY DEF LoseGroup
  <2>2. produced' \in 0..Len(Stream) /\ last' \in 0..produced' /\ skipped' \subseteq Msgs
    BY <2>1, Parts, StreamFacts DEF RedisOK
  <2>3. pel' \in [Msgs -> Workers \cup {None}] /\ group' \in BOOLEAN
    BY <2>1
  <2>. QED  BY <2>2, <2>3 DEF RedisOK
<1>3. NoGroupNoList'
  BY DEF NoGroupNoList, LoseGroup
<1>4. TableOK' /\ LocalOK'
  BY TableStays, LocalStays, Parts DEF LoseGroup, TableOK
<1>. QED  BY <1>1, <1>2, <1>3, <1>4, Assemble

(* A dedupe key expires.                                                   *)
LEMMA ExpireKeyKeeps ==
    ASSUME IngestInv, ExpireKey
    PROVE  IngestInv'
<1>1. Core'
  <2>1. UNCHANGED <<proc, events, alerts, requests, cut, task>>
    BY DEF ExpireKey
  <2>. QED  BY <2>1, EnvStep
<1>2. RedisOK' /\ NoGroupNoList'
  BY RedisStays DEF ExpireKey
<1>3. TableOK'
  BY Parts DEF TableOK, ExpireKey
<1>4. LocalOK'
  BY LocalStays DEF ExpireKey
<1>. QED  BY <1>1, <1>2, <1>3, <1>4, Assemble

(* The pipeline ends a task.                                               *)
LEMMA EndTaskKeeps ==
    ASSUME IngestInv, EndTask
    PROVE  IngestInv'
<1>1. PICK s \in Sids : task[s] = "materialization_pending" /\ task' = [task EXCEPT ![s] = "ended"]
  BY DEF EndTask
<1>2. UNCHANGED <<redis, events, clip, alerts, dedupe, requests, proc, mem, cut, rolling, faults>>
  BY DEF EndTask
<1>3. task \in [Sids -> TaskStatuses]
  BY Parts DEF TableOK
<1>4. Core'
  <2>1. \A t \in Sids : task'[t] = task[t] \/ (task[t] = "materialization_pending" /\ task'[t] = "ended")
    BY <1>1, <1>3
  <2>. QED  BY <1>2, <2>1, EnvStep
<1>5. RedisOK' /\ NoGroupNoList'
  BY <1>2, RedisStays
<1>6. TableOK'
  <2>1. task' \in [Sids -> TaskStatuses]
    BY <1>1, <1>3 DEF TaskStatuses
  <2>. QED  BY <1>2, <2>1, Parts DEF TableOK
<1>7. LocalOK'
  BY <1>2, LocalStays
<1>. QED  BY <1>4, <1>5, <1>6, <1>7, Assemble

(* A step of nobody.                                                       *)
LEMMA StutterKeeps ==
    ASSUME IngestInv, UNCHANGED vars
    PROVE  IngestInv'
<1>1. UNCHANGED <<redis, store, proc, mem, cut, rolling, faults>>
  BY DEF vars
<1>2. TableOK' /\ UNCHANGED <<events, clip, task, alerts, dedupe, requests>>
  BY <1>1, TableStays, Parts DEF TableOK
<1>3. Core'
  BY <1>1, <1>2, EnvStep
<1>. QED  BY <1>1, <1>2, <1>3, RedisStays, LocalStays, Assemble

-----------------------------------------------------------------------------
(* Actions that drop what a worker was doing                                *)

(* A process starts.                                                        *)
LEMMA StartKeeps ==
    ASSUME IngestInv, NEW w \in Workers, Start(w)
    PROVE  IngestInv'
<1>1. UNCHANGED <<produced, store, mem, cut, rolling, faults>> /\ proc' = [proc EXCEPT ![w] = Idle]
  BY DEF Start
<1>2. TableOK' /\ UNCHANGED <<events, clip, task, alerts, dedupe, requests>>
  BY <1>1, TableStays, Parts DEF TableOK
<1>3. Core'
  <2>1. ~ proc[w].new
    BY WorkerFacts DEF Start, At, ProcOK, Early, Late
  <2>. QED  BY <1>1, <1>2, <2>1, IdleFresh, FreshStep
<1>4. group' = TRUE
  BY DEF Start
<1>5. RedisOK'
  <2>1. produced \in 0..Len(Stream) /\ produced \in Nat /\ last \in 0..produced /\ Len(Stream) \in Nat
    BY Parts, StreamFacts DEF RedisOK
  <2>2. last' \in 0..produced'
    BY <1>1, <2>1 DEF Start
  <2>3. pel' \in [Msgs -> Workers \cup {None}]
    <3>1. pel' = pel \/ pel' = [m \in Msgs |-> None]
      BY DEF Start
    <3>. QED  BY <3>1, Parts DEF RedisOK
  <2>4. skipped' \subseteq Msgs
    <3>1. skipped' \subseteq skipped \cup 1..produced
      BY DEF Start
    <3>2. 1..produced \subseteq Msgs
      BY <2>1 DEF Msgs
    <3>. QED  BY <3>1, <3>2, Parts DEF RedisOK
  <2>. QED  BY <1>1, <1>4, <2>1, <2>2, <2>3, <2>4 DEF RedisOK
<1>6. NoGroupNoList'
  BY <1>4 DEF NoGroupNoList
<1>7. LocalOK'
  BY <1>1, LocalStays
<1>. QED  BY <1>2, <1>3, <1>5, <1>6, <1>7, Assemble

(* A read returns messages of the stream that were not read before.         *)
LEMMA ReadToFacts ==
    ASSUME IngestInv, NEW from \in 0..produced
    PROVE  /\ ReadTo(from) \in 0..produced /\ from \in Nat /\ ReadTo(from) \in Nat /\ from <= ReadTo(from)
           /\ (from + 1)..ReadTo(from) \subseteq Msgs
           /\ [i \in 1..(ReadTo(from) - from) |-> from + i] \in Seq(Msgs)
<1>1. produced \in Nat /\ produced <= Len(Stream) /\ Len(Stream) \in Nat /\ BatchSize \in Nat
  BY Parts, StreamFacts, BoundsAssumption DEF RedisOK
<1>. DEFINE to == ReadTo(from)
            n == to - from
<1>2. to \in 0..produced /\ from \in Nat /\ to \in Nat /\ from <= to
  BY <1>1 DEF ReadTo
<1>. HIDE DEF to
<1>3. (from + 1)..to \subseteq Msgs
  BY <1>1, <1>2 DEF Msgs
<1>4. n \in Nat /\ \A i \in 1..n : from + i \in Msgs
  BY <1>1, <1>2 DEF Msgs
<1>5. [i \in 1..n |-> from + i] \in Seq(Msgs)
  <2>. HIDE DEF n
  <2>1. [i \in 1..n |-> from + i] \in [1..n -> Msgs]
    BY <1>4
  <2>. QED  BY <1>4, <2>1
<1>. QED  BY <1>2, <1>3, <1>5 DEF to

(* read_new.                                                                *)
LEMMA ReadNewKeeps ==
    ASSUME IngestInv, NEW w \in Workers, ReadNew(w)
    PROVE  IngestInv'
<1>1. PICK from \in 0..produced :
          /\ last' = ReadTo(from)
          /\ pel' = [m \in Msgs |-> IF m \in (from + 1)..ReadTo(from) THEN w ELSE pel[m]]
          /\ proc' = [proc EXCEPT ![w] =
                         Begin([i \in 1..(ReadTo(from) - from) |-> from + i], "pollPending")]
  <2>1. produced \in Nat /\ last \in 0..produced
    BY Parts, StreamFacts DEF RedisOK
  <2>2. (IF group THEN last ELSE RecoveredLast) \in 0..produced
    BY <2>1 DEF RecoveredLast
  <2>. QED  BY <2>2 DEF ReadNew
<1>2. UNCHANGED <<produced, skipped, store, mem, cut, rolling, faults>> /\ group' = TRUE
  BY DEF ReadNew
<1>3. TableOK' /\ UNCHANGED <<events, clip, task, alerts, dedupe, requests>>
  BY <1>2, TableStays, Parts DEF TableOK
<1>4. Core'
  <2>1. ~ proc[w].new
    BY WorkerFacts DEF ReadNew, At, ProcOK, Early, Late
  <2>2. "pollPending" \in Polls
    BY DEF Polls
  <2>3. FreshProc(Begin([i \in 1..(ReadTo(from) - from) |-> from + i], "pollPending"))
    BY <2>2, ReadToFacts, BeginFresh
  <2>. QED  BY <1>1, <1>2, <1>3, <2>1, <2>3, FreshStep
<1>5. RedisOK'
  <2>1. produced' \in 0..Len(Stream) /\ last' \in 0..produced' /\ skipped' \subseteq Msgs
    BY <1>1, <1>2, Parts, ReadToFacts DEF RedisOK
  <2>2. pel' \in [Msgs -> Workers \cup {None}]
    BY <1>1, Parts DEF RedisOK
  <2>. QED  BY <1>2, <2>1, <2>2 DEF RedisOK
<1>6. NoGroupNoList'
  BY <1>2 DEF NoGroupNoList
<1>7. LocalOK'
  BY <1>2, LocalStays
<1>. QED  BY <1>3, <1>4, <1>5, <1>6, <1>7, Assemble

(* read_pending.                                                            *)
LEMMA ReadPendingKeeps ==
    ASSUME IngestInv, NEW w \in Workers, NEW S \in SUBSET Oldest, ReadPending(w, S)
    PROVE  IngestInv'
<1>1. UNCHANGED <<produced, skipped, store, mem, cut, rolling, faults>> /\ group' = TRUE
  BY DEF ReadPending
<1>2. TableOK' /\ UNCHANGED <<events, clip, task, alerts, dedupe, requests>>
  BY <1>1, TableStays, Parts DEF TableOK
<1>3. Core'
  <2>1. ~ proc[w].new
    BY WorkerFacts DEF ReadPending, At, ProcOK, Early, Late
  <2>2. S \in SUBSET Msgs /\ "pollNew" \in Polls
    BY DEF Oldest, Pending, Polls
  <2>3. FreshProc(Begin(InOrder(S), "pollNew"))
    BY <2>2, InOrderSeq, BeginFresh
  <2>4. proc' = [proc EXCEPT ![w] = Begin(InOrder(S), "pollNew")]
    BY DEF ReadPending
  <2>. QED  BY <1>1, <1>2, <2>1, <2>3, <2>4, FreshStep
<1>4. RedisOK'
  <2>1. produced \in Nat /\ produced \in 0..Len(Stream) /\ last \in 0..produced
    BY Parts, StreamFacts DEF RedisOK
  <2>2. last' \in 0..produced' /\ produced' \in 0..Len(Stream)
    BY <1>1, <2>1 DEF ReadPending, RecoveredLast
  <2>3. pel' \in [Msgs -> Workers \cup {None}] /\ skipped' \subseteq Msgs
    BY <1>1, Parts DEF RedisOK, ReadPending
  <2>. QED  BY <1>1, <2>2, <2>3 DEF RedisOK
<1>5. NoGroupNoList'
  BY <1>1 DEF NoGroupNoList
<1>6. LocalOK'
  BY <1>1, LocalStays
<1>. QED  BY <1>2, <1>3, <1>4, <1>5, <1>6, Assemble

(* A handler that fails on the insert.                                      *)
LEMMA InsertFailsKeeps ==
    ASSUME IngestInv, NEW w \in Workers, InsertFails(w)
    PROVE  IngestInv'
<1>1. UNCHANGED <<redis, store, mem, cut, rolling>> /\ proc' = [proc EXCEPT ![w] = Rest(w)]
  BY DEF InsertFails, Rejected
<1>2. TableOK' /\ UNCHANGED <<events, clip, task, alerts, dedupe, requests>>
  BY <1>1, TableStays, Parts DEF TableOK
<1>3. Core'
  <2>1. ~ proc[w].new /\ proc[w].batch # <<>>
    BY WorkerFacts DEF InsertFails, At, ProcOK, Early, Late
  <2>2. FreshProc(Rest(w))
    BY <2>1, RestFresh, WorkerFacts DEF IngestInv
  <2>. QED  BY <1>1, <1>2, <2>1, <2>2, FreshStep
<1>4. LocalOK'
  BY <1>1, LocalStays DEF InsertFails
<1>. QED  BY <1>1, <1>2, <1>3, <1>4, RedisStays, Assemble

(* The end of a handler.                                                    *)
LEMMA AckKeeps ==
    ASSUME IngestInv, NEW w \in Workers, Ack(w)
    PROVE  IngestInv'
<1>1. /\ UNCHANGED <<produced, group, last, skipped, store, mem, cut, rolling>>
      /\ proc' = [proc EXCEPT ![w] = Rest(w)] /\ proc[w].pc = "ack"
  BY DEF Ack, At
<1>2. TableOK' /\ UNCHANGED <<events, clip, task, alerts, dedupe, requests>>
  BY <1>1, TableStays, Parts DEF TableOK
<1>3. proc[w].batch # <<>> /\ Head(proc[w].batch) \in Msgs /\ Current(w) \in Sids
      /\ FitsAt(proc[w], Current(w))
  BY <1>1, WorkerFacts DEF ProcOK, Late
<1>4. Core'
  <2>1. FreshProc(Rest(w))
    BY <1>3, RestFresh, WorkerFacts DEF IngestInv
  <2>2. proc[w].new => task[Current(w)] # None \/ Current(w) \in cut \/ events[Current(w)] # "new"
    BY <1>1, <1>3 DEF FitsAt, Late
  <2>. QED  BY <1>1, <1>2, <2>1, <2>2, FreshStep
<1>5. \A m \in Msgs : pel'[m] = pel[m] \/ pel'[m] = None
  BY <1>3, Parts DEF Ack, RedisOK
<1>6. RedisOK'
  <2>1. pel' \in [Msgs -> Workers \cup {None}]
    BY Parts DEF Ack, RedisOK
  <2>. QED  BY <1>1, <2>1, Parts DEF RedisOK
<1>7. NoGroupNoList'
  BY <1>1, <1>5, Parts DEF NoGroupNoList
<1>8. LocalOK'
  BY <1>1, LocalStays DEF Ack
<1>. QED  BY <1>2, <1>4, <1>6, <1>7, <1>8, Assemble

(* An exception that ends the batch.                                        *)
LEMMA AbortKeeps ==
    ASSUME IngestInv, NEW w \in Workers, Abort(w)
    PROVE  IngestInv'
<1>1. /\ UNCHANGED <<redis, store, mem, rolling>> /\ proc' = [proc EXCEPT ![w] = Idle]
      /\ CutShort(w) /\ proc[w].pc = "gate"
  BY DEF Abort, At
<1>2. proc[w].batch # <<>>
  BY <1>1, WorkerFacts DEF ProcOK, Late
<1>3. /\ cut \subseteq cut' /\ cut' \subseteq Sids
      /\ proc[w].new => task[Current(w)] # None \/ Current(w) \in cut'
  BY <1>1, <1>2, CutFacts
<1>4. TableOK' /\ UNCHANGED <<events, clip, task, alerts, dedupe, requests>>
  BY <1>1, <1>3, TableStays
<1>5. Core'
  BY <1>1, <1>3, <1>4, IdleFresh, FreshStep
<1>6. LocalOK'
  BY <1>1, LocalStays DEF Abort
<1>. QED  BY <1>1, <1>4, <1>5, <1>6, RedisStays, Assemble

(* A process dies.                                                          *)
LEMMA CrashKeeps ==
    ASSUME IngestInv, NEW w \in Workers, Crash(w)
    PROVE  IngestInv'
<1>1. /\ UNCHANGED <<redis, store, rolling>> /\ proc' = [proc EXCEPT ![w] = [Idle EXCEPT !.pc = "down"]]
      /\ mem' = [mem EXCEPT ![w] = Fresh] /\ Fault
  BY DEF Crash
<1>2. /\ cut \subseteq cut' /\ cut' \subseteq Sids
      /\ proc[w].new => task[Current(w)] # None \/ Current(w) \in cut'
  <2>1. CASE proc[w].batch = <<>>
    <3>1. cut' = cut /\ ~ proc[w].new /\ cut \subseteq Sids
      BY <2>1, Parts, WorkerFacts DEF Crash, TableOK
    <3>. QED  BY <3>1
  <2>2. CASE proc[w].batch # <<>>
    BY <2>2, CutFacts DEF Crash
  <2>. QED  BY <2>1, <2>2
<1>3. TableOK' /\ UNCHANGED <<events, clip, task, alerts, dedupe, requests>>
  BY <1>1, <1>2, TableStays
<1>4. Core'
  BY <1>1, <1>2, <1>3, IdleFresh, FreshStep
<1>5. LocalOK'
  <2>1. Fresh \in Memory
    BY DEF Fresh, Memory
  <2>2. mem' \in [Workers -> Memory] /\ rolling' \in BOOLEAN
    BY <1>1, <2>1, Parts DEF LocalOK
  <2>3. faults' \in 0..MaxFaults
    BY <1>1, Parts, BoundsAssumption DEF LocalOK, Fault
  <2>. QED  BY <2>2, <2>3 DEF LocalOK
<1>. QED  BY <1>1, <1>3, <1>4, <1>5, RedisStays, Assemble

-----------------------------------------------------------------------------
(* The statements of the handler                                            *)

(* What a step of a handler starts from.                                    *)
LEMMA AtWork ==
    ASSUME IngestInv, NEW w \in Workers, proc[w].pc \in Early \cup Late \cup {"insert"}
    PROVE  \E s \in Sids : /\ s = Current(w) /\ proc[w].batch # <<>> /\ proc[w] \in Proc
                           /\ ProcOK(proc[w]) /\ FitsAt(proc[w], s) /\ RowOK(s)
  BY WorkerFacts DEF ProcOK, IngestInv, Rows

(* A step that changes the label only.                                      *)
LEMMA GotoMoves ==
    ASSUME IngestInv, NEW w \in Workers, NEW l \in Labels, Goto(w, l)
    PROVE  \E p \in Proc : /\ proc' = [proc EXCEPT ![w] = p] /\ p.pc = l /\ p.turn = proc[w].turn
                           /\ p.batch = proc[w].batch /\ p.new = proc[w].new
                           /\ p.status = proc[w].status
<1>. DEFINE p == [proc[w] EXCEPT !.pc = l]
<1>1. proc[w] \in Proc
  BY WorkerFacts
<1>2. p \in Proc /\ p.pc = l /\ p.turn = proc[w].turn /\ p.batch = proc[w].batch
      /\ p.new = proc[w].new /\ p.status = proc[w].status
  BY <1>1 DEF Proc
<1>3. proc' = [proc EXCEPT ![w] = p]
  BY DEF Goto
<1>. QED  BY <1>2, <1>3

(* insert_event.                                                            *)
LEMMA InsertEventKeeps ==
    ASSUME IngestInv, NEW w \in Workers, InsertEvent(w)
    PROVE  IngestInv'
<1>1. proc[w].pc = "insert" /\ UNCHANGED <<redis, clip, task, alerts, dedupe, requests, mem, cut, rolling, faults>>
  BY DEF InsertEvent, At
<1>2. PICK s \in Sids : /\ s = Current(w) /\ proc[w].batch # <<>> /\ proc[w] \in Proc
                        /\ ProcOK(proc[w]) /\ FitsAt(proc[w], s) /\ RowOK(s)
  BY <1>1, AtWork
<1>3. events \in [Sids -> {None, "new", "suppressed"}] /\ task \in [Sids -> TaskStatuses]
      /\ alerts \in [Sids -> Nat] /\ requests \in [Sids -> Nat]
  BY Parts DEF TableOK
<1>4. PICK new \in BOOLEAN : new = (events[s] = None)
  OBVIOUS
<1>5. PICK p \in Proc : /\ p.batch = proc[w].batch /\ p.new = new /\ p.status = proc[w].status
                        /\ p.turn = proc[w].turn /\ p.pc = (IF new THEN "policy" ELSE "gate")
                        /\ proc' = [proc EXCEPT ![w] = p]
  <2>. DEFINE q == [proc[w] EXCEPT !.new = new, !.pc = IF new THEN "policy" ELSE "gate"]
  <2>1. /\ q \in Proc /\ q.batch = proc[w].batch /\ q.new = new /\ q.status = proc[w].status
        /\ q.turn = proc[w].turn /\ q.pc = (IF new THEN "policy" ELSE "gate")
    BY <1>2 DEF Proc, Labels
  <2>2. proc' = [proc EXCEPT ![w] = q]
    <3>1. proc' = [proc EXCEPT ![w].new = new, ![w].pc = IF new THEN "policy" ELSE "gate"]
      BY <1>2, <1>4 DEF InsertEvent, InsertReturnsId
    <3>2. proc \in [Workers -> Proc]
      BY Parts DEF ProcsOK
    <3>. QED  BY <3>1, <3>2
  <2>. HIDE DEF q
  <2>. QED  BY <2>1, <2>2
<1>6. ProcOK(p)
  BY <1>1, <1>2, <1>5 DEF ProcOK, Early, Late
<1>7. events' = [events EXCEPT ![s] = IF @ = None THEN "new" ELSE @]
  BY <1>2 DEF InsertEvent
<1>8. /\ events'[s] # None /\ (events[s] # None => events'[s] = events[s])
      /\ (events[s] = None => events'[s] = "new")
      /\ \A t \in Sids : /\ events[t] # None => events'[t] # None
                         /\ t # s => events'[t] = events[t]
  BY <1>3, <1>7 DEF None
<1>9. HasCause(s) => HasCause(s)'
  BY <1>8, CauseStays
<1>10. RowOK(s)'
  BY <1>1, <1>2, <1>8, <1>9 DEF RowOK
<1>11. FitsAt(p, s)'
  BY <1>1, <1>2, <1>3, <1>4, <1>5, <1>8 DEF FitsAt, RowOK, ProcOK, Early, Late, None
<1>12. Core'
  <2>1. \A t \in Sids \ {s} : /\ events'[t] = events[t] /\ alerts'[t] = alerts[t]
                              /\ requests'[t] = requests[t] /\ task'[t] = task[t]
    BY <1>1, <1>8
  <2>2. cut \subseteq cut' /\ p.batch # <<>>
    BY <1>1, <1>2, <1>5
  <2>3. /\ p.new => proc[w].new \/ events[s] = None
        /\ \/ proc[w].new \/ events[s] = None
           \/ /\ events'[s] = events[s] /\ alerts'[s] = alerts[s]
              /\ requests'[s] = requests[s] /\ task'[s] = task[s]
    BY <1>1, <1>4, <1>5, <1>8
  <2>4. events'[s] = "new" /\ task'[s] = None /\ s \notin cut' =>
            p.new \/ (~ proc[w].new /\ events'[s] = events[s] /\ task'[s] = task[s])
    <3>1. ~ proc[w].new
      BY <1>1, <1>2 DEF ProcOK, Early, Late
    <3>. QED  BY <1>1, <1>4, <1>5, <1>8, <3>1
  <2>. QED  BY <1>2, <1>5, <1>6, <1>8, <1>10, <1>11, <2>1, <2>2, <2>3, <2>4, MoveStep
<1>13. TableOK'
  <2>1. events' \in [Sids -> {None, "new", "suppressed"}]
    BY <1>3, <1>7
  <2>. QED  BY <1>1, <2>1, Parts DEF TableOK
<1>. QED  BY <1>1, <1>12, <1>13, RedisStays, LocalStays, Assemble

(* A later statement of a handler: it stays what it was, inserter or not,   *)
(* and only an inserter touches the rows.                                   *)
LEMMA LaterStep ==
    ASSUME IngestInv, NEW w \in Workers, NEW p \in Proc, proc' = [proc EXCEPT ![w] = p],
           ProcOK(p), p.batch = proc[w].batch, p.batch # <<>>, p.new = proc[w].new,
           NEW s \in Sids, s = Current(w), FitsAt(p, s)', RowOK(s)',
           \A t \in Sids : events[t] # None => events'[t] # None,
           \A t \in Sids \ {s} : /\ events'[t] = events[t] /\ alerts'[t] = alerts[t]
                                 /\ requests'[t] = requests[t] /\ task'[t] = task[t],
           cut \subseteq cut',
           ~ proc[w].new => /\ events'[s] = events[s] /\ alerts'[s] = alerts[s]
                            /\ requests'[s] = requests[s] /\ task'[s] = task[s]
    PROVE  Core'
<1>1. p.new => proc[w].new \/ events[s] = None
  OBVIOUS
<1>2. \/ proc[w].new \/ events[s] = None
      \/ /\ events'[s] = events[s] /\ alerts'[s] = alerts[s]
         /\ requests'[s] = requests[s] /\ task'[s] = task[s]
  OBVIOUS
<1>3. events'[s] = "new" /\ task'[s] = None /\ s \notin cut' =>
          p.new \/ (~ proc[w].new /\ events'[s] = events[s] /\ task'[s] = task[s])
  OBVIOUS
<1>. QED  BY <1>1, <1>2, <1>3, MoveStep

(* The alert policy.                                                        *)
LEMMA DecidePolicyKeeps ==
    ASSUME IngestInv, NEW w \in Workers, DecidePolicy(w)
    PROVE  IngestInv'
<1>1. proc[w].pc = "policy" /\ UNCHANGED <<redis, events, clip, task, dedupe, requests, mem, cut, rolling>>
  BY DEF DecidePolicy, At
<1>2. PICK s \in Sids : /\ s = Current(w) /\ proc[w].batch # <<>> /\ proc[w] \in Proc
                        /\ ProcOK(proc[w]) /\ FitsAt(proc[w], s) /\ RowOK(s)
  BY <1>1, AtWork DEF Early
<1>3. /\ events \in [Sids -> {None, "new", "suppressed"}] /\ alerts \in [Sids -> Nat]
      /\ proc[w].new /\ alerts[s] = 0 /\ events[s] = "new" /\ requests[s] = 0 /\ events[s] # None
      /\ proc[w].status = None
  BY <1>1, <1>2, Parts DEF TableOK, FitsAt, ProcOK, Early, Late
<1>4. Suppresses(s) => HasCause(s)'
  BY <1>1 DEF Suppresses, Candidates, HasCause, None
<1>5. \/ Suppresses(s) /\ Goto(w, "suppress") /\ UNCHANGED alerts
      \/ Goto(w, "admit") /\ (UNCHANGED alerts \/ alerts' = [alerts EXCEPT ![s] = @ + 1])
  BY <1>2 DEF DecidePolicy, Announce
<1>6. PICK p \in Proc : /\ proc' = [proc EXCEPT ![w] = p] /\ p.turn = proc[w].turn
                        /\ p.batch = proc[w].batch /\ p.new = proc[w].new /\ p.status = proc[w].status
                        /\ \/ p.pc = "suppress" /\ Suppresses(s) /\ UNCHANGED alerts
                           \/ p.pc = "admit"
  <2>1. "suppress" \in Labels /\ "admit" \in Labels
    BY DEF Labels
  <2>. QED  BY <1>5, <2>1, GotoMoves
<1>7. ProcOK(p)
  BY <1>1, <1>2, <1>3, <1>6 DEF ProcOK, Early, Late
<1>8. alerts' \in [Sids -> Nat] /\ alerts'[s] <= 1 /\ \A t \in Sids \ {s} : alerts'[t] = alerts[t]
  BY <1>3, <1>5
<1>9. FitsAt(p, s)'
  BY <1>1, <1>3, <1>4, <1>6 DEF FitsAt, Early, Late, None
<1>10. RowOK(s)'
  BY <1>1, <1>2, <1>3, <1>8 DEF RowOK
<1>11. Core'
  BY <1>1, <1>2, <1>3, <1>6, <1>7, <1>8, <1>9, <1>10, LaterStep
<1>12. TableOK'
  BY <1>1, <1>8, Parts DEF TableOK
<1>13. LocalOK'
  BY <1>1, LocalStays DEF DecidePolicy
<1>. QED  BY <1>1, <1>11, <1>12, <1>13, RedisStays, Assemble

(* The suppression of an event, or its announcement after all.              *)
LEMMA MarkSuppressedKeeps ==
    ASSUME IngestInv, NEW w \in Workers, MarkSuppressed(w)
    PROVE  IngestInv'
<1>1. proc[w].pc = "suppress" /\ UNCHANGED <<redis, clip, task, dedupe, requests, mem, cut, rolling>>
  BY DEF MarkSuppressed, At
<1>2. PICK s \in Sids : /\ s = Current(w) /\ proc[w].batch # <<>> /\ proc[w] \in Proc
                        /\ ProcOK(proc[w]) /\ FitsAt(proc[w], s) /\ RowOK(s)
  BY <1>1, AtWork DEF Early
<1>3. /\ events \in [Sids -> {None, "new", "suppressed"}] /\ alerts \in [Sids -> Nat]
      /\ proc[w].new /\ alerts[s] = 0 /\ events[s] = "new" /\ requests[s] = 0 /\ HasCause(s)
      /\ proc[w].status = None
  BY <1>1, <1>2, Parts DEF TableOK, FitsAt, ProcOK, Early, Late
<1>4. \/ events' = [events EXCEPT ![s] = "suppressed"] /\ Goto(w, "ack") /\ UNCHANGED alerts
      \/ Goto(w, "admit") /\ alerts' = [alerts EXCEPT ![s] = @ + 1] /\ UNCHANGED events
  BY <1>2 DEF MarkSuppressed, Announce
<1>5. PICK p \in Proc : /\ proc' = [proc EXCEPT ![w] = p] /\ p.turn = proc[w].turn
                        /\ p.batch = proc[w].batch /\ p.new = proc[w].new /\ p.status = proc[w].status
                        /\ \/ p.pc = "ack" /\ events' = [events EXCEPT ![s] = "suppressed"] /\ UNCHANGED alerts
                           \/ p.pc = "admit" /\ alerts' = [alerts EXCEPT ![s] = @ + 1] /\ UNCHANGED events
  <2>1. "ack" \in Labels /\ "admit" \in Labels
    BY DEF Labels
  <2>. QED  BY <1>4, <2>1, GotoMoves
<1>6. ProcOK(p)
  BY <1>1, <1>2, <1>3, <1>5 DEF ProcOK, Early, Late
<1>7. /\ alerts' \in [Sids -> Nat] /\ events' \in [Sids -> {None, "new", "suppressed"}]
      /\ \A t \in Sids \ {s} : alerts'[t] = alerts[t] /\ events'[t] = events[t]
      /\ \/ p.pc = "ack" /\ events'[s] = "suppressed" /\ alerts'[s] = 0
         \/ p.pc = "admit" /\ events'[s] = "new" /\ alerts'[s] = 1
  BY <1>3, <1>5
<1>8. \A t \in Sids : events[t] # None => events'[t] # None
  BY <1>3, <1>7 DEF None
<1>9. HasCause(s)'
  BY <1>3, <1>8, CauseStays
<1>10. FitsAt(p, s)'
  BY <1>1, <1>3, <1>5, <1>7, <1>9 DEF FitsAt, Early, Late, None
<1>11. RowOK(s)'
  BY <1>1, <1>2, <1>3, <1>7, <1>9 DEF RowOK
<1>12. Core'
  BY <1>1, <1>2, <1>3, <1>5, <1>6, <1>7, <1>8, <1>10, <1>11, LaterStep
<1>13. TableOK'
  BY <1>1, <1>7, Parts DEF TableOK
<1>14. LocalOK'
  BY <1>1, LocalStays DEF MarkSuppressed
<1>. QED  BY <1>1, <1>12, <1>13, <1>14, RedisStays, Assemble

(* The count of create_evidence_task.                                       *)
LEMMA AdmitKeeps ==
    ASSUME IngestInv, NEW w \in Workers, Admit(w)
    PROVE  IngestInv'
<1>1. proc[w].pc = "admit" /\ UNCHANGED <<redis, store, mem, cut, rolling>>
  BY DEF Admit, At
<1>2. TableOK' /\ UNCHANGED <<events, clip, task, alerts, dedupe, requests>>
  BY <1>1, TableStays, Parts DEF TableOK
<1>3. PICK s \in Sids : /\ s = Current(w) /\ proc[w].batch # <<>> /\ proc[w] \in Proc
                        /\ ProcOK(proc[w]) /\ FitsAt(proc[w], s) /\ RowOK(s)
  BY <1>1, AtWork DEF Early
<1>4. PICK p \in Proc : /\ proc' = [proc EXCEPT ![w] = p] /\ p.turn = proc[w].turn
                        /\ p.batch = proc[w].batch /\ p.new = proc[w].new /\ p.status = proc[w].status
                        /\ p.pc = "create"
  <2>1. PICK ok \in BOOLEAN : proc' = [proc EXCEPT ![w].allowed = ok, ![w].pc = "create"]
    BY DEF Admit
  <2>. DEFINE q == [proc[w] EXCEPT !.allowed = ok, !.pc = "create"]
  <2>2. /\ q \in Proc /\ q.turn = proc[w].turn /\ q.batch = proc[w].batch /\ q.new = proc[w].new
        /\ q.status = proc[w].status /\ q.pc = "create"
    BY <1>3 DEF Proc, Labels
  <2>3. proc' = [proc EXCEPT ![w] = q]
    <3>1. proc \in [Workers -> Proc]
      BY Parts DEF ProcsOK
    <3>. QED  BY <2>1, <3>1
  <2>. HIDE DEF q
  <2>. QED  BY <2>2, <2>3
<1>5. ProcOK(p)
  BY <1>1, <1>3, <1>4 DEF ProcOK, Early, Late
<1>6. HasCause(s) => HasCause(s)'
  BY <1>2, CauseStays
<1>7. FitsAt(p, s)'
  BY <1>1, <1>2, <1>3, <1>4 DEF FitsAt, Early, Late
<1>8. RowOK(s)'
  BY <1>2, <1>3, <1>6 DEF RowOK
<1>9. Core'
  BY <1>1, <1>2, <1>3, <1>4, <1>5, <1>7, <1>8, LaterStep
<1>10. LocalOK'
  BY <1>1, LocalStays DEF Admit
<1>. QED  BY <1>1, <1>2, <1>9, <1>10, RedisStays, Assemble

(* The insert of create_evidence_task.                                      *)
LEMMA CreateTaskKeeps ==
    ASSUME IngestInv, NEW w \in Workers, CreateTask(w)
    PROVE  IngestInv'
<1>1. proc[w].pc = "create" /\ UNCHANGED <<redis, events, alerts, dedupe, requests, mem, cut, rolling, faults>>
  BY DEF CreateTask, At
<1>2. PICK s \in Sids : /\ s = Current(w) /\ proc[w].batch # <<>> /\ proc[w] \in Proc
                        /\ ProcOK(proc[w]) /\ FitsAt(proc[w], s) /\ RowOK(s)
  BY <1>1, AtWork DEF Early
<1>3. PICK status \in {"materialization_pending", "materialization_skipped"} :
          /\ task' = [task EXCEPT ![s] = IF @ = None THEN status ELSE @]
          /\ clip' = [clip EXCEPT ![s] = IF proc[w].allowed THEN @ ELSE "materialization_skipped"]
          /\ proc' = [proc EXCEPT ![w].status = task'[s], ![w].pc = "gate"]
  BY <1>2 DEF CreateTask
<1>4. /\ task \in [Sids -> TaskStatuses] /\ clip \in [Sids -> ClipStatuses]
      /\ proc[w].new /\ requests[s] = 0 /\ events[s] # None
  BY <1>1, <1>2, Parts DEF TableOK, FitsAt, ProcOK, Early
<1>5. /\ task' \in [Sids -> TaskStatuses] /\ clip' \in [Sids -> ClipStatuses]
      /\ task'[s] # None /\ \A t \in Sids \ {s} : task'[t] = task[t]
  BY <1>3, <1>4 DEF TaskStatuses, ClipStatuses, None
<1>6. PICK p \in Proc : /\ proc' = [proc EXCEPT ![w] = p] /\ p.turn = proc[w].turn
                        /\ p.batch = proc[w].batch /\ p.new = proc[w].new /\ p.status = task'[s]
                        /\ p.pc = "gate"
  <2>1. PICK x \in TaskStatuses : x = task'[s]
    BY <1>5
  <2>. DEFINE q == [proc[w] EXCEPT !.status = x, !.pc = "gate"]
  <2>2. /\ q \in Proc /\ q.turn = proc[w].turn /\ q.batch = proc[w].batch /\ q.new = proc[w].new
        /\ q.status = x /\ q.pc = "gate"
    BY <1>2 DEF Proc, Labels
  <2>3. proc' = [proc EXCEPT ![w] = q]
    <3>1. proc \in [Workers -> Proc]
      BY Parts DEF ProcsOK
    <3>2. proc' = [proc EXCEPT ![w].status = x, ![w].pc = "gate"]
      BY <1>3, <2>1
    <3>. QED  BY <3>1, <3>2
  <2>. HIDE DEF q
  <2>. QED  BY <2>1, <2>2, <2>3
<1>7. ProcOK(p)
  BY <1>1, <1>2, <1>4, <1>6 DEF ProcOK, Early, Late
<1>8. HasCause(s) => HasCause(s)'
  BY <1>1, CauseStays
<1>9. FitsAt(p, s)'
  BY <1>1, <1>2, <1>4, <1>5, <1>6 DEF FitsAt, Early, Late
<1>10. RowOK(s)'
  BY <1>1, <1>2, <1>4, <1>8 DEF RowOK
<1>11. Core'
  BY <1>1, <1>2, <1>4, <1>5, <1>6, <1>7, <1>9, <1>10, LaterStep
<1>12. TableOK'
  BY <1>1, <1>5, Parts DEF TableOK
<1>. QED  BY <1>1, <1>11, <1>12, LocalStays, RedisStays, Assemble

(* create_evidence_task raises.                                             *)
LEMMA CreateFailsKeeps ==
    ASSUME IngestInv, NEW w \in Workers, CreateFails(w)
    PROVE  IngestInv'
<1>1. /\ proc[w].pc \in {"admit", "create"} /\ UNCHANGED <<redis, store, mem, rolling>>
      /\ CutShort(w) /\ Goto(w, "gate")
  BY DEF CreateFails, At
<1>2. PICK s \in Sids : /\ s = Current(w) /\ proc[w].batch # <<>> /\ proc[w] \in Proc
                        /\ ProcOK(proc[w]) /\ FitsAt(proc[w], s) /\ RowOK(s)
  BY <1>1, AtWork DEF Early
<1>3. /\ cut \subseteq cut' /\ cut' \subseteq Sids /\ (task[s] # None \/ s \in cut')
      /\ proc[w].new /\ proc[w].status = None
  BY <1>1, <1>2, CutFacts DEF ProcOK, Early, Late
<1>4. TableOK' /\ UNCHANGED <<events, clip, task, alerts, dedupe, requests>>
  BY <1>1, <1>3, TableStays
<1>5. PICK p \in Proc : /\ proc' = [proc EXCEPT ![w] = p] /\ p.turn = proc[w].turn
                        /\ p.batch = proc[w].batch /\ p.new = proc[w].new /\ p.status = proc[w].status
                        /\ p.pc = "gate"
  <2>1. "gate" \in Labels
    BY DEF Labels
  <2>. QED  BY <1>1, <2>1, GotoMoves
<1>6. ProcOK(p)
  BY <1>1, <1>2, <1>3, <1>5 DEF ProcOK, Early, Late
<1>7. HasCause(s) => HasCause(s)'
  BY <1>4, CauseStays
<1>8. FitsAt(p, s)'
  BY <1>1, <1>2, <1>3, <1>4, <1>5 DEF FitsAt, Early, Late, None
<1>9. RowOK(s)'
  BY <1>2, <1>4, <1>7 DEF RowOK
<1>10. Core'
  BY <1>2, <1>3, <1>4, <1>5, <1>6, <1>8, <1>9, LaterStep
<1>11. LocalOK'
  BY <1>1, LocalStays DEF CreateFails
<1>. QED  BY <1>1, <1>4, <1>10, <1>11, RedisStays, Assemble

(* The record-request gate.                                                 *)
LEMMA GateKeeps ==
    ASSUME IngestInv, NEW w \in Workers, Gate(w)
    PROVE  IngestInv'
<1>1. proc[w].pc = "gate" /\ UNCHANGED <<redis, events, alerts, requests, mem, cut, rolling>>
  BY DEF Gate, At
<1>2. PICK s \in Sids : /\ s = Current(w) /\ proc[w].batch # <<>> /\ proc[w] \in Proc
                        /\ ProcOK(proc[w]) /\ FitsAt(proc[w], s) /\ RowOK(s)
  BY <1>1, AtWork DEF Late
<1>3. /\ task \in [Sids -> TaskStatuses] /\ clip \in [Sids -> ClipStatuses] /\ events[s] # None
      /\ dedupe \subseteq Sids
  BY <1>1, <1>2, Parts DEF TableOK, FitsAt, Late
<1>4. /\ \/ Goto(w, "ack")
         \/ Goto(w, "append") /\ proc[w].status = "materialization_pending" /\ UNCHANGED task
      /\ \/ UNCHANGED <<task, clip>>
         \/ proc[w].status = "materialization_pending" /\ MarkSkipped(s)
      /\ dedupe' \subseteq dedupe \cup {s}
  BY <1>2 DEF Gate, Recordable
<1>5. proc[w].status = "materialization_pending" => proc[w].new /\ requests[s] = 0 /\
          task[s] \in {"materialization_pending", "ended"}
  BY <1>1, <1>2 DEF FitsAt, ProcOK, None
<1>6. PICK p \in Proc : /\ proc' = [proc EXCEPT ![w] = p] /\ p.turn = proc[w].turn
                        /\ p.batch = proc[w].batch /\ p.new = proc[w].new /\ p.status = proc[w].status
                        /\ \/ p.pc = "ack"
                           \/ p.pc = "append" /\ proc[w].status = "materialization_pending" /\ UNCHANGED task
  <2>1. "ack" \in Labels /\ "append" \in Labels
    BY DEF Labels
  <2>. QED  BY <1>4, <2>1, GotoMoves
<1>7. ProcOK(p)
  BY <1>1, <1>2, <1>5, <1>6 DEF ProcOK, Early, Late
<1>8. /\ task' \in [Sids -> TaskStatuses] /\ clip' \in [Sids -> ClipStatuses]
      /\ \A t \in Sids \ {s} : task'[t] = task[t]
      /\ task[s] # None => task'[s] # None
      /\ task'[s] # task[s] => proc[w].status = "materialization_pending"
  BY <1>3, <1>4 DEF MarkSkipped, TaskStatuses, ClipStatuses, None
<1>9. HasCause(s) => HasCause(s)'
  BY <1>1, CauseStays
<1>10. FitsAt(p, s)'
  BY <1>1, <1>2, <1>3, <1>5, <1>6, <1>8 DEF FitsAt, Early, Late
<1>11. RowOK(s)'
  BY <1>1, <1>2, <1>5, <1>8, <1>9 DEF RowOK
<1>12. Core'
  BY <1>1, <1>2, <1>5, <1>6, <1>7, <1>8, <1>10, <1>11, LaterStep
<1>13. TableOK'
  BY <1>1, <1>3, <1>4, <1>8, Parts DEF TableOK
<1>14. LocalOK'
  BY <1>1, LocalStays DEF Gate
<1>. QED  BY <1>1, <1>12, <1>13, <1>14, RedisStays, Assemble

(* The record request.                                                      *)
LEMMA PublishRequestKeeps ==
    ASSUME IngestInv, NEW w \in Workers, PublishRequest(w)
    PROVE  IngestInv'
<1>1. proc[w].pc = "append" /\ UNCHANGED <<redis, events, clip, task, alerts, mem, cut, rolling>>
  BY DEF PublishRequest, At
<1>2. PICK s \in Sids : /\ s = Current(w) /\ proc[w].batch # <<>> /\ proc[w] \in Proc
                        /\ ProcOK(proc[w]) /\ FitsAt(proc[w], s) /\ RowOK(s)
  BY <1>1, AtWork DEF Late
<1>3. /\ proc[w].new /\ proc[w].status = "materialization_pending" /\ requests[s] = 0
      /\ task[s] \in {"materialization_pending", "ended"} /\ events[s] # None
      /\ requests \in [Sids -> Nat] /\ dedupe \subseteq Sids
  BY <1>1, <1>2, Parts DEF TableOK, FitsAt, ProcOK, Late, None
<1>4. /\ \/ requests' = [requests EXCEPT ![s] = @ + 1] /\ Goto(w, "clip")
         \/ UNCHANGED requests /\ Goto(w, "ack")
      /\ dedupe' \subseteq dedupe
  BY <1>2 DEF PublishRequest
<1>5. PICK p \in Proc : /\ proc' = [proc EXCEPT ![w] = p] /\ p.turn = proc[w].turn
                        /\ p.batch = proc[w].batch /\ p.new = proc[w].new /\ p.status = proc[w].status
                        /\ p.pc \in {"clip", "ack"}
  <2>1. "ack" \in Labels /\ "clip" \in Labels
    BY DEF Labels
  <2>. QED  BY <1>4, <2>1, GotoMoves
<1>6. ProcOK(p)
  BY <1>1, <1>2, <1>3, <1>5 DEF ProcOK, Early, Late
<1>7. requests' \in [Sids -> Nat] /\ requests'[s] <= 1 /\ \A t \in Sids \ {s} : requests'[t] = requests[t]
  BY <1>3, <1>4
<1>8. HasCause(s) => HasCause(s)'
  BY <1>1, CauseStays
<1>9. FitsAt(p, s)'
  BY <1>1, <1>3, <1>5 DEF FitsAt, Early, Late, None
<1>10. RowOK(s)'
  BY <1>1, <1>2, <1>3, <1>7, <1>8 DEF RowOK
<1>11. Core'
  BY <1>1, <1>2, <1>3, <1>5, <1>6, <1>7, <1>9, <1>10, LaterStep
<1>12. TableOK'
  BY <1>1, <1>3, <1>4, <1>7, Parts DEF TableOK
<1>13. LocalOK'
  BY <1>1, LocalStays DEF PublishRequest
<1>. QED  BY <1>1, <1>11, <1>12, <1>13, RedisStays, Assemble

(* The clip status of a recorded event, and the recording policy state.     *)
LEMMA SetClipPendingKeeps ==
    ASSUME IngestInv, NEW w \in Workers, SetClipPending(w)
    PROVE  IngestInv'
<1>1. /\ proc[w].pc = "clip" /\ Goto(w, "ack")
      /\ UNCHANGED <<redis, events, task, alerts, dedupe, requests, cut, rolling>>
  BY DEF SetClipPending, At
<1>2. PICK s \in Sids : /\ s = Current(w) /\ proc[w].batch # <<>> /\ proc[w] \in Proc
                        /\ ProcOK(proc[w]) /\ FitsAt(proc[w], s) /\ RowOK(s)
  BY <1>1, AtWork DEF Late
<1>3. PICK p \in Proc : /\ proc' = [proc EXCEPT ![w] = p] /\ p.turn = proc[w].turn
                        /\ p.batch = proc[w].batch /\ p.new = proc[w].new /\ p.status = proc[w].status
                        /\ p.pc = "ack"
  <2>1. "ack" \in Labels
    BY DEF Labels
  <2>. QED  BY <1>1, <2>1, GotoMoves
<1>4. ProcOK(p)
  BY <1>1, <1>2, <1>3 DEF ProcOK, Early, Late
<1>5. HasCause(s) => HasCause(s)'
  BY <1>1, CauseStays
<1>6. FitsAt(p, s)'
  BY <1>1, <1>2, <1>3 DEF FitsAt, Early, Late
<1>7. RowOK(s)'
  BY <1>1, <1>2, <1>5 DEF RowOK
<1>8. Core'
  BY <1>1, <1>2, <1>3, <1>4, <1>6, <1>7, LaterStep
<1>9. TableOK'
  <2>1. clip' \in [Sids -> ClipStatuses]
    BY <1>2, Parts DEF SetClipPending, TableOK, ClipStatuses
  <2>. QED  BY <1>1, <2>1, Parts DEF TableOK
<1>10. LocalOK'
  <2>1. mem' \in [Workers -> Memory]
    <3>1. mem \in [Workers -> Memory] /\ mem[w] \in Memory /\ KeyOf[s] \in Keys /\ TsOf[s] \in Nat
      BY Parts, StreamAssumption DEF LocalOK
    <3>2. \/ UNCHANGED mem
          \/ mem' = [mem EXCEPT ![w].published = @ + 1, ![w].last[KeyOf[s]] = TsOf[s]]
      BY <1>2 DEF SetClipPending
    <3>. DEFINE q == [published |-> mem[w].published + 1,
                      last |-> [mem[w].last EXCEPT ![KeyOf[s]] = TsOf[s]]]
    <3>3. q \in Memory
      <4>1. mem[w].published \in Nat /\ mem[w].last \in [Keys -> Nat]
        BY <3>1 DEF Memory
      <4>2. mem[w].published + 1 \in Nat /\ [mem[w].last EXCEPT ![KeyOf[s]] = TsOf[s]] \in [Keys -> Nat]
        BY <3>1, <4>1
      <4>. QED  BY <4>2 DEF Memory
    <3>4. mem' = [mem EXCEPT ![w] = q] \/ UNCHANGED mem
      BY <3>1, <3>2 DEF Memory
    <3>. HIDE DEF q
    <3>. QED  BY <3>1, <3>3, <3>4
  <2>2. faults' \in 0..MaxFaults
    BY Parts, BoundsAssumption DEF LocalOK, Fault, SetClipPending
  <2>. QED  BY <1>1, <2>1, <2>2, Parts DEF LocalOK
<1>. QED  BY <1>1, <1>8, <1>9, <1>10, RedisStays, Assemble

-----------------------------------------------------------------------------
(* The theorems                                                             *)

(* Nothing is stored and no process runs.                                   *)
LEMMA InitIngest == Init => IngestInv
<1>. SUFFICES ASSUME Init PROVE IngestInv
  OBVIOUS
<1>1. RedisOK /\ NoGroupNoList
  <2>1. produced = 0 /\ last = 0 /\ group = FALSE /\ pel = [m \in Msgs |-> None] /\ skipped = {}
    BY DEF Init
  <2>2. pel \in [Msgs -> Workers \cup {None}] /\ \A m \in Msgs : pel[m] = None
    BY <2>1
  <2>3. produced \in 0..Len(Stream) /\ last \in 0..produced
    BY <2>1, StreamFacts
  <2>4. group \in BOOLEAN /\ skipped \subseteq Msgs
    BY <2>1
  <2>. QED  BY <2>2, <2>3, <2>4 DEF RedisOK, NoGroupNoList
<1>2. TableOK
  BY DEF Init, TableOK, ClipStatuses, TaskStatuses
<1>3. LocalOK
  <2>1. Fresh \in Memory
    BY DEF Fresh, Memory
  <2>2. mem \in [Workers -> Memory]
    BY <2>1 DEF Init
  <2>3. faults \in 0..MaxFaults
    BY BoundsAssumption DEF Init
  <2>. QED  BY <2>2, <2>3 DEF Init, LocalOK
<1>4. \A w \in Workers : FreshProc(proc[w]) /\ proc[w].batch = <<>>
  <2>1. \A w \in Workers : proc[w] = [Idle EXCEPT !.pc = "down"]
    BY DEF Init
  <2>2. [Idle EXCEPT !.pc = "down"].batch = <<>>
    BY DEF Idle
  <2>. QED  BY <2>1, <2>2, IdleFresh
<1>5. ProcsOK
  <2>1. proc = [w \in Workers |-> [Idle EXCEPT !.pc = "down"]]
    BY DEF Init
  <2>. QED  BY <2>1, IdleFresh DEF ProcsOK, FreshProc
<1>6. Handlers /\ OneInserter
  BY <1>4 DEF Handlers, FreshProc, Fits, OneInserter
<1>7. Rows /\ EvidenceAccounted
  BY DEF Init, Rows, RowOK, EvidenceAccounted, None
<1>. QED  BY <1>1, <1>2, <1>3, <1>5, <1>6, <1>7, TypeSplit DEF IngestInv

(* Every action keeps the invariant.                                        *)
LEMMA NextIngest == IngestInv /\ [Next]_vars => IngestInv'
<1>. SUFFICES ASSUME IngestInv, [Next]_vars PROVE IngestInv'
  OBVIOUS
<1>1. CASE Produce \/ LoseGroup \/ ExpireKey \/ EndTask \/ UNCHANGED vars
  BY <1>1, ProduceKeeps, LoseGroupKeeps, ExpireKeyKeeps, EndTaskKeeps, StutterKeeps
<1>2. ASSUME NEW w \in Workers, Start(w) \/ ReadNew(w) \/ Crash(w)
      PROVE  IngestInv'
  BY <1>2, StartKeeps, ReadNewKeeps, CrashKeeps
<1>3. ASSUME NEW w \in Workers, NEW S \in SUBSET Oldest, ReadPending(w, S)
      PROVE  IngestInv'
  BY <1>3, ReadPendingKeeps
<1>4. ASSUME NEW w \in Workers, Handle(w)
      PROVE  IngestInv'
  BY <1>4, InsertEventKeeps, InsertFailsKeeps, DecidePolicyKeeps, MarkSuppressedKeeps, AdmitKeeps,
     CreateTaskKeeps, CreateFailsKeeps, GateKeeps, PublishRequestKeeps, SetClipPendingKeeps,
     AckKeeps, AbortKeeps DEF Handle
<1>. QED  BY <1>1, <1>2, <1>3, <1>4 DEF Next

(* The inductive invariant holds in every reachable state.                  *)
LEMMA IngestInvHolds == Spec => []IngestInv
  BY InitIngest, NextIngest, PTL DEF Spec

(* Every variable keeps its type: in particular read_new never moves the    *)
(* cursor past the stream, and a batch holds messages of the stream only.   *)
THEOREM TypeCorrect == Spec => []TypeOK
<1>1. IngestInv => TypeOK
  BY DEF IngestInv
<1>. QED  BY <1>1, IngestInvHolds, PTL

(* An event is announced at most once, however often and to however many    *)
(* workers its message is delivered, and never when it is suppressed.       *)
THEOREM AlertOnceHolds == Spec => []AlertOnce
<1>1. IngestInv => AlertOnce
  <2>1. SUFFICES ASSUME IngestInv, NEW s \in Sids
                 PROVE  alerts[s] <= 1 /\ (events[s] = "suppressed" => alerts[s] = 0)
    BY DEF AlertOnce
  <2>2. RowOK(s)
    BY <2>1 DEF IngestInv, Rows
  <2>. QED  BY <2>2 DEF RowOK
<1>. QED  BY <1>1, IngestInvHolds, PTL

(* A record request goes out at most once, whether or not its dedupe key    *)
(* has expired, and its task is not marked skipped.                         *)
THEOREM RequestOnceHolds == Spec => []RequestOnce
<1>1. IngestInv => RequestOnce
  <2>1. SUFFICES ASSUME IngestInv, NEW s \in Sids
                 PROVE  /\ requests[s] <= 1
                        /\ requests[s] = 1 => task[s] \in {"materialization_pending", "ended"}
    BY DEF RequestOnce
  <2>2. RowOK(s)
    BY <2>1 DEF IngestInv, Rows
  <2>. QED  BY <2>2 DEF RowOK
<1>. QED  BY <1>1, IngestInvHolds, PTL

(* A suppressed event has a cause: another event of its key, within the     *)
(* cooldown before it, is stored.                                           *)
THEOREM SuppressedHasCauseHolds == Spec => []SuppressedHasCause
<1>1. IngestInv => SuppressedHasCause
  BY DEF IngestInv, Rows, RowOK, HasCause, SuppressedHasCause
<1>. QED  BY <1>1, IngestInvHolds, PTL

(* A stored event that is not suppressed and has no evidence task is still  *)
(* in the hands of its inserter, or a fault cut that handler short.         *)
THEOREM EvidenceAccountedHolds == Spec => []EvidenceAccounted
<1>1. IngestInv => EvidenceAccounted
  BY DEF IngestInv
<1>. QED  BY <1>1, IngestInvHolds, PTL

(* A message leaves the pending entries list only when its row is stored,   *)
(* unless the group itself is lost.                                         *)
THEOREM AckImpliesStoredHolds == Spec => AckImpliesStored
<1>1. IngestInv /\ [Next]_vars =>
          [\A m \in Msgs : pel[m] # None /\ pel'[m] = None /\ group' => events[Stream[m]] # None]_vars
  <2>1. SUFFICES ASSUME IngestInv, Next, NEW m \in Msgs, pel[m] # None, pel'[m] = None, group'
                 PROVE  events[Stream[m]] # None
    OBVIOUS
  <2>2. pel \in [Msgs -> Workers \cup {None}] /\ group
    BY <2>1, Parts DEF RedisOK, NoGroupNoList
  <2>3. pel' # pel /\ ~ LoseGroup
    BY <2>1 DEF LoseGroup
  <2>4. ASSUME NEW w \in Workers, Ack(w) PROVE events[Stream[m]] # None
    <3>1. proc[w].pc = "ack" /\ proc[w].batch # <<>> /\ Current(w) \in Sids
          /\ FitsAt(proc[w], Current(w)) /\ Head(proc[w].batch) \in Msgs
      BY <2>1, <2>4, WorkerFacts DEF Ack, At, ProcOK, Late
    <3>2. m = Head(proc[w].batch)
      BY <2>1, <2>2, <2>4, <3>1 DEF Ack
    <3>3. events[Current(w)] # None
      BY <3>1 DEF FitsAt, Late
    <3>. QED  BY <3>2, <3>3 DEF Current
  <2>5. ASSUME NEW w \in Workers, NEW S, ReadPending(w, S) PROVE FALSE
    <3>1. pel'[m] = w \/ pel'[m] = pel[m]
      BY <2>5 DEF ReadPending
    <3>. QED  BY <2>1, <3>1, ProcessesAssumption
  <2>6. ASSUME NEW w \in Workers, ReadNew(w) PROVE FALSE
    <3>1. pel'[m] = w \/ pel'[m] = pel[m]
      BY <2>6 DEF ReadNew
    <3>. QED  BY <2>1, <3>1, ProcessesAssumption
  <2>7. ASSUME NEW w \in Workers, Start(w) \/ Crash(w) PROVE FALSE
    BY <2>2, <2>3, <2>7 DEF Start, Crash, redis
  <2>8. ASSUME NEW w \in Workers, Handle(w), ~ Ack(w) PROVE FALSE
    <3>1. UNCHANGED redis
      BY <2>8 DEF Handle, InsertEvent, InsertFails, DecidePolicy, MarkSuppressed, Admit, CreateTask,
         CreateFails, Gate, PublishRequest, SetClipPending, Abort
    <3>. QED  BY <2>3, <3>1 DEF redis
  <2>9. ~ Produce /\ ~ ExpireKey /\ ~ EndTask
    BY <2>3 DEF Produce, ExpireKey, EndTask, redis
  <2>. QED  BY <2>1, <2>3, <2>4, <2>5, <2>6, <2>7, <2>8, <2>9 DEF Next
<1>. QED  BY <1>1, IngestInvHolds, PTL DEF Spec, AckImpliesStored

-----------------------------------------------------------------------------
(* The shared pool.  Places are promised by the counts before they are      *)
(* taken by the inserts.  A count sees no more than the other workers'      *)
(* promises too little, so that what a source has been promised beyond its  *)
(* reservation and one place per worker stays within the pool.              *)

(* The workers whose admission has been granted and not yet inserted.       *)
Granted(p) == p.pc = "create" /\ p.allowed
Inflight(src) == {w \in Workers : Granted(proc[w]) /\ SourceOf[Current(w)] = src}

Load(src) == Cardinality(Active(src)) + Cardinality(Inflight(src))
Grid == Sources \X (1..(Cardinality(Sids) + Cardinality(Workers)))
Promised ==
    {place \in Grid : Reserved + Cardinality(Workers) <= place[2] /\ place[2] <= Load(place[1])}

PoolBounded == Cardinality(Promised) <= SharedLimit + faults

(* The sizes of the constant sets.                                          *)
LEMMA SizeFacts ==
    /\ Cardinality(Workers) \in Nat /\ Cardinality(Workers) >= 1 /\ Cardinality(Sids) \in Nat
    /\ Cardinality(Sources) \in Nat /\ Reserved \in Nat /\ SharedLimit \in Nat
    /\ IsFiniteSet(Workers) /\ IsFiniteSet(Sids) /\ IsFiniteSet(Sources) /\ IsFiniteSet(Grid)
<1>1. /\ IsFiniteSet(Workers) /\ IsFiniteSet(Sids) /\ IsFiniteSet(Sources) /\ Workers # {}
      /\ Reserved \in Nat /\ SharedLimit \in Nat
  BY ProcessesAssumption, BoundsAssumption
<1>2. Cardinality(Workers) \in Nat /\ Cardinality(Sids) \in Nat /\ Cardinality(Sources) \in Nat
  BY <1>1, FS_CardinalityType
<1>3. Cardinality(Workers) # 0
  BY <1>1, FS_EmptySet
<1>4. IsFiniteSet(1..(Cardinality(Sids) + Cardinality(Workers)))
  <2>1. Cardinality(Sids) + Cardinality(Workers) \in Int
    BY <1>2
  <2>. QED  BY <2>1, FS_Interval
<1>5. IsFiniteSet(Grid)
  BY <1>1, <1>4, FS_Product DEF Grid
<1>. QED  BY <1>1, <1>2, <1>3, <1>5

(* Parts of a finite set.                                                   *)
LEMMA PartSize ==
    ASSUME NEW Y, IsFiniteSet(Y), NEW X \in SUBSET Y
    PROVE  IsFiniteSet(X) /\ Cardinality(X) \in Nat /\ Cardinality(X) <= Cardinality(Y)
  BY FS_Subset, FS_CardinalityType

(* The sizes before and after a step.                                       *)
LEMMA LoadFacts ==
    ASSUME NEW src \in Sources
    PROVE  /\ Cardinality(Active(src)) \in Nat /\ Cardinality(Active(src)) <= Cardinality(Sids)
           /\ Cardinality(Active(src)') \in Nat /\ Cardinality(Active(src)') <= Cardinality(Sids)
           /\ Cardinality(Inflight(src)) \in Nat /\ Cardinality(Inflight(src)) <= Cardinality(Workers)
           /\ Cardinality(Inflight(src)') \in Nat /\ Cardinality(Inflight(src)') <= Cardinality(Workers)
           /\ Load(src) \in Nat /\ Load(src)' \in Nat
           /\ Load(src)' = Cardinality(Active(src)') + Cardinality(Inflight(src)')
<1>1. PICK A \in SUBSET Sids : A = Active(src)
  BY DEF Active
<1>2. PICK B \in SUBSET Sids : B = Active(src)'
  BY DEF Active
<1>3. PICK C \in SUBSET Workers : C = Inflight(src)
  BY DEF Inflight
<1>4. PICK D \in SUBSET Workers : D = Inflight(src)'
  BY DEF Inflight
<1>5. /\ Cardinality(A) \in Nat /\ Cardinality(A) <= Cardinality(Sids)
      /\ Cardinality(B) \in Nat /\ Cardinality(B) <= Cardinality(Sids)
      /\ Cardinality(C) \in Nat /\ Cardinality(C) <= Cardinality(Workers)
      /\ Cardinality(D) \in Nat /\ Cardinality(D) <= Cardinality(Workers)
  BY SizeFacts, PartSize
<1>6. Load(src) = Cardinality(A) + Cardinality(C) /\ Load(src)' = Cardinality(B) + Cardinality(D)
  BY <1>1, <1>2, <1>3, <1>4 DEF Load
<1>. QED  BY <1>1, <1>2, <1>3, <1>4, <1>5, <1>6

(* Promised as sets of places.                                              *)
LEMMA PromiseFacts ==
    /\ Promised \in SUBSET Grid /\ Promised' \in SUBSET Grid
    /\ \A place \in Grid :
          /\ place[1] \in Sources /\ place[2] \in Nat
          /\ place \in Promised <=>
                Reserved + Cardinality(Workers) <= place[2] /\ place[2] <= Load(place[1])
          /\ place \in Promised' <=>
                Reserved + Cardinality(Workers) <= place[2] /\ place[2] <= Load(place[1])'
<1>1. \A place \in Grid : place[1] \in Sources /\ place[2] \in Nat
  BY SizeFacts DEF Grid
<1>. QED  BY <1>1 DEF Promised, Grid

(* Nothing new is promised.                                                 *)
LEMMA LessPromised ==
    ASSUME PoolBounded, faults \in Nat, faults' \in Nat, faults <= faults',
           \A src \in Sources : Load(src)' <= Load(src) \/ Load(src)' < Reserved + Cardinality(Workers)
    PROVE  PoolBounded'
<1>1. PICK P \in SUBSET Grid : P = Promised
  BY PromiseFacts
<1>2. PICK Q \in SUBSET Grid : Q = Promised'
  BY PromiseFacts
<1>3. Q \subseteq P
  <2>1. SUFFICES ASSUME NEW place \in Grid, place \in Q PROVE place \in P
    BY <1>2
  <2>2. /\ place[1] \in Sources /\ place[2] \in Nat /\ Reserved + Cardinality(Workers) <= place[2]
        /\ place[2] <= Load(place[1])'
    BY <1>2, <2>1, PromiseFacts
  <2>3. PICK src \in Sources : src = place[1]
    BY <2>2
  <2>4. Load(src) \in Nat /\ Load(src)' \in Nat
    BY LoadFacts
  <2>5. place[2] <= Load(src)
    BY <2>2, <2>3, <2>4, SizeFacts
  <2>. QED  BY <1>1, <2>2, <2>3, <2>5, PromiseFacts
<1>4. IsFiniteSet(P) /\ Cardinality(P) \in Nat
  BY SizeFacts, PartSize
<1>5. Cardinality(Q) \in Nat /\ Cardinality(Q) <= Cardinality(P)
  BY <1>3, <1>4, PartSize
<1>. QED  BY <1>1, <1>2, <1>4, <1>5, SizeFacts DEF PoolBounded

(* A step in which no worker is granted a place and no task begins.         *)
LEMMA CalmStep ==
    ASSUME PoolBounded, faults \in Nat, faults' \in Nat, faults <= faults',
           \A v \in Workers : proc'[v] = proc[v] \/ ~ Granted(proc'[v]),
           \A s \in Sids : task'[s] = "materialization_pending" => task[s] = "materialization_pending"
    PROVE  PoolBounded'
<1>1. ASSUME NEW src \in Sources PROVE Load(src)' <= Load(src)
  <2>1. PICK A \in SUBSET Sids : A = Active(src)
    BY DEF Active
  <2>2. PICK B \in SUBSET A : B = Active(src)'
    BY <2>1 DEF Active
  <2>3. PICK C \in SUBSET Workers : C = Inflight(src)
    BY DEF Inflight
  <2>4. PICK D \in SUBSET C : D = Inflight(src)'
    BY <2>3 DEF Inflight, Current
  <2>5. /\ IsFiniteSet(A) /\ Cardinality(A) \in Nat /\ IsFiniteSet(C) /\ Cardinality(C) \in Nat
    BY SizeFacts, PartSize
  <2>6. /\ Cardinality(B) \in Nat /\ Cardinality(B) <= Cardinality(A)
        /\ Cardinality(D) \in Nat /\ Cardinality(D) <= Cardinality(C)
    BY <2>5, PartSize
  <2>. QED  BY <2>1, <2>2, <2>3, <2>4, <2>5, <2>6 DEF Load
<1>. QED  BY <1>1, LessPromised

(* The insert takes the place that was granted.                             *)
LEMMA CreateTaskBounded ==
    ASSUME IngestInv, PoolBounded, NEW w \in Workers, CreateTask(w)
    PROVE  PoolBounded'
<1>1. PICK s \in Sids : s = Current(w) /\ proc[w] \in Proc /\ proc[w].batch # <<>>
  BY AtWork DEF CreateTask, At, Early
<1>2. /\ proc[w].pc = "create" /\ faults' = faults /\ faults \in Nat
      /\ proc \in [Workers -> Proc] /\ task \in [Sids -> TaskStatuses]
  BY Parts DEF CreateTask, At, ProcsOK, TableOK, LocalOK
<1>3. /\ task' = [task EXCEPT ![s] = IF @ = None THEN (IF proc[w].allowed THEN "materialization_pending"
                                                       ELSE "materialization_skipped") ELSE @]
      /\ proc' = [proc EXCEPT ![w].status = task'[s], ![w].pc = "gate"]
  BY <1>1 DEF CreateTask
<1>4. /\ \A v \in Workers : v # w => proc'[v] = proc[v]
      /\ proc'[w].pc = "gate"
  BY <1>1, <1>2, <1>3 DEF Proc
<1>5. /\ \A r \in Sids : r # s => task'[r] = task[r]
      /\ ~ proc[w].allowed => (task'[s] = "materialization_pending" => task[s] = "materialization_pending")
  BY <1>2, <1>3
<1>6. CASE ~ proc[w].allowed
  <2>1. \A r \in Sids : task'[r] = "materialization_pending" => task[r] = "materialization_pending"
    BY <1>5, <1>6
  <2>2. \A v \in Workers : proc'[v] = proc[v] \/ ~ Granted(proc'[v])
    BY <1>4 DEF Granted
  <2>3. faults' \in Nat /\ faults <= faults'
    BY <1>2
  <2>. QED  BY <1>2, <2>1, <2>2, <2>3, CalmStep
<1>7. CASE proc[w].allowed
  <2>1. ASSUME NEW src \in Sources PROVE Load(src)' <= Load(src)
    <3>1. PICK A \in SUBSET Sids : A = Active(src)
      BY DEF Active
    <3>2. PICK B \in SUBSET Sids : B = Active(src)'
      BY DEF Active
    <3>3. PICK C \in SUBSET Workers : C = Inflight(src)
      BY DEF Inflight
    <3>4. PICK D \in SUBSET Workers : D = Inflight(src)'
      BY DEF Inflight
    <3>5. /\ IsFiniteSet(A) /\ Cardinality(A) \in Nat /\ IsFiniteSet(C) /\ Cardinality(C) \in Nat
          /\ Cardinality(B) \in Nat /\ Cardinality(D) \in Nat
      BY SizeFacts, PartSize
    <3>6. Load(src) = Cardinality(A) + Cardinality(C) /\ Load(src)' = Cardinality(B) + Cardinality(D)
      BY <3>1, <3>2, <3>3, <3>4 DEF Load
    <3>7. D \subseteq C \ {w}
      BY <1>4, <3>3, <3>4 DEF Inflight, Granted, Current
    <3>8. CASE SourceOf[s] = src
      <4>1. w \in C
        BY <1>1, <1>2, <1>7, <3>3, <3>8 DEF Inflight, Granted
      <4>2. B \subseteq A \cup {s}
        BY <1>5, <3>1, <3>2 DEF Active
      <4>3. IsFiniteSet(C \ {w}) /\ Cardinality(C \ {w}) = Cardinality(C) - 1
        BY <3>5, <4>1, FS_RemoveElement
      <4>4. /\ IsFiniteSet(A \cup {s})
            /\ Cardinality(A \cup {s}) = Cardinality(A) \/ Cardinality(A \cup {s}) = Cardinality(A) + 1
        BY <3>5, FS_AddElement
      <4>5. Cardinality(D) <= Cardinality(C \ {w}) /\ Cardinality(B) <= Cardinality(A \cup {s})
        BY <3>7, <4>2, <4>3, <4>4, PartSize
      <4>. QED  BY <3>5, <3>6, <4>3, <4>4, <4>5
    <3>9. CASE SourceOf[s] # src
      <4>1. B \subseteq A
        BY <1>5, <3>1, <3>2, <3>9 DEF Active
      <4>2. Cardinality(B) <= Cardinality(A) /\ Cardinality(D) <= Cardinality(C)
        BY <3>5, <3>7, <4>1, PartSize
      <4>. QED  BY <3>5, <3>6, <4>2
    <3>. QED  BY <3>8, <3>9
  <2>2. faults' \in Nat /\ faults <= faults'
    BY <1>2
  <2>. QED  BY <1>2, <2>1, <2>2, LessPromised
<1>. QED  BY <1>6, <1>7

(* One place more than a known set of places.                               *)
LEMMA OneMore ==
    ASSUME NEW Q, IsFiniteSet(Q), NEW x, NEW n \in Nat, Cardinality(Q \ {x}) <= n
    PROVE  Cardinality(Q) <= n + 1
<1>1. Cardinality(Q) \in Nat /\ IsFiniteSet(Q \ {x}) /\ Cardinality(Q \ {x}) \in Nat
  BY FS_CardinalityType, PartSize
<1>2. Cardinality(Q \ {x}) = Cardinality(Q) \/ Cardinality(Q \ {x}) = Cardinality(Q) - 1
  BY FS_RemoveElement
<1>. QED  BY <1>1, <1>2

(* The shared pool as the count sees it: all promises but the last one can  *)
(* be moved down by one place for every other worker, into places taken.    *)
LEMMA GrantFromPool ==
    ASSUME NEW w \in Workers, NEW own \in Sources, SharedUsed < SharedLimit,
           faults' \in Nat, \A src \in Sources : Active(src)' = Active(src),
           \A src \in Sources : src # own => w \notin Inflight(src)'
    PROVE  PoolBounded'
<1>. DEFINE W == Cardinality(Workers)
            x == <<own, Cardinality(Active(own)) + W>>
<1>1. PICK Q \in SUBSET Grid : Q = Promised'
  BY PromiseFacts
<1>2. PICK E : E = Excess /\ IsFiniteSet(E) /\ Cardinality(E) \in Nat /\ Cardinality(E) < SharedLimit
  <2>1. Cardinality(Sids) \in Nat /\ IsFiniteSet(1..Cardinality(Sids))
    BY SizeFacts, FS_Interval
  <2>2. IsFiniteSet(Sources \X (1..Cardinality(Sids)))
    BY <2>1, SizeFacts, FS_Product
  <2>3. Excess \in SUBSET (Sources \X (1..Cardinality(Sids)))
    BY DEF Excess
  <2>. QED  BY <2>2, <2>3, PartSize DEF SharedUsed
<1>3. ASSUME NEW place \in Q \ {x}
      PROVE  <<place[1], place[2] - (W - 1)>> \in E
  <2>1. /\ place \in Grid /\ place[1] \in Sources /\ place[2] \in Nat /\ Reserved + W <= place[2]
        /\ place[2] <= Load(place[1])'
    BY <1>1, PromiseFacts
  <2>2. PICK src \in Sources : src = place[1]
    BY <2>1
  <2>3. PICK n \in Nat : n = place[2] /\ place = <<src, n>>
    BY <2>1, <2>2 DEF Grid
  <2>4. PICK a \in Nat : a = Cardinality(Active(src)) /\ a <= Cardinality(Sids)
    BY LoadFacts
  <2>5. PICK i \in Nat : i = Cardinality(Inflight(src)') /\ i <= W
    BY LoadFacts
  <2>6. Load(src)' = a + i
    BY <2>4, <2>5, LoadFacts
  <2>7. n <= a + W - 1
    <3>1. CASE src = own
      <4>1. n # a + W
        BY <2>3, <2>4, <3>1
      <4>. QED  BY <2>1, <2>2, <2>3, <2>5, <2>6, <4>1, SizeFacts
    <3>2. CASE src # own
      <4>1. PICK D \in SUBSET (Workers \ {w}) : D = Inflight(src)'
        BY <3>2 DEF Inflight
      <4>2. IsFiniteSet(Workers \ {w}) /\ Cardinality(Workers \ {w}) = W - 1
        BY SizeFacts, FS_RemoveElement
      <4>3. i <= W - 1
        BY <2>5, <4>1, <4>2, PartSize
      <4>. QED  BY <2>1, <2>2, <2>3, <2>6, <4>3, SizeFacts
    <3>. QED  BY <3>1, <3>2
  <2>8. PICK k \in Nat : k = n - (W - 1) /\ Reserved < k /\ k <= a /\ k \in 1..Cardinality(Sids)
    BY <2>1, <2>3, <2>4, <2>7, SizeFacts
  <2>9. <<src, k>> \in Excess
    BY <2>4, <2>8 DEF Excess
  <2>. QED  BY <1>2, <2>2, <2>3, <2>8, <2>9
<1>4. Cardinality(Q \ {x}) <= Cardinality(E)
  <2>. DEFINE f == [place \in Q \ {x} |-> <<place[1], place[2] - (W - 1)>>]
  <2>1. f \in [Q \ {x} -> E]
    BY <1>3
  <2>2. \A c, d \in Q \ {x} : f[c] = f[d] => c = d
    <3>1. SUFFICES ASSUME NEW c \in Q \ {x}, NEW d \in Q \ {x}, f[c] = f[d] PROVE c = d
      OBVIOUS
    <3>2. /\ c \in Grid /\ d \in Grid /\ c[2] \in Nat /\ d[2] \in Nat
          /\ c = <<c[1], c[2]>> /\ d = <<d[1], d[2]>>
      BY <1>1, PromiseFacts DEF Grid
    <3>3. c[1] = d[1] /\ c[2] - (W - 1) = d[2] - (W - 1)
      BY <3>1
    <3>4. c[2] = d[2]
      BY <3>2, <3>3, SizeFacts
    <3>. QED  BY <3>2, <3>3, <3>4
  <2>. HIDE DEF f
  <2>3. f \in Injection(Q \ {x}, E)
    BY <2>1, <2>2 DEF Injection, IsInjective
  <2>. QED  BY <1>2, <2>3, FS_Injection
<1>5. IsFiniteSet(Q) /\ Cardinality(Q) \in Nat /\ Cardinality(Q \ {x}) \in Nat
  BY SizeFacts, PartSize
<1>6. Cardinality(Q) <= Cardinality(E) + 1
  <2>. HIDE DEF x
  <2>. QED  BY <1>2, <1>4, <1>5, OneMore
<1>. QED  BY <1>1, <1>2, <1>5, <1>6, SizeFacts DEF PoolBounded

(* A count that fails grants one place more.                                *)
LEMMA GrantBlindly ==
    ASSUME PoolBounded, NEW own \in Sources, faults \in Nat, faults' = faults + 1,
           Load(own)' <= Load(own) + 1, \A src \in Sources : src # own => Load(src)' <= Load(src)
    PROVE  PoolBounded'
<1>. DEFINE x == <<own, Load(own) + 1>>
<1>1. PICK P \in SUBSET Grid : P = Promised
  BY PromiseFacts
<1>2. PICK Q \in SUBSET Grid : Q = Promised'
  BY PromiseFacts
<1>3. Q \ {x} \subseteq P
  <2>1. SUFFICES ASSUME NEW place \in Grid, place \in Q, place # x PROVE place \in P
    BY <1>2
  <2>2. /\ place[1] \in Sources /\ place[2] \in Nat /\ Reserved + Cardinality(Workers) <= place[2]
        /\ place[2] <= Load(place[1])' /\ place = <<place[1], place[2]>>
    BY <1>2, <2>1, PromiseFacts DEF Grid
  <2>3. PICK src \in Sources : src = place[1]
    BY <2>2
  <2>4. Load(src) \in Nat /\ Load(src)' \in Nat
    BY LoadFacts
  <2>5. place[2] <= Load(src)
    <3>1. CASE src = own
      <4>1. place[2] # Load(src) + 1
        BY <2>1, <2>2, <2>3, <3>1
      <4>2. place[2] <= Load(src) + 1
        BY <2>2, <2>3, <2>4, <3>1
      <4>. QED  BY <2>2, <2>4, <4>1, <4>2
    <3>2. CASE src # own
      BY <2>2, <2>3, <2>4, <3>2
    <3>. QED  BY <3>1, <3>2
  <2>. QED  BY <1>1, <2>2, <2>3, <2>5, PromiseFacts
<1>4. /\ IsFiniteSet(P) /\ Cardinality(P) \in Nat /\ IsFiniteSet(Q) /\ Cardinality(Q) \in Nat
  BY SizeFacts, PartSize
<1>5. Cardinality(Q \ {x}) <= Cardinality(P)
  BY <1>3, <1>4, PartSize
<1>6. Cardinality(Q) <= Cardinality(P) + 1
  <2>. HIDE DEF x
  <2>. QED  BY <1>4, <1>5, OneMore
<1>. QED  BY <1>1, <1>2, <1>4, <1>6, SizeFacts DEF PoolBounded

(* The count grants a reserved place, a shared one, or fails and grants.    *)
LEMMA AdmitBounded ==
    ASSUME IngestInv, PoolBounded, NEW w \in Workers, Admit(w)
    PROVE  PoolBounded'
<1>1. PICK s \in Sids : s = Current(w) /\ proc[w] \in Proc /\ proc[w].batch # <<>>
  BY AtWork DEF Admit, At, Early
<1>2. /\ proc[w].pc = "admit" /\ task' = task /\ faults \in Nat
      /\ proc \in [Workers -> Proc] /\ task \in [Sids -> TaskStatuses]
  BY Parts DEF Admit, At, ProcsOK, TableOK, LocalOK, store
<1>3. PICK own \in Sources : own = SourceOf[s]
  BY StreamAssumption
<1>4. PICK ok \in BOOLEAN :
          /\ IF ok = Admitted(own) THEN UNCHANGED faults ELSE ok /\ Fault
          /\ proc' = [proc EXCEPT ![w].allowed = ok, ![w].pc = "create"]
  BY <1>1, <1>3 DEF Admit
<1>5. faults' \in Nat /\ faults <= faults' /\ (faults' = faults \/ faults' = faults + 1)
  BY <1>2, <1>4 DEF Fault
<1>6. /\ \A v \in Workers : v # w => proc'[v] = proc[v]
      /\ proc'[w].pc = "create" /\ proc'[w].allowed = ok /\ proc'[w].batch = proc[w].batch
  BY <1>1, <1>2, <1>4 DEF Proc
<1>7. \A src \in Sources : Active(src)' = Active(src)
  BY <1>2 DEF Active
<1>8. CASE ~ ok
  <2>1. \A v \in Workers : proc'[v] = proc[v] \/ ~ Granted(proc'[v])
    BY <1>6, <1>8 DEF Granted
  <2>. QED  BY <1>2, <1>5, <2>1, CalmStep
<1>9. CASE ok
  <2>1. \A src \in Sources : src # own => w \notin Inflight(src)' /\ Inflight(src)' \subseteq Inflight(src)
    BY <1>1, <1>3, <1>6 DEF Inflight, Current
  <2>2. Inflight(own)' \subseteq Inflight(own) \cup {w}
    BY <1>6 DEF Inflight, Current
  <2>3. ASSUME NEW src \in Sources, src # own PROVE Load(src)' <= Load(src)
    <3>1. PICK C \in SUBSET Workers : C = Inflight(src)
      BY DEF Inflight
    <3>2. PICK D \in SUBSET C : D = Inflight(src)'
      BY <2>1, <2>3, <3>1
    <3>3. IsFiniteSet(C) /\ Cardinality(C) \in Nat
      BY SizeFacts, PartSize
    <3>4. Cardinality(D) \in Nat /\ Cardinality(D) <= Cardinality(C)
      BY <3>3, PartSize
    <3>5. PICK a \in Nat : a = Cardinality(Active(src)) /\ Load(src)' = a + Cardinality(D)
      BY <1>7, <3>2, LoadFacts
    <3>. QED  BY <3>1, <3>3, <3>4, <3>5 DEF Load
  <2>4. Load(own)' <= Load(own) + 1
    <3>1. PICK C \in SUBSET Workers : C = Inflight(own)
      BY DEF Inflight
    <3>2. PICK D \in SUBSET (C \cup {w}) : D = Inflight(own)'
      BY <2>2, <3>1
    <3>3. IsFiniteSet(C) /\ Cardinality(C) \in Nat
      BY SizeFacts, PartSize
    <3>4. /\ IsFiniteSet(C \cup {w})
          /\ Cardinality(C \cup {w}) = Cardinality(C) \/ Cardinality(C \cup {w}) = Cardinality(C) + 1
      BY <3>3, FS_AddElement
    <3>5. Cardinality(D) \in Nat /\ Cardinality(D) <= Cardinality(C \cup {w})
      BY <3>4, PartSize
    <3>6. PICK a \in Nat : a = Cardinality(Active(own)) /\ Load(own)' = a + Cardinality(D)
      BY <1>7, <3>2, LoadFacts
    <3>. QED  BY <3>1, <3>3, <3>4, <3>5, <3>6 DEF Load
  <2>5. CASE Fault
    BY <1>2, <2>3, <2>4, <2>5, GrantBlindly DEF Fault
  <2>6. CASE Cardinality(Active(own)) < Reserved
    <3>1. PICK a \in Nat : a = Cardinality(Active(own)) /\ a = Cardinality(Active(own)')
      BY <1>7, LoadFacts
    <3>2. PICK i \in Nat : i = Cardinality(Inflight(own)') /\ i <= Cardinality(Workers)
      BY LoadFacts
    <3>3. Load(own)' = a + i
      BY <3>1, <3>2, LoadFacts
    <3>4. Load(own)' < Reserved + Cardinality(Workers)
      BY <2>6, <3>1, <3>2, <3>3, SizeFacts
    <3>. QED  BY <1>2, <1>5, <2>3, <3>4, LessPromised
  <2>7. CASE SharedUsed < SharedLimit
    BY <1>5, <1>7, <2>1, <2>7, GrantFromPool
  <2>8. Fault \/ Cardinality(Active(own)) < Reserved \/ SharedUsed < SharedLimit
    BY <1>4, <1>9 DEF Admitted
  <2>. QED  BY <2>5, <2>6, <2>7, <2>8
<1>. QED  BY <1>8, <1>9

(* One worker moves, and not to an insert.                                  *)
LEMMA MovedBounded ==
    ASSUME IngestInv, PoolBounded, NEW w \in Workers, NEW p, p.pc # "create",
           proc' = [proc EXCEPT ![w] = p], UNCHANGED faults \/ Fault,
           \A s \in Sids : task'[s] = "materialization_pending" => task[s] = "materialization_pending"
    PROVE  PoolBounded'
<1>1. proc \in [Workers -> Proc] /\ faults \in Nat
  BY Parts DEF ProcsOK, LocalOK
<1>2. \A v \in Workers : proc'[v] = proc[v] \/ ~ Granted(proc'[v])
  BY <1>1 DEF Granted
<1>3. faults' \in Nat /\ faults <= faults'
  BY <1>1 DEF Fault
<1>. QED  BY <1>1, <1>2, <1>3, CalmStep

(* A jump of one worker.                                                    *)
LEMMA GotoBounded ==
    ASSUME IngestInv, PoolBounded, NEW w \in Workers, NEW pc, pc # "create", Goto(w, pc),
           UNCHANGED faults \/ Fault,
           \A s \in Sids : task'[s] = "materialization_pending" => task[s] = "materialization_pending"
    PROVE  PoolBounded'
<1>1. proc \in [Workers -> Proc]
  BY Parts DEF ProcsOK
<1>. DEFINE p == [proc[w] EXCEPT !.pc = pc]
<1>2. p.pc # "create" /\ proc' = [proc EXCEPT ![w] = p]
  BY <1>1 DEF Goto, Proc
<1>. HIDE DEF p
<1>. QED  BY <1>2, MovedBounded

(* What other processes do.                                                 *)
LEMMA EnvBounded ==
    ASSUME IngestInv, PoolBounded, Produce \/ LoseGroup \/ ExpireKey \/ EndTask \/ UNCHANGED vars
    PROVE  PoolBounded'
<1>1. faults \in Nat /\ task \in [Sids -> TaskStatuses]
  BY Parts DEF LocalOK, TableOK
<1>2. proc' = proc /\ (UNCHANGED faults \/ Fault)
  BY DEF Produce, LoseGroup, ExpireKey, EndTask, vars, store
<1>3. faults' \in Nat /\ faults <= faults'
  BY <1>1, <1>2 DEF Fault
<1>4. \A s \in Sids : task'[s] = "materialization_pending" => task[s] = "materialization_pending"
  BY <1>1 DEF Produce, LoseGroup, ExpireKey, EndTask, vars, store
<1>. QED  BY <1>1, <1>2, <1>3, <1>4, CalmStep

(* The loop of a worker, and a batch that ends.                             *)
LEMMA LoopBounded ==
    ASSUME IngestInv, PoolBounded, NEW w \in Workers,
           \/ Start(w) \/ ReadNew(w) \/ Crash(w) \/ InsertFails(w) \/ Ack(w) \/ Abort(w)
           \/ \E S \in SUBSET Oldest : ReadPending(w, S)
    PROVE  PoolBounded'
<1>1. UNCHANGED faults \/ Fault
  BY DEF Start, ReadNew, Crash, InsertFails, Ack, Abort, ReadPending
<1>2. task' = task
  BY DEF Start, ReadNew, Crash, InsertFails, Ack, Abort, ReadPending, store
<1>3. \A batch : \A turn \in Polls : Begin(batch, turn).pc # "create"
  BY DEF Begin, Idle, Polls
<1>4. Idle.pc # "create" /\ [Idle EXCEPT !.pc = "down"].pc # "create"
  BY DEF Idle
<1>5. Rest(w).pc # "create"
  <2>1. proc[w].turn \in Polls
    BY DEF IngestInv, Handlers, ProcOK
  <2>. QED  BY <1>3, <2>1 DEF Rest
<1>6. \E p : p.pc # "create" /\ proc' = [proc EXCEPT ![w] = p]
  <2>1. CASE Start(w) \/ Abort(w)
    BY <1>4, <2>1 DEF Start, Abort
  <2>2. CASE Crash(w)
    BY <1>4, <2>2 DEF Crash
  <2>3. CASE InsertFails(w) \/ Ack(w)
    BY <1>5, <2>3 DEF InsertFails, Rejected, Ack
  <2>4. CASE ReadNew(w)
    <3>1. PICK batch : proc' = [proc EXCEPT ![w] = Begin(batch, "pollPending")]
      BY <2>4 DEF ReadNew
    <3>. QED  BY <1>3, <3>1 DEF Polls
  <2>5. CASE \E S \in SUBSET Oldest : ReadPending(w, S)
    <3>1. PICK batch : proc' = [proc EXCEPT ![w] = Begin(batch, "pollNew")]
      BY <2>5 DEF ReadPending
    <3>. QED  BY <1>3, <3>1 DEF Polls
  <2>. QED  BY <2>1, <2>2, <2>3, <2>4, <2>5
<1>. QED  BY <1>1, <1>2, <1>6, MovedBounded

(* The other statements of the handler.                                     *)
LEMMA HandlerBounded ==
    ASSUME IngestInv, PoolBounded, NEW w \in Workers,
           \/ InsertEvent(w) \/ DecidePolicy(w) \/ MarkSuppressed(w) \/ CreateFails(w)
           \/ Gate(w) \/ PublishRequest(w) \/ SetClipPending(w)
    PROVE  PoolBounded'
<1>1. UNCHANGED faults \/ Fault
  BY DEF InsertEvent, DecidePolicy, MarkSuppressed, CreateFails, Gate, PublishRequest, SetClipPending
<1>2. task \in [Sids -> TaskStatuses] /\ proc \in [Workers -> Proc]
  BY Parts DEF TableOK, ProcsOK
<1>3. \A s \in Sids : task'[s] = "materialization_pending" => task[s] = "materialization_pending"
  <2>1. CASE task' = task
    BY <2>1
  <2>2. CASE \E s : MarkSkipped(s)
    BY <1>2, <2>2 DEF MarkSkipped
  <2>. QED  BY <2>1, <2>2 DEF InsertEvent, DecidePolicy, MarkSuppressed, CreateFails, Gate,
                              PublishRequest, SetClipPending, store
<1>4. CASE InsertEvent(w)
  <2>1. PICK n, pc : /\ pc \in {"policy", "gate"}
                     /\ proc' = [proc EXCEPT ![w].new = n, ![w].pc = pc]
    BY <1>4 DEF InsertEvent
  <2>. DEFINE p == [proc[w] EXCEPT !.new = n, !.pc = pc]
  <2>2. p.pc # "create" /\ proc' = [proc EXCEPT ![w] = p]
    BY <1>2, <2>1 DEF Proc
  <2>. HIDE DEF p
  <2>. QED  BY <1>1, <1>3, <2>2, MovedBounded
<1>5. CASE ~ InsertEvent(w)
  <2>1. PICK pc \in {"suppress", "admit", "ack", "gate", "append", "clip"} : Goto(w, pc)
    BY <1>5 DEF DecidePolicy, MarkSuppressed, CreateFails, Gate, PublishRequest, SetClipPending, Announce
  <2>2. pc # "create"
    OBVIOUS
  <2>. QED  BY <1>1, <1>3, <2>1, <2>2, GotoBounded
<1>. QED  BY <1>4, <1>5

(* PoolBounded is inductive, given IngestInv.                               *)
LEMMA NextBounded == IngestInv /\ PoolBounded /\ [Next]_vars => PoolBounded'
<1>. SUFFICES ASSUME IngestInv, PoolBounded, [Next]_vars PROVE PoolBounded'
  OBVIOUS
<1>1. CASE Produce \/ LoseGroup \/ ExpireKey \/ EndTask \/ UNCHANGED vars
  BY <1>1, EnvBounded
<1>2. ASSUME NEW w \in Workers,
             \/ Start(w) \/ ReadNew(w) \/ Crash(w) \/ InsertFails(w) \/ Ack(w) \/ Abort(w)
             \/ \E S \in SUBSET Oldest : ReadPending(w, S)
      PROVE  PoolBounded'
  BY <1>2, LoopBounded
<1>3. ASSUME NEW w \in Workers,
             \/ InsertEvent(w) \/ DecidePolicy(w) \/ MarkSuppressed(w) \/ CreateFails(w)
             \/ Gate(w) \/ PublishRequest(w) \/ SetClipPending(w)
      PROVE  PoolBounded'
  BY <1>3, HandlerBounded
<1>4. ASSUME NEW w \in Workers, Admit(w) \/ CreateTask(w) PROVE PoolBounded'
  BY <1>4, AdmitBounded, CreateTaskBounded
<1>. QED  BY <1>1, <1>2, <1>3, <1>4 DEF Next, Handle

(* Nothing is promised at first.                                            *)
LEMMA InitBounded == Init => PoolBounded
<1>. SUFFICES ASSUME Init PROVE PoolBounded
  OBVIOUS
<1>1. \A src \in Sources : Active(src) = {} /\ Inflight(src) = {}
  <2>1. \A s \in Sids : task[s] # "materialization_pending"
    BY DEF Init, None
  <2>2. \A w \in Workers : ~ Granted(proc[w])
    BY DEF Init, Idle, Granted
  <2>. QED  BY <2>1, <2>2 DEF Active, Inflight
<1>2. \A src \in Sources : Load(src) = 0
  BY <1>1, FS_EmptySet DEF Load
<1>3. Promised = {}
  <2>1. SUFFICES ASSUME NEW place \in Grid, place \in Promised PROVE FALSE
    BY PromiseFacts
  <2>2. /\ place[1] \in Sources /\ place[2] \in Nat /\ Reserved + Cardinality(Workers) <= place[2]
        /\ place[2] <= Load(place[1])
    BY <2>1, PromiseFacts
  <2>. QED  BY <1>2, <2>2, SizeFacts
<1>4. Cardinality(Promised) = 0 /\ faults = 0
  BY <1>3, FS_EmptySet DEF Init
<1>. QED  BY <1>4, SizeFacts DEF PoolBounded

(* _evidence_admission_decision counts without a lock: for every number of  *)
(* workers and sources and all limits, the shared pool is overdrawn by no   *)
(* more than one task of every other worker per source, and by one per      *)
(* fault.                                                                   *)
THEOREM SharedPoolBoundedHolds == Spec => []SharedPoolBounded
<1>1. IngestInv /\ PoolBounded => SharedPoolBounded
  <2>. SUFFICES ASSUME IngestInv, PoolBounded PROVE SharedPoolBounded
    OBVIOUS
  <2>. DEFINE W == Cardinality(Workers)
              Near == Sources \X ((Reserved + 1)..(Reserved + W - 1))
  <2>1. PICK P \in SUBSET Grid : P = Promised /\ IsFiniteSet(P) /\ Cardinality(P) \in Nat
    BY PromiseFacts, SizeFacts, PartSize
  <2>2. PICK N : N = Near /\ IsFiniteSet(N) /\ Cardinality(N) = Cardinality(Sources) * (W - 1)
    <3>1. PICK R : R = (Reserved + 1)..(Reserved + W - 1) /\ IsFiniteSet(R) /\ Cardinality(R) = W - 1
      <4>1. PICK a \in Int : a = Reserved + 1
        BY SizeFacts
      <4>2. PICK b \in Int : b = Reserved + W - 1 /\ b - a + 1 = W - 1 /\ (a > b => W - 1 = 0)
        BY <4>1, SizeFacts
      <4>3. IsFiniteSet(a..b) /\ Cardinality(a..b) = W - 1
        BY <4>2, FS_Interval
      <4>. QED  BY <4>1, <4>2, <4>3
    <3>2. IsFiniteSet(Sources \X R) /\ Cardinality(Sources \X R) = Cardinality(Sources) * Cardinality(R)
      BY <3>1, SizeFacts, FS_Product
    <3>. QED  BY <3>1, <3>2
  <2>3. PICK E : E = Excess
    OBVIOUS
  <2>4. E \subseteq P \cup N
    <3>1. SUFFICES ASSUME NEW src \in Sources, NEW n \in 1..Cardinality(Sids), <<src, n>> \in E,
                          <<src, n>> \notin N
                   PROVE  <<src, n>> \in P
      BY <2>3 DEF Excess
    <3>2. n \in Nat /\ Reserved < n /\ n <= Cardinality(Active(src)) /\ n <= Cardinality(Sids) /\ 1 <= n
      BY <2>3, <3>1, SizeFacts DEF Excess
    <3>3. ~ (n <= Reserved + W - 1)
      BY <2>2, <3>1, <3>2, SizeFacts
    <3>4. Reserved + W <= n /\ n <= Load(src)
      <4>1. PICK a \in Nat : a = Cardinality(Active(src))
        BY LoadFacts
      <4>2. PICK i \in Nat : i = Cardinality(Inflight(src))
        BY LoadFacts
      <4>. QED  BY <3>2, <3>3, <4>1, <4>2, SizeFacts DEF Load
    <3>5. PICK place : place = <<src, n>> /\ place \in Grid /\ place[1] = src /\ place[2] = n
      <4>1. n \in 1..(Cardinality(Sids) + W)
        BY <3>2, SizeFacts
      <4>2. <<src, n>> \in Grid /\ <<src, n>>[1] = src /\ <<src, n>>[2] = n
        BY <4>1 DEF Grid
      <4>. QED  BY <4>2
    <3>6. place \in Promised
      BY <3>4, <3>5, PromiseFacts
    <3>. QED  BY <2>1, <3>5, <3>6
  <2>5. /\ IsFiniteSet(P \cup N) /\ Cardinality(N) \in Nat /\ Cardinality(P \cap N) \in Nat
        /\ Cardinality(P \cup N) = Cardinality(P) + Cardinality(N) - Cardinality(P \cap N)
    BY <2>1, <2>2, FS_Union, FS_CardinalityType, PartSize
  <2>6. Cardinality(E) \in Nat /\ Cardinality(E) <= Cardinality(P \cup N)
    BY <2>4, <2>5, PartSize
  <2>7. Cardinality(E) <= Cardinality(P) + Cardinality(N)
    BY <2>1, <2>5, <2>6
  <2>8. faults \in Nat /\ Cardinality(P) <= SharedLimit + faults
    BY <2>1, Parts DEF PoolBounded, LocalOK
  <2>9. Cardinality(Sources) * (W - 1) = (W - 1) * Cardinality(Sources)
    BY SizeFacts
  <2>10. Cardinality(E) <= SharedLimit + (W - 1) * Cardinality(Sources) + faults
    <3>1. PICK m \in Nat : m = (W - 1) * Cardinality(Sources) /\ m = Cardinality(N)
      BY <2>2, <2>5, <2>9
    <3>. QED  BY <2>1, <2>6, <2>7, <2>8, <3>1, SizeFacts
  <2>. QED  BY <2>3, <2>10 DEF SharedPoolBounded, SharedUsed
<1>2. PoolBounded /\ IngestInv /\ [Next]_vars => PoolBounded'
  BY NextBounded
<1>. QED  BY <1>1, <1>2, InitBounded, IngestInvHolds, PTL DEF Spec
=============================================================================
