------------------------- MODULE GallerySync_proofs -------------------------
(***************************************************************************)
(* Proofs about GallerySync, for every gallery, every number of workers    *)
(* and operators and every bound: a point whose outbox rows are all        *)
(* completed is that of the gallery row as it is now, and a command that   *)
(* nothing disturbs leaves the index right.                                *)
(*                                                                         *)
(* A change is owed to the index while one of its outbox rows is open and  *)
(* nobody is about to complete that row (Owed).  Whoever has read a source *)
(* and will write its point either holds what the source is now, or has    *)
(* been overtaken by another writer of the point, or a change is owed that *)
(* somebody will still read (Honest, PageHonest).                          *)
(***************************************************************************)
EXTENDS GallerySync, FiniteSetTheorems, NaturalsInduction, WellFoundedInduction, TLAPS

Statuses == {"pending", "processing", "retry", "completed", "poisoned"}
Busy == {"write", "complete", "failed"}

OutboxRow == [gallery : Galleries, operation : {"upsert", "delete"}, status : Statuses,
              attempts : Nat, ripe : BOOLEAN]
Claims == UNION {[S -> Nat] : S \in SUBSET Nat}
Pages == UNION {[S -> Versions] : S \in SUBSET Galleries}
WorkerRec == [pc : {"idle", "claim", "row"} \cup Busy, claimed : Claims, row : Nat, version : Versions]
CommandRec == [pc : {"idle", "scan", "upsert", "scroll", "delete"}, mode : {"bootstrap", "reconcile"},
               after : 0..N, page : Pages, absent : SUBSET Galleries, extra : SUBSET Galleries,
               undisturbed : BOOLEAN, runs : Nat]

DatabaseOK ==
    /\ gallery \in [Galleries -> [version : Versions, is_active : BOOLEAN]]
    /\ active \in [Persons -> BOOLEAN]
    /\ closing \in [Persons -> [open : BOOLEAN, seen : SUBSET Galleries]]
    /\ changes \in 0..MaxChanges

IndexOK ==
    /\ point \in [Galleries -> Versions]
    /\ overtaken \in [Processes -> SUBSET Galleries] /\ doubtful \subseteq Galleries

OutboxOK == outbox \in Seq(OutboxRow)
WorkersOK == worker \in [Workers -> WorkerRec]
CommandsOK == command \in [Operators -> CommandRec]

(* The tables: versions grow with the changes, a row that is not registered *)
(* is not active, and what is enqueued for deletion never comes back.       *)
Tables ==
    /\ \A g \in Galleries : /\ gallery[g].version <= changes + 1
                            /\ gallery[g].version = 0 => ~ gallery[g].is_active
    /\ \A p \in Persons : \A g \in closing[p].seen : PersonOf[g] = p /\ gallery[g].version # 0

RowOK(r) ==
    /\ gallery[r.gallery].version # 0
    /\ r.operation = "delete" => ~ gallery[r.gallery].is_active \/ ~ active[PersonOf[r.gallery]]
    /\ r.attempts = 0 <=> r.status = "pending"
Entries == \A i \in DOMAIN outbox : RowOK(outbox[i])

(* The rows a worker holds.                                                 *)
Holding(w) ==
    /\ worker[w].pc \in {"idle", "claim"} => DOMAIN worker[w].claimed = {}
    /\ DOMAIN worker[w].claimed \subseteq DOMAIN outbox
    /\ \A i \in DOMAIN worker[w].claimed : outbox[i].status # "pending"
    /\ worker[w].pc \in Busy => worker[w].row \in DOMAIN worker[w].claimed

Completing(i) == \E w \in Workers : worker[w].pc = "complete" /\ worker[w].row = i

(* A change of g is in the outbox, in a row other than k, and nobody is     *)
(* about to complete that row.                                              *)
OwedBut(g, k) ==
    \E i \in DOMAIN outbox \ {k} :
        outbox[i].gallery = g /\ outbox[i].status # "completed" /\ ~ Completing(i)
Owed(g) == OwedBut(g, 0)

(* What a worker is about to write.                                         *)
Honest(w) ==
    worker[w].pc = "write" =>
        IF outbox[worker[w].row].operation = "delete" THEN worker[w].version = NoPoint
        ELSE \/ worker[w].version = Source(Target(w)) \/ Target(w) \in overtaken[w]
             \/ OwedBut(Target(w), worker[w].row)

(* What a command is about to write.                                        *)
PageHonest(o) ==
    /\ \A g \in DOMAIN command[o].page :
           command[o].page[g] = Source(g) \/ g \in overtaken[o] \/ Owed(g)
    /\ \A g \in command[o].absent : Source(g) = NoPoint \/ g \in overtaken[o] \/ Owed(g)

(* The places a command has been to.                                        *)
Located(o) ==
    LET c == command[o] IN
    /\ c.extra \subseteq c.absent /\ c.absent \cap DOMAIN c.page = {}
    /\ c.pc # "upsert" => DOMAIN c.page = {}
    /\ c.pc \in {"scan", "upsert"} => \A g \in c.absent \cup DOMAIN c.page : g <= c.after
    /\ c.pc \in {"idle", "scan", "upsert"} => c.extra = {}
    /\ c.pc = "scroll" => c.after = N
    /\ c.pc \in {"scroll", "delete"} => c.mode = "reconcile"
    /\ c.pc = "delete" => c.absent = c.extra
    /\ c.pc = "idle" => c.absent = {}

Indexed == \A g \in Galleries : g \in doubtful \/ point[g] = Source(g) \/ Owed(g)

(* What a command that nothing has disturbed has achieved so far.           *)
Achieved(o) ==
    LET c == command[o] IN
    c.undisturbed =>
        /\ c.pc \in {"scan", "upsert"} => \A g \in Galleries :
              /\ g <= c.after /\ g \notin DOMAIN c.page /\ Source(g) # NoPoint => point[g] = Source(g)
              /\ g <= c.after /\ c.mode = "reconcile" /\ Source(g) = NoPoint => g \in c.absent
              /\ g \in DOMAIN c.page => c.page[g] = Source(g)
              /\ g \in c.absent => Source(g) = NoPoint
        /\ c.pc \in {"scroll", "delete", "idle"} => \A g \in Galleries :
              /\ (c.mode = "reconcile" /\ g \notin c.absent) \/ Source(g) # NoPoint => point[g] = Source(g)
              /\ g \in c.absent => Source(g) = NoPoint

(* Attempts are paid for by faults: a row that is due again, or about to be *)
(* marked as failed, has cost one already.                                  *)
Failing(i) == {w \in Workers : worker[w].pc = "failed" /\ worker[w].row = i}
Due(i) ==
    \/ outbox[i].status \in {"pending", "retry"}
    \/ /\ outbox[i].status = "processing"
       /\ outbox[i].ripe \/ \A w \in Workers : i \notin DOMAIN worker[w].claimed
Paid(i) == outbox[i].attempts + Cardinality(Failing(i)) + (IF Due(i) THEN 1 ELSE 0) <= faults + 1

GalleryInv ==
    /\ DatabaseOK /\ IndexOK /\ OutboxOK /\ WorkersOK /\ CommandsOK
    /\ Tables /\ Entries /\ Indexed
    /\ \A w \in Workers : Holding(w) /\ Honest(w)
    /\ \A o \in Operators : Located(o) /\ PageHonest(o) /\ Achieved(o)
    /\ faults \in Nat /\ \A i \in DOMAIN outbox : Paid(i)

-----------------------------------------------------------------------------
(* Basic facts                                                              *)

(* The constants.                                                           *)
LEMMA Constants ==
    /\ N \in Nat /\ BatchSize \in Nat \ {0} /\ MaxChanges \in Nat /\ Versions \subseteq Nat
    /\ NoPoint \in Versions /\ Galleries \subseteq Nat /\ 0 \notin Galleries
    /\ IsFiniteSet(Galleries) /\ \A g \in Galleries : PersonOf[g] \in Persons /\ g <= N
<1>1. N \in Nat /\ BatchSize \in Nat \ {0} /\ MaxChanges \in Nat
      /\ \A g \in Galleries : PersonOf[g] \in Persons /\ g <= N
  BY GallerySyncAssumptions DEF Galleries
<1>2. Versions \subseteq Nat /\ NoPoint \in Versions /\ Galleries \subseteq Nat /\ 0 \notin Galleries
  BY <1>1 DEF Versions, NoPoint, Galleries
<1>3. IsFiniteSet(Galleries)
  BY <1>1, FS_Interval DEF Galleries
<1>. QED  BY <1>1, <1>2, <1>3

(* A function without arguments.                                            *)
LEMMA EmptyFunction == <<>> \in Claims /\ <<>> \in Pages /\ DOMAIN <<>> = {}
<1>1. DOMAIN <<>> = {} /\ <<>> \in [{} -> Nat] /\ <<>> \in [{} -> Versions]
  OBVIOUS
<1>2. {} \in SUBSET Nat /\ {} \in SUBSET Galleries
  OBVIOUS
<1>3. <<>> \in Claims
  BY <1>1, <1>2 DEF Claims
<1>4. <<>> \in Pages
  BY <1>1, <1>2 DEF Pages
<1>. QED  BY <1>1, <1>3, <1>4

(* Idle workers and resting commands.                                       *)
LEMMA RestTypes ==
    /\ Idle \in WorkerRec /\ DOMAIN Idle.claimed = {} /\ Idle.pc = "idle"
    /\ \A n \in Nat : /\ Resting(n) \in CommandRec /\ Resting(n).pc = "idle" /\ Resting(n).mode = "bootstrap"
                      /\ DOMAIN Resting(n).page = {} /\ Resting(n).absent = {} /\ Resting(n).extra = {}
                      /\ Resting(n).undisturbed = FALSE /\ Resting(n).after = 0
<1>1. Idle \in WorkerRec /\ DOMAIN Idle.claimed = {} /\ Idle.pc = "idle"
  BY EmptyFunction, Constants DEF Idle, WorkerRec, Busy
<1>2. SUFFICES ASSUME NEW n \in Nat
               PROVE  /\ Resting(n) \in CommandRec /\ Resting(n).pc = "idle" /\ Resting(n).mode = "bootstrap"
                      /\ DOMAIN Resting(n).page = {} /\ Resting(n).absent = {} /\ Resting(n).extra = {}
                      /\ Resting(n).undisturbed = FALSE /\ Resting(n).after = 0
  BY <1>1
<1>3. 0 \in 0..N
  BY Constants
<1>4. Resting(n) \in CommandRec
  BY <1>3, EmptyFunction DEF Resting, CommandRec
<1>. QED  BY <1>4, EmptyFunction DEF Resting

(* The parts of the invariant about the tables, typed.                      *)
LEMMA Facts ==
    ASSUME GalleryInv
    PROVE  /\ Len(outbox) \in Nat /\ DOMAIN outbox = 1..Len(outbox) /\ 0 \notin DOMAIN outbox
           /\ \A i \in DOMAIN outbox : /\ outbox[i] \in OutboxRow /\ outbox[i].gallery \in Galleries
                                       /\ RowOK(outbox[i]) /\ Paid(i)
           /\ \A w \in Workers : worker[w] \in WorkerRec /\ Holding(w) /\ Honest(w)
           /\ \A o \in Operators : command[o] \in CommandRec /\ Located(o) /\ PageHonest(o) /\ Achieved(o)
<1>1. outbox \in Seq(OutboxRow) /\ Entries /\ \A i \in DOMAIN outbox : Paid(i)
  BY DEF GalleryInv, OutboxOK
<1>2. Len(outbox) \in Nat /\ DOMAIN outbox = 1..Len(outbox)
      /\ \A i \in DOMAIN outbox : outbox[i] \in OutboxRow
  BY <1>1
<1>3. \A i \in DOMAIN outbox : outbox[i].gallery \in Galleries /\ RowOK(outbox[i]) /\ Paid(i)
  BY <1>1, <1>2 DEF OutboxRow, Entries
<1>4. \A w \in Workers : worker[w] \in WorkerRec /\ Holding(w) /\ Honest(w)
  BY DEF GalleryInv, WorkersOK
<1>5. \A o \in Operators : command[o] \in CommandRec /\ Located(o) /\ PageHonest(o) /\ Achieved(o)
  BY DEF GalleryInv, CommandsOK
<1>. QED  BY <1>2, <1>3, <1>4, <1>5

(* What the source of a point is.                                           *)
LEMMA SourceFacts ==
    ASSUME GalleryInv
    PROVE  /\ \A g \in Galleries : Source(g) \in Versions /\ (~ gallery[g].is_active => Source(g) = NoPoint)
           /\ \A i \in DOMAIN outbox : outbox[i].operation = "delete" => Source(outbox[i].gallery) = NoPoint
<1>1. \A g \in Galleries : Source(g) \in Versions /\ (~ gallery[g].is_active => Source(g) = NoPoint)
  BY Constants DEF GalleryInv, DatabaseOK, Source
<1>. QED  BY <1>1, Facts DEF RowOK, Source

-----------------------------------------------------------------------------
(* Who owes what                                                            *)

(* A debt stays while its row stays open and nobody else is about to        *)
(* complete it.                                                             *)
LEMMA OwedStays ==
    ASSUME \A i \in DOMAIN outbox :
               /\ i \in DOMAIN outbox' /\ outbox'[i].gallery = outbox[i].gallery
               /\ ~ Completing(i) /\ outbox[i].status # "completed" => outbox'[i].status # "completed",
           NEW g, NEW k,
           \A i \in DOMAIN outbox \ {k} :
               Completing(i)' /\ outbox[i].gallery = g => Completing(i),
           OwedBut(g, k)
    PROVE  OwedBut(g, k)'
<1>1. PICK i \in DOMAIN outbox \ {k} :
          outbox[i].gallery = g /\ outbox[i].status # "completed" /\ ~ Completing(i)
  BY DEF OwedBut
<1>2. ~ Completing(i)'
  BY <1>1
<1>3. i \in DOMAIN outbox' \ {k} /\ outbox'[i].gallery = g /\ outbox'[i].status # "completed"
  BY <1>1
<1>. QED  BY <1>2, <1>3 DEF OwedBut

(* A row that is added is owed.                                             *)
LEMMA NewOwed ==
    ASSUME GalleryInv, UNCHANGED worker, NEW i, i \in DOMAIN outbox', i \notin DOMAIN outbox,
           i # 0, outbox'[i].status # "completed", NEW g, g = outbox'[i].gallery
    PROVE  \A k \in DOMAIN outbox \cup {0} : OwedBut(g, k)'
<1>1. ~ Completing(i)'
  <2>1. SUFFICES ASSUME NEW w \in Workers, worker[w].pc = "complete", worker[w].row = i PROVE FALSE
    BY DEF Completing
  <2>2. Holding(w)
    BY Facts
  <2>. QED  BY <2>1, <2>2 DEF Holding, Busy
<1>. QED  BY <1>1 DEF OwedBut

(* p writes points: whoever had read them has been overtaken, and p itself  *)
(* writes the source, or what it writes is doubtful, or more is owed.       *)
LEMMA WriteHonest ==
    ASSUME GalleryInv, NEW p \in Processes, NEW G \in SUBSET Galleries, NEW new, WritePoints(p, G, new),
           UNCHANGED <<database, outbox>>,
           \A g \in Galleries \ G : \A k \in DOMAIN outbox \cup {0} : OwedBut(g, k) => OwedBut(g, k)',
           \A g \in G : new[g] = Source(g) \/ g \in overtaken[p] \/ Owed(g)',
           \A v \in Workers : worker'[v].pc = "write" => v # p /\ worker'[v] = worker[v],
           \A o \in Operators :
               IF o = p THEN DOMAIN command'[o].page = {} /\ command'[o].absent \subseteq command[o].absent \ G
               ELSE command'[o].page = command[o].page /\ command'[o].absent = command[o].absent
    PROVE  /\ Indexed' /\ \A w \in Workers : Honest(w)'
           /\ \A o \in Operators : PageHonest(o)'
<1>1. \A g \in Galleries : Source(g)' = Source(g)
  BY DEF database, Source
<1>2. outbox' = outbox
  OBVIOUS
<1>3. /\ \A g \in G : point'[g] = new[g] /\ (g \in overtaken[p] => g \in doubtful')
      /\ \A g \in Galleries \ G : point'[g] = point[g] /\ (g \in doubtful => g \in doubtful')
      /\ \A q \in Processes \ {p} : overtaken'[q] = overtaken[q] \cup (G \cap Reads(q))
      /\ overtaken'[p] = overtaken[p] \ G
  BY DEF WritePoints
<1>4. Indexed'
  <2>1. SUFFICES ASSUME NEW g \in Galleries PROVE g \in doubtful' \/ point'[g] = Source(g)' \/ Owed(g)'
    BY DEF Indexed
  <2>2. CASE g \in G
    BY <1>1, <1>3, <2>2
  <2>3. CASE g \notin G
    <3>1. g \in doubtful \/ point[g] = Source(g) \/ Owed(g)
      BY DEF GalleryInv, Indexed
    <3>2. Owed(g) => Owed(g)'
      BY <2>3 DEF Owed
    <3>. QED  BY <1>1, <1>3, <2>3, <3>1, <3>2
  <2>. QED  BY <2>2, <2>3
<1>5. ASSUME NEW w \in Workers PROVE Honest(w)'
  <2>1. SUFFICES ASSUME worker'[w].pc = "write" PROVE Honest(w)'
    BY DEF Honest
  <2>2. w # p /\ w \in Processes /\ worker'[w] = worker[w] /\ worker[w].pc = "write"
    BY <2>1 DEF Processes
  <2>3. PICK k \in DOMAIN outbox : k = worker[w].row
    BY <2>2, Facts DEF Holding, Busy
  <2>4. PICK g \in Galleries : g = outbox[k].gallery /\ g = Target(w) /\ g = Target(w)'
    BY <1>2, <2>2, <2>3, Facts DEF Target
  <2>5. Honest(w)
    BY Facts
  <2>6. CASE outbox[k].operation = "delete"
    BY <1>2, <2>2, <2>3, <2>5, <2>6 DEF Honest
  <2>7. CASE outbox[k].operation # "delete"
    <3>1. worker[w].version = Source(g) \/ g \in overtaken[w] \/ OwedBut(g, k)
      BY <2>2, <2>3, <2>4, <2>5, <2>7 DEF Honest
    <3>2. outbox[k].operation = "upsert"
      BY <2>7, Facts DEF OutboxRow
    <3>3. g \in Reads(w)
      BY <2>2, <2>3, <2>4, <3>2 DEF Reads
    <3>4. worker[w].version = Source(g)' \/ g \in overtaken'[w] \/ OwedBut(g, k)'
      BY <1>1, <1>3, <2>2, <3>1, <3>3
    <3>. QED  BY <1>2, <2>2, <2>3, <2>4, <2>7, <3>4 DEF Honest
  <2>. QED  BY <2>6, <2>7
<1>6. ASSUME NEW o \in Operators PROVE PageHonest(o)'
  <2>1. PageHonest(o) /\ command[o] \in CommandRec /\ o \in Processes /\ o \notin Workers
    BY Facts, GallerySyncAssumptions DEF Processes
  <2>2. DOMAIN command[o].page \subseteq Galleries /\ command[o].absent \subseteq Galleries
    BY <2>1 DEF CommandRec, Pages
  <2>3. \A g \in Galleries \ G : Owed(g) => Owed(g)'
    BY DEF Owed
  <2>4. CASE o = p
    <3>1. DOMAIN command'[o].page = {} /\ command'[o].absent \subseteq command[o].absent \ G
      BY <2>4
    <3>2. SUFFICES ASSUME NEW g \in command[o].absent, g \notin G
                   PROVE  Source(g)' = NoPoint \/ g \in overtaken'[o] \/ Owed(g)'
      BY <3>1 DEF PageHonest
    <3>. QED  BY <1>1, <1>3, <2>1, <2>2, <2>3, <2>4, <3>2 DEF PageHonest
  <2>5. CASE o # p
    <3>1. command'[o].page = command[o].page /\ command'[o].absent = command[o].absent
      BY <2>5
    <3>2. Reads(o) = command[o].absent \cup DOMAIN command[o].page
      BY <2>1 DEF Reads
    <3>3. \A g \in Galleries : g \in Reads(o) /\ g \in G => g \in overtaken'[o]
      BY <1>3, <2>1, <2>5
    <3>4. overtaken[o] \subseteq overtaken'[o]
      BY <1>3, <2>1, <2>5
    <3>5. \A g \in DOMAIN command[o].page :
              command[o].page[g] = Source(g)' \/ g \in overtaken'[o] \/ Owed(g)'
      BY <1>1, <2>1, <2>2, <2>3, <3>2, <3>3, <3>4 DEF PageHonest
    <3>6. \A g \in command[o].absent : Source(g)' = NoPoint \/ g \in overtaken'[o] \/ Owed(g)'
      BY <1>1, <2>1, <2>2, <2>3, <3>2, <3>3, <3>4 DEF PageHonest
    <3>. QED  BY <3>1, <3>5, <3>6 DEF PageHonest
  <2>. QED  BY <2>4, <2>5
<1>. QED  BY <1>4, <1>5, <1>6

(* The points stay as they are: a source that changes is owed, or in doubt  *)
(* with all who have read it, and whoever reads now reads what is there.    *)
LEMMA ReadHonest ==
    ASSUME GalleryInv, UNCHANGED point, doubtful \subseteq doubtful',
           \A i \in DOMAIN outbox : /\ outbox'[i].gallery = outbox[i].gallery
                                    /\ outbox'[i].operation = outbox[i].operation,
           \A g \in Galleries : \A k \in DOMAIN outbox \cup {0} : OwedBut(g, k) => OwedBut(g, k)',
           \A g \in Galleries :
               \/ Source(g)' = Source(g)
               \/ \A k \in DOMAIN outbox \cup {0} : OwedBut(g, k)'
               \/ g \in doubtful' /\ \A q \in Processes : g \in Reads(q) => g \in overtaken'[q],
           \A w \in Workers : worker'[w].pc = "write" =>
               \/ /\ worker[w].pc = "write" /\ worker'[w].row = worker[w].row
                  /\ worker'[w].version = worker[w].version /\ overtaken[w] \subseteq overtaken'[w]
               \/ Honest(w)',
           \A o \in Operators :
               /\ \A g \in DOMAIN command'[o].page :
                     \/ /\ g \in DOMAIN command[o].page /\ command'[o].page[g] = command[o].page[g]
                        /\ overtaken[o] \subseteq overtaken'[o]
                     \/ command'[o].page[g] = Source(g)'
               /\ \A g \in command'[o].absent :
                     \/ g \in command[o].absent /\ overtaken[o] \subseteq overtaken'[o]
                     \/ Source(g)' = NoPoint
    PROVE  /\ Indexed' /\ \A w \in Workers : Honest(w)'
           /\ \A o \in Operators : PageHonest(o)'
<1>1. \A g \in Galleries : Owed(g) => Owed(g)'
  BY DEF Owed
<1>2. \A g \in Galleries : \/ Source(g)' = Source(g) \/ Owed(g)'
                           \/ g \in doubtful' /\ \A q \in Processes : g \in Reads(q) => g \in overtaken'[q]
  BY DEF Owed
<1>3. Indexed'
  BY <1>1, <1>2 DEF GalleryInv, Indexed
<1>4. ASSUME NEW w \in Workers PROVE Honest(w)'
  <2>1. SUFFICES ASSUME worker'[w].pc = "write", worker[w].pc = "write",
                        worker'[w].row = worker[w].row, worker'[w].version = worker[w].version,
                        overtaken[w] \subseteq overtaken'[w]
                 PROVE  Honest(w)'
    BY DEF Honest
  <2>2. PICK k \in DOMAIN outbox : k = worker[w].row
    BY <2>1, Facts DEF Holding, Busy
  <2>3. PICK g \in Galleries : g = outbox[k].gallery /\ g = Target(w) /\ g = Target(w)'
    BY <2>1, <2>2, Facts DEF Target
  <2>4. Honest(w)
    BY Facts
  <2>5. CASE outbox[k].operation = "delete"
    BY <2>1, <2>2, <2>4, <2>5 DEF Honest
  <2>6. CASE outbox[k].operation # "delete"
    <3>1. worker[w].version = Source(g) \/ g \in overtaken[w] \/ OwedBut(g, k)
      BY <2>1, <2>2, <2>3, <2>4, <2>6 DEF Honest
    <3>2. outbox[k].operation = "upsert" /\ w \in Processes
      BY <2>6, Facts DEF OutboxRow, Processes
    <3>3. g \in Reads(w)
      BY <2>1, <2>2, <2>3, <3>2 DEF Reads
    <3>4. worker[w].version = Source(g)' \/ g \in overtaken'[w] \/ OwedBut(g, k)'
      <4>1. CASE Source(g)' = Source(g)
        BY <2>1, <3>1, <4>1
      <4>2. CASE \A j \in DOMAIN outbox \cup {0} : OwedBut(g, j)'
        BY <4>2
      <4>3. CASE \A q \in Processes : g \in Reads(q) => g \in overtaken'[q]
        BY <3>2, <3>3, <4>3
      <4>. QED  BY <4>1, <4>2, <4>3
    <3>. QED  BY <2>1, <2>2, <2>3, <2>6, <3>4 DEF Honest
  <2>. QED  BY <2>5, <2>6
<1>5. ASSUME NEW o \in Operators PROVE PageHonest(o)'
  <2>1. PageHonest(o) /\ command[o] \in CommandRec /\ o \in Processes /\ o \notin Workers
    BY Facts, GallerySyncAssumptions DEF Processes
  <2>2. DOMAIN command[o].page \subseteq Galleries /\ command[o].absent \subseteq Galleries
    BY <2>1 DEF CommandRec, Pages
  <2>3. Reads(o) = command[o].absent \cup DOMAIN command[o].page
    BY <2>1 DEF Reads
  <2>4. ASSUME NEW g \in DOMAIN command'[o].page
        PROVE  command'[o].page[g] = Source(g)' \/ g \in overtaken'[o] \/ Owed(g)'
    <3>1. CASE g \in DOMAIN command[o].page /\ command'[o].page[g] = command[o].page[g]
               /\ overtaken[o] \subseteq overtaken'[o]
      <4>1. g \in Galleries /\ g \in Reads(o)
        BY <2>2, <2>3, <3>1
      <4>2. command[o].page[g] = Source(g) \/ g \in overtaken[o] \/ Owed(g)
        BY <2>1, <3>1 DEF PageHonest
      <4>. QED  BY <1>1, <1>2, <2>1, <3>1, <4>1, <4>2
    <3>. QED  BY <3>1
  <2>5. ASSUME NEW g \in command'[o].absent
        PROVE  Source(g)' = NoPoint \/ g \in overtaken'[o] \/ Owed(g)'
    <3>1. CASE g \in command[o].absent /\ overtaken[o] \subseteq overtaken'[o]
      <4>1. g \in Galleries /\ g \in Reads(o)
        BY <2>2, <2>3, <3>1
      <4>2. Source(g) = NoPoint \/ g \in overtaken[o] \/ Owed(g)
        BY <2>1, <3>1 DEF PageHonest
      <4>. QED  BY <1>1, <1>2, <2>1, <3>1, <4>1, <4>2
    <3>. QED  BY <3>1
  <2>. QED  BY <2>4, <2>5 DEF PageHonest
<1>. QED  BY <1>3, <1>4, <1>5

-----------------------------------------------------------------------------
(* Changes of the gallery                                                   *)

(* A command that is disturbed goes on as before.                           *)
LEMMA DisturbedStays ==
    ASSUME GalleryInv, command' = Disturbed
    PROVE  /\ CommandsOK' /\ \A o \in Operators : Located(o)' /\ Achieved(o)'
           /\ \A o \in Operators : command'[o].page = command[o].page /\ command'[o].absent = command[o].absent
<1>1. ASSUME NEW o \in Operators
      PROVE  /\ command'[o] \in CommandRec /\ command'[o].pc = command[o].pc
             /\ command'[o].mode = command[o].mode /\ command'[o].after = command[o].after
             /\ command'[o].page = command[o].page /\ command'[o].absent = command[o].absent
             /\ command'[o].extra = command[o].extra /\ command'[o].undisturbed = FALSE
  <2>1. command'[o] = [command[o] EXCEPT !.undisturbed = FALSE] /\ command[o] \in CommandRec
    BY Facts DEF Disturbed
  <2>. QED  BY <2>1 DEF CommandRec
<1>2. CommandsOK'
  <2>1. command' \in [Operators -> CommandRec]
    BY <1>1 DEF Disturbed
  <2>. QED  BY <2>1 DEF CommandsOK
<1>3. ASSUME NEW o \in Operators PROVE Located(o)'
  <2>1. Located(o)
    BY Facts
  <2>. QED  BY <1>1, <2>1 DEF Located
<1>4. \A o \in Operators : Achieved(o)'
  BY <1>1 DEF Achieved
<1>. QED  BY <1>1, <1>2, <1>3, <1>4

(* Rows are added at the end of the outbox.                                 *)
Added ==
    /\ OutboxOK' /\ DOMAIN outbox \subseteq DOMAIN outbox' /\ 0 \notin DOMAIN outbox'
    /\ \A i \in DOMAIN outbox : outbox'[i] = outbox[i]
    /\ \A i \in DOMAIN outbox' \ DOMAIN outbox :
          outbox'[i].status = "pending" /\ outbox'[i].attempts = 0

(* One row is added by a trigger.                                           *)
LEMMA AppendAdds ==
    ASSUME GalleryInv, NEW g \in Galleries, NEW op \in {"upsert", "delete"},
           outbox' = Append(outbox, Entry(g, op))
    PROVE  /\ Added /\ Len(outbox) + 1 \in DOMAIN outbox' \ DOMAIN outbox
           /\ \A i \in DOMAIN outbox' \ DOMAIN outbox :
                 outbox'[i].gallery = g /\ outbox'[i].operation = op /\ outbox'[i].status = "pending"
<1>. DEFINE e == Entry(g, op)
            n == Len(outbox)
<1>1. e \in OutboxRow /\ e.status = "pending" /\ e.attempts = 0 /\ e.gallery = g /\ e.operation = op
  BY DEF Entry, OutboxRow, Statuses
<1>. HIDE DEF e
<1>2. outbox \in Seq(OutboxRow) /\ outbox' = Append(outbox, e) /\ n \in Nat
  BY DEF GalleryInv, OutboxOK, e
<1>3. /\ outbox' \in Seq(OutboxRow) /\ DOMAIN outbox = 1..n /\ DOMAIN outbox' = 1..(n + 1)
      /\ \A i \in 1..n : outbox'[i] = outbox[i]
      /\ outbox'[n + 1] = e
  BY <1>1, <1>2
<1>4. \A i \in DOMAIN outbox' \ DOMAIN outbox : i = n + 1
  BY <1>2, <1>3
<1>. QED  BY <1>1, <1>2, <1>3, <1>4 DEF Added, OutboxOK

(* What does not change when rows are added.                                *)
LEMMA AddedStays ==
    ASSUME GalleryInv, Added, UNCHANGED <<worker, faults>>
    PROVE  /\ WorkersOK' /\ \A w \in Workers : Holding(w)'
           /\ faults' \in Nat /\ \A i \in DOMAIN outbox' : Paid(i)'
           /\ \A g, k : OwedBut(g, k) => OwedBut(g, k)'
           /\ \A i \in DOMAIN outbox' \ DOMAIN outbox : \A g : g = outbox'[i].gallery =>
                 \A k \in DOMAIN outbox \cup {0} : OwedBut(g, k)'
<1>1. WorkersOK' /\ faults' \in Nat /\ faults \in Nat
  BY DEF GalleryInv, WorkersOK
<1>2. \A w \in Workers : Holding(w)'
  BY Facts DEF Holding, Added
<1>3. \A i : Completing(i)' <=> Completing(i)
  BY DEF Completing
<1>4. \A g, k : OwedBut(g, k) => OwedBut(g, k)'
  BY <1>3, OwedStays DEF Added
<1>5. ASSUME NEW i \in DOMAIN outbox' \ DOMAIN outbox, NEW g, g = outbox'[i].gallery
      PROVE  \A k \in DOMAIN outbox \cup {0} : OwedBut(g, k)'
  BY <1>5, NewOwed DEF Added
<1>6. ASSUME NEW i \in DOMAIN outbox' PROVE Paid(i)'
  <2>1. Failing(i)' = Failing(i)
    BY DEF Failing
  <2>2. CASE i \in DOMAIN outbox
    <3>1. Due(i)' <=> Due(i)
      BY <2>2 DEF Due, Added
    <3>2. Paid(i) /\ outbox'[i] = outbox[i]
      BY <2>2, Facts DEF Added
    <3>. QED  BY <2>1, <3>1, <3>2 DEF Paid
  <2>3. CASE i \notin DOMAIN outbox
    <3>1. Failing(i) = {}
      BY <2>3, Facts DEF Failing, Holding, Busy
    <3>2. Cardinality(Failing(i)') = 0
      BY <2>1, <3>1, FS_EmptySet
    <3>3. outbox'[i].attempts = 0
      BY <2>3 DEF Added
    <3>. QED  BY <1>1, <3>2, <3>3 DEF Paid
  <2>. QED  BY <2>2, <2>3
<1>. QED  BY <1>1, <1>2, <1>4, <1>5, <1>6

(* Register, Promote and Remove: the gallery row and its outbox row.        *)
LEMMA ChangeKeeps ==
    ASSUME GalleryInv, NEW g \in Galleries, NEW op \in {"upsert", "delete"}, NEW r,
           outbox' = Append(outbox, Entry(g, op)), gallery' = [gallery EXCEPT ![g] = r],
           r \in [version : Versions, is_active : BOOLEAN], r.version # 0, r.version <= changes + 2,
           op = "delete" => ~ r.is_active,
           ~ gallery[g].is_active /\ gallery[g].version # 0 => ~ r.is_active,
           Change, command' = Disturbed, UNCHANGED <<active, closing, worker, index, faults>>
    PROVE  GalleryInv'
<1>1. /\ UNCHANGED <<active, closing, worker, point, overtaken, doubtful, faults>>
      /\ changes' = changes + 1 /\ changes \in Nat
  BY DEF index, Change, GalleryInv, DatabaseOK
<1>2. gallery \in [Galleries -> [version : Versions, is_active : BOOLEAN]] /\ Tables
  BY DEF GalleryInv, DatabaseOK
<1>3. gallery'[g] = r /\ \A h \in Galleries \ {g} : gallery'[h] = gallery[h]
  BY <1>2
<1>4. DatabaseOK' /\ IndexOK'
  <2>1. gallery' \in [Galleries -> [version : Versions, is_active : BOOLEAN]]
    BY <1>2
  <2>2. changes' \in 0..MaxChanges
    BY Constants DEF Change, GalleryInv, DatabaseOK
  <2>. QED  BY <1>1, <2>1, <2>2 DEF GalleryInv, DatabaseOK, IndexOK
<1>5. Tables'
  <2>1. ASSUME NEW h \in Galleries
        PROVE  gallery'[h].version <= changes' + 1 /\ (gallery'[h].version = 0 => ~ gallery'[h].is_active)
    <3>1. CASE h = g
      BY <1>1, <1>3, <3>1
    <3>2. CASE h # g
      <4>1. gallery[h].version \in Nat
        BY <1>2, Constants
      <4>. QED  BY <1>1, <1>2, <1>3, <3>2, <4>1 DEF Tables
    <3>. QED  BY <3>1, <3>2
  <2>2. ASSUME NEW p \in Persons, NEW h \in closing'[p].seen
        PROVE  PersonOf[h] = p /\ gallery'[h].version # 0
    <3>1. h \in Galleries
      BY <1>1, <2>2 DEF GalleryInv, DatabaseOK
    <3>. QED  BY <1>1, <1>2, <1>3, <2>2, <3>1 DEF Tables
  <2>. QED  BY <2>1, <2>2 DEF Tables
<1>6. /\ Added /\ Len(outbox) + 1 \in DOMAIN outbox' \ DOMAIN outbox
      /\ \A i \in DOMAIN outbox' \ DOMAIN outbox :
            outbox'[i].gallery = g /\ outbox'[i].operation = op /\ outbox'[i].status = "pending"
  BY AppendAdds
<1>7. Entries'
  <2>1. SUFFICES ASSUME NEW i \in DOMAIN outbox' PROVE RowOK(outbox[i])'
    BY DEF Entries
  <2>2. CASE i \in DOMAIN outbox
    <3>1. RowOK(outbox[i]) /\ outbox'[i] = outbox[i] /\ outbox[i].gallery \in Galleries
      BY <1>6, <2>2, Facts DEF Added
    <3>2. gallery[outbox[i].gallery].version # 0 => gallery'[outbox[i].gallery].version # 0
      BY <1>3, <3>1
    <3>3. gallery[outbox[i].gallery].version # 0 /\ ~ gallery[outbox[i].gallery].is_active =>
              ~ gallery'[outbox[i].gallery].is_active
      BY <1>3, <3>1
    <3>. QED  BY <1>1, <3>1, <3>2, <3>3 DEF RowOK
  <2>3. CASE i \notin DOMAIN outbox
    BY <1>3, <1>6, <2>3 DEF RowOK, Added
  <2>. QED  BY <2>2, <2>3
<1>8. Indexed' /\ (\A w \in Workers : Honest(w)') /\ (\A o \in Operators : PageHonest(o)')
  <2>1. \A h, k : OwedBut(h, k) => OwedBut(h, k)'
    BY <1>1, <1>6, AddedStays
  <2>2. \A k \in DOMAIN outbox \cup {0} : OwedBut(g, k)'
    BY <1>1, <1>6, AddedStays
  <2>3. \A h \in Galleries : Source(h)' = Source(h) \/ \A k \in DOMAIN outbox \cup {0} : OwedBut(h, k)'
    BY <1>1, <1>3, <2>2 DEF Source
  <2>4. \A o \in Operators : command'[o].page = command[o].page /\ command'[o].absent = command[o].absent
    BY DisturbedStays
  <2>5. \A i \in DOMAIN outbox : /\ outbox'[i].gallery = outbox[i].gallery
                                 /\ outbox'[i].operation = outbox[i].operation
    BY <1>6 DEF Added
  <2>. QED  BY <1>1, <2>1, <2>3, <2>4, <2>5, ReadHonest
<1>9. /\ WorkersOK' /\ \A w \in Workers : Holding(w)'
      /\ faults' \in Nat /\ \A i \in DOMAIN outbox' : Paid(i)'
  BY <1>1, <1>6, AddedStays
<1>10. OutboxOK'
  BY <1>6 DEF Added
<1>. QED  BY <1>4, <1>5, <1>7, <1>8, <1>9, <1>10, DisturbedStays DEF GalleryInv

(* add_embedding.                                                           *)
LEMMA RegisterKeeps ==
    ASSUME GalleryInv, NEW g \in Galleries, Register(g)
    PROVE  GalleryInv'
<1>. DEFINE r == [version |-> 1, is_active |-> TRUE]
<1>1. r \in [version : Versions, is_active : BOOLEAN] /\ r.version # 0 /\ r.version <= changes + 2
  BY Constants DEF Versions, GalleryInv, DatabaseOK
<1>2. outbox' = Append(outbox, Entry(g, "upsert")) /\ gallery' = [gallery EXCEPT ![g] = r]
      /\ Change /\ command' = Disturbed /\ UNCHANGED <<active, closing, worker, index, faults>>
  BY DEF Register, Enqueued
<1>3. gallery[g].version = 0
  BY DEF Register
<1>. HIDE DEF r
<1>. QED  BY <1>1, <1>2, <1>3, ChangeKeeps

(* _promote_gallery_primary.                                                *)
LEMMA PromoteKeeps ==
    ASSUME GalleryInv, NEW g \in Galleries, Promote(g)
    PROVE  GalleryInv'
<1>. DEFINE r == [gallery[g] EXCEPT !.version = @ + 1]
<1>1. /\ gallery[g] \in [version : Versions, is_active : BOOLEAN] /\ gallery[g].is_active
      /\ gallery[g].version <= changes + 1 /\ changes \in 0..MaxChanges
      /\ gallery[g].version \in Nat
  BY Constants DEF GalleryInv, DatabaseOK, Tables, Promote
<1>2. outbox' = Append(outbox, Entry(g, "upsert")) /\ gallery' = [gallery EXCEPT ![g] = r]
      /\ Change /\ command' = Disturbed /\ UNCHANGED <<active, closing, worker, index, faults>>
  BY DEF Promote, Enqueued
<1>3. gallery[g].version + 1 \in Versions
  BY <1>1, <1>2, Constants DEF Versions, Change
<1>4. r \in [version : Versions, is_active : BOOLEAN] /\ r.version = gallery[g].version + 1
  BY <1>1, <1>3
<1>5. r.version # 0 /\ r.version <= changes + 2
  BY <1>1, <1>4, Constants
<1>. HIDE DEF r
<1>. QED  BY <1>1, <1>2, <1>4, <1>5, ChangeKeeps

(* soft_delete_gallery, deactivate.                                         *)
LEMMA RemoveKeeps ==
    ASSUME GalleryInv, NEW g \in Galleries, Remove(g)
    PROVE  GalleryInv'
<1>. DEFINE r == [gallery[g] EXCEPT !.is_active = FALSE]
<1>1. /\ gallery[g] \in [version : Versions, is_active : BOOLEAN] /\ gallery[g].is_active
      /\ gallery[g].version <= changes + 1 /\ changes \in 0..MaxChanges
      /\ gallery[g].version \in Nat /\ gallery[g].version # 0
  BY Constants DEF GalleryInv, DatabaseOK, Tables, Remove
<1>2. outbox' = Append(outbox, Entry(g, "delete")) /\ gallery' = [gallery EXCEPT ![g] = r]
      /\ Change /\ command' = Disturbed /\ UNCHANGED <<active, closing, worker, index, faults>>
  BY DEF Remove, Enqueued
<1>3. /\ r \in [version : Versions, is_active : BOOLEAN] /\ r.version = gallery[g].version
      /\ r.is_active = FALSE
  BY <1>1
<1>4. r.version # 0 /\ r.version <= changes + 2
  BY <1>1, <1>3, Constants
<1>. HIDE DEF r
<1>. QED  BY <1>2, <1>3, <1>4, ChangeKeeps

(* The parts of the invariant that only the outbox, the workers, the        *)
(* commands and the index can disturb.                                      *)
LEMMA Untouched ==
    ASSUME GalleryInv, UNCHANGED <<gallery, active, outbox, point, worker, command, overtaken, doubtful, faults>>
    PROVE  /\ IndexOK' /\ OutboxOK' /\ WorkersOK' /\ CommandsOK' /\ Entries' /\ Indexed'
           /\ \A w \in Workers : Holding(w)' /\ Honest(w)'
           /\ \A o \in Operators : Located(o)' /\ PageHonest(o)' /\ Achieved(o)'
           /\ faults' \in Nat /\ \A i \in DOMAIN outbox' : Paid(i)'
<1>1. \A g : Source(g)' = Source(g)
  BY DEF Source
<1>2. \A i : (Completing(i)' <=> Completing(i)) /\ Failing(i)' = Failing(i) /\ (Due(i)' <=> Due(i))
  BY DEF Completing, Failing, Due
<1>3. \A g, k : OwedBut(g, k)' <=> OwedBut(g, k)
  BY <1>2 DEF OwedBut
<1>4. IndexOK' /\ OutboxOK' /\ WorkersOK' /\ CommandsOK'
  BY DEF GalleryInv, IndexOK, OutboxOK, WorkersOK, CommandsOK
<1>5. Entries' /\ faults' \in Nat /\ \A i \in DOMAIN outbox' : Paid(i)'
  BY <1>2 DEF GalleryInv, Entries, RowOK, Paid
<1>6. Indexed'
  BY <1>1, <1>3 DEF GalleryInv, Indexed, Owed
<1>7. \A w \in Workers : Holding(w)'
  BY Facts DEF Holding
<1>8. \A w \in Workers : Honest(w)'
  BY <1>1, <1>3, Facts DEF Honest, Target
<1>9. \A o \in Operators : Located(o)' /\ PageHonest(o)'
  BY <1>1, <1>3, Facts DEF Located, PageHonest, Owed
<1>10. \A o \in Operators : Achieved(o)'
  BY <1>1, Facts DEF Achieved
<1>. QED  BY <1>4, <1>5, <1>6, <1>7, <1>8, <1>9, <1>10

(* The statement of soft_delete_person.                                     *)
LEMMA RemovePersonKeeps ==
    ASSUME GalleryInv, NEW p \in Persons, RemovePerson(p)
    PROVE  GalleryInv'
<1>1. /\ UNCHANGED <<gallery, active, outbox, worker, command, point, overtaken, doubtful, faults>>
      /\ changes' = changes + 1 /\ changes \in 0..MaxChanges /\ changes' \in 0..MaxChanges
  BY Constants DEF RemovePerson, index, Change, GalleryInv, DatabaseOK
<1>. DEFINE seen == {g \in Galleries : PersonOf[g] = p /\ gallery[g].version # 0}
<1>2. closing' = [closing EXCEPT ![p] = [open |-> TRUE, seen |-> seen]]
      /\ closing \in [Persons -> [open : BOOLEAN, seen : SUBSET Galleries]]
  BY DEF RemovePerson, GalleryInv, DatabaseOK
<1>3. DatabaseOK'
  <2>1. closing' \in [Persons -> [open : BOOLEAN, seen : SUBSET Galleries]]
    BY <1>2
  <2>. QED  BY <1>1, <2>1 DEF GalleryInv, DatabaseOK
<1>4. Tables'
  <2>1. \A q \in Persons : closing'[q].seen = closing[q].seen \/ (q = p /\ closing'[q].seen = seen)
    BY <1>2
  <2>2. \A q \in Persons : \A g \in closing'[q].seen : PersonOf[g] = q /\ gallery'[g].version # 0
    BY <1>1, <2>1 DEF GalleryInv, Tables
  <2>3. ASSUME NEW g \in Galleries
        PROVE  gallery'[g].version <= changes' + 1 /\ (gallery'[g].version = 0 => ~ gallery'[g].is_active)
    <3>1. gallery[g].version \in Nat /\ gallery[g].version <= changes + 1
          /\ (gallery[g].version = 0 => ~ gallery[g].is_active)
      BY Constants DEF GalleryInv, Tables, DatabaseOK
    <3>. QED  BY <1>1, <3>1
  <2>. QED  BY <2>2, <2>3 DEF Tables
<1>. QED  BY <1>1, <1>3, <1>4, Untouched DEF GalleryInv

(* Concatenation, place by place.                                           *)
LEMMA Concatenated ==
    ASSUME NEW S, NEW s \in Seq(S), NEW t \in Seq(S), NEW u, u = s \o t
    PROVE  /\ u \in Seq(S) /\ Len(u) = Len(s) + Len(t)
           /\ \A i \in 1..Len(s) : u[i] = s[i]
           /\ \A j \in 1..Len(t) : u[Len(s) + j] = t[j]
<1>1. Len(s) \in Nat /\ Len(t) \in Nat /\ u \in Seq(S) /\ Len(u) = Len(s) + Len(t)
  OBVIOUS
<1>2. \A i \in 1..Len(s) : u[i] = s[i]
  BY <1>1
<1>3. \A j \in 1..Len(t) : u[Len(s) + j] = t[j]
  BY <1>1
<1>. QED  BY <1>1, <1>2, <1>3

(* The rows of a person are enqueued together.                              *)
LEMMA ConcatAdds ==
    ASSUME GalleryInv, NEW n \in Nat, NEW ids \in [1..n -> Galleries],
           outbox' = outbox \o [i \in DOMAIN ids |-> Entry(ids[i], "delete")]
    PROVE  /\ Added
           /\ \A i \in DOMAIN outbox' \ DOMAIN outbox :
                 /\ outbox'[i].operation = "delete"
                 /\ \E j \in 1..n : outbox'[i].gallery = ids[j]
           /\ \A j \in 1..n : \E i \in DOMAIN outbox' \ DOMAIN outbox : outbox'[i].gallery = ids[j]
<1>. DEFINE rows == [i \in DOMAIN ids |-> Entry(ids[i], "delete")]
            m == Len(outbox)
<1>1. \A g \in Galleries : /\ Entry(g, "delete") \in OutboxRow /\ Entry(g, "delete").status = "pending"
                           /\ Entry(g, "delete").attempts = 0 /\ Entry(g, "delete").gallery = g
                           /\ Entry(g, "delete").operation = "delete"
  BY DEF Entry, OutboxRow, Statuses
<1>2. /\ rows \in [1..n -> OutboxRow]
      /\ \A j \in 1..n : /\ rows[j].status = "pending" /\ rows[j].attempts = 0
                         /\ rows[j].gallery = ids[j] /\ rows[j].operation = "delete"
  BY <1>1
<1>3. outbox \in Seq(OutboxRow) /\ outbox' = outbox \o rows
  BY DEF GalleryInv, OutboxOK
<1>. HIDE DEF rows
<1>4. rows \in Seq(OutboxRow) /\ Len(rows) = n
  BY <1>2
<1>5. PICK u : u = outbox'
  OBVIOUS
<1>6. /\ m \in Nat /\ u \in Seq(OutboxRow) /\ Len(u) = m + n /\ DOMAIN outbox = 1..m
      /\ \A i \in 1..m : u[i] = outbox[i]
      /\ \A j \in 1..n : u[m + j] = rows[j]
  BY <1>3, <1>4, <1>5, Concatenated
<1>. HIDE DEF m
<1>7. DOMAIN u = 1..(m + n) /\ DOMAIN u \ DOMAIN outbox = (m + 1)..(m + n)
  BY <1>6
<1>8. \A i \in DOMAIN u \ DOMAIN outbox : \E j \in 1..n : u[i] = rows[j]
  <2>1. SUFFICES ASSUME NEW i \in (m + 1)..(m + n) PROVE \E j \in 1..n : u[i] = rows[j]
    BY <1>7
  <2>2. i - m \in 1..n /\ m + (i - m) = i
    BY <1>6
  <2>. QED  BY <1>6, <2>2
<1>9. \A j \in 1..n : \E i \in DOMAIN u \ DOMAIN outbox : u[i] = rows[j]
  <2>1. SUFFICES ASSUME NEW j \in 1..n PROVE \E i \in (m + 1)..(m + n) : u[i] = rows[j]
    BY <1>7
  <2>2. m + j \in (m + 1)..(m + n)
    BY <1>6
  <2>. QED  BY <1>6, <2>2
<1>10. DOMAIN outbox \subseteq DOMAIN u /\ 0 \notin DOMAIN u
  BY <1>6, <1>7
<1>11. \A i \in DOMAIN u \ DOMAIN outbox :
           /\ u[i].status = "pending" /\ u[i].attempts = 0 /\ u[i].operation = "delete"
           /\ \E j \in 1..n : u[i].gallery = ids[j]
  <2>1. SUFFICES ASSUME NEW i \in DOMAIN u \ DOMAIN outbox
                 PROVE  /\ u[i].status = "pending" /\ u[i].attempts = 0 /\ u[i].operation = "delete"
                        /\ \E j \in 1..n : u[i].gallery = ids[j]
    OBVIOUS
  <2>2. PICK j \in 1..n : u[i] = rows[j]
    BY <1>8
  <2>. QED  BY <1>2, <2>2
<1>12. \A j \in 1..n : \E i \in DOMAIN u \ DOMAIN outbox : u[i].gallery = ids[j]
  <2>1. SUFFICES ASSUME NEW j \in 1..n
                 PROVE  \E i \in DOMAIN u \ DOMAIN outbox : u[i].gallery = ids[j]
    OBVIOUS
  <2>2. PICK i \in DOMAIN u \ DOMAIN outbox : u[i] = rows[j]
    BY <1>9
  <2>. QED  BY <1>2, <2>2
<1>13. \A i \in DOMAIN outbox : u[i] = outbox[i]
  BY <1>6
<1>14. Added
  BY <1>5, <1>6, <1>10, <1>11, <1>13 DEF Added, OutboxOK
<1>15. \A i \in DOMAIN outbox' \ DOMAIN outbox : /\ outbox'[i].operation = "delete"
                                                 /\ \E j \in 1..n : outbox'[i].gallery = ids[j]
  <2>1. SUFFICES ASSUME NEW i \in DOMAIN outbox' \ DOMAIN outbox
                 PROVE  outbox'[i].operation = "delete" /\ \E j \in 1..n : outbox'[i].gallery = ids[j]
    OBVIOUS
  <2>2. i \in DOMAIN u \ DOMAIN outbox /\ outbox'[i] = u[i]
    BY <1>5
  <2>. QED  BY <1>11, <2>2
<1>16. \A j \in 1..n : \E i \in DOMAIN outbox' \ DOMAIN outbox : outbox'[i].gallery = ids[j]
  <2>1. SUFFICES ASSUME NEW j \in 1..n
                 PROVE  \E i \in DOMAIN outbox' \ DOMAIN outbox : outbox'[i].gallery = ids[j]
    OBVIOUS
  <2>2. PICK i \in DOMAIN u \ DOMAIN outbox : u[i].gallery = ids[j]
    BY <1>12
  <2>. QED  BY <1>5, <2>2
<1>. QED  BY <1>14, <1>15, <1>16

(* The commit of soft_delete_person: every row its trigger saw is enqueued, *)
(* because an injection of as many numbers into the rows reaches them all.  *)
LEMMA RemovePersonCommitKeeps ==
    ASSUME GalleryInv, NEW p \in Persons, RemovePersonCommit(p)
    PROVE  GalleryInv'
<1>. DEFINE seen == closing[p].seen
            Missed == {g \in Galleries : PersonOf[g] = p /\ gallery[g].version # 0} \ seen
<1>1. /\ active' = [active EXCEPT ![p] = FALSE] /\ command' = Disturbed
      /\ closing' = [closing EXCEPT ![p] = [open |-> FALSE, seen |-> {}]]
      /\ doubtful' = doubtful \cup Missed
      /\ overtaken' = [q \in Processes |-> overtaken[q] \cup (Missed \cap Reads(q))]
      /\ UNCHANGED <<gallery, point, worker, changes, faults>>
  BY DEF RemovePersonCommit
<1>2. /\ seen \subseteq Galleries /\ (\A g \in seen : PersonOf[g] = p /\ gallery[g].version # 0)
      /\ active \in [Persons -> BOOLEAN]
      /\ closing \in [Persons -> [open : BOOLEAN, seen : SUBSET Galleries]]
  BY DEF GalleryInv, DatabaseOK, Tables
<1>3. IsFiniteSet(seen) /\ Cardinality(seen) \in Nat
  BY <1>2, Constants, FS_Subset, FS_CardinalityType
<1>4. PICK n \in Nat : n = Cardinality(seen)
  BY <1>3
<1>5. PICK ids \in [1..n -> seen] :
          /\ \A i, j \in DOMAIN ids : i < j => ids[i] < ids[j]
          /\ outbox' = outbox \o [i \in DOMAIN ids |-> Entry(ids[i], "delete")]
  BY <1>4 DEF RemovePersonCommit
<1>6. \A g \in seen : \E j \in 1..n : ids[j] = g
  <2>1. \A i, j \in 1..n : ids[i] = ids[j] => i = j
    <3>1. SUFFICES ASSUME NEW i \in 1..n, NEW j \in 1..n, ids[i] = ids[j], i # j PROVE FALSE
      OBVIOUS
    <3>2. ids[i] < ids[j] \/ ids[j] < ids[i]
      BY <1>5, <3>1
    <3>3. ids[i] \in Nat
      BY <1>2, Constants
    <3>. QED  BY <3>1, <3>2, <3>3
  <2>2. ids \in Injection(1..n, seen)
    BY <2>1 DEF Injection, IsInjective
  <2>3. IsFiniteSet(1..n) /\ Cardinality(1..n) = n
    BY FS_Interval
  <2>4. ids \in Surjection(1..n, seen)
    BY <1>3, <1>4, <2>2, <2>3, FS_Injection
  <2>. QED  BY <2>4 DEF Surjection
<1>. HIDE DEF seen
<1>7. ids \in [1..n -> Galleries]
  BY <1>2
<1>8. /\ Added
      /\ \A i \in DOMAIN outbox' \ DOMAIN outbox :
            outbox'[i].operation = "delete" /\ outbox'[i].gallery \in seen
      /\ \A g \in seen : \E i \in DOMAIN outbox' \ DOMAIN outbox : outbox'[i].gallery = g
  <2>1. /\ Added
        /\ \A i \in DOMAIN outbox' \ DOMAIN outbox :
              outbox'[i].operation = "delete" /\ \E j \in 1..n : outbox'[i].gallery = ids[j]
        /\ \A j \in 1..n : \E i \in DOMAIN outbox' \ DOMAIN outbox : outbox'[i].gallery = ids[j]
    BY <1>5, <1>7, ConcatAdds
  <2>2. \A j \in 1..n : ids[j] \in seen
    OBVIOUS
  <2>3. \A g \in seen : \E i \in DOMAIN outbox' \ DOMAIN outbox : outbox'[i].gallery = g
    BY <1>6, <2>1
  <2>. QED  BY <2>1, <2>2, <2>3
<1>9. \A q \in Persons : active'[q] = IF q = p THEN FALSE ELSE active[q]
  BY <1>1, <1>2
<1>10. DatabaseOK' /\ IndexOK' /\ OutboxOK'
  <2>1. active' \in [Persons -> BOOLEAN]
    BY <1>1, <1>2
  <2>2. closing' \in [Persons -> [open : BOOLEAN, seen : SUBSET Galleries]]
    BY <1>1, <1>2
  <2>3. DatabaseOK'
    BY <1>1, <2>1, <2>2 DEF GalleryInv, DatabaseOK
  <2>4. Missed \subseteq Galleries
    OBVIOUS
  <2>. HIDE DEF Missed
  <2>5. IndexOK'
    BY <1>1, <2>4 DEF GalleryInv, IndexOK
  <2>. QED  BY <1>8, <2>3, <2>5 DEF Added
<1>11. Tables'
  <2>1. \A q \in Persons : closing'[q].seen = closing[q].seen \/ closing'[q].seen = {}
    BY <1>1, <1>2
  <2>. QED  BY <1>1, <2>1 DEF GalleryInv, Tables
<1>12. Entries'
  <2>1. SUFFICES ASSUME NEW i \in DOMAIN outbox' PROVE RowOK(outbox[i])'
    BY DEF Entries
  <2>2. CASE i \in DOMAIN outbox
    <3>1. RowOK(outbox[i]) /\ outbox'[i] = outbox[i] /\ PersonOf[outbox[i].gallery] \in Persons
      BY <1>8, <2>2, Facts, Constants DEF Added
    <3>. QED  BY <1>1, <1>9, <3>1 DEF RowOK
  <2>3. CASE i \notin DOMAIN outbox
    <3>1. outbox'[i].gallery \in seen /\ outbox'[i].status = "pending" /\ outbox'[i].attempts = 0
      BY <1>8, <2>3 DEF Added
    <3>. QED  BY <1>1, <1>2, <1>9, <3>1 DEF RowOK
  <2>. QED  BY <2>2, <2>3
<1>13. Indexed' /\ (\A w \in Workers : Honest(w)') /\ (\A o \in Operators : PageHonest(o)')
  <2>1. \A h, k : OwedBut(h, k) => OwedBut(h, k)'
    BY <1>1, <1>8, AddedStays
  <2>2. \A g \in seen : \A k \in DOMAIN outbox \cup {0} : OwedBut(g, k)'
    BY <1>1, <1>8, AddedStays
  <2>3. \A g \in Missed : g \in doubtful' /\ \A q \in Processes : g \in Reads(q) => g \in overtaken'[q]
    <3>. HIDE DEF Missed
    <3>. QED  BY <1>1
  <2>4. \A g \in Galleries : g \in seen \/ g \in Missed \/ Source(g)' = Source(g)
    <3>1. SUFFICES ASSUME NEW g \in Galleries, g \notin seen, g \notin Missed PROVE Source(g)' = Source(g)
      OBVIOUS
    <3>2. PersonOf[g] # p \/ ~ gallery[g].is_active
      BY <3>1 DEF GalleryInv, Tables
    <3>. QED  BY <1>1, <1>9, <3>2, Constants DEF Source
  <2>5. \A g \in Galleries :
            \/ Source(g)' = Source(g) \/ \A k \in DOMAIN outbox \cup {0} : OwedBut(g, k)'
            \/ g \in doubtful' /\ \A q \in Processes : g \in Reads(q) => g \in overtaken'[q]
    <3>. HIDE DEF Missed
    <3>. QED  BY <2>2, <2>3, <2>4
  <2>6. \A q \in Processes : overtaken[q] \subseteq overtaken'[q]
    BY <1>1
  <2>7. \A o \in Operators : command'[o].page = command[o].page /\ command'[o].absent = command[o].absent
    BY <1>1, DisturbedStays
  <2>8. \A i \in DOMAIN outbox : /\ outbox'[i].gallery = outbox[i].gallery
                                 /\ outbox'[i].operation = outbox[i].operation
    BY <1>8 DEF Added
  <2>9. doubtful \subseteq doubtful' /\ (\A w \in Workers : overtaken[w] \subseteq overtaken'[w])
        /\ \A o \in Operators : overtaken[o] \subseteq overtaken'[o]
    BY <1>1, <2>6 DEF Processes
  <2>10. \A w \in Workers : worker'[w].pc = "write" =>
             /\ worker[w].pc = "write" /\ worker'[w].row = worker[w].row
             /\ worker'[w].version = worker[w].version /\ overtaken[w] \subseteq overtaken'[w]
    BY <1>1, <2>9
  <2>11. \A o \in Operators :
             /\ \A g \in DOMAIN command'[o].page :
                    /\ g \in DOMAIN command[o].page /\ command'[o].page[g] = command[o].page[g]
                    /\ overtaken[o] \subseteq overtaken'[o]
             /\ \A g \in command'[o].absent : g \in command[o].absent /\ overtaken[o] \subseteq overtaken'[o]
    BY <2>7, <2>9
  <2>. HIDE DEF Missed
  <2>12. point' = point
    BY <1>1
  <2>. QED  BY <2>1, <2>5, <2>8, <2>9, <2>10, <2>11, <2>12, ReadHonest
<1>14. /\ WorkersOK' /\ \A w \in Workers : Holding(w)'
       /\ faults' \in Nat /\ \A i \in DOMAIN outbox' : Paid(i)'
  BY <1>1, <1>8, AddedStays
<1>. HIDE DEF Missed
<1>. QED  BY <1>1, <1>10, <1>11, <1>12, <1>13, <1>14, DisturbedStays DEF GalleryInv

-----------------------------------------------------------------------------
(* The parts that a step of a worker leaves alone                           *)

(* Statements on the outbox do not touch the gallery.                       *)
LEMMA DatabaseStays ==
    ASSUME GalleryInv, UNCHANGED database
    PROVE  /\ DatabaseOK' /\ Tables' /\ UNCHANGED <<gallery, active, closing, changes>>
           /\ \A g : Source(g)' = Source(g)
<1>1. UNCHANGED <<gallery, active, closing, changes>>
  BY DEF database
<1>2. DatabaseOK' /\ Tables'
  BY <1>1 DEF GalleryInv, DatabaseOK, Tables
<1>3. \A g : Source(g)' = Source(g)
  BY <1>1 DEF Source
<1>. QED  BY <1>1, <1>2, <1>3

(* A command sees nothing of a step that writes no point.                   *)
LEMMA CommandStays ==
    ASSUME GalleryInv, UNCHANGED <<database, point, command>>
    PROVE  CommandsOK' /\ \A o \in Operators : Located(o)' /\ Achieved(o)'
<1>1. CommandsOK' /\ \A o \in Operators : Located(o)'
  BY Facts DEF GalleryInv, CommandsOK, Located
<1>2. \A o \in Operators : Achieved(o)'
  BY Facts, DatabaseStays DEF Achieved
<1>. QED  BY <1>1, <1>2

(* Rows are rewritten in place.                                             *)
Rewritten ==
    /\ OutboxOK' /\ DOMAIN outbox' = DOMAIN outbox
    /\ \A i \in DOMAIN outbox :
          /\ outbox'[i].gallery = outbox[i].gallery /\ outbox'[i].operation = outbox[i].operation
          /\ outbox[i].status # "pending" => outbox'[i].status # "pending"
          /\ outbox'[i].attempts = 0 <=> outbox'[i].status = "pending"

(* Their entries stay right.                                                *)
LEMMA RewriteStays ==
    ASSUME GalleryInv, Rewritten, UNCHANGED database
    PROVE  Entries'
<1>1. UNCHANGED <<gallery, active>>
  BY DatabaseStays
<1>. QED  BY <1>1, Facts DEF Entries, RowOK, Rewritten

(* A worker takes another state.                                            *)
LEMMA WorkerMoves ==
    ASSUME GalleryInv, Rewritten, NEW w \in Workers, NEW r \in WorkerRec, worker' = [worker EXCEPT ![w] = r],
           r.pc \in {"idle", "claim"} => DOMAIN r.claimed = {},
           DOMAIN r.claimed \subseteq DOMAIN outbox,
           \A i \in DOMAIN r.claimed : outbox'[i].status # "pending",
           r.pc \in Busy => r.row \in DOMAIN r.claimed
    PROVE  WorkersOK' /\ (\A v \in Workers : Holding(v)') /\ worker'[w] = r
           /\ \A v \in Workers \ {w} : worker'[v] = worker[v]
<1>1. worker \in [Workers -> WorkerRec]
  BY DEF GalleryInv, WorkersOK
<1>2. worker'[w] = r /\ \A v \in Workers \ {w} : worker'[v] = worker[v]
  BY <1>1
<1>3. WorkersOK'
  BY <1>1 DEF WorkersOK
<1>4. \A v \in Workers : Holding(v)'
  <2>1. Holding(w)'
    BY <1>2 DEF Holding, Rewritten
  <2>2. \A v \in Workers \ {w} : Holding(v)'
    BY <1>2, Facts DEF Holding, Rewritten
  <2>. QED  BY <2>1, <2>2
<1>. QED  BY <1>2, <1>3, <1>4

(* The numbers that Paid compares.                                          *)
LEMMA PaidFacts ==
    ASSUME GalleryInv, NEW i \in DOMAIN outbox
    PROVE  /\ IsFiniteSet(Failing(i)) /\ Cardinality(Failing(i)) \in Nat
           /\ outbox[i].attempts \in Nat /\ faults \in Nat
           /\ outbox[i].attempts + Cardinality(Failing(i)) + (IF Due(i) THEN 1 ELSE 0) <= faults + 1
<1>1. Failing(i) \subseteq Workers
  BY DEF Failing
<1>2. IsFiniteSet(Failing(i)) /\ Cardinality(Failing(i)) \in Nat
  BY <1>1, GallerySyncAssumptions, FS_Subset, FS_CardinalityType
<1>3. outbox[i].attempts \in Nat /\ faults \in Nat /\ Paid(i)
  BY Facts DEF OutboxRow, GalleryInv
<1>. QED  BY <1>2, <1>3 DEF Paid

(* No new attempt, and a row that becomes due has cost a fault.             *)
LEMMA PaidStays ==
    ASSUME GalleryInv, NEW i \in DOMAIN outbox, outbox'[i].attempts = outbox[i].attempts,
           Failing(i)' \subseteq Failing(i), faults' \in Nat, faults <= faults',
           Due(i)' => Due(i) \/ faults + 1 <= faults'
    PROVE  Paid(i)'
<1>1. PICK F : F = Failing(i)'
  OBVIOUS
<1>2. Cardinality(F) \in Nat /\ Cardinality(F) <= Cardinality(Failing(i))
  BY <1>1, PaidFacts, FS_Subset, FS_CardinalityType
<1>3. CASE Due(i) \/ ~ Due(i)'
  BY <1>1, <1>2, <1>3, PaidFacts DEF Paid
<1>4. CASE ~ Due(i) /\ Due(i)'
  BY <1>1, <1>2, <1>4, PaidFacts DEF Paid
<1>. QED  BY <1>3, <1>4

(* A fault is counted, or there is none.                                    *)
LEMMA FaultFacts ==
    ASSUME GalleryInv
    PROVE  /\ Fault => faults' \in Nat /\ faults + 1 <= faults' /\ faults <= faults' /\ faults' = faults + 1
           /\ faults' = faults => faults' \in Nat /\ faults <= faults'
  BY DEF GalleryInv, Fault

(* A statement on the outbox that settles no row but one that is about to   *)
(* be completed leaves everybody as honest as before.                       *)
LEMMA QuietHonest ==
    ASSUME GalleryInv, Rewritten, UNCHANGED <<database, index, command>>,
           \A i \in DOMAIN outbox :
               /\ ~ Completing(i) /\ outbox[i].status # "completed" => outbox'[i].status # "completed"
               /\ Completing(i)' => Completing(i),
           \A v \in Workers : worker'[v].pc = "write" =>
               /\ worker[v].pc = "write" /\ worker'[v].row = worker[v].row
               /\ worker'[v].version = worker[v].version
    PROVE  /\ Indexed' /\ \A w \in Workers : Honest(w)'
           /\ \A o \in Operators : PageHonest(o)'
<1>1. UNCHANGED <<point, overtaken, doubtful, command>>
  BY DEF index
<1>2. \A g, k : OwedBut(g, k) => OwedBut(g, k)'
  BY OwedStays DEF Rewritten
<1>3. \A g \in Galleries : Source(g)' = Source(g)
  BY DatabaseStays
<1>4. \A i \in DOMAIN outbox : /\ outbox'[i].gallery = outbox[i].gallery
                               /\ outbox'[i].operation = outbox[i].operation
  BY DEF Rewritten
<1>. QED  BY <1>1, <1>2, <1>3, <1>4, ReadHonest

(* The conclusion of a quiet step.                                          *)
LEMMA QuietKeeps ==
    ASSUME GalleryInv, Rewritten, UNCHANGED <<database, index, command>>,
           \A i \in DOMAIN outbox :
               /\ ~ Completing(i) /\ outbox[i].status # "completed" => outbox'[i].status # "completed"
               /\ Completing(i)' => Completing(i),
           \A v \in Workers : worker'[v].pc = "write" =>
               /\ worker[v].pc = "write" /\ worker'[v].row = worker[v].row
               /\ worker'[v].version = worker[v].version,
           WorkersOK', \A v \in Workers : Holding(v)', faults' \in Nat, \A i \in DOMAIN outbox : Paid(i)'
    PROVE  GalleryInv'
<1>1. IndexOK' /\ UNCHANGED point
  BY DEF GalleryInv, IndexOK, index
<1>2. OutboxOK' /\ DOMAIN outbox' = DOMAIN outbox
  BY DEF Rewritten
<1>. QED  BY <1>1, <1>2, QuietHonest, DatabaseStays, CommandStays, RewriteStays DEF GalleryInv

(* A timer runs out.                                                        *)
LEMMA ElapseKeeps ==
    ASSUME GalleryInv, NEW i \in DOMAIN outbox, Elapse(i)
    PROVE  GalleryInv'
<1>1. UNCHANGED <<database, worker, command, index>> /\ outbox' = [outbox EXCEPT ![i].ripe = TRUE]
  BY DEF Elapse
<1>2. /\ OutboxOK' /\ DOMAIN outbox' = DOMAIN outbox /\ (\A j \in DOMAIN outbox \ {i} : outbox'[j] = outbox[j])
      /\ outbox'[i].gallery = outbox[i].gallery /\ outbox'[i].operation = outbox[i].operation
      /\ outbox'[i].status = outbox[i].status /\ outbox'[i].attempts = outbox[i].attempts
  <2>. DEFINE r == [outbox[i] EXCEPT !.ripe = TRUE]
  <2>1. /\ r \in OutboxRow /\ r.gallery = outbox[i].gallery /\ r.operation = outbox[i].operation
        /\ r.status = outbox[i].status /\ r.attempts = outbox[i].attempts
    BY Facts DEF OutboxRow
  <2>2. outbox' = [outbox EXCEPT ![i] = r] /\ outbox \in Seq(OutboxRow)
    BY <1>1 DEF GalleryInv, OutboxOK
  <2>. HIDE DEF r
  <2>3. outbox' \in Seq(OutboxRow)
    BY <2>1, <2>2
  <2>4. DOMAIN outbox' = DOMAIN outbox /\ outbox'[i] = r /\ \A j \in DOMAIN outbox \ {i} : outbox'[j] = outbox[j]
    BY <2>2
  <2>. QED  BY <2>1, <2>3, <2>4 DEF OutboxOK
<1>3. Rewritten
  BY <1>2, Facts DEF Rewritten, RowOK
<1>4. /\ \A j : Completing(j)' <=> Completing(j)
      /\ \A j : Failing(j)' = Failing(j)
  BY <1>1 DEF Completing, Failing
<1>5. WorkersOK' /\ \A v \in Workers : Holding(v)'
  BY <1>1, <1>2, Facts DEF GalleryInv, WorkersOK, Holding
<1>6. faults' \in Nat /\ faults <= faults'
  BY FaultFacts DEF Elapse
<1>7. ASSUME NEW j \in DOMAIN outbox PROVE Paid(j)'
  <2>1. CASE j # i
    <3>1. Due(j)' => Due(j)
      BY <1>1, <1>2, <2>1 DEF Due
    <3>. QED  BY <1>2, <1>4, <1>6, <2>1, <3>1, PaidStays
  <2>2. CASE j = i
    <3>1. Due(i) \/ faults + 1 <= faults'
      BY FaultFacts DEF Elapse, Due
    <3>. QED  BY <1>2, <1>4, <1>6, <2>2, <3>1, PaidStays
  <2>. QED  BY <2>1, <2>2
<1>8. \A j \in DOMAIN outbox : outbox'[j].status = outbox[j].status
  BY <1>2
<1>. QED  BY <1>1, <1>3, <1>4, <1>5, <1>6, <1>7, <1>8, QuietKeeps

(* reclaim_stale_processing_rows.                                           *)
LEMMA ReclaimKeeps ==
    ASSUME GalleryInv, NEW w \in Workers, Reclaim(w)
    PROVE  GalleryInv'
<1>. DEFINE R == Oldest(Reclaimable, BatchSize)
            r == [worker[w] EXCEPT !.pc = "claim"]
<1>1. /\ UNCHANGED <<database, command, index, faults>> /\ worker[w].pc = "idle"
      /\ outbox' = [i \in DOMAIN outbox |-> IF i \in R THEN [outbox[i] EXCEPT !.status = "retry"] ELSE outbox[i]]
      /\ worker' = [worker EXCEPT ![w] = r]
  BY DEF Reclaim
<1>2. \A i \in R : i \in DOMAIN outbox /\ outbox[i].status = "processing" /\ outbox[i].ripe
  BY DEF Oldest, Reclaimable, RowsWith
<1>3. \A i \in DOMAIN outbox :
          /\ outbox'[i] \in OutboxRow /\ outbox'[i].gallery = outbox[i].gallery
          /\ outbox'[i].operation = outbox[i].operation /\ outbox'[i].attempts = outbox[i].attempts
          /\ outbox'[i].ripe = outbox[i].ripe
          /\ i \in R => outbox'[i].status = "retry" /\ outbox[i].status = "processing" /\ outbox[i].ripe
          /\ i \notin R => outbox'[i].status = outbox[i].status
  <2>. HIDE DEF R
  <2>. QED  BY <1>1, <1>2, Facts DEF OutboxRow, Statuses
<1>. HIDE DEF R
<1>4. OutboxOK' /\ DOMAIN outbox' = DOMAIN outbox
  <2>1. outbox' \in [1..Len(outbox) -> OutboxRow] /\ Len(outbox) \in Nat
    BY <1>1, <1>3, Facts
  <2>. QED  BY <2>1, Facts DEF OutboxOK
<1>5. Rewritten
  BY <1>3, <1>4, Facts DEF Rewritten, RowOK
<1>6. r \in WorkerRec /\ r.pc = "claim" /\ DOMAIN r.claimed = {}
  BY <1>1, Facts DEF WorkerRec, Holding
<1>. HIDE DEF r
<1>7. WorkersOK' /\ (\A v \in Workers : Holding(v)') /\ worker'[w] = r
      /\ \A v \in Workers \ {w} : worker'[v] = worker[v]
  BY <1>1, <1>5, <1>6, WorkerMoves DEF Busy
<1>8. /\ \A j : Completing(j)' => Completing(j)
      /\ \A j : Failing(j)' \subseteq Failing(j)
      /\ \A v \in Workers : worker'[v].pc = "write" => worker'[v] = worker[v]
  BY <1>6, <1>7 DEF Completing, Failing
<1>9. \A i \in DOMAIN outbox : Due(i)' => Due(i)
  <2>1. \A v \in Workers : DOMAIN worker'[v].claimed = DOMAIN worker[v].claimed
    BY <1>1, <1>6, <1>7, Facts DEF Holding
  <2>. QED  BY <1>3, <2>1 DEF Due
<1>10. \A i \in DOMAIN outbox : Paid(i)'
  BY <1>1, <1>3, <1>8, <1>9, PaidStays, FaultFacts
<1>. QED  BY <1>1, <1>3, <1>5, <1>7, <1>8, <1>10, FaultFacts, QuietKeeps

(* claim_outbox_rows.                                                       *)
LEMMA ClaimKeeps ==
    ASSUME GalleryInv, NEW w \in Workers, Claim(w)
    PROVE  GalleryInv'
<1>. DEFINE R == Oldest(Claimable, BatchSize)
            f == [i \in R |-> outbox[i].attempts + 1]
            r == [Idle EXCEPT !.pc = IF R = {} THEN "idle" ELSE "row", !.claimed = f]
<1>1. /\ UNCHANGED <<database, command, index, faults>> /\ worker[w].pc \in {"idle", "claim"}
      /\ outbox' = [i \in DOMAIN outbox |->
             IF i \in R THEN [outbox[i] EXCEPT !.status = "processing", !.attempts = @ + 1, !.ripe = FALSE]
             ELSE outbox[i]]
      /\ worker' = [worker EXCEPT ![w] = r]
  BY DEF Claim
<1>2. R \subseteq DOMAIN outbox /\ R \subseteq Nat /\ \A i \in R : outbox[i].status \in {"pending", "retry"}
  BY Facts DEF Oldest, Claimable, RowsWith
<1>3. \A i \in DOMAIN outbox :
          /\ outbox'[i] \in OutboxRow /\ outbox'[i].gallery = outbox[i].gallery
          /\ outbox'[i].operation = outbox[i].operation
          /\ i \in R => /\ outbox'[i].status = "processing" /\ outbox'[i].ripe = FALSE
                        /\ outbox'[i].attempts = outbox[i].attempts + 1 /\ outbox[i].attempts \in Nat
          /\ i \notin R => outbox'[i] = outbox[i]
  <2>1. SUFFICES ASSUME NEW i \in DOMAIN outbox
                 PROVE  /\ outbox'[i] \in OutboxRow /\ outbox'[i].gallery = outbox[i].gallery
                        /\ outbox'[i].operation = outbox[i].operation
                        /\ i \in R => /\ outbox'[i].status = "processing" /\ outbox'[i].ripe = FALSE
                                      /\ outbox'[i].attempts = outbox[i].attempts + 1 /\ outbox[i].attempts \in Nat
                        /\ i \notin R => outbox'[i] = outbox[i]
    OBVIOUS
  <2>. HIDE DEF R
  <2>2. outbox[i] \in OutboxRow /\ outbox[i].attempts \in Nat /\ outbox[i].attempts + 1 \in Nat
    BY Facts DEF OutboxRow
  <2>. QED  BY <1>1, <2>2 DEF OutboxRow, Statuses
<1>4. f \in Claims /\ DOMAIN f = R
  <2>. HIDE DEF R
  <2>1. f \in [R -> Nat] /\ DOMAIN f = R
    BY <1>2, <1>3
  <2>. HIDE DEF f
  <2>. QED  BY <1>2, <2>1 DEF Claims
<1>. HIDE DEF R, f
<1>5. OutboxOK' /\ DOMAIN outbox' = DOMAIN outbox
  <2>1. outbox' \in [1..Len(outbox) -> OutboxRow] /\ Len(outbox) \in Nat
    BY <1>1, <1>3, Facts
  <2>. QED  BY <2>1, Facts DEF OutboxOK
<1>6. Rewritten
  BY <1>3, <1>5, Facts DEF Rewritten, RowOK
<1>7. r \in WorkerRec /\ r.claimed = f /\ r.pc = IF R = {} THEN "idle" ELSE "row"
  BY <1>4, RestTypes DEF WorkerRec, Busy
<1>. HIDE DEF r
<1>8. WorkersOK' /\ (\A v \in Workers : Holding(v)') /\ worker'[w] = r
      /\ \A v \in Workers \ {w} : worker'[v] = worker[v]
  BY <1>1, <1>2, <1>3, <1>4, <1>6, <1>7, WorkerMoves DEF Busy
<1>9. /\ \A j : Completing(j)' => Completing(j)
      /\ \A j : Failing(j)' = Failing(j)
      /\ \A v \in Workers : worker'[v].pc = "write" => worker'[v] = worker[v]
  BY <1>1, <1>7, <1>8 DEF Completing, Failing
<1>10. ASSUME NEW i \in DOMAIN outbox PROVE Paid(i)'
  <2>1. CASE i \in R
    <3>1. ~ Due(i)'
      BY <1>3, <1>4, <1>7, <1>8, <2>1 DEF Due
    <3>2. Due(i)
      BY <1>2, <2>1 DEF Due
    <3>3. Failing(i)' = Failing(i) /\ faults' = faults /\ outbox'[i].attempts = outbox[i].attempts + 1
      BY <1>1, <1>3, <1>9, <2>1
    <3>. QED  BY <3>1, <3>2, <3>3, PaidFacts DEF Paid
  <2>2. CASE i \notin R
    <3>1. DOMAIN worker[w].claimed = {}
      BY <1>1, Facts DEF Holding
    <3>2. Due(i)' => Due(i)
      BY <1>3, <1>8, <2>2, <3>1 DEF Due
    <3>. QED  BY <1>1, <1>3, <1>9, <2>2, <3>2, PaidStays, FaultFacts
  <2>. QED  BY <2>1, <2>2
<1>11. \A i \in DOMAIN outbox : outbox[i].status # "completed" => outbox'[i].status # "completed"
  BY <1>3
<1>. QED  BY <1>1, <1>6, <1>8, <1>9, <1>10, <1>11, FaultFacts, QuietKeeps

(* A step of a worker that leaves the outbox alone.                         *)
LEMMA SameOutbox ==
    ASSUME GalleryInv, UNCHANGED outbox
    PROVE  Rewritten
  BY Facts DEF GalleryInv, OutboxOK, Rewritten, RowOK

(* The loop takes a row and reads its source.                               *)
LEMMA ReadKeeps ==
    ASSUME GalleryInv, NEW w \in Workers, Read(w)
    PROVE  GalleryInv'
<1>1. /\ UNCHANGED <<database, outbox, command, point, doubtful, faults>> /\ worker[w].pc = "row"
      /\ overtaken' = [overtaken EXCEPT ![w] = {}]
  BY DEF Read
<1>2. PICK i \in DOMAIN worker[w].claimed :
          worker' = [worker EXCEPT ![w].pc = "write", ![w].row = i, ![w].version =
              IF outbox[i].operation = "delete" THEN NoPoint ELSE Source(outbox[i].gallery)]
  BY DEF Read
<1>3. i \in DOMAIN outbox /\ outbox[i].gallery \in Galleries /\ i \in Nat /\ worker[w] \in WorkerRec
      /\ outbox[i].status # "pending"
  BY Facts DEF Holding
<1>4. PICK x \in Versions : x = IF outbox[i].operation = "delete" THEN NoPoint ELSE Source(outbox[i].gallery)
  BY <1>3, SourceFacts, Constants
<1>. DEFINE r == [worker[w] EXCEPT !.pc = "write", !.row = i, !.version = x]
<1>5. /\ r \in WorkerRec /\ r.pc = "write" /\ r.row = i /\ r.version = x
      /\ r.claimed = worker[w].claimed
  BY <1>3 DEF WorkerRec, Busy
<1>6. worker' = [worker EXCEPT ![w] = r]
  <2>1. worker' = [worker EXCEPT ![w].pc = "write", ![w].row = i, ![w].version = x]
    BY <1>2, <1>4
  <2>2. worker \in [Workers -> WorkerRec]
    BY DEF GalleryInv, WorkersOK
  <2>. QED  BY <2>1, <2>2
<1>. HIDE DEF r
<1>7. Rewritten
  BY <1>1, SameOutbox
<1>8. WorkersOK' /\ (\A v \in Workers : Holding(v)') /\ worker'[w] = r
      /\ \A v \in Workers \ {w} : worker'[v] = worker[v]
  <2>1. DOMAIN r.claimed \subseteq DOMAIN outbox /\ \A j \in DOMAIN r.claimed : outbox'[j].status # "pending"
    BY <1>1, <1>5, Facts DEF Holding
  <2>. QED  BY <1>5, <1>6, <1>7, <2>1, WorkerMoves
<1>9. overtaken \in [Processes -> SUBSET Galleries] /\ w \in Processes
  BY DEF GalleryInv, IndexOK, Processes
<1>10. IndexOK' /\ \A q \in Processes \ {w} : overtaken'[q] = overtaken[q]
  BY <1>1, <1>9 DEF GalleryInv, IndexOK
<1>11. \A g : Source(g)' = Source(g)
  BY <1>1, DatabaseStays
<1>12. Honest(w)'
  <2>1. outbox'[worker'[w].row] = outbox[i] /\ worker'[w].version = x
    BY <1>1, <1>5, <1>8
  <2>2. PICK g \in Galleries : g = outbox[i].gallery /\ g = Target(w)'
    BY <1>3, <2>1 DEF Target
  <2>3. outbox[i].operation # "delete" => x = Source(g)'
    BY <1>4, <1>11, <2>2
  <2>. QED  BY <1>4, <2>1, <2>2, <2>3 DEF Honest
<1>13. /\ \A j : Completing(j)' => Completing(j)
       /\ \A j : Failing(j)' \subseteq Failing(j)
  BY <1>5, <1>8 DEF Completing, Failing
<1>14. Indexed' /\ (\A v \in Workers : Honest(v)') /\ (\A o \in Operators : PageHonest(o)')
  <2>1. \A g, k : OwedBut(g, k) => OwedBut(g, k)'
    BY <1>1, <1>13, OwedStays
  <2>2. \A v \in Workers : worker'[v].pc = "write" =>
            \/ /\ worker[v].pc = "write" /\ worker'[v].row = worker[v].row
               /\ worker'[v].version = worker[v].version /\ overtaken[v] \subseteq overtaken'[v]
            \/ Honest(v)'
    <3>1. SUFFICES ASSUME NEW v \in Workers \ {w}, worker'[v].pc = "write"
                   PROVE  /\ worker[v].pc = "write" /\ worker'[v].row = worker[v].row
                          /\ worker'[v].version = worker[v].version /\ overtaken[v] \subseteq overtaken'[v]
      BY <1>12
    <3>. QED  BY <1>8, <1>10, <3>1 DEF Processes
  <2>3. \A o \in Operators : overtaken'[o] = overtaken[o]
    BY <1>10, GallerySyncAssumptions DEF Processes
  <2>. QED  BY <1>1, <1>11, <2>1, <2>2, <2>3, ReadHonest
<1>15. ASSUME NEW j \in DOMAIN outbox PROVE Paid(j)'
  <2>1. \A v \in Workers : DOMAIN worker'[v].claimed = DOMAIN worker[v].claimed
    BY <1>5, <1>8
  <2>2. Due(j)' => Due(j)
    BY <1>1, <2>1 DEF Due
  <2>. QED  BY <1>1, <1>13, <2>2, PaidStays, FaultFacts
<1>. QED  BY <1>1, <1>7, <1>8, <1>10, <1>14, <1>15, DatabaseStays, CommandStays, RewriteStays, FaultFacts
          DEF GalleryInv, Rewritten

(* A worker goes on with the row it works on.                               *)
LEMMA WorkerGoto ==
    ASSUME GalleryInv, NEW w \in Workers, NEW l \in Busy, worker[w].pc \in Busy, UNCHANGED outbox,
           worker' = [worker EXCEPT ![w].pc = l]
    PROVE  /\ WorkersOK' /\ \A v \in Workers : Holding(v)'
           /\ worker'[w].pc = l /\ worker'[w].row = worker[w].row /\ worker'[w].version = worker[w].version
           /\ worker'[w].claimed = worker[w].claimed /\ \A v \in Workers \ {w} : worker'[v] = worker[v]
           /\ worker[w].row \in DOMAIN outbox /\ outbox[worker[w].row].gallery \in Galleries
<1>. DEFINE r == [worker[w] EXCEPT !.pc = l]
<1>1. /\ r \in WorkerRec /\ r.pc = l /\ r.row = worker[w].row /\ r.version = worker[w].version
      /\ r.claimed = worker[w].claimed /\ worker' = [worker EXCEPT ![w] = r]
  BY Facts DEF WorkerRec
<1>. HIDE DEF r
<1>2. /\ DOMAIN r.claimed \subseteq DOMAIN outbox /\ r.row \in DOMAIN r.claimed
      /\ \A j \in DOMAIN r.claimed : outbox'[j].status # "pending"
  BY <1>1, Facts DEF Holding
<1>3. l \notin {"idle", "claim"}
  BY DEF Busy
<1>4. WorkersOK' /\ (\A v \in Workers : Holding(v)') /\ worker'[w] = r
      /\ \A v \in Workers \ {w} : worker'[v] = worker[v]
  BY <1>1, <1>2, <1>3, SameOutbox, WorkerMoves
<1>. QED  BY <1>1, <1>2, <1>4, Facts

(* Points are written with versions.                                        *)
LEMMA WriteTypes ==
    ASSUME GalleryInv, NEW p \in Processes, NEW G \in SUBSET Galleries, NEW new, WritePoints(p, G, new),
           \A g \in G : new[g] \in Versions
    PROVE  IndexOK'
<1>1. point \in [Galleries -> Versions] /\ overtaken \in [Processes -> SUBSET Galleries] /\ doubtful \subseteq Galleries
  BY DEF GalleryInv, IndexOK
<1>2. point' \in [Galleries -> Versions]
  BY <1>1 DEF WritePoints
<1>3. overtaken' \in [Processes -> SUBSET Galleries] /\ doubtful' \subseteq Galleries
  BY <1>1 DEF WritePoints
<1>. QED  BY <1>2, <1>3 DEF IndexOK

(* The call of a worker is applied.                                         *)
LEMMA WorkerWrites ==
    ASSUME GalleryInv, NEW w \in Workers, worker[w].pc = "write", NEW l \in {"complete", "failed"},
           WritePoints(w, {Target(w)}, [g \in {Target(w)} |-> worker[w].version]),
           worker' = [worker EXCEPT ![w].pc = l], command' = Disturbed, UNCHANGED <<database, outbox>>
    PROVE  /\ DatabaseOK' /\ IndexOK' /\ OutboxOK' /\ WorkersOK' /\ CommandsOK'
           /\ Tables' /\ Entries' /\ Indexed'
           /\ \A v \in Workers : Holding(v)' /\ Honest(v)'
           /\ \A o \in Operators : Located(o)' /\ PageHonest(o)' /\ Achieved(o)'
<1>1. l \in Busy /\ worker[w].pc \in Busy /\ l # "write"
  BY DEF Busy
<1>2. /\ WorkersOK' /\ \A v \in Workers : Holding(v)'
      /\ worker'[w].pc = l /\ worker'[w].row = worker[w].row /\ worker'[w].version = worker[w].version
      /\ worker'[w].claimed = worker[w].claimed /\ \A v \in Workers \ {w} : worker'[v] = worker[v]
      /\ worker[w].row \in DOMAIN outbox /\ outbox[worker[w].row].gallery \in Galleries
  BY <1>1, WorkerGoto
<1>3. PICK k \in DOMAIN outbox : k = worker[w].row
  BY <1>2
<1>4. PICK t \in Galleries : t = Target(w) /\ t = outbox[k].gallery
  BY <1>2, <1>3 DEF Target
<1>5. PICK new : new = [g \in {t} |-> worker[w].version]
  OBVIOUS
<1>6. WritePoints(w, {t}, new) /\ new[t] = worker[w].version /\ w \in Processes /\ {t} \in SUBSET Galleries
  BY <1>4, <1>5 DEF Processes
<1>7. IndexOK'
  <2>1. worker[w].version \in Versions
    BY Facts DEF WorkerRec
  <2>. QED  BY <1>6, <2>1, WriteTypes
<1>8. \A i \in DOMAIN outbox \ {k} : Completing(i)' => Completing(i)
  BY <1>1, <1>2, <1>3 DEF Completing
<1>9. \A g \in Galleries \ {t} : \A j \in DOMAIN outbox \cup {0} : OwedBut(g, j) => OwedBut(g, j)'
  <2>1. SUFFICES ASSUME NEW g \in Galleries \ {t}, NEW j, OwedBut(g, j) PROVE OwedBut(g, j)'
    OBVIOUS
  <2>2. \A i \in DOMAIN outbox \ {j} : Completing(i)' /\ outbox[i].gallery = g => Completing(i)
    BY <1>4, <1>8
  <2>3. \A i \in DOMAIN outbox :
            /\ i \in DOMAIN outbox' /\ outbox'[i].gallery = outbox[i].gallery
            /\ ~ Completing(i) /\ outbox[i].status # "completed" => outbox'[i].status # "completed"
    OBVIOUS
  <2>. QED  BY <2>1, <2>2, <2>3, OwedStays
<1>10. OwedBut(t, k) => Owed(t)'
  <2>1. \A i \in DOMAIN outbox :
            /\ i \in DOMAIN outbox' /\ outbox'[i].gallery = outbox[i].gallery
            /\ ~ Completing(i) /\ outbox[i].status # "completed" => outbox'[i].status # "completed"
    OBVIOUS
  <2>2. OwedBut(t, k) => OwedBut(t, k)'
    BY <1>8, <2>1, OwedStays
  <2>3. 0 \notin DOMAIN outbox'
    BY Facts
  <2>. QED  BY <2>2, <2>3 DEF OwedBut, Owed
<1>11. new[t] = Source(t) \/ t \in overtaken[w] \/ Owed(t)'
  <2>1. Honest(w)
    BY Facts
  <2>2. CASE outbox[k].operation = "delete"
    BY <1>3, <1>4, <1>6, <2>1, <2>2, SourceFacts DEF Honest
  <2>3. CASE outbox[k].operation # "delete"
    BY <1>3, <1>4, <1>6, <1>10, <2>1, <2>3 DEF Honest
  <2>. QED  BY <2>2, <2>3
<1>12. \A v \in Workers : worker'[v].pc = "write" => v # w /\ worker'[v] = worker[v]
  BY <1>1, <1>2
<1>13. \A o \in Operators :
           IF o = w THEN DOMAIN command'[o].page = {} /\ command'[o].absent \subseteq command[o].absent \ {t}
           ELSE command'[o].page = command[o].page /\ command'[o].absent = command[o].absent
  BY GallerySyncAssumptions, DisturbedStays
<1>14. Indexed' /\ (\A v \in Workers : Honest(v)') /\ \A o \in Operators : PageHonest(o)'
  <2>1. PICK G \in SUBSET Galleries : G = {t}
    BY <1>6
  <2>2. WritePoints(w, G, new)
    BY <1>6, <2>1
  <2>3. \A g \in Galleries \ G : \A j \in DOMAIN outbox \cup {0} : OwedBut(g, j) => OwedBut(g, j)'
    BY <1>9, <2>1
  <2>4. \A g \in G : new[g] = Source(g) \/ g \in overtaken[w] \/ Owed(g)'
    BY <1>11, <2>1
  <2>5. \A o \in Operators :
            IF o = w THEN DOMAIN command'[o].page = {} /\ command'[o].absent \subseteq command[o].absent \ G
            ELSE command'[o].page = command[o].page /\ command'[o].absent = command[o].absent
    BY <1>13, <2>1
  <2>. QED  BY <1>6, <1>12, <2>2, <2>3, <2>4, <2>5, WriteHonest
<1>. QED  BY <1>2, <1>7, <1>14, DisturbedStays, DatabaseStays, RewriteStays, SameOutbox DEF GalleryInv, OutboxOK

(* A point is written for a row.                                            *)
LEMMA WriteKeeps ==
    ASSUME GalleryInv, NEW w \in Workers, Write(w)
    PROVE  GalleryInv'
<1>1. /\ worker[w].pc = "write" /\ worker' = [worker EXCEPT ![w].pc = "complete"]
      /\ WritePoints(w, {Target(w)}, [g \in {Target(w)} |-> worker[w].version])
      /\ command' = Disturbed /\ UNCHANGED <<database, outbox, faults>>
  BY DEF Write
<1>2. /\ worker'[w].pc = "complete" /\ worker'[w].claimed = worker[w].claimed
      /\ \A v \in Workers \ {w} : worker'[v] = worker[v]
  BY <1>1, WorkerGoto DEF Busy
<1>3. ASSUME NEW j \in DOMAIN outbox PROVE Paid(j)'
  <2>1. \A v \in Workers : DOMAIN worker'[v].claimed = DOMAIN worker[v].claimed
    BY <1>2
  <2>2. Due(j)' => Due(j)
    BY <1>1, <2>1 DEF Due
  <2>3. Failing(j)' \subseteq Failing(j)
    BY <1>2 DEF Failing
  <2>. QED  BY <1>1, <2>2, <2>3, PaidStays, FaultFacts
<1>. QED  BY <1>1, <1>3, WorkerWrites, FaultFacts DEF GalleryInv

(* An exception, before or after the call is applied.                       *)
LEMMA RaiseKeeps ==
    ASSUME GalleryInv, NEW w \in Workers, Raise(w)
    PROVE  GalleryInv'
<1>1. /\ worker[w].pc \in {"write", "complete"} /\ worker' = [worker EXCEPT ![w].pc = "failed"]
      /\ UNCHANGED <<database, outbox>> /\ Fault
  BY DEF Raise
<1>2. /\ WorkersOK' /\ \A v \in Workers : Holding(v)'
      /\ worker'[w].pc = "failed" /\ worker'[w].claimed = worker[w].claimed
      /\ \A v \in Workers \ {w} : worker'[v] = worker[v]
  BY <1>1, WorkerGoto DEF Busy
<1>3. faults' \in Nat /\ faults' = faults + 1
  BY <1>1, FaultFacts
<1>4. ASSUME NEW j \in DOMAIN outbox PROVE Paid(j)'
  <2>1. \A v \in Workers : DOMAIN worker'[v].claimed = DOMAIN worker[v].claimed
    BY <1>2
  <2>2. Due(j)' <=> Due(j)
    BY <1>1, <2>1 DEF Due
  <2>3. PICK F : F = Failing(j)'
    OBVIOUS
  <2>4. F \subseteq Failing(j) \cup {w}
    BY <1>2, <2>3 DEF Failing
  <2>5. Cardinality(F) \in Nat /\ Cardinality(F) <= Cardinality(Failing(j)) + 1
    <3>1. PICK E : E = Failing(j) /\ IsFiniteSet(E) /\ Cardinality(E) \in Nat
      BY PaidFacts
    <3>2. IsFiniteSet(E \cup {w}) /\ Cardinality(E \cup {w}) <= Cardinality(E) + 1
      <4>1. /\ IsFiniteSet(E \cup {w})
            /\ Cardinality(E \cup {w}) = Cardinality(E) \/ Cardinality(E \cup {w}) = Cardinality(E) + 1
        BY <3>1, FS_AddElement
      <4>. QED  BY <3>1, <4>1
    <3>3. Cardinality(E \cup {w}) \in Nat
      BY <3>2, FS_CardinalityType
    <3>4. IsFiniteSet(F) /\ Cardinality(F) <= Cardinality(E \cup {w})
      BY <2>4, <3>1, <3>2, FS_Subset
    <3>5. Cardinality(F) \in Nat
      BY <3>4, FS_CardinalityType
    <3>. QED  BY <3>1, <3>2, <3>3, <3>4, <3>5
  <2>6. outbox'[j].attempts = outbox[j].attempts
    BY <1>1
  <2>7. CASE Due(j)
    BY <1>3, <2>2, <2>3, <2>5, <2>6, <2>7, PaidFacts DEF Paid
  <2>8. CASE ~ Due(j)
    BY <1>3, <2>2, <2>3, <2>5, <2>6, <2>8, PaidFacts DEF Paid
  <2>. QED  BY <2>7, <2>8
<1>5. CASE UNCHANGED <<index, command>>
  <2>1. \A i : Completing(i)' => Completing(i)
    BY <1>2 DEF Completing
  <2>2. \A v \in Workers : worker'[v].pc = "write" => worker'[v] = worker[v]
    BY <1>2
  <2>3. \A i \in DOMAIN outbox : Paid(i)'
    BY <1>4
  <2>. QED  BY <1>1, <1>2, <1>3, <1>5, <2>1, <2>2, <2>3, SameOutbox, QuietKeeps
<1>6. CASE /\ worker[w].pc = "write" /\ command' = Disturbed
           /\ WritePoints(w, {Target(w)}, [g \in {Target(w)} |-> worker[w].version])
  BY <1>1, <1>3, <1>4, <1>6, WorkerWrites DEF GalleryInv
<1>. QED  BY <1>5, <1>6 DEF Raise

(* One row of the outbox is rewritten.                                      *)
LEMMA RowRewritten ==
    ASSUME GalleryInv, NEW i \in DOMAIN outbox, NEW r \in OutboxRow, outbox' = [outbox EXCEPT ![i] = r],
           r.gallery = outbox[i].gallery, r.operation = outbox[i].operation,
           r.attempts = outbox[i].attempts, r.status # "pending", outbox[i].status # "pending"
    PROVE  Rewritten /\ outbox'[i] = r /\ \A j \in DOMAIN outbox \ {i} : outbox'[j] = outbox[j]
<1>1. outbox \in Seq(OutboxRow)
  BY DEF GalleryInv, OutboxOK
<1>2. outbox' \in Seq(OutboxRow) /\ DOMAIN outbox' = DOMAIN outbox /\ outbox'[i] = r
      /\ \A j \in DOMAIN outbox \ {i} : outbox'[j] = outbox[j]
  BY <1>1
<1>. QED  BY <1>2, Facts DEF Rewritten, OutboxOK, RowOK

(* The loop leaves a row.                                                   *)
LEMMA ProceedFacts ==
    ASSUME GalleryInv, NEW w \in Workers, worker[w].pc \in Busy, Proceed(w), Rewritten
    PROVE  /\ WorkersOK' /\ \A v \in Workers : Holding(v)'
           /\ worker'[w].pc \in {"idle", "row"} /\ \A v \in Workers \ {w} : worker'[v] = worker[v]
           /\ DOMAIN worker'[w].claimed = DOMAIN worker[w].claimed \ {worker[w].row}
<1>. DEFINE S == DOMAIN worker[w].claimed \ {worker[w].row}
            rest == [i \in S |-> worker[w].claimed[i]]
            r == [Idle EXCEPT !.pc = IF DOMAIN rest = {} THEN "idle" ELSE "row", !.claimed = rest]
<1>1. worker' = [worker EXCEPT ![w] = r]
  BY DEF Proceed
<1>2. worker[w].claimed \in Claims /\ Holding(w)
  BY Facts DEF WorkerRec
<1>3. PICK T \in SUBSET Nat : worker[w].claimed \in [T -> Nat]
  BY <1>2 DEF Claims
<1>4. S \subseteq Nat /\ S \subseteq T
  BY <1>3
<1>5. rest \in [S -> Nat] /\ DOMAIN rest = S
  <2>. HIDE DEF S
  <2>. QED  BY <1>3, <1>4
<1>6. rest \in Claims
  <2>. HIDE DEF rest, S
  <2>. QED  BY <1>4, <1>5 DEF Claims
<1>. HIDE DEF rest
<1>7. r \in WorkerRec /\ r.pc = (IF DOMAIN rest = {} THEN "idle" ELSE "row") /\ r.claimed = rest
  BY <1>6, RestTypes DEF WorkerRec, Busy
<1>. HIDE DEF r
<1>8. /\ r.pc \in {"idle", "claim"} => DOMAIN r.claimed = {}
      /\ DOMAIN r.claimed \subseteq DOMAIN outbox /\ r.pc \notin Busy
      /\ \A i \in DOMAIN r.claimed : outbox'[i].status # "pending"
  BY <1>2, <1>5, <1>7 DEF Holding, Busy, Rewritten
<1>9. WorkersOK' /\ (\A v \in Workers : Holding(v)') /\ worker'[w] = r
      /\ \A v \in Workers \ {w} : worker'[v] = worker[v]
  BY <1>1, <1>7, <1>8, WorkerMoves
<1>. QED  BY <1>5, <1>7, <1>9

(* mark_outbox_completed.                                                   *)
LEMMA CompleteKeeps ==
    ASSUME GalleryInv, NEW w \in Workers, Complete(w)
    PROVE  GalleryInv'
<1>1. /\ worker[w].pc = "complete" /\ outbox' = [outbox EXCEPT ![worker[w].row].status = "completed"]
      /\ Proceed(w) /\ UNCHANGED <<database, command, index, faults>>
  BY DEF Complete
<1>2. PICK k \in DOMAIN outbox : k = worker[w].row /\ outbox[k].status # "pending"
  BY <1>1, Facts DEF Holding, Busy
<1>3. PICK r \in OutboxRow : /\ outbox' = [outbox EXCEPT ![k] = r] /\ r.gallery = outbox[k].gallery
                             /\ r.operation = outbox[k].operation /\ r.attempts = outbox[k].attempts
                             /\ r.status = "completed"
  <2>. DEFINE q == [outbox[k] EXCEPT !.status = "completed"]
  <2>1. /\ q \in OutboxRow /\ q.gallery = outbox[k].gallery /\ q.operation = outbox[k].operation
        /\ q.attempts = outbox[k].attempts /\ q.status = "completed"
    BY Facts DEF OutboxRow, Statuses
  <2>2. outbox' = [outbox EXCEPT ![k] = q]
    BY <1>1, <1>2
  <2>. HIDE DEF q
  <2>. QED  BY <2>1, <2>2
<1>4. Rewritten /\ outbox'[k] = r /\ \A j \in DOMAIN outbox \ {k} : outbox'[j] = outbox[j]
  BY <1>2, <1>3, RowRewritten
<1>5. /\ WorkersOK' /\ \A v \in Workers : Holding(v)'
      /\ worker'[w].pc \in {"idle", "row"} /\ \A v \in Workers \ {w} : worker'[v] = worker[v]
      /\ DOMAIN worker'[w].claimed = DOMAIN worker[w].claimed \ {k}
  BY <1>1, <1>2, <1>4, ProceedFacts DEF Busy
<1>6. Completing(k) /\ (\A i : Completing(i)' => Completing(i)) /\ \A i : Failing(i)' \subseteq Failing(i)
  BY <1>1, <1>2, <1>5 DEF Completing, Failing
<1>7. \A v \in Workers : worker'[v].pc = "write" => worker'[v] = worker[v]
  BY <1>5
<1>8. ASSUME NEW j \in DOMAIN outbox PROVE Paid(j)'
  <2>1. Due(j)' => Due(j)
    <3>1. CASE j = k
      BY <1>3, <1>4, <3>1 DEF Due
    <3>2. CASE j # k
      BY <1>4, <1>5, <3>2 DEF Due
    <3>. QED  BY <3>1, <3>2
  <2>2. outbox'[j].attempts = outbox[j].attempts
    BY <1>3, <1>4
  <2>. QED  BY <1>1, <1>6, <2>1, <2>2, PaidStays, FaultFacts
<1>9. \A i \in DOMAIN outbox :
          ~ Completing(i) /\ outbox[i].status # "completed" => outbox'[i].status # "completed"
  BY <1>4, <1>6
<1>10. \A j \in DOMAIN outbox : Paid(j)'
  BY <1>8
<1>. QED  BY <1>1, <1>4, <1>5, <1>6, <1>7, <1>9, <1>10, FaultFacts, QuietKeeps

(* mark_outbox_failed.                                                      *)
LEMMA MarkFailedKeeps ==
    ASSUME GalleryInv, NEW w \in Workers, MarkFailed(w)
    PROVE  GalleryInv'
<1>1. worker[w].pc = "failed" /\ Proceed(w) /\ UNCHANGED <<database, command, index, faults>>
  BY DEF MarkFailed
<1>2. PICK k \in DOMAIN outbox : k = worker[w].row /\ outbox[k].status # "pending"
  BY <1>1, Facts DEF Holding, Busy
<1>3. PICK s \in {"poisoned", "retry"} :
          outbox' = [outbox EXCEPT ![k].status = s, ![k].ripe = @ /\ s = "poisoned"]
  BY <1>2 DEF MarkFailed, FailedStatus
<1>4. PICK r \in OutboxRow : /\ outbox' = [outbox EXCEPT ![k] = r] /\ r.gallery = outbox[k].gallery
                             /\ r.operation = outbox[k].operation /\ r.attempts = outbox[k].attempts
                             /\ r.status = s
  <2>1. PICK b \in BOOLEAN : b = (outbox[k].ripe /\ s = "poisoned")
    OBVIOUS
  <2>. DEFINE q == [outbox[k] EXCEPT !.status = s, !.ripe = b]
  <2>2. /\ q \in OutboxRow /\ q.gallery = outbox[k].gallery /\ q.operation = outbox[k].operation
        /\ q.attempts = outbox[k].attempts /\ q.status = s
    BY Facts DEF OutboxRow, Statuses
  <2>3. outbox' = [outbox EXCEPT ![k] = q]
    BY <1>3, <2>1, Facts DEF OutboxRow
  <2>. HIDE DEF q
  <2>. QED  BY <2>2, <2>3
<1>5. Rewritten /\ outbox'[k] = r /\ \A j \in DOMAIN outbox \ {k} : outbox'[j] = outbox[j]
  BY <1>2, <1>4, RowRewritten
<1>6. /\ WorkersOK' /\ \A v \in Workers : Holding(v)'
      /\ worker'[w].pc \in {"idle", "row"} /\ \A v \in Workers \ {w} : worker'[v] = worker[v]
      /\ DOMAIN worker'[w].claimed = DOMAIN worker[w].claimed \ {k}
  BY <1>1, <1>2, <1>5, ProceedFacts DEF Busy
<1>7. (\A i : Completing(i)' => Completing(i)) /\ \A i : Failing(i)' = Failing(i) \ {w}
  <2>1. \A i : Completing(i)' => Completing(i)
    BY <1>6 DEF Completing
  <2>2. \A i : Failing(i)' = Failing(i) \ {w}
    BY <1>6 DEF Failing
  <2>. QED  BY <2>1, <2>2
<1>8. \A v \in Workers : worker'[v].pc = "write" => worker'[v] = worker[v]
  BY <1>6
<1>9. ASSUME NEW j \in DOMAIN outbox PROVE Paid(j)'
  <2>1. outbox'[j].attempts = outbox[j].attempts
    BY <1>4, <1>5
  <2>2. CASE j # k
    <3>1. Due(j)' => Due(j)
      BY <1>5, <1>6, <2>2 DEF Due
    <3>2. Failing(j)' \subseteq Failing(j)
      BY <1>7
    <3>. QED  BY <1>1, <2>1, <3>1, <3>2, PaidStays, FaultFacts
  <2>3. CASE j = k
    <3>1. PICK E : E = Failing(j) /\ IsFiniteSet(E) /\ Cardinality(E) \in Nat
      BY PaidFacts
    <3>2. w \in E
      BY <1>1, <1>2, <2>3, <3>1 DEF Failing
    <3>3. Cardinality(E \ {w}) = Cardinality(E) - 1
      BY <3>1, <3>2, FS_RemoveElement
    <3>4. Cardinality(Failing(j)') = Cardinality(E) - 1
      BY <1>7, <3>1, <3>3
    <3>5. faults' = faults
      BY <1>1
    <3>6. outbox[j].attempts + Cardinality(E) <= faults + 1 /\ outbox[j].attempts \in Nat /\ faults \in Nat
      BY <3>1, PaidFacts
    <3>. QED  BY <2>1, <3>1, <3>4, <3>5, <3>6 DEF Paid
  <2>. QED  BY <2>2, <2>3
<1>10. \A i \in DOMAIN outbox : outbox[i].status # "completed" => outbox'[i].status # "completed"
  BY <1>4, <1>5
<1>11. \A j \in DOMAIN outbox : Paid(j)'
  BY <1>9
<1>. QED  BY <1>1, <1>5, <1>6, <1>7, <1>8, <1>10, <1>11, FaultFacts, QuietKeeps

(* A worker dies and drops the rows it holds.                               *)
LEMMA CrashKeeps ==
    ASSUME GalleryInv, NEW w \in Workers, Crash(w)
    PROVE  GalleryInv'
<1>1. Fault /\ worker' = [worker EXCEPT ![w] = Idle] /\ UNCHANGED <<database, outbox, command, index>>
  BY DEF Crash
<1>2. Rewritten
  BY <1>1, SameOutbox
<1>3. PICK r \in WorkerRec : r = Idle /\ DOMAIN r.claimed = {} /\ r.pc = "idle"
  BY RestTypes
<1>4. WorkersOK' /\ (\A v \in Workers : Holding(v)') /\ worker'[w] = r
      /\ \A v \in Workers \ {w} : worker'[v] = worker[v]
  BY <1>1, <1>2, <1>3, WorkerMoves DEF Busy
<1>5. /\ \A i : Completing(i)' => Completing(i)
      /\ \A i : Failing(i)' \subseteq Failing(i)
      /\ \A v \in Workers : worker'[v].pc = "write" => worker'[v] = worker[v]
  BY <1>3, <1>4 DEF Completing, Failing
<1>6. \A j \in DOMAIN outbox : Paid(j)'
  BY <1>1, <1>5, PaidStays, FaultFacts
<1>. QED  BY <1>1, <1>2, <1>4, <1>5, <1>6, FaultFacts, QuietKeeps

-----------------------------------------------------------------------------
(* bootstrap and reconcile                                                  *)

(* The conclusion of a step of an operator.                                 *)
LEMMA OperatorStep ==
    ASSUME GalleryInv, UNCHANGED <<database, outbox, worker>>, faults' \in Nat, faults <= faults',
           IndexOK', CommandsOK', Indexed', \A w \in Workers : Honest(w)',
           \A o \in Operators : Located(o)' /\ PageHonest(o)' /\ Achieved(o)'
    PROVE  GalleryInv'
<1>1. WorkersOK' /\ OutboxOK' /\ \A w \in Workers : Holding(w)'
  BY Facts DEF GalleryInv, WorkersOK, OutboxOK, Holding
<1>2. \A i : Failing(i)' = Failing(i) /\ (Due(i)' <=> Due(i))
  BY DEF Failing, Due
<1>3. \A i \in DOMAIN outbox' : Paid(i)'
  BY <1>2, PaidStays
<1>. QED  BY <1>1, <1>3, DatabaseStays, RewriteStays, SameOutbox DEF GalleryInv

(* Nothing that is owed is settled by an operator.                          *)
LEMMA OperatorOwes ==
    ASSUME UNCHANGED <<outbox, worker>>
    PROVE  \A g, k : OwedBut(g, k)' <=> OwedBut(g, k)
<1>1. \A i : Completing(i)' <=> Completing(i)
  BY DEF Completing
<1>. QED  BY <1>1 DEF OwedBut

(* A command moves on and writes no point.                                  *)
LEMMA CommandMoves ==
    ASSUME GalleryInv, NEW o \in Operators, NEW c \in CommandRec, command' = [command EXCEPT ![o] = c],
           UNCHANGED <<database, outbox, worker, point, doubtful>>,
           faults' \in Nat, faults <= faults', overtaken' \in [Processes -> SUBSET Galleries],
           \A q \in Processes \ {o} : overtaken'[q] = overtaken[q],
           \A g \in DOMAIN c.page : c.page[g] = Source(g),
           \A g \in c.absent : Source(g) = NoPoint \/ (g \in command[o].absent /\ overtaken'[o] = overtaken[o]),
           Located(o)', Achieved(o)'
    PROVE  GalleryInv'
<1>1. command \in [Operators -> CommandRec]
  BY DEF GalleryInv, CommandsOK
<1>2. CommandsOK' /\ command'[o] = c /\ \A q \in Operators \ {o} : command'[q] = command[q]
  BY <1>1 DEF CommandsOK
<1>3. \A g : Source(g)' = Source(g)
  BY DatabaseStays
<1>4. ASSUME NEW q \in Operators PROVE Located(q)' /\ Achieved(q)'
  <2>1. CASE q = o
    BY <2>1
  <2>2. CASE q # o
    BY <1>2, <1>3, <2>2, Facts DEF Located, Achieved
  <2>. QED  BY <2>1, <2>2
<1>5. \A g, k : OwedBut(g, k)' <=> OwedBut(g, k)
  BY OperatorOwes
<1>6. \A w \in Workers : overtaken'[w] = overtaken[w]
  BY GallerySyncAssumptions DEF Processes
<1>7. \A q \in Operators \ {o} : overtaken'[q] = overtaken[q]
  BY DEF Processes
<1>8. IndexOK'
  BY DEF GalleryInv, IndexOK
<1>9. \A q \in Operators :
          /\ \A g \in DOMAIN command'[q].page :
                \/ /\ g \in DOMAIN command[q].page /\ command'[q].page[g] = command[q].page[g]
                   /\ overtaken[q] \subseteq overtaken'[q]
                \/ command'[q].page[g] = Source(g)'
          /\ \A g \in command'[q].absent :
                \/ g \in command[q].absent /\ overtaken[q] \subseteq overtaken'[q]
                \/ Source(g)' = NoPoint
  <2>1. SUFFICES ASSUME NEW q \in Operators
        PROVE /\ \A g \in DOMAIN command'[q].page :
                    \/ /\ g \in DOMAIN command[q].page /\ command'[q].page[g] = command[q].page[g]
                       /\ overtaken[q] \subseteq overtaken'[q]
                    \/ command'[q].page[g] = Source(g)'
              /\ \A g \in command'[q].absent :
                    \/ g \in command[q].absent /\ overtaken[q] \subseteq overtaken'[q]
                    \/ Source(g)' = NoPoint
    OBVIOUS
  <2>2. CASE q = o
    BY <1>2, <1>3, <2>2
  <2>3. CASE q # o
    BY <1>2, <1>7, <2>3
  <2>. QED  BY <2>2, <2>3
<1>10. Indexed' /\ (\A w \in Workers : Honest(w)') /\ \A q \in Operators : PageHonest(q)'
  BY <1>3, <1>5, <1>6, <1>9, ReadHonest
<1>. QED  BY <1>2, <1>4, <1>8, <1>10, OperatorStep

(* A command begins.                                                        *)
LEMMA RunKeeps ==
    ASSUME GalleryInv, NEW o \in Operators, Run(o)
    PROVE  GalleryInv'
<1>1. /\ overtaken' = [overtaken EXCEPT ![o] = {}]
      /\ UNCHANGED <<database, outbox, worker, point, doubtful, faults>>
  BY DEF Run
<1>2. PICK mode \in {"bootstrap", "reconcile"} :
          command' = [command EXCEPT ![o] =
              [Resting(command[o].runs + 1) EXCEPT !.pc = "scan", !.mode = mode, !.undisturbed = TRUE]]
  BY DEF Run
<1>3. PICK n \in Nat : n = command[o].runs + 1
  BY Facts DEF CommandRec
<1>. DEFINE c == [Resting(n) EXCEPT !.pc = "scan", !.mode = mode, !.undisturbed = TRUE]
<1>4. /\ c \in CommandRec /\ c.pc = "scan" /\ DOMAIN c.page = {} /\ c.absent = {} /\ c.extra = {}
      /\ c.after = 0
  <2>1. PICK r \in CommandRec : /\ r = Resting(n) /\ DOMAIN r.page = {} /\ r.absent = {} /\ r.extra = {}
                                /\ r.after = 0
    BY RestTypes
  <2>2. c = [r EXCEPT !.pc = "scan", !.mode = mode, !.undisturbed = TRUE]
    BY <2>1
  <2>. HIDE DEF c
  <2>. QED  BY <2>1, <2>2 DEF CommandRec
<1>5. command' = [command EXCEPT ![o] = c]
  BY <1>2, <1>3
<1>. HIDE DEF c
<1>6. command'[o] = c
  BY <1>5 DEF GalleryInv, CommandsOK
<1>7. Located(o)' /\ Achieved(o)'
  BY <1>4, <1>6, Constants DEF Located, Achieved
<1>8. overtaken \in [Processes -> SUBSET Galleries]
  BY DEF GalleryInv, IndexOK
<1>9. overtaken' \in [Processes -> SUBSET Galleries] /\ \A q \in Processes \ {o} : overtaken'[q] = overtaken[q]
  BY <1>1, <1>8
<1>. QED  BY <1>1, <1>4, <1>5, <1>7, <1>9, FaultFacts, CommandMoves

(* A command is given up.                                                   *)
LEMMA AbandonKeeps ==
    ASSUME GalleryInv, NEW o \in Operators, Abandon(o)
    PROVE  GalleryInv'
<1>1. Fault /\ UNCHANGED <<database, outbox, worker, point, doubtful, overtaken>>
      /\ command' = [command EXCEPT ![o] = Resting(command[o].runs)]
  BY DEF Abandon, index
<1>2. PICK n \in Nat : n = command[o].runs
  BY Facts DEF CommandRec
<1>3. PICK c \in CommandRec : /\ c = Resting(n) /\ c.pc = "idle" /\ DOMAIN c.page = {} /\ c.absent = {}
                              /\ c.extra = {} /\ c.undisturbed = FALSE
  BY RestTypes
<1>4. command' = [command EXCEPT ![o] = c] /\ command'[o] = c
  BY <1>1, <1>2, <1>3 DEF GalleryInv, CommandsOK
<1>5. Located(o)' /\ Achieved(o)'
  BY <1>3, <1>4 DEF Located, Achieved
<1>6. overtaken' \in [Processes -> SUBSET Galleries] /\ \A q \in Processes \ {o} : overtaken'[q] = overtaken[q]
  BY <1>1 DEF GalleryInv, IndexOK
<1>. QED  BY <1>1, <1>3, <1>4, <1>5, <1>6, FaultFacts, CommandMoves

(* The points that PostgreSQL does not have are looked up.                  *)
LEMMA ScrollKeeps ==
    ASSUME GalleryInv, NEW o \in Operators, Scroll(o)
    PROVE  GalleryInv'
<1>1. /\ command[o].pc = "scroll" /\ UNCHANGED <<database, outbox, worker, point, doubtful, overtaken, faults>>
      /\ command' = [command EXCEPT ![o].pc = IF Extra(o) = {} THEN "idle" ELSE "delete",
                                    ![o].extra = Extra(o), ![o].absent = Extra(o)]
  BY DEF Scroll, index
<1>2. command[o] \in CommandRec /\ Located(o) /\ Achieved(o)
  BY Facts
<1>3. PICK X : X = Extra(o)
  OBVIOUS
<1>4. X \subseteq command[o].absent /\ X \subseteq Galleries
      /\ \A g \in command[o].absent \ X : point[g] = NoPoint
  BY <1>2, <1>3 DEF Extra, CommandRec
<1>. DEFINE c == [command[o] EXCEPT !.pc = IF X = {} THEN "idle" ELSE "delete", !.extra = X, !.absent = X]
<1>5. /\ c \in CommandRec /\ c.pc = (IF X = {} THEN "idle" ELSE "delete") /\ c.extra = X /\ c.absent = X
      /\ c.page = command[o].page /\ c.mode = command[o].mode /\ c.undisturbed = command[o].undisturbed
  BY <1>2, <1>4 DEF CommandRec
<1>6. command' = [command EXCEPT ![o] = c]
  BY <1>1, <1>3 DEF GalleryInv, CommandsOK
<1>. HIDE DEF c
<1>7. command'[o] = c
  BY <1>6 DEF GalleryInv, CommandsOK
<1>8. DOMAIN c.page = {}
  BY <1>1, <1>2, <1>5 DEF Located
<1>9. c.mode = "reconcile"
  BY <1>1, <1>2, <1>5 DEF Located
<1>10. Located(o)'
  BY <1>5, <1>7, <1>8, <1>9 DEF Located
<1>11. \A g : Source(g)' = Source(g)
  BY <1>1, DatabaseStays
<1>12. Achieved(o)'
  <2>1. ASSUME c.undisturbed, NEW g \in Galleries
        PROVE /\ (c.mode = "reconcile" /\ g \notin c.absent) \/ Source(g) # NoPoint => point[g] = Source(g)
              /\ g \in c.absent => Source(g) = NoPoint
    <3>1. /\ g \notin command[o].absent \/ Source(g) # NoPoint => point[g] = Source(g)
          /\ g \in command[o].absent => Source(g) = NoPoint
      BY <1>1, <1>2, <1>5, <1>9, <2>1 DEF Achieved
    <3>. QED  BY <1>4, <1>5, <3>1
  <2>2. c.pc \notin {"scan", "upsert"} /\ UNCHANGED point
    BY <1>1, <1>5
  <2>. QED  BY <1>7, <1>11, <2>1, <2>2 DEF Achieved
<1>13. overtaken' \in [Processes -> SUBSET Galleries] /\ \A q \in Processes : overtaken'[q] = overtaken[q]
  BY <1>1 DEF GalleryInv, IndexOK
<1>14. o \in Processes
  BY DEF Processes
<1>. QED  BY <1>1, <1>4, <1>5, <1>6, <1>8, <1>10, <1>12, <1>13, <1>14, FaultFacts, CommandMoves

(* A set of numbers that is not empty has a least one.                      *)
LEMMA LeastNat ==
    ASSUME NEW S \in SUBSET Nat, S # {}
    PROVE  \E x \in S : \A y \in S : x <= y
<1>1. PICK x \in S : \A y \in S : ~ (<<y, x>> \in OpToRel(<, Nat))
  BY NatLessThanWellFounded, WFMin
<1>2. \A y \in S : ~ (y < x)
  BY <1>1 DEF OpToRel
<1>. QED  BY <1>2

(* The last row of a page.                                                  *)
LEMMA LastOfPage ==
    ASSUME NEW S \in SUBSET Galleries, S # {}
    PROVE  Max(S) \in S /\ \A y \in S : y <= Max(S)
<1>. DEFINE T == {N - x : x \in S}
<1>0. N \in Nat /\ (\A x \in S : x \in Nat /\ x <= N) /\ \A x \in S : N - x \in Nat
  <2>1. N \in Nat /\ \A x \in S : x \in Nat /\ x <= N
    BY Constants
  <2>. QED  BY <2>1
<1>1. T \in SUBSET Nat /\ T # {}
  BY <1>0
<1>2. PICK m \in T : \A y \in T : m <= y
  <2>. HIDE DEF T
  <2>. QED  BY <1>1, LeastNat
<1>3. PICK x \in S : m = N - x
  OBVIOUS
<1>4. \A y \in S : x >= y
  <2>1. SUFFICES ASSUME NEW y \in S PROVE x >= y
    OBVIOUS
  <2>2. N - y \in T
    OBVIOUS
  <2>3. N - x <= N - y
    BY <1>2, <1>3, <2>2
  <2>. QED  BY <1>0, <2>3
<1>5. Max(S) \in S /\ \A y \in S : Max(S) >= y
  BY <1>4 DEF Max
<1>. QED  BY <1>0, <1>5

(* ORDER BY id LIMIT n: a beginning of the rows, empty only without rows.   *)
LEMMA OldestFacts ==
    ASSUME NEW S \in SUBSET Galleries, NEW n \in Nat \ {0}
    PROVE  /\ Oldest(S, n) \subseteq S /\ (S # {} => Oldest(S, n) # {})
           /\ \A h \in Oldest(S, n) : \A g \in S : g < h => g \in Oldest(S, n)
<1>1. IsFiniteSet(S) /\ S \subseteq Nat /\ \A j \in S : j \in Nat
  BY Constants, FS_Subset
<1>2. Oldest(S, n) \subseteq S
  BY DEF Oldest
<1>3. ASSUME S # {} PROVE Oldest(S, n) # {}
  <2>1. PICK x \in S : \A y \in S : x <= y
    BY <1>1, <1>3, LeastNat
  <2>2. {j \in S : j < x} = {}
    <3>1. \A j \in S : j \in Nat /\ x \in Nat /\ ~ (j < x)
      BY <1>1, <2>1
    <3>. QED  BY <3>1
  <2>3. Cardinality({j \in S : j < x}) = 0
    BY <2>2, FS_EmptySet
  <2>4. Cardinality({j \in S : j < x}) < n
    BY <2>3
  <2>. QED  BY <2>4 DEF Oldest
<1>4. ASSUME NEW h \in Oldest(S, n), NEW g \in S, g < h PROVE g \in Oldest(S, n)
  <2>1. h \in S /\ Cardinality({j \in S : j < h}) < n
    BY DEF Oldest
  <2>2. PICK A : A = {j \in S : j < g}
    OBVIOUS
  <2>3. PICK B : B = {j \in S : j < h}
    OBVIOUS
  <2>4. A \subseteq B /\ B \subseteq S
    <3>1. \A j \in S : j < g => j < h
      <4>1. SUFFICES ASSUME NEW j \in S, j < g PROVE j < h
        OBVIOUS
      <4>2. j \in Nat /\ g \in Nat /\ h \in Nat
        BY <1>1, <2>1
      <4>. QED  BY <1>4, <4>1, <4>2
    <3>. QED  BY <2>2, <2>3, <3>1
  <2>5. IsFiniteSet(B)
    BY <1>1, <2>4, FS_Subset
  <2>6. IsFiniteSet(A) /\ Cardinality(A) <= Cardinality(B)
    BY <2>4, <2>5, FS_Subset
  <2>7. Cardinality(A) \in Nat /\ Cardinality(B) \in Nat
    BY <2>5, <2>6, FS_CardinalityType
  <2>8. Cardinality(A) < n
    BY <2>1, <2>3, <2>6, <2>7
  <2>. QED  BY <2>2, <2>8 DEF Oldest
<1>. QED  BY <1>2, <1>3, <1>4

(* The next page: the active rows of a range of ids, all of them when there *)
(* is no page any more, and the ids of the range that are not active.       *)
LEMMA PageFacts ==
    ASSUME GalleryInv, NEW after \in 0..N
    PROVE  \E page \in SUBSET Galleries : \E upto \in 0..N :
              /\ page = Page(after) /\ upto = IF page = {} THEN N ELSE Max(page)
              /\ after <= upto
              /\ \A g \in page : after < g /\ g <= upto /\ Source(g) # NoPoint
              /\ \A g \in Galleries : after < g /\ g <= upto => (g \in page <=> Source(g) # NoPoint)
              /\ \A g : g \in ((after + 1)..upto) \ page <=>
                            g \in Galleries /\ after < g /\ g <= upto /\ Source(g) = NoPoint
<1>1. PICK S : S = {g \in Galleries : g > after /\ Source(g) # NoPoint}
  OBVIOUS
<1>2. S \subseteq Galleries
  BY <1>1
<1>3. PICK page : page = Page(after)
  OBVIOUS
<1>4. page = Oldest(S, BatchSize)
  BY <1>1, <1>3 DEF Page
<1>5. /\ page \subseteq S /\ (S # {} => page # {})
      /\ \A h \in page : \A g \in S : g < h => g \in page
  BY <1>2, <1>4, OldestFacts, Constants
<1>6. N \in Nat /\ \A g : g \in Galleries <=> g \in Nat /\ 1 <= g /\ g <= N
  BY Constants DEF Galleries
<1>7. CASE page = {}
  <2>1. S = {}
    BY <1>5, <1>7
  <2>2. \A g \in Galleries : after < g /\ g <= N => Source(g) = NoPoint
    BY <1>1, <1>6, <2>1
  <2>3. \A g : g \in ((after + 1)..N) \ page <=> g \in Galleries /\ after < g /\ g <= N /\ Source(g) = NoPoint
    BY <1>6, <1>7, <2>2
  <2>4. N \in 0..N /\ page \in SUBSET Galleries /\ after <= N
    BY <1>6, <1>7
  <2>. QED  BY <1>3, <1>7, <2>2, <2>3, <2>4
<1>8. CASE page # {}
  <2>1. page \in SUBSET Galleries
    BY <1>2, <1>5
  <2>2. PICK u : u = Max(page)
    OBVIOUS
  <2>3. u \in page /\ \A y \in page : y <= u
    BY <1>8, <2>1, <2>2, LastOfPage
  <2>4. u \in S /\ u \in 0..N /\ after < u /\ after <= u
    BY <1>1, <1>5, <1>6, <2>3
  <2>5. \A g \in page : after < g /\ g <= u /\ Source(g) # NoPoint
    BY <1>1, <1>5, <1>6, <2>3
  <2>6. \A g \in Galleries : after < g /\ g <= u => (g \in page <=> Source(g) # NoPoint)
    <3>1. SUFFICES ASSUME NEW g \in Galleries, after < g, g <= u, Source(g) # NoPoint PROVE g \in page
      BY <2>5
    <3>2. g \in S
      BY <1>1, <1>6, <3>1
    <3>3. g = u \/ g < u
      BY <1>6, <2>4, <3>1
    <3>. QED  BY <1>5, <2>3, <3>2, <3>3
  <2>7. \A g : g \in ((after + 1)..u) \ page <=> g \in Galleries /\ after < g /\ g <= u /\ Source(g) = NoPoint
    <3>1. \A g : g \in (after + 1)..u <=> g \in Galleries /\ after < g /\ g <= u
      BY <1>6, <2>4
    <3>. QED  BY <2>6, <3>1
  <2>. QED  BY <1>3, <1>8, <2>1, <2>2, <2>4, <2>5, <2>6, <2>7
<1>. QED  BY <1>7, <1>8

(* A page is read.                                                          *)
LEMMA ScanKeeps ==
    ASSUME GalleryInv, NEW o \in Operators, Scan(o)
    PROVE  GalleryInv'
<1>1. command[o].pc = "scan" /\ UNCHANGED <<database, outbox, worker, point, doubtful, overtaken, faults>>
  BY DEF Scan, index
<1>2. command[o] \in CommandRec /\ Located(o) /\ Achieved(o)
  BY Facts
<1>3. PICK after \in 0..N : after = command[o].after
  BY <1>2 DEF CommandRec
<1>4. PICK page \in SUBSET Galleries, upto \in 0..N :
          /\ page = Page(after) /\ upto = IF page = {} THEN N ELSE Max(page)
          /\ after <= upto
          /\ \A g \in page : after < g /\ g <= upto /\ Source(g) # NoPoint
          /\ \A g \in Galleries : after < g /\ g <= upto => (g \in page <=> Source(g) # NoPoint)
          /\ \A g : g \in ((after + 1)..upto) \ page <=>
                        g \in Galleries /\ after < g /\ g <= upto /\ Source(g) = NoPoint
  BY PageFacts
<1>5. PICK gone : gone = ((after + 1)..upto) \ page
  OBVIOUS
<1>6. PICK rows : rows = [g \in page |-> Source(g)]
  OBVIOUS
<1>7. PICK absent : absent = IF command[o].mode = "reconcile" THEN command[o].absent \cup gone ELSE {}
  OBVIOUS
<1>8. rows \in Pages /\ DOMAIN rows = page /\ \A g \in page : rows[g] = Source(g)
  <2>1. \A g \in page : Source(g) \in Versions
    BY SourceFacts
  <2>2. rows \in [page -> Versions] /\ DOMAIN rows = page /\ \A g \in page : rows[g] = Source(g)
    BY <1>6, <2>1
  <2>. QED  BY <2>2 DEF Pages
<1>9. absent \subseteq Galleries
  <2>1. command[o].absent \subseteq Galleries /\ gone \subseteq Galleries
    BY <1>2, <1>4, <1>5 DEF CommandRec
  <2>. QED  BY <1>7, <2>1
<1>. DEFINE l == IF page # {} THEN "upsert" ELSE IF command[o].mode = "reconcile" THEN "scroll" ELSE "idle"
            c == [command[o] EXCEPT !.pc = l, !.page = rows, !.absent = absent, !.after = upto]
<1>10. /\ c \in CommandRec /\ c.pc = l /\ c.page = rows /\ c.absent = absent /\ c.after = upto
       /\ c.extra = command[o].extra /\ c.mode = command[o].mode /\ c.undisturbed = command[o].undisturbed
  BY <1>2, <1>8, <1>9 DEF CommandRec
<1>11. command' = [command EXCEPT ![o] = c]
  <2>1. command \in [Operators -> CommandRec]
    BY DEF GalleryInv, CommandsOK
  <2>2. command' = [command EXCEPT ![o].pc = l, ![o].page = rows, ![o].absent = absent, ![o].after = upto]
    BY <1>3, <1>4, <1>5, <1>6, <1>7 DEF Scan
  <2>. QED  BY <2>1, <2>2
<1>. HIDE DEF c
<1>12. command'[o] = c
  BY <1>11 DEF GalleryInv, CommandsOK
<1>13. /\ DOMAIN command[o].page = {} /\ command[o].extra = {}
       /\ \A g \in command[o].absent : g <= after
  BY <1>1, <1>2, <1>3 DEF Located
<1>14. \A g \in Galleries : g \in Nat
  BY Constants
<1>15. /\ absent \cap page = {} /\ \A g \in absent \cup page : g <= upto
  <2>1. \A g \in command[o].absent : g \in Nat /\ g <= after
    BY <1>2, <1>13, <1>14 DEF CommandRec
  <2>2. \A g \in page : g \in Nat /\ after < g /\ g <= upto
    BY <1>4, <1>14
  <2>3. \A g \in gone : g \notin page /\ g <= upto
    BY <1>4, <1>5
  <2>4. \A g \in command[o].absent : g \notin page /\ g <= upto
    BY <1>4, <2>1, <2>2
  <2>. QED  BY <1>7, <2>2, <2>3, <2>4
<1>16. Located(o)'
  <2>1. c.pc = "scroll" => upto = N /\ c.mode = "reconcile"
    BY <1>4, <1>10
  <2>2. c.pc = "idle" => absent = {}
    BY <1>7, <1>10
  <2>3. c.pc # "delete" /\ (c.pc # "upsert" => page = {})
    BY <1>10
  <2>. QED  BY <1>8, <1>10, <1>12, <1>13, <1>15, <2>1, <2>2, <2>3 DEF Located
<1>17. \A g : Source(g)' = Source(g)
  BY <1>1, DatabaseStays
<1>18. Achieved(o)'
  <2>1. ASSUME c.undisturbed, NEW g \in Galleries
        PROVE  /\ g <= upto /\ g \notin page /\ Source(g) # NoPoint => point[g] = Source(g)
               /\ g <= upto /\ c.mode = "reconcile" /\ Source(g) = NoPoint => g \in absent
               /\ g \in absent => Source(g) = NoPoint
    <3>1. /\ g <= after /\ Source(g) # NoPoint => point[g] = Source(g)
          /\ g <= after /\ c.mode = "reconcile" /\ Source(g) = NoPoint => g \in command[o].absent
          /\ g \in command[o].absent => Source(g) = NoPoint
      BY <1>1, <1>2, <1>3, <1>10, <1>13, <2>1 DEF Achieved
    <3>2. g <= after \/ after < g
      BY <1>14
    <3>3. g \in gone <=> after < g /\ g <= upto /\ Source(g) = NoPoint
      BY <1>4, <1>5
    <3>4. g <= upto /\ g \notin page /\ Source(g) # NoPoint => point[g] = Source(g)
      BY <1>4, <3>1, <3>2
    <3>5. g <= upto /\ c.mode = "reconcile" /\ Source(g) = NoPoint => g \in absent
      BY <1>7, <1>10, <3>1, <3>2, <3>3
    <3>. QED  BY <1>7, <3>1, <3>3, <3>4, <3>5
  <2>2. CASE page # {}
    <3>1. c.pc = "upsert"
      BY <1>10, <2>2
    <3>. QED  BY <1>1, <1>8, <1>10, <1>12, <1>17, <2>1, <3>1 DEF Achieved
  <2>3. CASE page = {}
    <3>1. c.pc \in {"scroll", "idle"} /\ \A g \in Galleries : g <= upto
      BY <1>4, <1>10, <2>3, Constants
    <3>2. ASSUME c.undisturbed, NEW g \in Galleries
          PROVE  /\ (c.mode = "reconcile" /\ g \notin absent) \/ Source(g) # NoPoint => point[g] = Source(g)
                 /\ g \in absent => Source(g) = NoPoint
      BY <2>1, <2>3, <3>1, <3>2
    <3>. QED  BY <1>1, <1>10, <1>12, <1>17, <3>1, <3>2 DEF Achieved
  <2>. QED  BY <2>2, <2>3
<1>19. \A g \in absent : Source(g) = NoPoint \/ g \in command[o].absent
  BY <1>4, <1>5, <1>7
<1>20. overtaken' \in [Processes -> SUBSET Galleries] /\ \A q \in Processes : overtaken'[q] = overtaken[q]
  BY <1>1 DEF GalleryInv, IndexOK
<1>21. o \in Processes
  BY DEF Processes
<1>. QED  BY <1>1, <1>8, <1>10, <1>11, <1>16, <1>18, <1>19, <1>20, <1>21, FaultFacts, CommandMoves

(* A command writes points.  The others are disturbed.                      *)
LEMMA CommandWrites ==
    ASSUME GalleryInv, NEW o \in Operators, NEW c \in CommandRec,
           command' = [q \in Operators |-> IF q = o THEN c ELSE [command[q] EXCEPT !.undisturbed = FALSE]],
           UNCHANGED <<database, outbox, worker, faults>>,
           NEW G \in SUBSET Galleries, NEW new, WritePoints(o, G, new), \A g \in G : new[g] \in Versions,
           \A g \in G : new[g] = Source(g) \/ g \in overtaken[o] \/ Owed(g),
           DOMAIN c.page = {}, c.absent \subseteq command[o].absent \ G,
           Located(o)', Achieved(o)'
    PROVE  GalleryInv'
<1>1. o \in Processes /\ o \notin Workers
  BY GallerySyncAssumptions DEF Processes
<1>2. IndexOK'
  BY <1>1, WriteTypes
<1>3. ASSUME NEW q \in Operators, q # o
      PROVE  /\ command'[q] \in CommandRec /\ command'[q].pc = command[q].pc
             /\ command'[q].mode = command[q].mode /\ command'[q].after = command[q].after
             /\ command'[q].page = command[q].page /\ command'[q].absent = command[q].absent
             /\ command'[q].extra = command[q].extra /\ command'[q].undisturbed = FALSE
  <2>1. command'[q] = [command[q] EXCEPT !.undisturbed = FALSE] /\ command[q] \in CommandRec
    BY <1>3, Facts
  <2>. QED  BY <2>1 DEF CommandRec
<1>4. command'[o] = c
  OBVIOUS
<1>5. CommandsOK'
  <2>1. \A q \in Operators : command'[q] \in CommandRec
    BY <1>3, <1>4
  <2>2. command' \in [Operators -> CommandRec]
    BY <2>1
  <2>. QED  BY <2>2 DEF CommandsOK
<1>6. ASSUME NEW q \in Operators PROVE Located(q)' /\ Achieved(q)'
  <2>1. CASE q = o
    BY <2>1
  <2>2. CASE q # o
    <3>1. Located(q)
      BY Facts
    <3>. QED  BY <1>3, <2>2, <3>1 DEF Located, Achieved
  <2>. QED  BY <2>1, <2>2
<1>7. \A g, k : OwedBut(g, k)' <=> OwedBut(g, k)
  BY OperatorOwes
<1>8. \A g \in G : new[g] = Source(g) \/ g \in overtaken[o] \/ Owed(g)'
  BY <1>7 DEF Owed
<1>9. \A v \in Workers : worker'[v].pc = "write" => v # o /\ worker'[v] = worker[v]
  BY <1>1
<1>10. \A q \in Operators :
           IF q = o THEN DOMAIN command'[q].page = {} /\ command'[q].absent \subseteq command[q].absent \ G
           ELSE command'[q].page = command[q].page /\ command'[q].absent = command[q].absent
  BY <1>3, <1>4
<1>11. \A g \in Galleries \ G : \A k \in DOMAIN outbox \cup {0} : OwedBut(g, k) => OwedBut(g, k)'
  BY <1>7
<1>12. Indexed' /\ (\A w \in Workers : Honest(w)') /\ \A q \in Operators : PageHonest(q)'
  BY <1>1, <1>8, <1>9, <1>10, <1>11, WriteHonest
<1>. QED  BY <1>2, <1>5, <1>6, <1>12, FaultFacts, OperatorStep

(* A page is written.                                                       *)
LEMMA UpsertKeeps ==
    ASSUME GalleryInv, NEW o \in Operators, Upsert(o)
    PROVE  GalleryInv'
<1>1. /\ command[o].pc = "upsert" /\ UNCHANGED <<database, outbox, worker, faults>>
      /\ WritePoints(o, DOMAIN command[o].page, command[o].page)
      /\ command' = [q \in Operators |->
             IF q = o THEN [command[o] EXCEPT !.pc = "scan", !.page = <<>>]
             ELSE [command[q] EXCEPT !.undisturbed = FALSE]]
  BY DEF Upsert
<1>2. command[o] \in CommandRec /\ Located(o) /\ PageHonest(o) /\ Achieved(o)
  BY Facts
<1>3. PICK rows : rows = command[o].page
  OBVIOUS
<1>4. PICK G \in SUBSET Galleries : rows \in [G -> Versions]
  BY <1>2, <1>3 DEF CommandRec, Pages
<1>5. DOMAIN rows = G /\ \A g \in G : rows[g] \in Versions
  BY <1>4
<1>6. WritePoints(o, G, rows)
  BY <1>1, <1>3, <1>5
<1>. DEFINE c == [command[o] EXCEPT !.pc = "scan", !.page = <<>>]
<1>7. /\ c \in CommandRec /\ c.pc = "scan" /\ DOMAIN c.page = {} /\ c.absent = command[o].absent
      /\ c.extra = command[o].extra /\ c.mode = command[o].mode /\ c.after = command[o].after
      /\ c.undisturbed = command[o].undisturbed
  BY <1>2, EmptyFunction DEF CommandRec
<1>8. command' = [q \in Operators |-> IF q = o THEN c ELSE [command[q] EXCEPT !.undisturbed = FALSE]]
  BY <1>1
<1>. HIDE DEF c
<1>9. command'[o] = c
  BY <1>8
<1>10. c.absent \subseteq command[o].absent \ G
  BY <1>2, <1>3, <1>5, <1>7 DEF Located
<1>11. Located(o)'
  <2>1. c.extra = {} /\ \A g \in c.absent : g <= c.after
    BY <1>1, <1>2, <1>7 DEF Located
  <2>. QED  BY <1>7, <1>9, <2>1 DEF Located
<1>12. \A g : Source(g)' = Source(g)
  BY <1>1, DatabaseStays
<1>13. \A g \in Galleries : point'[g] = IF g \in G THEN rows[g] ELSE point[g]
  BY <1>6 DEF WritePoints
<1>14. Achieved(o)'
  <2>1. ASSUME c.undisturbed, NEW g \in Galleries
        PROVE  /\ g <= c.after /\ Source(g) # NoPoint => point'[g] = Source(g)
               /\ g <= c.after /\ c.mode = "reconcile" /\ Source(g) = NoPoint => g \in c.absent
               /\ g \in c.absent => Source(g) = NoPoint
    <3>1. /\ g <= c.after /\ g \notin G /\ Source(g) # NoPoint => point[g] = Source(g)
          /\ g <= c.after /\ c.mode = "reconcile" /\ Source(g) = NoPoint => g \in c.absent
          /\ g \in G => rows[g] = Source(g)
          /\ g \in c.absent => Source(g) = NoPoint
      BY <1>1, <1>2, <1>3, <1>5, <1>7, <2>1 DEF Achieved
    <3>. QED  BY <1>13, <3>1
  <2>. QED  BY <1>7, <1>9, <1>12, <2>1 DEF Achieved
<1>15. \A g \in G : rows[g] = Source(g) \/ g \in overtaken[o] \/ Owed(g)
  BY <1>2, <1>3, <1>5 DEF PageHonest
<1>. QED  BY <1>1, <1>5, <1>6, <1>7, <1>8, <1>10, <1>11, <1>14, <1>15, CommandWrites

(* A chunk of points is deleted.                                            *)
LEMMA DeleteKeeps ==
    ASSUME GalleryInv, NEW o \in Operators, Delete(o)
    PROVE  GalleryInv'
<1>1. PICK chunk : chunk = Oldest(command[o].extra, BatchSize)
  OBVIOUS
<1>2. /\ command[o].pc = "delete" /\ UNCHANGED <<database, outbox, worker, faults>>
      /\ WritePoints(o, chunk, [g \in chunk |-> NoPoint])
      /\ command' = [q \in Operators |->
             IF q = o
             THEN [command[o] EXCEPT !.pc = IF command[o].extra = chunk THEN "idle" ELSE "delete",
                                     !.extra = @ \ chunk, !.absent = @ \ chunk]
             ELSE [command[q] EXCEPT !.undisturbed = FALSE]]
  BY <1>1 DEF Delete
<1>3. command[o] \in CommandRec /\ Located(o) /\ PageHonest(o) /\ Achieved(o)
  BY Facts
<1>4. /\ command[o].absent = command[o].extra /\ command[o].extra \subseteq Galleries
      /\ DOMAIN command[o].page = {} /\ command[o].mode = "reconcile"
  BY <1>2, <1>3 DEF Located, CommandRec
<1>5. chunk \subseteq command[o].extra /\ chunk \in SUBSET Galleries
  BY <1>1, <1>4 DEF Oldest
<1>6. PICK new : new = [g \in chunk |-> NoPoint]
  OBVIOUS
<1>7. WritePoints(o, chunk, new) /\ \A g \in chunk : new[g] = NoPoint /\ new[g] \in Versions
  BY <1>2, <1>6, Constants
<1>8. PICK l \in {"idle", "delete"} : l = IF command[o].extra = chunk THEN "idle" ELSE "delete"
  OBVIOUS
<1>. DEFINE c == [command[o] EXCEPT !.pc = l, !.extra = @ \ chunk, !.absent = @ \ chunk]
<1>9. /\ c \in CommandRec /\ c.pc = l /\ c.page = command[o].page /\ c.absent = command[o].absent \ chunk
      /\ c.extra = command[o].extra \ chunk /\ c.mode = command[o].mode
      /\ c.undisturbed = command[o].undisturbed
  BY <1>3 DEF CommandRec
<1>10. command' = [q \in Operators |-> IF q = o THEN c ELSE [command[q] EXCEPT !.undisturbed = FALSE]]
  BY <1>2, <1>8
<1>. HIDE DEF c
<1>11. command'[o] = c
  BY <1>10
<1>12. Located(o)'
  <2>1. c.pc = "idle" => c.extra = {}
    BY <1>8, <1>9
  <2>2. c.absent = c.extra /\ DOMAIN c.page = {} /\ c.mode = "reconcile" /\ c.pc \in {"idle", "delete"}
    BY <1>4, <1>9
  <2>. QED  BY <1>11, <2>1, <2>2 DEF Located
<1>13. \A g : Source(g)' = Source(g)
  BY <1>2, DatabaseStays
<1>14. \A g \in Galleries : point'[g] = IF g \in chunk THEN NoPoint ELSE point[g]
  BY <1>7 DEF WritePoints
<1>15. Achieved(o)'
  <2>1. ASSUME c.undisturbed, NEW g \in Galleries
        PROVE  /\ (c.mode = "reconcile" /\ g \notin c.absent) \/ Source(g) # NoPoint => point'[g] = Source(g)
               /\ g \in c.absent => Source(g) = NoPoint
    <3>1. /\ g \notin command[o].absent \/ Source(g) # NoPoint => point[g] = Source(g)
          /\ g \in command[o].absent => Source(g) = NoPoint
      BY <1>2, <1>3, <1>4, <1>9, <2>1 DEF Achieved
    <3>2. g \in chunk => Source(g) = NoPoint /\ point'[g] = NoPoint
      BY <1>4, <1>5, <1>14, <3>1
    <3>3. g \notin chunk => point'[g] = point[g] /\ (g \in c.absent <=> g \in command[o].absent)
      BY <1>9, <1>14
    <3>. QED  BY <1>9, <3>1, <3>2, <3>3
  <2>2. c.pc \notin {"scan", "upsert"}
    BY <1>9
  <2>. QED  BY <1>11, <1>13, <2>1, <2>2 DEF Achieved
<1>16. \A g \in chunk : new[g] = Source(g) \/ g \in overtaken[o] \/ Owed(g)
  BY <1>3, <1>4, <1>5, <1>7 DEF PageHonest
<1>17. DOMAIN c.page = {} /\ c.absent \subseteq command[o].absent \ chunk
  BY <1>4, <1>9
<1>. QED  BY <1>2, <1>5, <1>7, <1>9, <1>10, <1>12, <1>15, <1>16, <1>17, CommandWrites

-----------------------------------------------------------------------------
(* The invariant                                                            *)

(* The start: the seeded rows are indexed, nothing is enqueued.             *)
LEMMA GalleryInit ==
    ASSUME Init
    PROVE  GalleryInv
<1>1. DatabaseOK
  <2>1. MaxChanges \in Nat /\ 0 \in Versions /\ 1 \in Versions
    BY Constants DEF Versions
  <2>2. Seeded \in Nat /\ \A g \in Galleries : (g <= Seeded) \in BOOLEAN
    BY Constants, GallerySyncAssumptions
  <2>3. gallery \in [Galleries -> [version : Versions, is_active : BOOLEAN]]
    BY <2>1, <2>2 DEF Init
  <2>. QED  BY <2>1, <2>3 DEF Init, DatabaseOK
<1>2. IndexOK
  <2>1. 0 \in Versions /\ 1 \in Versions
    BY Constants DEF Versions
  <2>. QED  BY <2>1 DEF Init, IndexOK, NoPoint
<1>3. OutboxOK /\ DOMAIN outbox = {}
  BY DEF Init, OutboxOK
<1>4. WorkersOK /\ \A w \in Workers : worker[w].pc = "idle" /\ DOMAIN worker[w].claimed = {}
  BY RestTypes DEF Init, WorkersOK
<1>5. \A o \in Operators :
          /\ command[o] \in CommandRec /\ command[o].pc = "idle" /\ DOMAIN command[o].page = {}
          /\ command[o].absent = {} /\ command[o].extra = {} /\ command[o].undisturbed = FALSE
  <2>1. \A o \in Operators : command[o] = Resting(0)
    BY DEF Init
  <2>. QED  BY <2>1, RestTypes
<1>6. CommandsOK
  BY <1>5 DEF Init, CommandsOK
<1>7. Tables
  <2>1. changes = 0 /\ \A p \in Persons : closing[p].seen = {}
    BY DEF Init
  <2>2. ASSUME NEW g \in Galleries
        PROVE  gallery[g].version \in {0, 1} /\ (gallery[g].version = 0 => ~ gallery[g].is_active)
    <3>0. (g <= Seeded) \in BOOLEAN
      BY Constants, GallerySyncAssumptions
    <3>1. PICK b \in BOOLEAN : b = (g <= Seeded)
      BY <3>0
    <3>2. gallery[g] = [version |-> IF b THEN 1 ELSE 0, is_active |-> b]
      BY <3>1 DEF Init
    <3>3. CASE b = TRUE
      BY <3>2, <3>3
    <3>4. CASE b = FALSE
      BY <3>2, <3>4
    <3>. QED  BY <3>3, <3>4
  <2>. QED  BY <2>1, <2>2 DEF Tables
<1>8. Indexed
  <2>1. \A g \in Galleries : Source(g) = point[g]
    BY Constants DEF Init, Source, NoPoint
  <2>. QED  BY <2>1 DEF Indexed
<1>9. \A w \in Workers : Holding(w) /\ Honest(w)
  BY <1>3, <1>4 DEF Holding, Honest, Busy
<1>10. \A o \in Operators : Located(o) /\ PageHonest(o) /\ Achieved(o)
  BY <1>5 DEF Located, PageHonest, Achieved
<1>11. Entries /\ faults \in Nat /\ \A i \in DOMAIN outbox : Paid(i)
  BY <1>3 DEF Init, Entries
<1>. QED  BY <1>1, <1>2, <1>3, <1>4, <1>6, <1>7, <1>8, <1>9, <1>10, <1>11 DEF GalleryInv

(* Every step keeps it.                                                     *)
LEMMA GalleryNext ==
    ASSUME GalleryInv, [Next]_vars
    PROVE  GalleryInv'
<1>1. ASSUME NEW g \in Galleries, Register(g) \/ Promote(g) \/ Remove(g) PROVE GalleryInv'
  BY <1>1, RegisterKeeps, PromoteKeeps, RemoveKeeps
<1>2. ASSUME NEW p \in Persons, RemovePerson(p) \/ RemovePersonCommit(p) PROVE GalleryInv'
  BY <1>2, RemovePersonKeeps, RemovePersonCommitKeeps
<1>3. ASSUME NEW i \in DOMAIN outbox, Elapse(i) PROVE GalleryInv'
  BY <1>3, ElapseKeeps
<1>4. ASSUME NEW w \in Workers, WorkerStep(w) \/ Raise(w) \/ Crash(w) PROVE GalleryInv'
  BY <1>4, ReclaimKeeps, ClaimKeeps, ReadKeeps, WriteKeeps, CompleteKeeps, MarkFailedKeeps, RaiseKeeps,
     CrashKeeps DEF WorkerStep
<1>5. ASSUME NEW o \in Operators, Run(o) \/ CommandStep(o) \/ Abandon(o) PROVE GalleryInv'
  BY <1>5, RunKeeps, ScanKeeps, UpsertKeeps, ScrollKeeps, DeleteKeeps, AbandonKeeps DEF CommandStep
<1>6. CASE UNCHANGED vars
  <2>1. UNCHANGED <<gallery, active, outbox, point, worker, command, overtaken, doubtful, faults, closing, changes>>
    BY <1>6 DEF vars
  <2>2. UNCHANGED database
    BY <2>1 DEF database
  <2>. QED  BY <2>1, <2>2, Untouched, DatabaseStays DEF GalleryInv
<1>. QED  BY <1>1, <1>2, <1>3, <1>4, <1>5, <1>6 DEF Next

(* GalleryInv is an invariant of the specification.                         *)
LEMMA GalleryInvHolds == Spec => []GalleryInv
<1>. QED  BY GalleryInit, GalleryNext, PTL DEF Spec

-----------------------------------------------------------------------------
(* The theorems                                                             *)

(* Every variable holds values of the code's tables and locals; an outbox   *)
(* row is claimed at most once per failed call, crash or early timeout and  *)
(* once more.                                                               *)
THEOREM TypeCorrect == Spec => []TypeOK
<1>1. ASSUME GalleryInv PROVE TypeOK
  <2>1. \A i \in DOMAIN outbox :
            /\ outbox[i].gallery \in Galleries /\ outbox[i].operation \in {"upsert", "delete"}
            /\ outbox[i].status \in {"pending", "processing", "retry", "completed", "poisoned"}
            /\ outbox[i].attempts \in 0..(faults + 1) /\ outbox[i].ripe \in BOOLEAN
            /\ (outbox[i].attempts = 0) = (outbox[i].status = "pending")
    <3>1. SUFFICES ASSUME NEW i \in DOMAIN outbox
          PROVE  /\ outbox[i].gallery \in Galleries /\ outbox[i].operation \in {"upsert", "delete"}
                 /\ outbox[i].status \in {"pending", "processing", "retry", "completed", "poisoned"}
                 /\ outbox[i].attempts \in 0..(faults + 1) /\ outbox[i].ripe \in BOOLEAN
                 /\ (outbox[i].attempts = 0) = (outbox[i].status = "pending")
      OBVIOUS
    <3>2. outbox[i] \in OutboxRow /\ RowOK(outbox[i])
      BY <1>1, Facts
    <3>3. outbox[i].attempts \in 0..(faults + 1)
      <4>1. /\ Cardinality(Failing(i)) \in Nat /\ outbox[i].attempts \in Nat /\ faults \in Nat
            /\ outbox[i].attempts + Cardinality(Failing(i)) + (IF Due(i) THEN 1 ELSE 0) <= faults + 1
        BY <1>1, PaidFacts
      <4>. QED  BY <4>1
    <3>. QED  BY <3>2, <3>3 DEF OutboxRow, Statuses, RowOK
  <2>2. \A w \in Workers :
            /\ worker[w].pc \in {"idle", "claim", "row", "write", "complete", "failed"}
            /\ DOMAIN worker[w].claimed \subseteq DOMAIN outbox
            /\ worker[w].pc \in {"write", "complete", "failed"} => worker[w].row \in DOMAIN worker[w].claimed
            /\ worker[w].version \in Versions
    BY <1>1, Facts DEF WorkerRec, Busy, Holding
  <2>3. \A o \in Operators :
            /\ command[o].pc \in {"idle", "scan", "upsert", "scroll", "delete"}
            /\ command[o].absent \cup command[o].extra \cup DOMAIN command[o].page \subseteq Galleries
    BY <1>1, Facts DEF CommandRec, Pages
  <2>. QED  BY <1>1, <2>1, <2>2, <2>3 DEF GalleryInv, DatabaseOK, IndexOK, TypeOK
<1>. QED  BY <1>1, GalleryInvHolds, PTL

(* drain_outbox: a point whose outbox rows are all completed is that of the *)
(* gallery row as it is now, unless its last write had been overtaken or    *)
(* its row was registered while its person was being removed.               *)
THEOREM CompletedMeansIndexedHolds == Spec => []CompletedMeansIndexed
<1>1. ASSUME GalleryInv PROVE CompletedMeansIndexed
  <2>1. SUFFICES ASSUME NEW g \in Galleries, ~ Unsettled(g), g \notin doubtful PROVE point[g] = Source(g)
    BY DEF CompletedMeansIndexed
  <2>2. \A i \in DOMAIN outbox : outbox[i].status \in Statuses
    BY <1>1, Facts DEF OutboxRow
  <2>3. ~ Owed(g)
    BY <2>1, <2>2 DEF Owed, OwedBut, Unsettled, RowsWith, Statuses
  <2>. QED  BY <1>1, <2>1, <2>3 DEF GalleryInv, Indexed
<1>. QED  BY <1>1, GalleryInvHolds, PTL

(* bootstrap and reconcile: a command that ends without an exception and    *)
(* without a change of the gallery or another writer since it began leaves  *)
(* all of PostgreSQL in the index, and reconcile nothing else.              *)
THEOREM CommandRepairsHolds == Spec => []CommandRepairs
<1>1. ASSUME GalleryInv PROVE CommandRepairs
  <2>1. SUFFICES ASSUME NEW o \in Operators, command[o].pc = "idle", command[o].undisturbed,
                        NEW g \in Galleries, command[o].mode = "reconcile" \/ Source(g) # NoPoint
                 PROVE  point[g] = Source(g)
    BY DEF CommandRepairs
  <2>2. Located(o) /\ Achieved(o)
    BY <1>1, Facts
  <2>3. command[o].absent = {}
    BY <2>1, <2>2 DEF Located
  <2>. QED  BY <2>1, <2>2, <2>3 DEF Achieved
<1>. QED  BY <1>1, GalleryInvHolds, PTL
=============================================================================
