------------------------ MODULE RollingCache_proofs ------------------------
(***************************************************************************)
(* For any number of segments, lanes, journal records and faults: what a   *)
(* lane has pinned stays on disk, what has been announced is lost to no    *)
(* crash, and the journal's cursor leaves no gap in the catalog.           *)
(***************************************************************************)
EXTENDS RollingCache, FiniteSetTheorems, TLAPS

(* A set of natural numbers that is not empty has a minimum.                *)
LEMMA MinNat ==
    ASSUME NEW S \in SUBSET Nat, S # {}
    PROVE  Min(S) \in S /\ \A y \in S : Min(S) <= y
<1>1. \E x \in S : \A y \in S : x <= y
  <2>1. PICK x \in S : \A y \in S : ~ (<<y, x>> \in OpToRel(<, Nat))
    BY NatLessThanWellFounded, WFMin
  <2>2. \A y \in S : ~ (y < x)
    BY <2>1 DEF OpToRel
  <2>. QED  BY <2>2
<1>. QED  BY <1>1 DEF Min

-----------------------------------------------------------------------------
(* The inductive invariant                                                  *)

Catalogs == [init : BOOLEAN, entries : SUBSET Segments, pending : SUBSET Segments,
             inode : 0..(N + 1), offset : 0..MaxJournal]
ReaderType == [pc : Section \cup {"idle", "ask", "read"}, want : SUBSET Segments]
PinType == [segs : SUBSET Segments, live : BOOLEAN]
Runs == [pc : {"idle", "found", "delete"}, victims : SUBSET Segments]
Journals == [inode : Nat, chunks : Seq(Segments \cup {Torn})]

Ended == {"announced", "published", "failed"}
Fenced == {"fenced", "announced", "published"}

(* A file number for each segment that was announced is more than enough.   *)
Numbered ==
    /\ journal \in Journals
    /\ journal.inode <= Cardinality({s \in Segments : stage[s] \in Ended})

(* What the journal names has been announced, perhaps by a sink that died.  *)
Named ==
    \A i \in 1..Len(journal.chunks) :
        journal.chunks[i] # Torn => stage[journal.chunks[i]] \in Ended

(* The rename of a segment that is about to be announced has been synced.   *)
Synced == \A s \in Segments : stage[s] \in Fenced /\ disk[s] # "none" => s \in durable

(* The catalog's gate admits one reader.                                    *)
OneInside ==
    \A q, r \in Readers : reader[q].pc \in Section /\ reader[r].pc \in Section => q = r

(* The mutation lock excludes retention and the readers.                    *)
LockHeld == Locked => \A r \in Readers : reader[r].pc \notin Section

(* What retention is about to delete is whole and, under the lock, in no    *)
(* live marker.                                                             *)
VictimsSafe ==
    /\ \A s \in retention.victims : disk[s] = "whole"
    /\ Locked => \A s \in retention.victims, r \in Readers : ~ (pin[r].live /\ s \in pin[r].segs)

(* Live markers name whole segments.                                        *)
PinsWhole == \A r \in Readers : pin[r].live => \A s \in pin[r].segs : disk[s] = "whole"

(* The cursor is within the file it belongs to; that file is not newer than *)
(* the journal.                                                             *)
Cursor ==
    /\ catalog.inode <= journal.inode
    /\ catalog.inode = journal.inode => catalog.offset <= Len(journal.chunks)
    /\ catalog.inode = 0 => catalog.offset = 0
    /\ journal.inode = 0 => journal.chunks = <<>>

(* A rebuild starts without a catalog.                                      *)
Rebuilding == \A r \in Readers : reader[r].pc \in {"tails", "walk"} => ~ catalog.init

CacheInv ==
    /\ TypeOK /\ Numbered /\ Named /\ Synced
    /\ OneInside /\ LockHeld /\ VictimsSafe /\ PinsWhole
    /\ Cursor /\ Rebuilding /\ NoSilentGap

-----------------------------------------------------------------------------
(* The building blocks of the actions                                       *)

(* A set of numbers up to n that is not empty has a maximum.                *)
LEMMA MaxUpTo ==
    ASSUME NEW n \in Nat, NEW S \in SUBSET (0..n), S # {}
    PROVE  Max(S) \in S /\ \A y \in S : Max(S) >= y
<1>. DEFINE T == {n - x : x \in S}
<1>0. \A x \in S : n - x \in Nat
  OBVIOUS
<1>1. T \in SUBSET Nat /\ T # {}
  BY <1>0
<1>2. PICK m \in T : \A y \in T : m <= y
  <2>. HIDE DEF T
  <2>. QED  BY <1>1, MinNat
<1>3. PICK x \in S : m = n - x
  OBVIOUS
<1>4. \A y \in S : x >= y
  <2>1. SUFFICES ASSUME NEW y \in S PROVE x >= y
    OBVIOUS
  <2>2. n - y \in T
    OBVIOUS
  <2>3. n - x <= n - y
    BY <1>2, <1>3, <2>2
  <2>. QED  BY <2>3
<1>. QED  BY <1>4 DEF Max

(* The segments are numbers, as many as N.                                  *)
LEMMA SegmentFacts ==
    /\ Segments \subseteq Nat \ {Torn} /\ IsFiniteSet(Segments) /\ Cardinality(Segments) = N
<1>1. N \in Int /\ 1 \in Int
  BY CacheAssumption
<1>2. IsFiniteSet(1..N) /\ Cardinality(1..N) = IF 1 > N THEN 0 ELSE N - 1 + 1
  BY <1>1, FS_Interval
<1>. QED  BY <1>2, CacheAssumption DEF Segments, Torn

(* The oldest segment of the cohort at some stage.                          *)
LEMMA Oldest ==
    ASSUME TypeOK, NEW st, InGroup(st) # {}
    PROVE  Min(InGroup(st)) \in Segments /\ stage[Min(InGroup(st))] = st
<1>1. InGroup(st) \in SUBSET Nat
  BY SegmentFacts DEF TypeOK, InGroup
<1>2. Min(InGroup(st)) \in InGroup(st)
  BY <1>1, MinNat
<1>. QED  BY <1>2 DEF InGroup, TypeOK

(* A fault is counted.                                                      *)
LEMMA FaultCounts ==
    ASSUME faults \in 0..MaxFaults, UNCHANGED faults \/ Fault
    PROVE  faults' \in 0..MaxFaults
BY CacheAssumption DEF Fault

(* A chunk goes to the end of the file or to the beginning of the next one. *)
LEMMA AppendedFacts ==
    ASSUME journal \in Journals, Len(journal.chunks) <= MaxJournal,
           journal.inode = 0 => journal.chunks = <<>>,
           NEW x \in Segments \cup {Torn}, journal' = Appended(x)
    PROVE  /\ journal' \in Journals /\ Len(journal'.chunks) <= MaxJournal
           /\ \/ /\ journal.inode # 0 /\ journal'.inode = journal.inode
                 /\ journal'.chunks = Append(journal.chunks, x)
              \/ journal'.inode = journal.inode + 1 /\ journal'.chunks = <<x>>
<1>. DEFINE c == journal.chunks
            k == journal.inode
<1>1. c \in Seq(Segments \cup {Torn}) /\ k \in Nat /\ Len(c) \in Nat
  BY DEF Journals
<1>2. Max({1, k}) = IF k = 0 THEN 1 ELSE k
  <2>1. {1, k} \in SUBSET (0..(k + 1)) /\ {1, k} # {} /\ k + 1 \in Nat
    BY <1>1
  <2>2. Max({1, k}) \in {1, k} /\ \A y \in {1, k} : Max({1, k}) >= y
    BY <2>1, MaxUpTo
  <2>. QED  BY <1>1, <2>2
<1>3. <<x>> \in Seq(Segments \cup {Torn}) /\ Len(<<x>>) = 1 /\ Append(<<>>, x) = <<x>>
  OBVIOUS
<1>4. CASE Len(c) < MaxJournal
  <2>1. journal' = [inode |-> IF k = 0 THEN 1 ELSE k, chunks |-> Append(c, x)]
    BY <1>2, <1>4 DEF Appended
  <2>2. Append(c, x) \in Seq(Segments \cup {Torn}) /\ Len(Append(c, x)) = Len(c) + 1
    BY <1>1
  <2>3. journal' \in Journals /\ Len(journal'.chunks) <= MaxJournal
    BY <1>1, <1>4, <2>1, <2>2, CacheAssumption DEF Journals
  <2>4. CASE k = 0
    <3>1. c = <<>>
      BY <2>4
    <3>2. journal'.chunks = <<x>> /\ journal'.inode = k + 1
      BY <1>3, <2>1, <2>4, <3>1
    <3>. QED  BY <2>3, <3>2
  <2>5. CASE k # 0
    BY <2>1, <2>3, <2>5
  <2>. QED  BY <2>4, <2>5
<1>5. CASE ~ (Len(c) < MaxJournal)
  <2>1. journal' = [inode |-> k + 1, chunks |-> <<x>>]
    BY <1>5 DEF Appended
  <2>2. journal' \in Journals
    BY <1>1, <1>3, <2>1 DEF Journals
  <2>. QED  BY <1>3, <2>1, <2>2, CacheAssumption
<1>. QED  BY <1>4, <1>5

-----------------------------------------------------------------------------
(* The sink                                                                 *)

(* The journal is left alone, or a segment that was fenced is announced in  *)
(* it, perhaps by a torn record.                                            *)
Announces ==
    \/ UNCHANGED journal
    \/ \E s \in Segments : /\ stage[s] = "fenced" /\ stage'[s] = "announced"
                           /\ journal' = Appended(s) \/ journal' = Appended(Torn)

(* What the sink does to the stages and to the disk.                        *)
SinkEffect ==
    /\ stage' \in [Segments -> Stages] /\ group' \subseteq Segments
    /\ disk' \in [Segments -> {"none", "whole", "damaged"}] /\ durable' \subseteq Segments
    /\ \A s \in Segments : disk'[s] = disk[s] \/ (stage[s] = "staged" /\ stage'[s] = "renamed" /\ disk'[s] = "whole")
    /\ durable \subseteq durable'
    /\ \A s \in Segments : stage'[s] \in Fenced => stage[s] \in Fenced \/ (disk'[s] # "none" => s \in durable')
    /\ \A s \in Segments : stage[s] \in Ended => stage'[s] \in Ended
    /\ Announces
    /\ UNCHANGED <<indexVars, retention>>

(* Each step of the sink has that effect.                                   *)
LEMMA SinkSteps ==
    ASSUME TypeOK, Sink \/ SinkCrash
    PROVE  SinkEffect /\ faults' \in 0..MaxFaults
<1>1. /\ stage \in [Segments -> Stages] /\ group \subseteq Segments
      /\ disk \in [Segments -> {"none", "whole", "damaged"}] /\ durable \subseteq Segments
      /\ faults \in 0..MaxFaults
  BY DEF TypeOK
<1>2. UNCHANGED <<indexVars, retention>> /\ (UNCHANGED faults \/ Fault)
  BY DEF Sink, SinkCrash, CloseFragment, TakeGroup, Prepare, Rename, Fence, AppendJournal, Finish
<1>3. faults' \in 0..MaxFaults
  BY <1>1, <1>2, FaultCounts
<1>. USE DEF Stages, Fenced, Ended
<1>4. ASSUME NEW s \in Segments, CloseFragment(s) PROVE SinkEffect
  BY <1>1, <1>2, <1>3, <1>4 DEF CloseFragment, SinkEffect, Announces
<1>5. CASE TakeGroup
  BY <1>1, <1>2, <1>3, <1>5 DEF TakeGroup, SinkEffect, Announces
<1>6. CASE Prepare
  <2>1. PICK s \in Segments : /\ stage[s] = "queued"
                              /\ \/ stage' = [stage EXCEPT ![s] = "staged"]
                                 \/ stage' = [stage EXCEPT ![s] = "failed"]
    BY <1>6, Oldest DEF Prepare
  <2>. QED  BY <1>1, <1>2, <1>3, <1>6, <2>1 DEF Prepare, SinkEffect, Announces
<1>7. CASE Rename
  <2>1. PICK s \in Segments : /\ stage[s] = "staged"
                              /\ \/ /\ stage' = [stage EXCEPT ![s] = "renamed"]
                                    /\ disk' = [disk EXCEPT ![s] = "whole"]
                                 \/ stage' = [stage EXCEPT ![s] = "failed"] /\ UNCHANGED disk
    BY <1>7, Oldest DEF Rename
  <2>. QED  BY <1>1, <1>2, <1>3, <1>7, <2>1 DEF Rename, SinkEffect, Announces
<1>8. CASE Fence
  <2>1. \A s \in InGroup("renamed") : stage[s] = "renamed"
    BY DEF InGroup
  <2>2. Present \subseteq Segments /\ \A s \in Segments : disk[s] # "none" => s \in Present
    BY DEF Present
  <2>. QED  BY <1>1, <1>2, <1>3, <1>8, <2>1, <2>2 DEF Fence, SinkEffect, Announces
<1>9. CASE AppendJournal
  <2>1. PICK s \in Segments : /\ stage[s] = "fenced" /\ stage' = [stage EXCEPT ![s] = "announced"]
                              /\ journal' \in {Appended(s), Appended(Torn), journal}
    BY <1>9, Oldest DEF AppendJournal
  <2>2. Announces
    BY <1>1, <2>1 DEF Announces
  <2>. QED  BY <1>1, <1>2, <1>3, <1>9, <2>1, <2>2 DEF AppendJournal, SinkEffect
<1>10. CASE Finish
  <2>1. \A s \in InGroup("announced") : stage[s] = "announced"
    BY DEF InGroup
  <2>. QED  BY <1>1, <1>2, <1>3, <1>10, <2>1 DEF Finish, SinkEffect, Announces
<1>11. CASE SinkCrash
  BY <1>1, <1>2, <1>3, <1>11 DEF SinkCrash, SinkStopped, SinkEffect, Announces
<1>. QED  BY <1>3, <1>4, <1>5, <1>6, <1>7, <1>8, <1>9, <1>10, <1>11 DEF Sink

(* The number of segments that were announced or failed never shrinks.      *)
LEMMA EndedGrows ==
    ASSUME \A s \in Segments : stage[s] \in Ended => stage'[s] \in Ended
    PROVE  /\ Cardinality({s \in Segments : stage[s] \in Ended}) \in Nat
           /\ Cardinality({s \in Segments : stage[s] \in Ended})'
                 >= Cardinality({s \in Segments : stage[s] \in Ended})
           /\ Cardinality({s \in Segments : stage[s] \in Ended})' <= N
           /\ (\E s \in Segments : stage[s] \notin Ended /\ stage'[s] \in Ended) =>
                 Cardinality({s \in Segments : stage[s] \in Ended})'
                    >= Cardinality({s \in Segments : stage[s] \in Ended}) + 1
<1>. DEFINE A == {s \in Segments : stage[s] \in Ended}
            B == {s \in Segments : stage'[s] \in Ended}
<1>1. A \in SUBSET Segments /\ B \in SUBSET Segments /\ A \in SUBSET B
  OBVIOUS
<1>2. Cardinality({s \in Segments : stage[s] \in Ended})' = Cardinality(B)
  OBVIOUS
<1>3. IsFiniteSet(A) /\ IsFiniteSet(B) /\ Cardinality(B) <= N
  <2>. HIDE DEF A, B
  <2>. QED  BY <1>1, SegmentFacts, FS_Subset
<1>4. Cardinality(A) \in Nat /\ Cardinality(B) \in Nat /\ Cardinality(A) <= Cardinality(B)
  <2>. HIDE DEF A, B
  <2>. QED  BY <1>1, <1>3, FS_Subset, FS_CardinalityType
<1>5. ASSUME NEW s \in Segments, stage[s] \notin Ended, stage'[s] \in Ended
      PROVE  Cardinality(B) >= Cardinality(A) + 1
  <2>1. s \notin A /\ s \in B
    BY <1>5
  <2>. HIDE DEF A, B
  <2>2. A \cup {s} \in SUBSET B
    BY <1>1, <2>1
  <2>3. Cardinality(A \cup {s}) = Cardinality(A) + 1 /\ IsFiniteSet(A \cup {s})
    BY <1>3, <2>1, FS_AddElement
  <2>4. Cardinality(A \cup {s}) <= Cardinality(B)
    BY <1>3, <2>2, FS_Subset
  <2>. QED  BY <1>4, <2>3, <2>4
<1>. QED  BY <1>2, <1>3, <1>4, <1>5

(* What the journal becomes.                                                *)
LEMMA JournalCases ==
    ASSUME CacheInv, SinkEffect
    PROVE  \/ UNCHANGED journal
           \/ \E x \in Segments \cup {Torn} :
                 /\ x # Torn => stage'[x] \in Ended
                 /\ \E s \in Segments : stage[s] \notin Ended /\ stage'[s] \in Ended
                 /\ journal' \in Journals /\ Len(journal'.chunks) <= MaxJournal
                 /\ \/ /\ journal.inode # 0 /\ journal'.inode = journal.inode
                       /\ journal'.chunks = Append(journal.chunks, x)
                    \/ journal'.inode = journal.inode + 1 /\ journal'.chunks = <<x>>
<1>1. SUFFICES ASSUME ~ UNCHANGED journal
               PROVE  \E x \in Segments \cup {Torn} :
                         /\ x # Torn => stage'[x] \in Ended
                         /\ \E s \in Segments : stage[s] \notin Ended /\ stage'[s] \in Ended
                         /\ journal' \in Journals /\ Len(journal'.chunks) <= MaxJournal
                         /\ \/ /\ journal.inode # 0 /\ journal'.inode = journal.inode
                               /\ journal'.chunks = Append(journal.chunks, x)
                            \/ journal'.inode = journal.inode + 1 /\ journal'.chunks = <<x>>
  OBVIOUS
<1>2. PICK s \in Segments : /\ stage[s] = "fenced" /\ stage'[s] = "announced"
                            /\ journal' = Appended(s) \/ journal' = Appended(Torn)
  BY <1>1 DEF SinkEffect, Announces
<1>3. PICK x \in {s, Torn} : journal' = Appended(x)
  BY <1>2
<1>4. journal \in Journals /\ Len(journal.chunks) <= MaxJournal /\ (journal.inode = 0 => journal.chunks = <<>>)
  BY DEF CacheInv, TypeOK, Numbered, Cursor
<1>5. x \in Segments \cup {Torn}
  OBVIOUS
<1>6. /\ journal' \in Journals /\ Len(journal'.chunks) <= MaxJournal
      /\ \/ /\ journal.inode # 0 /\ journal'.inode = journal.inode
            /\ journal'.chunks = Append(journal.chunks, x)
         \/ journal'.inode = journal.inode + 1 /\ journal'.chunks = <<x>>
  BY <1>3, <1>4, <1>5, AppendedFacts
<1>. QED  BY <1>2, <1>3, <1>5, <1>6 DEF Ended

(* The journal stays well formed and names what was announced.              *)
LEMMA SinkJournal ==
    ASSUME CacheInv, SinkEffect
    PROVE  /\ Numbered' /\ Named' /\ Len(journal'.chunks) <= MaxJournal
           /\ journal'.inode <= N
<1>. DEFINE A == Cardinality({s \in Segments : stage[s] \in Ended})
<1>1. /\ A \in Nat /\ A' >= A /\ A' <= N
      /\ (\E s \in Segments : stage[s] \notin Ended /\ stage'[s] \in Ended) => A' >= A + 1
  BY EndedGrows DEF SinkEffect
<1>2. A' \in Nat
  <2>1. {s \in Segments : stage'[s] \in Ended} \in SUBSET Segments
    OBVIOUS
  <2>2. IsFiniteSet({s \in Segments : stage'[s] \in Ended})
    BY <2>1, SegmentFacts, FS_Subset
  <2>. QED  BY <2>2, FS_CardinalityType
<1>3. journal \in Journals /\ journal.inode <= A /\ Len(journal.chunks) <= MaxJournal
  BY DEF CacheInv, Numbered, TypeOK
<1>4. journal.inode \in Nat /\ journal.chunks \in Seq(Segments \cup {Torn})
  BY <1>3 DEF Journals
<1>5. \A s \in Segments : stage[s] \in Ended => stage'[s] \in Ended
  BY DEF SinkEffect
<1>6. \A j \in 1..Len(journal.chunks) : journal.chunks[j] \in Segments \cup {Torn}
  BY <1>4
<1>7. \A j \in 1..Len(journal.chunks) : journal.chunks[j] # Torn => stage'[journal.chunks[j]] \in Ended
  BY <1>5, <1>6 DEF CacheInv, Named
<1>8. CASE UNCHANGED journal
  <2>1. journal'.inode <= A' /\ journal'.inode <= N
    <3>. HIDE DEF A
    <3>. QED  BY <1>1, <1>2, <1>3, <1>4, <1>8, CacheAssumption
  <2>2. Numbered'
    BY <1>3, <1>8, <2>1 DEF Numbered
  <2>3. Named'
    BY <1>7, <1>8 DEF Named
  <2>. QED  BY <1>3, <1>8, <2>1, <2>2, <2>3
<1>9. CASE \E x \in Segments \cup {Torn} :
              /\ x # Torn => stage'[x] \in Ended
              /\ \E s \in Segments : stage[s] \notin Ended /\ stage'[s] \in Ended
              /\ journal' \in Journals /\ Len(journal'.chunks) <= MaxJournal
              /\ \/ /\ journal.inode # 0 /\ journal'.inode = journal.inode
                    /\ journal'.chunks = Append(journal.chunks, x)
                 \/ journal'.inode = journal.inode + 1 /\ journal'.chunks = <<x>>
  <2>1. PICK x \in Segments \cup {Torn} :
              /\ x # Torn => stage'[x] \in Ended
              /\ \E s \in Segments : stage[s] \notin Ended /\ stage'[s] \in Ended
              /\ journal' \in Journals /\ Len(journal'.chunks) <= MaxJournal
              /\ \/ /\ journal.inode # 0 /\ journal'.inode = journal.inode
                    /\ journal'.chunks = Append(journal.chunks, x)
                 \/ journal'.inode = journal.inode + 1 /\ journal'.chunks = <<x>>
    BY <1>9
  <2>2. journal'.inode <= A' /\ journal'.inode <= N
    <3>1. A' >= A + 1
      BY <1>1, <2>1
    <3>2. journal'.inode = journal.inode \/ journal'.inode = journal.inode + 1
      BY <2>1
    <3>. HIDE DEF A
    <3>. QED  BY <1>1, <1>2, <1>3, <1>4, <3>1, <3>2, CacheAssumption
  <2>3. Numbered'
    BY <2>1, <2>2 DEF Numbered
  <2>4. Named'
    <3>1. CASE journal'.chunks = Append(journal.chunks, x)
      BY <1>4, <1>7, <2>1, <3>1 DEF Named
    <3>2. CASE journal'.chunks = <<x>>
      BY <2>1, <3>2 DEF Named
    <3>. QED  BY <2>1, <3>1, <3>2
  <2>. QED  BY <2>1, <2>2, <2>3, <2>4
<1>. QED  BY <1>8, <1>9, JournalCases

(* A record that is appended is ahead of the cursor, and a segment that is  *)
(* renamed has no record yet.                                               *)
LEMMA SinkGap ==
    ASSUME CacheInv, SinkEffect
    PROVE  Cursor' /\ NoSilentGap'
<1>. DEFINE c == journal.chunks
<1>1. /\ journal.inode \in Nat /\ c \in Seq(Segments \cup {Torn}) /\ Len(c) \in Nat
      /\ catalog.inode \in Nat /\ catalog.offset \in Nat
  BY DEF CacheInv, Numbered, Journals, TypeOK
<1>2. UNCHANGED <<catalog, reader, skipped>>
  BY DEF SinkEffect, indexVars
<1>3. \A s \in Segments : s \in Whole' => s \in Whole \/ stage[s] \notin Ended
  BY DEF SinkEffect, Whole, Ended
<1>4. \A s \in Segments : (\E j \in 1..Len(c) : c[j] = s) => stage[s] \in Ended
  BY SegmentFacts DEF CacheInv, Named
<1>5. \A s \in Segments : s \in Whole' /\ (\E j \in 1..Len(c) : c[j] = s) => s \in Whole
  BY <1>3, <1>4
<1>6. CASE UNCHANGED journal
  <2>1. Cursor'
    BY <1>2, <1>6 DEF CacheInv, Cursor
  <2>2. NoSilentGap'
    BY <1>2, <1>5, <1>6 DEF CacheInv, NoSilentGap, At
  <2>. QED  BY <2>1, <2>2
<1>7. ASSUME journal'.inode = journal.inode + 1, NEW x, journal'.chunks = <<x>>
      PROVE  Cursor' /\ NoSilentGap'
  <2>1. catalog'.inode # journal'.inode /\ catalog'.inode <= journal'.inode /\ journal'.inode # 0
    BY <1>1, <1>2, <1>7 DEF CacheInv, Cursor
  <2>2. Cursor'
    BY <1>2, <2>1 DEF CacheInv, Cursor
  <2>. QED  BY <2>1, <2>2 DEF NoSilentGap
<1>8. ASSUME journal.inode # 0, journal'.inode = journal.inode, NEW x \in Segments \cup {Torn},
             journal'.chunks = Append(c, x)
      PROVE  Cursor' /\ NoSilentGap'
  <2>1. /\ Len(journal'.chunks) = Len(c) + 1 /\ journal'.chunks[Len(c) + 1] = x
        /\ \A j \in 1..Len(c) : journal'.chunks[j] = c[j]
    BY <1>1, <1>8
  <2>2. Cursor'
    BY <1>1, <1>2, <1>8, <2>1 DEF CacheInv, Cursor
  <2>3. NoSilentGap'
    <3>1. SUFFICES ASSUME NEW s \in Segments, catalog.init, ~ skipped, s \in Whole',
                          \E j \in 1..Len(journal'.chunks) : journal'.chunks[j] = s,
                          catalog.inode = journal.inode
                   PROVE  \/ s \in catalog.entries \cup catalog.pending
                          \/ \E r \in Readers : At(r, "audit") \/ At(r, "walk")
                          \/ \E j \in (catalog.offset + 1)..Len(journal'.chunks) : journal'.chunks[j] = s
      BY <1>2, <1>8 DEF NoSilentGap, At
    <3>2. catalog.offset <= Len(c)
      BY <3>1 DEF CacheInv, Cursor
    <3>3. CASE s = x
      BY <1>1, <2>1, <3>2, <3>3
    <3>4. CASE s # x
      <4>1. \E j \in 1..Len(c) : c[j] = s
        <5>1. PICK j \in 1..(Len(c) + 1) : journal'.chunks[j] = s
          BY <2>1, <3>1
        <5>2. j \in 1..Len(c)
          BY <1>1, <2>1, <3>4, <5>1
        <5>. QED  BY <2>1, <5>1, <5>2
      <4>2. s \in Whole
        BY <1>5, <3>1, <4>1
      <4>3. \/ s \in catalog.entries \cup catalog.pending
            \/ \E r \in Readers : At(r, "audit") \/ At(r, "walk")
            \/ \E j \in (catalog.offset + 1)..Len(c) : c[j] = s
        BY <3>1, <4>1, <4>2 DEF CacheInv, NoSilentGap
      <4>4. ASSUME NEW j \in (catalog.offset + 1)..Len(c), c[j] = s
            PROVE  \E k \in (catalog.offset + 1)..Len(journal'.chunks) : journal'.chunks[k] = s
        <5>1. j \in 1..Len(c) /\ j \in (catalog.offset + 1)..(Len(c) + 1)
          BY <1>1
        <5>. QED  BY <2>1, <4>4, <5>1
      <4>. QED  BY <4>3, <4>4
    <3>. QED  BY <3>3, <3>4
  <2>. QED  BY <2>2, <2>3
<1>. QED  BY <1>6, <1>7, <1>8, JournalCases

(* The sink keeps the invariant.                                            *)
LEMMA SinkKeeps ==
    ASSUME CacheInv, Sink \/ SinkCrash
    PROVE  CacheInv'
<1>1. SinkEffect /\ faults' \in 0..MaxFaults
  BY SinkSteps DEF CacheInv
<1>2. UNCHANGED <<catalog, due, reader, pin, orphan, skipped, retention>>
  BY <1>1 DEF SinkEffect, indexVars
<1>3. Numbered' /\ Named' /\ Len(journal'.chunks) <= MaxJournal /\ journal'.inode <= N
  BY <1>1, SinkJournal
<1>4. Cursor' /\ NoSilentGap'
  BY <1>1, SinkGap
<1>5. TypeOK'
  <2>1. /\ journal'.inode \in 0..(N + 1)
        /\ \A j \in 1..Len(journal'.chunks) : journal'.chunks[j] \in Segments \cup {Torn}
    BY <1>3, CacheAssumption DEF Numbered, Journals
  <2>. QED  BY <1>1, <1>2, <1>3, <2>1 DEF CacheInv, TypeOK, SinkEffect
<1>6. Synced'
  BY <1>1 DEF CacheInv, Synced, SinkEffect, Fenced
<1>7. \A s \in Segments : disk[s] = "whole" => disk'[s] = "whole"
  BY <1>1 DEF SinkEffect
<1>8. VictimsSafe' /\ PinsWhole'
  BY <1>2, <1>7 DEF CacheInv, VictimsSafe, PinsWhole, Locked, TypeOK
<1>9. OneInside' /\ LockHeld' /\ Rebuilding'
  BY <1>2 DEF CacheInv, OneInside, LockHeld, Locked, Rebuilding
<1>. QED  BY <1>3, <1>4, <1>5, <1>6, <1>8, <1>9 DEF CacheInv

-----------------------------------------------------------------------------
(* Retention                                                                *)

(* What happens to the disk while retention runs, and what it is about to   *)
(* delete.                                                                  *)
DeletesOnly ==
    /\ disk' \in [Segments -> {"none", "whole", "damaged"}] /\ durable' \subseteq Segments
    /\ \A s \in Segments : disk'[s] = disk[s] \/ (Locked /\ s \in retention.victims /\ disk'[s] # "whole")
    /\ \A s \in Segments : disk'[s] = "none" => disk[s] = "none" \/ (Locked /\ s \in retention.victims)
    /\ \A s \in durable \ durable' : disk'[s] = "none"

VictimsChosen ==
    /\ retention' \in Runs
    /\ \/ retention'.pc # "delete" /\ \A s \in retention'.victims : disk'[s] = "whole"
       \/ /\ retention'.pc = "delete" /\ UNCHANGED <<reader, pin>>
          /\ \A s \in retention'.victims : disk'[s] = "whole" /\ s \in retention.victims
          /\ \/ Locked
             \/ /\ \A r \in Readers : reader[r].pc \notin Section
                /\ \A s \in retention'.victims, r \in Readers : ~ (pin[r].live /\ s \in pin[r].segs)

(* Each step of the script does no more.                                    *)
LEMMA RetentionSteps ==
    ASSUME CacheInv, Retention \/ RetentionCrash
    PROVE  /\ DeletesOnly /\ VictimsChosen /\ faults' \in 0..MaxFaults
           /\ UNCHANGED <<stage, group, journal, catalog, due, reader, pin, orphan, skipped>>
<1>1. /\ disk \in [Segments -> {"none", "whole", "damaged"}] /\ durable \subseteq Segments
      /\ retention.victims \subseteq Segments /\ retention \in Runs /\ faults \in 0..MaxFaults
  BY DEF CacheInv, TypeOK, Runs
<1>2. UNCHANGED <<stage, group, journal, catalog, due, reader, pin, orphan, skipped>>
  BY DEF Retention, RetentionCrash, Discover, LockTree, Delete, UnlockTree, sink, indexVars
<1>3. UNCHANGED faults \/ Fault
  BY DEF Retention, RetentionCrash, Discover, LockTree, Delete, UnlockTree
<1>4. faults' \in 0..MaxFaults
  BY <1>1, <1>3, FaultCounts
<1>5. ASSUME UNCHANGED <<disk, durable>> PROVE DeletesOnly
  BY <1>1, <1>5 DEF DeletesOnly
<1>6. \A s \in retention.victims : disk[s] = "whole"
  BY DEF CacheInv, VictimsSafe
<1>7. ASSUME NEW cutoff \in Segments, Discover(cutoff) PROVE DeletesOnly /\ VictimsChosen
  <2>1. retention' = [pc |-> "found", victims |-> {s \in Whole : s <= cutoff}] /\ UNCHANGED <<disk, durable>>
    BY <1>7 DEF Discover, files
  <2>2. {s \in Whole : s <= cutoff} \subseteq Segments /\ \A s \in {t \in Whole : t <= cutoff} : disk[s] = "whole"
    BY DEF Whole
  <2>. QED  BY <1>5, <2>1, <2>2 DEF VictimsChosen, Runs
<1>8. CASE LockTree
  <2>1. /\ retention' = [pc |-> "delete", victims |-> retention.victims \ Pinned] /\ UNCHANGED <<disk, durable>>
        /\ \A r \in Readers : reader[r].pc \notin Section
    BY <1>8 DEF LockTree, files
  <2>2. \A s \in retention.victims \ Pinned, r \in Readers : ~ (pin[r].live /\ s \in pin[r].segs)
    BY DEF Pinned
  <2>. QED  BY <1>1, <1>2, <1>4, <1>5, <1>6, <2>1, <2>2 DEF VictimsChosen, Runs
<1>9. CASE Delete
  <2>1. /\ retention.victims \in SUBSET Nat
        /\ Min(retention.victims) \in retention.victims
    BY <1>1, <1>9, SegmentFacts, MinNat DEF Delete
  <2>2. PICK s \in retention.victims :
              /\ durable' = durable \ {s}
              /\ retention' = [retention EXCEPT !.victims = @ \ {s}]
              /\ disk' = [disk EXCEPT ![s] = IF @ = "whole" THEN "none" ELSE @]
    BY <1>9, <2>1 DEF Delete
  <2>3. Locked /\ disk' = [disk EXCEPT ![s] = "none"]
    BY <1>1, <1>6, <1>9, <2>2 DEF Delete, Locked
  <2>4. DeletesOnly
    BY <1>1, <2>2, <2>3 DEF DeletesOnly
  <2>5. retention'.pc = "delete" /\ retention'.victims = retention.victims \ {s} /\ retention' \in Runs
    BY <1>1, <2>2, <2>3 DEF Locked, Runs
  <2>6. VictimsChosen
    BY <1>1, <1>2, <1>6, <2>3, <2>5 DEF VictimsChosen
  <2>. QED  BY <1>2, <1>4, <2>4, <2>6
<1>10. CASE UnlockTree
  <2>1. retention' \in Runs /\ retention'.pc = "idle" /\ retention'.victims = {} /\ UNCHANGED <<disk, durable>>
    BY <1>1, <1>10 DEF UnlockTree, Runs, files
  <2>. QED  BY <1>2, <1>4, <1>5, <2>1 DEF VictimsChosen
<1>11. CASE RetentionCrash
  <2>1. retention' = [pc |-> "idle", victims |-> {}] /\ UNCHANGED durable
    BY <1>11 DEF RetentionCrash
  <2>2. VictimsChosen
    BY <2>1 DEF VictimsChosen, Runs
  <2>3. CASE UNCHANGED disk
    BY <1>2, <1>4, <1>5, <2>1, <2>2, <2>3
  <2>4. CASE ~ UNCHANGED disk
    <3>1. /\ Min(retention.victims) \in retention.victims
      BY <1>1, <1>11, <2>4, SegmentFacts, MinNat DEF RetentionCrash
    <3>2. PICK s \in retention.victims : disk' = [disk EXCEPT ![s] = "damaged"]
      BY <1>11, <2>4, <3>1 DEF RetentionCrash
    <3>3. Locked
      BY <1>11, <2>4 DEF RetentionCrash, Locked
    <3>. QED  BY <1>1, <1>2, <1>4, <2>1, <2>2, <3>2, <3>3 DEF DeletesOnly
  <2>. QED  BY <2>3, <2>4
<1>. QED  BY <1>2, <1>4, <1>7, <1>8, <1>9, <1>10, <1>11 DEF Retention

(* Retention keeps the invariant: under the lock it deletes only what no    *)
(* live marker names.                                                       *)
LEMMA RetentionKeeps ==
    ASSUME CacheInv, Retention \/ RetentionCrash
    PROVE  CacheInv'
<1>1. /\ DeletesOnly /\ VictimsChosen /\ faults' \in 0..MaxFaults
      /\ UNCHANGED <<stage, group, journal, catalog, due, reader, pin, orphan, skipped>>
  BY RetentionSteps
<1>2. TypeOK'
  BY <1>1 DEF CacheInv, TypeOK, DeletesOnly, VictimsChosen, Runs
<1>3. Numbered' /\ Named' /\ Cursor' /\ OneInside' /\ Rebuilding'
  BY <1>1 DEF CacheInv, Numbered, Named, Cursor, OneInside, Rebuilding
<1>4. Synced'
  BY <1>1 DEF CacheInv, Synced, DeletesOnly, VictimsSafe
<1>5. \A s \in Segments : disk'[s] = "whole" => disk[s] = "whole"
  BY <1>1 DEF DeletesOnly
<1>6. NoSilentGap'
  BY <1>1, <1>5 DEF CacheInv, NoSilentGap, Whole, At
<1>7. LockHeld'
  BY <1>1 DEF CacheInv, LockHeld, Locked, VictimsChosen
<1>8. VictimsSafe'
  BY <1>1 DEF CacheInv, VictimsSafe, Locked, VictimsChosen
<1>9. PinsWhole'
  <2>1. SUFFICES ASSUME NEW r \in Readers, pin[r].live, NEW s \in pin[r].segs PROVE disk'[s] = "whole"
    BY <1>1 DEF PinsWhole
  <2>2. s \in Segments /\ disk[s] = "whole"
    BY <2>1 DEF CacheInv, TypeOK, PinsWhole
  <2>. QED  BY <1>1, <2>1, <2>2 DEF CacheInv, VictimsSafe, DeletesOnly
<1>. QED  BY <1>2, <1>3, <1>4, <1>6, <1>7, <1>8, <1>9 DEF CacheInv

-----------------------------------------------------------------------------
(* The host                                                                 *)

(* What a dead media-worker leaves.                                         *)
LEMMA IndexGone ==
    ASSUME TypeOK, IndexStopped
    PROVE  /\ catalog' \in Catalogs /\ ~ catalog'.init /\ catalog'.inode = 0 /\ catalog'.offset = 0
           /\ due' \in BOOLEAN /\ skipped' \in BOOLEAN
           /\ reader' \in [Readers -> ReaderType] /\ \A r \in Readers : reader'[r].pc = "idle"
           /\ pin' \in [Readers -> PinType] /\ \A r \in Readers : ~ pin'[r].live
           /\ orphan' \subseteq Segments
<1>1. NoCatalog \in Catalogs /\ ~ NoCatalog.init /\ NoCatalog.inode = 0 /\ NoCatalog.offset = 0
  BY CacheAssumption DEF NoCatalog, Catalogs
<1>2. IdleReader \in ReaderType /\ IdleReader.pc = "idle"
  BY DEF IdleReader, ReaderType
<1>3. NoPin \in PinType /\ ~ NoPin.live
  BY DEF NoPin, PinType
<1>4. orphan' \subseteq Segments
  BY DEF IndexStopped, TypeOK
<1>5. due' \in BOOLEAN /\ skipped' \in BOOLEAN
  BY DEF IndexStopped
<1>. QED  BY <1>1, <1>2, <1>3, <1>4, <1>5 DEF IndexStopped

(* A host crash keeps the invariant.                                        *)
LEMMA HostKeeps ==
    ASSUME CacheInv, HostCrash
    PROVE  /\ CacheInv'
           /\ \A s \in Segments : stage[s] \in Fenced /\ disk'[s] = "none" => disk[s] = "none"
<1>1. /\ stage \in [Segments -> Stages] /\ durable \subseteq Segments /\ faults \in 0..MaxFaults
      /\ disk \in [Segments -> {"none", "whole", "damaged"}]
      /\ journal \in Journals /\ Len(journal.chunks) <= MaxJournal /\ journal.inode \in 0..(N + 1)
  BY DEF CacheInv, TypeOK, Numbered
<1>2. PICK undone \in SUBSET (Present \ durable), short \in SUBSET Whole :
         disk' = [s \in Segments |-> IF s \in undone THEN "none"
                                     ELSE IF s \in short THEN "damaged" ELSE disk[s]]
  BY DEF HostCrash
<1>3. /\ disk' \in [Segments -> {"none", "whole", "damaged"}] /\ UNCHANGED durable
      /\ \A s \in Segments : disk'[s] = "none" => disk[s] = "none" \/ s \notin durable
      /\ \A s \in Segments : disk'[s] # "none" => disk[s] # "none"
  BY <1>1, <1>2 DEF HostCrash, Whole
<1>4. /\ stage' \in [Segments -> Stages] /\ group' = {}
      /\ \A s \in Segments : stage[s] \in Ended => stage'[s] \in Ended
      /\ \A s \in Segments : stage'[s] \in Fenced => stage'[s] = stage[s]
  BY <1>1 DEF HostCrash, SinkStopped, Stages, Ended, Fenced
<1>5. PICK n \in 0..Len(journal.chunks) : journal' = [journal EXCEPT !.chunks = SubSeq(@, 1, n)]
  BY DEF HostCrash
<1>. DEFINE c == journal.chunks
<1>6. /\ SubSeq(c, 1, n) \in Seq(Segments \cup {Torn}) /\ Len(SubSeq(c, 1, n)) = n
      /\ \A j \in 1..n : SubSeq(c, 1, n)[j] = c[j]
      /\ n \in Nat /\ n <= Len(c) /\ Len(c) \in Nat /\ c \in Seq(Segments \cup {Torn})
  <2>1. c \in Seq(Segments \cup {Torn})
    BY <1>1 DEF Journals
  <2>2. n \in Nat /\ n <= Len(c) /\ Len(c) \in Nat
    BY <2>1
  <2>3. \A j \in 1..n : c[j] \in Segments \cup {Torn}
    BY <2>1, <2>2
  <2>. QED  BY <2>1, <2>2, <2>3
<1>7. /\ journal'.inode = journal.inode /\ journal'.chunks = SubSeq(c, 1, n) /\ journal' \in Journals
  BY <1>1, <1>5, <1>6 DEF Journals
<1>8. Len(journal'.chunks) <= MaxJournal
  BY <1>1, <1>6, <1>7, CacheAssumption
<1>9. /\ catalog' \in Catalogs /\ ~ catalog'.init /\ catalog'.inode = 0 /\ catalog'.offset = 0
      /\ due' \in BOOLEAN /\ skipped' \in BOOLEAN
      /\ reader' \in [Readers -> ReaderType] /\ \A r \in Readers : reader'[r].pc = "idle"
      /\ pin' \in [Readers -> PinType] /\ \A r \in Readers : ~ pin'[r].live
      /\ orphan' \subseteq Segments
  BY IndexGone DEF CacheInv, HostCrash
<1>10. retention' = [pc |-> "idle", victims |-> {}]
  BY DEF HostCrash
<1>11. faults' \in 0..MaxFaults
  BY <1>1, FaultCounts DEF HostCrash
<1>12. TypeOK'
  <2>1. \A j \in 1..Len(journal'.chunks) : journal'.chunks[j] \in Segments \cup {Torn}
    BY <1>7 DEF Journals
  <2>. QED  BY <1>1, <1>3, <1>4, <1>7, <1>8, <1>9, <1>10, <1>11, <2>1
         DEF TypeOK, Catalogs, ReaderType, PinType
<1>13. Numbered'
  <2>1. /\ Cardinality({s \in Segments : stage[s] \in Ended}) \in Nat
        /\ Cardinality({s \in Segments : stage[s] \in Ended})'
              >= Cardinality({s \in Segments : stage[s] \in Ended})
    BY <1>4, EndedGrows
  <2>2. Cardinality({s \in Segments : stage[s] \in Ended})' \in Nat
    <3>1. {s \in Segments : stage'[s] \in Ended} \in SUBSET Segments
      OBVIOUS
    <3>2. IsFiniteSet({s \in Segments : stage'[s] \in Ended})
      BY <3>1, SegmentFacts, FS_Subset
    <3>. QED  BY <3>2, FS_CardinalityType
  <2>3. journal.inode \in Nat /\ journal.inode <= Cardinality({s \in Segments : stage[s] \in Ended})
    BY <1>1 DEF CacheInv, Numbered, Journals
  <2>. QED  BY <1>7, <2>1, <2>2, <2>3 DEF Numbered
<1>14. Named'
  <2>1. \A j \in 1..n : c[j] \in Segments \cup {Torn} /\ (c[j] # Torn => stage[c[j]] \in Ended)
    BY <1>6 DEF CacheInv, Named
  <2>. QED  BY <1>4, <1>6, <1>7, <2>1 DEF Named
<1>15. Synced'
  BY <1>3, <1>4 DEF CacheInv, Synced
<1>16. OneInside' /\ LockHeld' /\ VictimsSafe' /\ PinsWhole' /\ Rebuilding' /\ NoSilentGap'
  BY <1>9, <1>10 DEF OneInside, LockHeld, VictimsSafe, PinsWhole, Rebuilding, NoSilentGap, Locked, Section
<1>17. Cursor'
  <2>1. journal.inode = 0 => n = 0
    BY <1>6 DEF CacheInv, Cursor
  <2>2. journal.inode = 0 => journal'.chunks = <<>>
    BY <1>6, <1>7, <2>1
  <2>. QED  BY <1>1, <1>6, <1>7, <1>9, <2>2 DEF Cursor
<1>18. \A s \in Segments : stage[s] \in Fenced /\ disk'[s] = "none" => disk[s] = "none"
  BY <1>3 DEF CacheInv, Synced
<1>. QED  BY <1>12, <1>13, <1>14, <1>15, <1>16, <1>17, <1>18 DEF CacheInv

-----------------------------------------------------------------------------
(* The index                                                                *)

(* Reader r goes to one of the labels L; it is in the section only if it    *)
(* was, or if it could enter.                                               *)
ReaderMoves(r, L) ==
    /\ reader' \in [Readers -> ReaderType]
    /\ reader'[r].pc \in L
    /\ \A q \in Readers \ {r} : reader'[q] = reader[q]
    /\ reader[r].pc \in Section \/ (~ Locked /\ \A q \in Readers : reader[q].pc \notin Section) \/ L \cap Section = {}

(* Goto moves a reader that is in the section.                              *)
LEMMA GotoMoves ==
    ASSUME reader \in [Readers -> ReaderType], NEW r \in Readers, reader[r].pc \in Section,
           NEW pc \in Section \cup {"idle", "ask", "read"}, Goto(r, pc)
    PROVE  ReaderMoves(r, {pc})
BY DEF Goto, ReaderMoves, ReaderType

(* A reader that becomes idle moves.                                        *)
LEMMA IdleMoves ==
    ASSUME reader \in [Readers -> ReaderType], NEW r \in Readers, reader' = [reader EXCEPT ![r] = IdleReader]
    PROVE  ReaderMoves(r, {"idle"})
<1>1. IdleReader \in ReaderType /\ IdleReader.pc = "idle"
  BY DEF IdleReader, ReaderType
<1>. QED  BY <1>1 DEF ReaderMoves, Section

(* One reader at a time is inside, and none under retention's lock.         *)
LEMMA InsideKeeps ==
    ASSUME OneInside, LockHeld, NEW r \in Readers, NEW L, ReaderMoves(r, L), UNCHANGED retention
    PROVE  OneInside' /\ LockHeld'
BY DEF OneInside, LockHeld, ReaderMoves, Locked

(* The journal chunks up to the new cursor have been taken for records, or  *)
(* the read has found the journal invalid.                                  *)
LEMMA ConsumedFacts ==
    ASSUME CacheInv, NEW cat \in Catalogs, cat.inode = catalog.inode, cat.offset = catalog.offset
    PROVE  /\ Consumed(cat) \in Catalogs /\ Consumed(cat).init = cat.init
           /\ Records \subseteq Segments
           /\ Consumed(cat).entries = cat.entries \cup Records
           /\ Consumed(cat).pending = cat.pending \ Records
           /\ Consumed(cat).inode = journal.inode
           /\ Consumed(cat).offset <= Len(journal.chunks)
           /\ journal.inode = 0 => Consumed(cat).offset = 0
           /\ \A i \in (Start + 1)..Consumed(cat).offset :
                 journal.chunks[i] # Torn => journal.chunks[i] \in Records \/ Invalid
<1>. DEFINE c == journal.chunks
            S == {Start} \cup Complete
<1>1. /\ journal.inode \in 0..(N + 1) /\ c \in Seq(Segments \cup {Torn}) /\ Len(c) \in Nat /\ Len(c) <= MaxJournal
      /\ catalog.inode \in Nat /\ catalog.offset \in Nat
  BY DEF CacheInv, Numbered, Journals, TypeOK
<1>2. Start \in Nat /\ Start <= Len(c)
  BY <1>1 DEF Start, Reset, CacheInv, Cursor
<1>3. Complete \subseteq (Start + 1)..Len(c)
  BY DEF Complete
<1>4. S \in SUBSET (0..Len(c)) /\ S # {}
  BY <1>1, <1>2, <1>3
<1>5. Max(S) \in S /\ \A y \in S : Max(S) >= y
  <2>. HIDE DEF S
  <2>. QED  BY <1>1, <1>4, MaxUpTo
<1>6. Max(S) \in Start..Len(c)
  <2>1. Start \in S
    OBVIOUS
  <2>. HIDE DEF S
  <2>2. Max(S) \in 0..Len(c) /\ Max(S) >= Start
    BY <1>4, <1>5, <2>1
  <2>. QED  BY <1>1, <1>2, <2>2
<1>7. \A i \in 1..Len(c) : c[i] \in Segments \cup {Torn}
  BY <1>1
<1>8. Records \subseteq Segments
  BY <1>1, <1>2, <1>3, <1>7 DEF Records
<1>9. Consumed(cat) = [cat EXCEPT !.entries = @ \cup Records, !.pending = @ \ Records,
                                  !.inode = journal.inode, !.offset = Max(S)]
  BY DEF Consumed
<1>10. /\ Consumed(cat) \in Catalogs /\ Consumed(cat).init = cat.init
       /\ Consumed(cat).entries = cat.entries \cup Records
       /\ Consumed(cat).pending = cat.pending \ Records
       /\ Consumed(cat).inode = journal.inode
       /\ Consumed(cat).offset = Max(S)
  <2>1. Max(S) \in 0..MaxJournal
    BY <1>1, <1>2, <1>6, CacheAssumption
  <2>. HIDE DEF S
  <2>. QED  BY <1>1, <1>8, <1>9, <2>1 DEF Catalogs
<1>11. journal.inode = 0 => Len(c) = 0
  BY DEF CacheInv, Cursor
<1>12. ASSUME NEW i \in (Start + 1)..Max(S), c[i] # Torn PROVE c[i] \in Records \/ Invalid
  <2>. HIDE DEF S
  <2>1. i \in (Start + 1)..Len(c) /\ i \in 1..Len(c)
    BY <1>1, <1>2, <1>6
  <2>2. i \in Complete
    BY <1>1, <2>1, <1>12 DEF Complete
  <2>3. CASE i = Start + 1 \/ c[i - 1] # Torn
    BY <1>12, <2>2, <2>3 DEF Records
  <2>4. CASE i # Start + 1 /\ c[i - 1] = Torn
    <3>1. i - 1 \in (Start + 1)..Len(c) /\ i \in (i - 1)..Len(c)
      BY <1>1, <1>2, <2>1, <2>4
    <3>2. i - 1 \in Complete
      BY <1>12, <3>1 DEF Complete
    <3>. QED  BY <2>4, <3>2 DEF Invalid
  <2>. QED  BY <2>3, <2>4
<1>13. Max(S) <= Len(c) /\ (journal.inode = 0 => Max(S) = 0)
  <2>. HIDE DEF S
  <2>. QED  BY <1>1, <1>2, <1>6, <1>11
<1>. HIDE DEF S
<1>. QED  BY <1>8, <1>10, <1>12, <1>13

(* A valid read leaves no gap if the catalog had none.                      *)
LEMMA ConsumedGap ==
    ASSUME CacheInv, NEW cat \in Catalogs, cat.inode = catalog.inode, cat.offset = catalog.offset,
           cat.init = catalog.init, UNCHANGED <<journal, disk>>,
           \A s \in Whole : s \in catalog.entries \cup catalog.pending => s \in cat.entries \cup cat.pending,
           \A r \in Readers : ~ At(r, "audit") /\ ~ At(r, "walk"),
           catalog' = Consumed(cat), ~ Invalid, skipped' = skipped
    PROVE  NoSilentGap'
<1>. DEFINE c == journal.chunks
<1>1. /\ c \in Seq(Segments \cup {Torn}) /\ Len(c) \in Nat /\ journal.inode \in Nat
      /\ catalog.inode \in Nat /\ catalog.offset \in Nat
  BY DEF CacheInv, Numbered, Journals, TypeOK
<1>2. /\ catalog' \in Catalogs /\ catalog'.init = catalog.init
      /\ catalog'.entries = cat.entries \cup Records /\ catalog'.pending = cat.pending \ Records
      /\ catalog'.offset <= Len(c)
      /\ \A i \in (Start + 1)..catalog'.offset : c[i] # Torn => c[i] \in Records
  BY ConsumedFacts
<1>3. catalog'.offset \in Nat
  BY <1>2 DEF Catalogs
<1>4. SUFFICES ASSUME NEW s \in Segments, catalog.init, ~ skipped, s \in Whole,
                      \E i \in 1..Len(c) : c[i] = s, s \notin catalog'.entries \cup catalog'.pending
               PROVE  \E i \in (catalog'.offset + 1)..Len(c) : c[i] = s
  BY <1>2 DEF NoSilentGap, Whole
<1>5. s \notin Records /\ s \notin catalog.entries \cup catalog.pending /\ s # Torn
  BY <1>2, <1>4, SegmentFacts
<1>6. ~ Reset /\ Start = catalog.offset
  BY DEF Invalid, Start
<1>7. PICK i \in (catalog.offset + 1)..Len(c) : c[i] = s
  <2>1. CASE catalog.inode = journal.inode
    BY <1>4, <1>5, <2>1 DEF CacheInv, NoSilentGap
  <2>2. CASE catalog.inode # journal.inode
    <3>1. catalog.offset = 0
      BY <1>6, <2>2 DEF Reset, CacheInv, Cursor
    <3>. QED  BY <1>4, <3>1
  <2>. QED  BY <2>1, <2>2
<1>8. ~ (i <= catalog'.offset)
  <2>1. SUFFICES ASSUME i <= catalog'.offset PROVE FALSE
    OBVIOUS
  <2>2. i \in (Start + 1)..catalog'.offset
    BY <1>1, <1>3, <1>6, <2>1
  <2>. QED  BY <1>2, <1>5, <1>7, <2>2
<1>. QED  BY <1>1, <1>3, <1>7, <1>8

(* Candidates that are not settled are on disk.                             *)
LEMMA UnsettledFacts ==
    ASSUME NEW u \in Unsettled
    PROVE  u \subseteq Present /\ Present \subseteq Segments /\ Whole \subseteq Present
BY DEF Unsettled, Present, Whole

Frame == UNCHANGED <<stage, group, disk, durable, journal, retention>>

(* The state of the index is well typed after a step.                       *)
IndexTyped ==
    /\ catalog' \in Catalogs /\ due' \in BOOLEAN /\ skipped' \in BOOLEAN
    /\ reader' \in [Readers -> ReaderType] /\ pin' \in [Readers -> PinType]
    /\ orphan' \subseteq Segments /\ faults' \in 0..MaxFaults

(* A live marker is kept, or it is written while retention is locked out.   *)
PinsKept ==
    \A r \in Readers :
        pin'[r].live =>
            \/ pin[r].live /\ pin'[r].segs \subseteq pin[r].segs
            \/ ~ Locked /\ \A s \in pin'[r].segs : disk[s] = "whole"

(* A step of the index that keeps its own parts keeps the invariant.        *)
LEMMA IndexParts ==
    ASSUME CacheInv, Frame, IndexTyped, PinsKept, OneInside', LockHeld', Cursor', Rebuilding', NoSilentGap'
    PROVE  CacheInv'
<1>1. TypeOK'
  BY DEF CacheInv, TypeOK, Frame, IndexTyped, Catalogs, ReaderType, PinType
<1>2. Numbered' /\ Named' /\ Synced'
  BY DEF CacheInv, Numbered, Named, Synced, Frame
<1>3. VictimsSafe'
  BY DEF CacheInv, VictimsSafe, Locked, Frame, PinsKept
<1>4. PinsWhole'
  BY DEF CacheInv, PinsWhole, Frame, PinsKept
<1>. QED  BY <1>1, <1>2, <1>3, <1>4 DEF CacheInv

(* Steps that leave the catalog alone.                                      *)
LEMMA PlainIndexKeeps ==
    ASSUME CacheInv, NEW r \in Readers,
           \/ Enter(r) \/ Pin(r) \/ Unpin(r) \/ PinExpires(r)
           \/ (\E want \in Windows : Ask(r, want)) \/ ReconcileDue \/ OrphanExpires
    PROVE  CacheInv'
<1>0. /\ reader \in [Readers -> ReaderType] /\ pin \in [Readers -> PinType] /\ catalog \in Catalogs
      /\ due \in BOOLEAN /\ skipped \in BOOLEAN /\ orphan \subseteq Segments /\ faults \in 0..MaxFaults
  BY DEF CacheInv, TypeOK, ReaderType, PinType, Catalogs
<1>1. Frame /\ UNCHANGED <<catalog, skipped>>
  BY DEF Enter, Pin, Unpin, PinExpires, Ask, ReconcileDue, OrphanExpires, Frame, sink, files
<1>2. faults' \in 0..MaxFaults
  <2>1. UNCHANGED faults \/ Fault
    BY DEF Enter, Pin, Unpin, PinExpires, Ask, ReconcileDue, OrphanExpires
  <2>. QED  BY <1>0, <2>1, FaultCounts
<1>3. due' \in BOOLEAN
  <2>1. UNCHANGED due \/ due' = TRUE
    BY DEF Enter, Pin, Unpin, PinExpires, Ask, ReconcileDue, OrphanExpires
  <2>. QED  BY <1>0, <2>1
<1>4. orphan' \subseteq Segments
  BY <1>0 DEF Enter, Pin, Unpin, PinExpires, Ask, ReconcileDue, OrphanExpires
<1>5. \/ UNCHANGED reader
      \/ ReaderMoves(r, {"idle", "ask", "read"}) /\ reader[r].pc \in {"idle", "pin", "read"}
      \/ reader[r].pc = "ask" /\ ReaderMoves(r, {"refresh", "pin"})
      \/ reader[r].pc = "ask" /\ ReaderMoves(r, {"tails"}) /\ ~ catalog.init
  <2>1. CASE Enter(r)
    <3>1. PICK pc \in {"tails", "refresh", "pin"} : Goto(r, pc) /\ (pc = "tails" => ~ catalog.init)
      BY <2>1 DEF Enter
    <3>2. /\ reader[r].pc = "ask" /\ ~ Locked /\ \A q \in Readers : reader[q].pc \notin Section
      BY <2>1 DEF Enter, At
    <3>3. ReaderMoves(r, {pc})
      BY <1>0, <3>1, <3>2 DEF Goto, ReaderMoves, ReaderType, Section
    <3>. QED  BY <3>1, <3>2, <3>3 DEF ReaderMoves
  <2>2. CASE Pin(r)
    <3>1. reader[r].pc = "pin" /\ "pin" \in Section
      BY <2>2 DEF Pin, At, Section
    <3>2. ASSUME NEW pc \in {"read", "ask"}, Goto(r, pc) PROVE ReaderMoves(r, {"idle", "ask", "read"})
      <4>1. ReaderMoves(r, {pc})
        BY <1>0, <3>1, <3>2, GotoMoves
      <4>. QED  BY <3>1, <4>1 DEF ReaderMoves
    <3>3. ASSUME reader' = [reader EXCEPT ![r] = IdleReader] PROVE ReaderMoves(r, {"idle", "ask", "read"})
      <4>1. ReaderMoves(r, {"idle"})
        BY <1>0, <3>3, IdleMoves
      <4>. QED  BY <3>1, <4>1 DEF ReaderMoves
    <3>. QED  BY <2>2, <3>1, <3>2, <3>3 DEF Pin
  <2>3. CASE Unpin(r)
    <3>1. reader[r].pc = "read" /\ reader' = [reader EXCEPT ![r] = IdleReader]
      BY <2>3 DEF Unpin, At
    <3>2. ReaderMoves(r, {"idle"})
      BY <1>0, <3>1, IdleMoves
    <3>. QED  BY <3>1, <3>2 DEF ReaderMoves, Section
  <2>4. ASSUME NEW want \in Windows, Ask(r, want)
        PROVE  ReaderMoves(r, {"idle", "ask", "read"}) /\ reader[r].pc = "idle"
    <3>1. want \in SUBSET Segments
      BY CacheAssumption DEF Segments
    <3>2. reader[r].pc = "idle" /\ reader' = [reader EXCEPT ![r].pc = "ask", ![r].want = want]
      BY <2>4 DEF Ask, At
    <3>. DEFINE p == [reader[r] EXCEPT !.pc = "ask", !.want = want]
    <3>3. p \in ReaderType /\ p.pc = "ask" /\ reader' = [reader EXCEPT ![r] = p]
      BY <1>0, <3>1, <3>2 DEF ReaderType
    <3>. HIDE DEF p
    <3>. QED  BY <1>0, <3>2, <3>3 DEF ReaderMoves, Section
  <2>5. CASE PinExpires(r) \/ ReconcileDue \/ OrphanExpires
    BY <2>5 DEF PinExpires, ReconcileDue, OrphanExpires
  <2>. QED  BY <2>1, <2>2, <2>3, <2>4, <2>5
<1>6. reader' \in [Readers -> ReaderType] /\ OneInside' /\ LockHeld'
  <2>1. CASE UNCHANGED reader
    BY <1>0, <1>1, <2>1 DEF CacheInv, OneInside, LockHeld, Locked, Frame
  <2>2. CASE ~ UNCHANGED reader
    <3>1. PICK L \in {{"idle", "ask", "read"}, {"refresh", "pin"}, {"tails"}} : ReaderMoves(r, L)
      BY <1>5, <2>2
    <3>2. OneInside' /\ LockHeld'
      BY <1>1, <3>1, InsideKeeps DEF CacheInv, Frame
    <3>. QED  BY <3>1, <3>2 DEF ReaderMoves
  <2>. QED  BY <2>1, <2>2
<1>7. Rebuilding'
  BY <1>1, <1>5 DEF CacheInv, Rebuilding, ReaderMoves
<1>8. Cursor'
  BY <1>1 DEF CacheInv, Cursor, Frame
<1>9. NoSilentGap'
  <2>1. \A q \in Readers : reader[q].pc \in {"audit", "walk"} => reader'[q].pc = reader[q].pc
    BY <1>5 DEF ReaderMoves
  <2>. QED  BY <1>1, <2>1 DEF CacheInv, NoSilentGap, Whole, Frame, At
<1>10. pin' \in [Readers -> PinType] /\ PinsKept
  <2>1. CASE UNCHANGED pin
    BY <1>0, <2>1 DEF PinsKept
  <2>2. CASE Pin(r) /\ ~ UNCHANGED pin
    <3>1. PICK segs : segs \subseteq Whole /\ pin' = [pin EXCEPT ![r] = [segs |-> segs, live |-> TRUE]]
      BY <2>2 DEF Pin, Pinnable
    <3>2. ~ Locked
      BY <2>2 DEF CacheInv, LockHeld, Pin, At, Section
    <3>3. segs \in SUBSET Segments /\ \A s \in segs : disk[s] = "whole"
      BY <3>1 DEF Whole
    <3>. QED  BY <1>0, <3>1, <3>2, <3>3 DEF PinsKept, PinType
  <2>3. CASE Unpin(r)
    <3>1. NoPin \in PinType /\ ~ NoPin.live
      BY DEF NoPin, PinType
    <3>. QED  BY <1>0, <2>3, <3>1 DEF Unpin, PinsKept
  <2>4. CASE PinExpires(r)
    BY <1>0, <2>4 DEF PinExpires, PinsKept, PinType
  <2>. QED  BY <2>1, <2>2, <2>3, <2>4 DEF Enter, Ask, ReconcileDue, OrphanExpires
<1>11. IndexTyped
  BY <1>0, <1>1, <1>2, <1>3, <1>4, <1>6, <1>10 DEF IndexTyped
<1>. QED  BY <1>1, <1>6, <1>7, <1>8, <1>9, <1>10, <1>11, IndexParts

(* A media-worker that dies leaves its markers to the orphans.              *)
LEMMA IndexCrashKeeps ==
    ASSUME CacheInv, IndexCrash
    PROVE  CacheInv'
<1>1. Frame /\ IndexStopped /\ Fault
  BY DEF IndexCrash, Frame, sink, files
<1>2. /\ catalog' \in Catalogs /\ ~ catalog'.init /\ catalog'.inode = 0 /\ catalog'.offset = 0
      /\ due' \in BOOLEAN /\ skipped' \in BOOLEAN
      /\ reader' \in [Readers -> ReaderType] /\ \A r \in Readers : reader'[r].pc = "idle"
      /\ pin' \in [Readers -> PinType] /\ \A r \in Readers : ~ pin'[r].live
      /\ orphan' \subseteq Segments
  BY <1>1, IndexGone DEF CacheInv
<1>3. faults' \in 0..MaxFaults
  BY <1>1, FaultCounts DEF CacheInv, TypeOK
<1>4. IndexTyped /\ PinsKept
  BY <1>2, <1>3 DEF IndexTyped, PinsKept
<1>5. OneInside' /\ LockHeld' /\ Rebuilding' /\ NoSilentGap'
  BY <1>2 DEF OneInside, LockHeld, Rebuilding, NoSilentGap, Section
<1>6. Cursor'
  <2>1. journal.inode \in Nat /\ journal.chunks \in Seq(Segments \cup {Torn}) /\ UNCHANGED journal
    BY <1>1 DEF CacheInv, Numbered, Journals, Frame
  <2>. QED  BY <1>2, <2>1 DEF CacheInv, Cursor
<1>. QED  BY <1>1, <1>4, <1>5, <1>6, IndexParts

(* Steps inside the section that write the catalog.                         *)
LEMMA CatalogKeeps ==
    ASSUME CacheInv, NEW r \in Readers,
           Tails(r) \/ Walk(r) \/ Refresh(r) \/ Audit(r) \/ CatchUp(r)
    PROVE  CacheInv'
<1>0. /\ reader \in [Readers -> ReaderType] /\ pin \in [Readers -> PinType] /\ catalog \in Catalogs
      /\ due \in BOOLEAN /\ skipped \in BOOLEAN /\ orphan \subseteq Segments /\ faults \in 0..MaxFaults
      /\ journal.inode \in 0..(N + 1) /\ journal.chunks \in Seq(Segments \cup {Torn})
      /\ Len(journal.chunks) \in 0..MaxJournal
  BY DEF CacheInv, TypeOK, ReaderType, PinType, Catalogs, Numbered, Journals
<1>1. Frame /\ UNCHANGED <<pin, orphan>>
  BY DEF Tails, Walk, Refresh, Audit, CatchUp, Frame, sink, files
<1>2. faults' \in 0..MaxFaults
  <2>1. UNCHANGED faults \/ Fault
    BY DEF Tails, Walk, Refresh, Audit, CatchUp
  <2>. QED  BY <1>0, <2>1, FaultCounts
<1>3. due' \in BOOLEAN
  <2>1. UNCHANGED due \/ due' = FALSE
    BY DEF Tails, Walk, Refresh, Audit, CatchUp
  <2>. QED  BY <1>0, <2>1
<1>4. skipped' \in BOOLEAN
  <2>1. UNCHANGED skipped \/ skipped' = FALSE \/ skipped' = (skipped \/ Invalid)
    BY DEF Tails, Walk, Refresh, Audit, CatchUp
  <2>. QED  BY <1>0, <2>1
<1>5. reader[r].pc \in {"tails", "walk", "refresh", "audit", "catchup"} /\ reader[r].pc \in Section
  BY DEF Tails, Walk, Refresh, Audit, CatchUp, At, Section
<1>6. PICK pc \in {"walk", "catchup", "audit", "pin"} : Goto(r, pc) /\ (pc = "walk" => Tails(r))
  BY DEF Tails, Walk, Refresh, Audit, CatchUp
<1>7. ReaderMoves(r, {pc})
  BY <1>0, <1>5, <1>6, GotoMoves DEF Section
<1>8. OneInside' /\ LockHeld'
  BY <1>1, <1>7, InsideKeeps DEF CacheInv, Frame
<1>9. \A q \in Readers \ {r} : reader[q].pc \notin Section
  BY <1>5 DEF CacheInv, OneInside
<1>10. ASSUME catalog' \in Catalogs, Cursor', pc = "walk" => ~ catalog'.init, NoSilentGap' PROVE CacheInv'
  <2>1. IndexTyped /\ PinsKept
    BY <1>0, <1>1, <1>2, <1>3, <1>4, <1>7, <1>10 DEF IndexTyped, PinsKept, ReaderMoves
  <2>2. Rebuilding'
    BY <1>7, <1>9, <1>10 DEF Rebuilding, ReaderMoves, Section
  <2>. QED  BY <1>1, <1>8, <1>10, <2>1, <2>2, IndexParts
<1>11. CASE Tails(r)
  <2>1. /\ catalog' = [catalog EXCEPT !.inode = journal.inode, !.offset = Len(journal.chunks)]
        /\ ~ catalog.init
    BY <1>11 DEF Tails, At, CacheInv, Rebuilding
  <2>2. /\ catalog' \in Catalogs /\ ~ catalog'.init /\ catalog'.inode = journal.inode
        /\ catalog'.offset = Len(journal.chunks)
    BY <1>0, <2>1 DEF Catalogs
  <2>3. Cursor'
    BY <1>0, <1>1, <2>2 DEF CacheInv, Cursor, Frame
  <2>4. NoSilentGap'
    BY <2>2 DEF NoSilentGap
  <2>. QED  BY <1>10, <2>2, <2>3, <2>4
<1>12. ASSUME NEW cat \in Catalogs, catalog' = cat, pc # "walk", cat.inode = catalog.inode,
              cat.offset = catalog.offset, Whole \subseteq cat.entries \cup cat.pending
       PROVE  CacheInv'
  <2>1. Cursor'
    BY <1>1, <1>12 DEF CacheInv, Cursor, Frame
  <2>2. NoSilentGap'
    BY <1>1, <1>12 DEF NoSilentGap, Whole, Frame
  <2>. QED  BY <1>10, <1>12, <2>1, <2>2
<1>13. CASE Walk(r)
  <2>1. PICK u \in Unsettled :
           catalog' = [catalog EXCEPT !.init = TRUE, !.entries = Present \ u, !.pending = u]
    BY <1>13 DEF Walk
  <2>. DEFINE cat == [catalog EXCEPT !.init = TRUE, !.entries = Present \ u, !.pending = u]
  <2>2. u \subseteq Present /\ Present \subseteq Segments /\ Whole \subseteq Present
    BY UnsettledFacts
  <2>3. /\ cat \in Catalogs /\ cat.inode = catalog.inode /\ cat.offset = catalog.offset
        /\ cat.entries = Present \ u /\ cat.pending = u
    BY <1>0, <2>2 DEF Catalogs
  <2>4. pc # "walk"
    BY <1>6, <1>13 DEF Tails, Walk, At
  <2>. HIDE DEF cat
  <2>5. catalog' = cat
    BY <2>1 DEF cat
  <2>. QED  BY <1>12, <2>2, <2>3, <2>4, <2>5
<1>14. CASE Audit(r)
  <2>1. PICK u \in Unsettled :
           catalog' = [catalog EXCEPT !.entries = (catalog.entries \cap Present) \cup (Present \ u),
                                      !.pending = u \ (catalog.entries \cap Present)]
    BY <1>14 DEF Audit
  <2>. DEFINE cat == [catalog EXCEPT !.entries = (catalog.entries \cap Present) \cup (Present \ u),
                                     !.pending = u \ (catalog.entries \cap Present)]
  <2>2. u \subseteq Present /\ Present \subseteq Segments /\ Whole \subseteq Present
    BY UnsettledFacts
  <2>3. /\ cat \in Catalogs /\ cat.inode = catalog.inode /\ cat.offset = catalog.offset
        /\ cat.entries = (catalog.entries \cap Present) \cup (Present \ u)
        /\ cat.pending = u \ (catalog.entries \cap Present)
    BY <1>0, <2>2 DEF Catalogs
  <2>4. pc # "walk"
    BY <1>6, <1>14 DEF Tails, Audit, At
  <2>. HIDE DEF cat
  <2>5. catalog' = cat
    BY <2>1 DEF cat
  <2>. QED  BY <1>12, <2>2, <2>3, <2>4, <2>5
<1>15. ASSUME NEW cat \in Catalogs, cat.inode = catalog.inode, cat.offset = catalog.offset,
              cat.init = catalog.init,
              \A s \in Whole : s \in catalog.entries \cup catalog.pending => s \in cat.entries \cup cat.pending,
              catalog' = Consumed(cat), pc # "walk", reader[r].pc \notin {"audit", "walk"},
              skipped' # TRUE /\ pc # "audit" => ~ Invalid /\ skipped' = skipped
       PROVE  CacheInv'
  <2>1. /\ catalog' \in Catalogs /\ catalog'.inode = journal.inode
        /\ catalog'.offset <= Len(journal.chunks)
        /\ journal.inode = 0 => catalog'.offset = 0
    BY <1>15, ConsumedFacts
  <2>2. Cursor'
    BY <1>0, <1>1, <2>1 DEF CacheInv, Cursor, Frame
  <2>3. NoSilentGap'
    <3>1. CASE skipped' = TRUE
      BY <3>1 DEF NoSilentGap
    <3>2. CASE pc = "audit"
      BY <1>7, <3>2 DEF NoSilentGap, At, ReaderMoves
    <3>3. CASE ~ Invalid /\ skipped' = skipped
      <4>1. \A q \in Readers : ~ At(q, "audit") /\ ~ At(q, "walk")
        BY <1>9, <1>15 DEF At, Section
      <4>. QED  BY <1>1, <1>15, <3>3, <4>1, ConsumedGap DEF Frame
    <3>. QED  BY <1>15, <3>1, <3>2, <3>3
  <2>. QED  BY <1>10, <1>15, <2>1, <2>2, <2>3
<1>16. CASE Refresh(r)
  <2>1. PICK u \in Unsettled :
           LET settled == catalog.pending \cap (Present \ u)
               looked == [catalog EXCEPT !.entries = @ \cup settled, !.pending = @ \cap u]
           IN  \/ /\ catalog' = Consumed(looked)
                  /\ Goto(r, IF due \/ Invalid \/ journal.inode = 0 THEN "audit" ELSE "pin")
               \/ catalog' = looked /\ Goto(r, "audit")
    BY <1>16 DEF Refresh
  <2>. DEFINE cat == [catalog EXCEPT !.entries = @ \cup (catalog.pending \cap (Present \ u)), !.pending = @ \cap u]
  <2>2. u \subseteq Present /\ Present \subseteq Segments /\ Whole \subseteq Present
    BY UnsettledFacts
  <2>3. /\ cat \in Catalogs /\ cat.inode = catalog.inode /\ cat.offset = catalog.offset
        /\ cat.init = catalog.init
        /\ cat.entries = catalog.entries \cup (catalog.pending \cap (Present \ u))
        /\ cat.pending = catalog.pending \cap u
    BY <1>0, <2>2 DEF Catalogs
  <2>4. reader[r].pc = "refresh" /\ pc # "walk" /\ skipped' = skipped
    BY <1>6, <1>16 DEF Tails, Refresh, At
  <2>5. \A p \in Section : Goto(r, p) => pc = p
    BY <1>0, <1>6 DEF Goto, ReaderType
  <2>6. \/ catalog' = Consumed(cat) /\ (pc = "audit" \/ ~ Invalid)
        \/ catalog' = cat /\ pc = "audit"
    BY <2>1, <2>5 DEF Section
  <2>. HIDE DEF cat
  <2>7. \A s \in Whole : s \in catalog.entries \cup catalog.pending => s \in cat.entries \cup cat.pending
    BY <2>2, <2>3
  <2>8. CASE catalog' = Consumed(cat) /\ (pc = "audit" \/ ~ Invalid)
    BY <1>15, <2>3, <2>4, <2>7, <2>8
  <2>9. CASE catalog' = cat /\ pc = "audit"
    <3>1. Cursor'
      BY <1>1, <2>3, <2>9 DEF CacheInv, Cursor, Frame
    <3>2. NoSilentGap'
      BY <1>7, <2>9 DEF NoSilentGap, At, ReaderMoves
    <3>. QED  BY <1>10, <2>3, <2>9, <3>1, <3>2
  <2>. QED  BY <2>6, <2>8, <2>9
<1>17. CASE CatchUp(r)
  <2>1. reader[r].pc = "catchup" /\ pc # "walk"
    BY <1>6, <1>17 DEF Tails, CatchUp, At
  <2>2. pc = "pin"
    BY <1>0, <1>6, <1>17 DEF CatchUp, Goto, ReaderType
  <2>3. CASE catalog' = Consumed(catalog) /\ skipped' = (skipped \/ Invalid)
    <3>1. skipped' = TRUE \/ (~ Invalid /\ skipped' = skipped)
      BY <1>0, <2>3
    <3>2. \A s \in Whole : s \in catalog.entries \cup catalog.pending => s \in catalog.entries \cup catalog.pending
      OBVIOUS
    <3>. HIDE DEF Whole
    <3>3. skipped' # TRUE /\ pc # "audit" => ~ Invalid /\ skipped' = skipped
      BY <3>1
    <3>4. catalog \in Catalogs /\ pc # "walk" /\ reader[r].pc \notin {"audit", "walk"}
      BY <1>0, <2>1, <2>2
    <3>5. catalog' = Consumed(catalog)
      BY <2>3
    <3>. QED  BY <1>15, <3>2, <3>3, <3>4, <3>5
  <2>4. CASE UNCHANGED <<catalog, skipped>>
    <3>1. Cursor'
      BY <1>1, <2>4 DEF CacheInv, Cursor, Frame
    <3>2. \A q \in Readers : ~ At(q, "audit") /\ ~ At(q, "walk")
      BY <1>9, <2>1 DEF At, Section
    <3>3. NoSilentGap'
      BY <1>1, <2>4, <3>2 DEF CacheInv, NoSilentGap, Whole, Frame
    <3>. QED  BY <1>0, <1>10, <2>1, <2>4, <3>1, <3>3
  <2>. QED  BY <1>17, <2>3, <2>4 DEF CatchUp
<1>. QED  BY <1>11, <1>13, <1>14, <1>16, <1>17

-----------------------------------------------------------------------------
(* Theorems                                                                 *)

(* The initial state satisfies the invariant.                               *)
LEMMA CacheInvInit == Init => CacheInv
<1>1. SUFFICES ASSUME Init PROVE CacheInv
  OBVIOUS
<1>2. /\ NoCatalog \in Catalogs /\ ~ NoCatalog.init /\ NoCatalog.inode = 0 /\ NoCatalog.offset = 0
      /\ IdleReader \in ReaderType /\ IdleReader.pc = "idle" /\ NoPin \in PinType /\ ~ NoPin.live
  <2>1. NoCatalog \in Catalogs /\ ~ NoCatalog.init /\ NoCatalog.inode = 0 /\ NoCatalog.offset = 0
    BY CacheAssumption DEF NoCatalog, Catalogs
  <2>2. IdleReader \in ReaderType /\ IdleReader.pc = "idle"
    BY DEF IdleReader, ReaderType
  <2>3. NoPin \in PinType /\ ~ NoPin.live
    BY DEF NoPin, PinType
  <2>. QED  BY <2>1, <2>2, <2>3
<1>3. journal \in Journals /\ journal.inode = 0 /\ journal.chunks = <<>> /\ Len(journal.chunks) = 0
  BY <1>1 DEF Init, Journals
<1>4. TypeOK
  <2>1. stage \in [Segments -> Stages] /\ group \subseteq Segments
    BY <1>1 DEF Init, Stages
  <2>2. disk \in [Segments -> {"none", "whole", "damaged"}] /\ durable \subseteq Segments
    BY <1>1 DEF Init
  <2>3. reader \in [Readers -> ReaderType] /\ pin \in [Readers -> PinType] /\ orphan \subseteq Segments
    BY <1>1, <1>2 DEF Init
  <2>4. due \in BOOLEAN /\ skipped \in BOOLEAN
    BY <1>1, Zenon DEF Init
  <2>5. faults \in 0..MaxFaults
    BY <1>1, CacheAssumption DEF Init
  <2>6. catalog \in Catalogs
    BY <1>1, <1>2 DEF Init
  <2>7. retention \in [pc : {"idle", "found", "delete"}, victims : SUBSET Segments]
    BY <1>1 DEF Init
  <2>8. /\ journal.inode \in 0..(N + 1) /\ Len(journal.chunks) <= MaxJournal
        /\ \A i \in 1..Len(journal.chunks) : journal.chunks[i] \in Segments \cup {Torn}
    BY <1>3, CacheAssumption
  <2>. QED  BY <2>1, <2>2, <2>3, <2>4, <2>5, <2>6, <2>7, <2>8 DEF TypeOK, Catalogs, ReaderType, PinType
<1>5. Numbered
  <2>1. {s \in Segments : stage[s] \in Ended} \in SUBSET Segments
    OBVIOUS
  <2>2. Cardinality({s \in Segments : stage[s] \in Ended}) \in Nat
    BY <2>1, SegmentFacts, FS_Subset, FS_CardinalityType
  <2>. QED  BY <1>3, <2>2 DEF Numbered
<1>6. Named /\ Synced
  BY <1>1, <1>3 DEF Init, Named, Synced
<1>7. OneInside /\ LockHeld /\ VictimsSafe /\ PinsWhole /\ Rebuilding /\ NoSilentGap
  BY <1>1, <1>2 DEF Init, OneInside, LockHeld, VictimsSafe, PinsWhole, Rebuilding, NoSilentGap, Locked, Section
<1>8. Cursor
  BY <1>1, <1>2, <1>3 DEF Init, Cursor
<1>. QED  BY <1>4, <1>5, <1>6, <1>7, <1>8 DEF CacheInv

(* Every step keeps the invariant.                                          *)
LEMMA CacheInvStep ==
    ASSUME CacheInv, [Next]_vars
    PROVE  CacheInv'
<1>1. CASE UNCHANGED vars
  BY <1>1 DEF CacheInv, vars, sink, TypeOK, Numbered, Named, Synced, OneInside, LockHeld, VictimsSafe,
        PinsWhole, Cursor, Rebuilding, NoSilentGap, Locked, Whole, At
<1>2. CASE Sink \/ SinkCrash
  BY <1>2, SinkKeeps
<1>3. ASSUME NEW r \in Readers, Lookup(r) \/ PinExpires(r) \/ \E want \in Windows : Ask(r, want) PROVE CacheInv'
  <2>1. CASE Tails(r) \/ Walk(r) \/ Refresh(r) \/ Audit(r) \/ CatchUp(r)
    BY <2>1, CatalogKeeps
  <2>2. CASE \/ Enter(r) \/ Pin(r) \/ Unpin(r) \/ PinExpires(r)
             \/ (\E want \in Windows : Ask(r, want))
    BY <2>2, PlainIndexKeeps
  <2>. QED  BY <1>3, <2>1, <2>2 DEF Lookup
<1>4. CASE ReconcileDue \/ OrphanExpires
  <2>1. CASE Readers # {}
    BY <1>4, <2>1, PlainIndexKeeps
  <2>2. CASE Readers = {}
    <3>1. Frame /\ UNCHANGED <<catalog, skipped, reader, pin, faults>>
      BY <1>4 DEF ReconcileDue, OrphanExpires, Frame, sink, files
    <3>2. orphan' \subseteq Segments
      BY <1>4 DEF ReconcileDue, OrphanExpires, CacheInv, TypeOK
    <3>3. due' \in BOOLEAN
      <4>1. UNCHANGED due \/ due' = TRUE
        BY <1>4 DEF ReconcileDue, OrphanExpires
      <4>. QED  BY <4>1 DEF CacheInv, TypeOK
    <3>4. IndexTyped /\ PinsKept
      BY <3>1, <3>2, <3>3 DEF IndexTyped, PinsKept, CacheInv, TypeOK, Catalogs, ReaderType, PinType
    <3>5. OneInside' /\ LockHeld' /\ Rebuilding' /\ Cursor'
      BY <2>2, <3>1 DEF OneInside, LockHeld, Rebuilding, Cursor, CacheInv, Frame
    <3>6. NoSilentGap'
      BY <3>1 DEF NoSilentGap, CacheInv, Frame, Whole, At
    <3>. QED  BY <3>1, <3>4, <3>5, <3>6, IndexParts
  <2>. QED  BY <2>1, <2>2
<1>5. CASE IndexCrash
  BY <1>5, IndexCrashKeeps
<1>6. CASE Retention \/ RetentionCrash
  BY <1>6, RetentionKeeps
<1>7. CASE HostCrash
  BY <1>7, HostKeeps
<1>. QED  BY <1>1, <1>2, <1>3, <1>4, <1>5, <1>6, <1>7 DEF Next

(* CacheInv is an inductive invariant of the cache.                         *)
LEMMA CacheInvariant == Spec => []CacheInv
<1>1. CacheInv /\ [Next]_vars => CacheInv'
  BY CacheInvStep
<1>. QED  BY <1>1, CacheInvInit, PTL DEF Spec

(* Stages, files, journal, catalog, readers, markers and retention keep     *)
(* their types; a camera with N segments never needs more than N journal    *)
(* files.                                                                   *)
THEOREM TypeCorrect == Spec => []TypeOK
<1>1. CacheInv => TypeOK
  BY DEF CacheInv
<1>. QED  BY <1>1, CacheInvariant, PTL

(* What a lane reads under a live marker (SegmentReadPin) stays whole on    *)
(* disk while cleanup_once deletes.                                         *)
THEOREM PinHoldsHolds == Spec => []PinHolds
<1>1. CacheInv => PinHolds
  BY DEF CacheInv, PinsWhole, PinHolds, Whole, TypeOK
<1>. QED  BY <1>1, CacheInvariant, PTL

(* The journal cursor of RollingSegmentIndex leaves no silent gap.          *)
THEOREM NoSilentGapHolds == Spec => []NoSilentGap
<1>1. CacheInv => NoSilentGap
  BY DEF CacheInv
<1>. QED  BY <1>1, CacheInvariant, PTL

(* A segment AtomicSegmentPublisher has announced leaves the disk only as a *)
(* victim of retention under the lock, in no crash.                         *)
THEOREM PublishedSurvivesHolds == Spec => PublishedSurvives
<1>1. CacheInv /\ [Next]_vars =>
         [\A s \in Segments :
            stage[s] \in {"announced", "published"} /\ disk[s] # "none" /\ disk'[s] = "none"
                => Locked /\ s \in retention.victims]_vars
  <2>1. SUFFICES ASSUME CacheInv, Next, NEW s \in Segments,
                        stage[s] \in {"announced", "published"}, disk[s] # "none", disk'[s] = "none"
                 PROVE  Locked /\ s \in retention.victims
    OBVIOUS
  <2>2. CASE Sink \/ SinkCrash
    BY <2>1, <2>2, SinkSteps DEF CacheInv, SinkEffect
  <2>3. CASE Retention \/ RetentionCrash
    BY <2>1, <2>3, RetentionSteps DEF DeletesOnly
  <2>4. CASE HostCrash
    BY <2>1, <2>4, HostKeeps DEF Fenced
  <2>5. CASE UNCHANGED disk
    BY <2>1, <2>5
  <2>. QED  BY <2>1, <2>2, <2>3, <2>4, <2>5 DEF Next, Lookup, Enter, Tails, Walk, Refresh, Audit, CatchUp, Pin,
              Unpin, PinExpires, Ask, ReconcileDue, OrphanExpires, IndexCrash, files
<1>. QED  BY <1>1, CacheInvariant, PTL DEF Spec, PublishedSurvives
=============================================================================
