---------------------------- MODULE RollingCache ----------------------------
(***************************************************************************)
(* The rolling video cache of one camera and runtime epoch.  The sink      *)
(* (services/rolling-cache-sink/app/publishing.py) publishes closed        *)
(* fragments as segment directories and announces them in a journal; the   *)
(* media-worker (segment_index.py) keeps a catalog of them, and its lanes  *)
(* pin the segments they read; the maintenance script                      *)
(* (scripts/runtime/rolling_cache_maintenance.py) deletes old ones.        *)
(*                                                                         *)
(* The three share a directory tree, a mutation lock (flock) that readers  *)
(* take shared and retention takes exclusively, and a journal that is not  *)
(* synced.  Every process may die, and the host may, which also loses what *)
(* has not been synced.  A segment is its number in the order of time; its *)
(* metadata, manifest and frame rows are reduced to whether they are       *)
(* whole.  A deletion that a host crash undoes is not modelled.            *)
(***************************************************************************)
EXTENDS Integers, Sequences, FiniteSets, FiniteSetsExt

CONSTANTS
    N,           \* bound: segments of the camera
    Windows,     \* windows of source time that jobs ask for, as segments
    Readers,     \* lane threads of the media-worker
    GroupLimit,  \* final_parent_group_limit
    MaxJournal,  \* SEGMENT_PUBLICATION_JOURNAL_MAX_BYTES, in records
    MaxFaults    \* bound: crashes, I/O errors and expired pins

ASSUME CacheAssumption ==
    /\ N \in Nat \ {0} /\ IsFiniteSet(Readers)
    /\ Windows \subseteq SUBSET (1..N) \ {{}}
    /\ GroupLimit \in Nat \ {0} /\ MaxJournal \in Nat \ {0} /\ MaxFaults \in Nat

Segments == 1..N

VARIABLES
    stage,      \* stage[s]: how far the publication of fragment s has come
    group,      \* the cohort the publication worker is committing
    disk,       \* disk[s]: the final directory of s
    durable,    \* directories whose rename has been synced
    journal,    \* publication journal: inode and appended chunks
    catalog,    \* _Catalog: entries, pending and journal cursor
    due,        \* next_reconcile_at has passed
    reader,     \* reader[r]: program counter and wanted window
    pin,        \* pin[r]: marker file of r, live or expired
    orphan,     \* segments in the live markers of dead processes
    retention,  \* program counter and victims of the maintenance script
    skipped,    \* a trailing journal read has dropped its demand for an audit
    faults

sink == <<stage, group>>
vars == <<sink, disk, durable, journal, catalog, due, reader, pin, orphan, retention,
          skipped, faults>>

-----------------------------------------------------------------------------
Stages == {"open", "queued", "staged", "renamed", "fenced", "announced", "published", "failed"}
Torn == 0  \* the part of a record that was written before its append failed
NoCatalog == [init |-> FALSE, entries |-> {}, pending |-> {}, inode |-> 0, offset |-> 0]
NoPin == [segs |-> {}, live |-> FALSE]
IdleReader == [pc |-> "idle", want |-> {}]
Fault == faults < MaxFaults /\ faults' = faults + 1

Init ==
    /\ stage = [s \in Segments |-> "open"]
    /\ group = {}
    /\ disk = [s \in Segments |-> "none"]
    /\ durable = {}
    /\ journal = [inode |-> 0, chunks |-> <<>>]
    /\ catalog = NoCatalog
    /\ due = FALSE
    /\ reader = [r \in Readers |-> IdleReader]
    /\ pin = [r \in Readers |-> NoPin]
    /\ orphan = {}
    /\ retention = [pc |-> "idle", victims |-> {}]
    /\ skipped = FALSE
    /\ faults = 0

Whole == {s \in Segments : disk[s] = "whole"}
Present == {s \in Segments : disk[s] # "none"}
InGroup(st) == {s \in group : stage[s] = st}

-----------------------------------------------------------------------------
(* The sink: FragmentLedger, BoundedPublicationDispatcher and               *)
(* AtomicSegmentPublisher                                                   *)

indexVars == <<catalog, due, reader, pin, orphan, skipped>>

(* splitmux closes the fragment; it joins the dispatcher's queue. *)
CloseFragment(s) ==
    /\ stage[s] = "open"
    /\ \A t \in 1..(s - 1) : stage[t] # "open"
    /\ stage' = [stage EXCEPT ![s] = "queued"]
    /\ UNCHANGED <<group, disk, durable, journal, indexVars, retention, faults>>

(* _run takes what has queued up, to the limit of the group. *)
TakeGroup ==
    LET queue == {s \in Segments : stage[s] = "queued"} IN
    /\ group = {}
    /\ queue # {}
    /\ group' = {s \in queue : Cardinality({t \in queue : t < s}) < GroupLimit}
    /\ UNCHANGED <<stage, disk, durable, journal, indexVars, retention, faults>>

(* stage_publication and _prepare_final_parent_commit: the metadata is      *)
(* written and synced in the staging directory.                             *)
Prepare ==
    /\ InGroup("queued") # {}
    /\ LET s == Min(InGroup("queued")) IN
        \/ stage' = [stage EXCEPT ![s] = "staged"] /\ UNCHANGED faults
        \/ stage' = [stage EXCEPT ![s] = "failed"] /\ Fault
    /\ UNCHANGED <<group, disk, durable, journal, indexVars, retention>>

Rename ==
    /\ InGroup("queued") = {} /\ InGroup("staged") # {}
    /\ LET s == Min(InGroup("staged")) IN
        \/ /\ stage' = [stage EXCEPT ![s] = "renamed"]
           /\ disk' = [disk EXCEPT ![s] = "whole"]
           /\ UNCHANGED faults
        \/ /\ stage' = [stage EXCEPT ![s] = "failed"]
           /\ Fault
           /\ UNCHANGED disk
    /\ UNCHANGED <<group, durable, journal, indexVars, retention>>

(* mutant: one rename of the cohort is synced *)
FenceFirstRename ==
    /\ InGroup("queued") \cup InGroup("staged") = {}
    /\ InGroup("renamed") # {}
    /\ stage' = [s \in Segments |-> IF s \in InGroup("renamed") THEN "fenced" ELSE stage[s]]
    /\ durable' = durable \cup {Min(InGroup("renamed"))}
    /\ UNCHANGED <<group, disk, journal, indexVars, retention, faults>>

(* One fsync of the parent directory for all renames; if it fails the whole *)
(* cohort has failed although its segments are visible.                     *)
Fence ==
    /\ InGroup("queued") \cup InGroup("staged") = {}
    /\ InGroup("renamed") # {}
    /\ \/ /\ stage' = [s \in Segments |-> IF s \in InGroup("renamed") THEN "fenced" ELSE stage[s]]
          /\ durable' = durable \cup Present
          /\ UNCHANGED faults
       \/ /\ stage' = [s \in Segments |-> IF s \in InGroup("renamed") THEN "failed" ELSE stage[s]]
          /\ Fault
          /\ UNCHANGED durable
    /\ UNCHANGED <<group, disk, journal, indexVars, retention>>

(* Append under the journal's lock; a full journal is replaced by a new     *)
(* file with the one record.  A failed append is only logged, and may leave *)
(* part of the record behind.                                               *)
Appended(s) ==
    IF Len(journal.chunks) < MaxJournal
    THEN [inode |-> Max({1, journal.inode}), chunks |-> Append(journal.chunks, s)]
    ELSE [inode |-> journal.inode + 1, chunks |-> <<s>>]

AppendJournal ==
    /\ InGroup("queued") \cup InGroup("staged") \cup InGroup("renamed") = {}
    /\ InGroup("fenced") # {}
    /\ LET s == Min(InGroup("fenced")) IN
        /\ stage' = [stage EXCEPT ![s] = "announced"]
        /\ \/ journal' = Appended(s) /\ UNCHANGED faults
           \/ Fault /\ UNCHANGED journal
           \/ Len(journal.chunks) < MaxJournal /\ Fault /\ journal' = Appended(Torn)
    /\ UNCHANGED <<group, disk, durable, indexVars, retention>>

(* _complete_final_parent_group_work: the callbacks of the cohort. *)
Finish ==
    /\ group # {}
    /\ group = InGroup("announced") \cup InGroup("failed")
    /\ stage' = [s \in Segments |-> IF s \in InGroup("announced") THEN "published" ELSE stage[s]]
    /\ group' = {}
    /\ UNCHANGED <<disk, durable, journal, indexVars, retention, faults>>

(* The sink dies; the next session has fragments of its own. *)
SinkStopped ==
    /\ stage' = [s \in Segments |->
                    IF stage[s] \in {"open", "published"} THEN stage[s] ELSE "failed"]
    /\ group' = {}

SinkCrash ==
    /\ Fault
    /\ \E s \in Segments : stage[s] \notin {"open", "published", "failed"}
    /\ SinkStopped
    /\ UNCHANGED <<disk, durable, journal, indexVars, retention>>

-----------------------------------------------------------------------------
(* The index: RollingSegmentIndex                                           *)

files == <<disk, durable>>
At(r, pc) == reader[r].pc = pc
Goto(r, pc) == reader' = [reader EXCEPT ![r].pc = pc]

(* Between these labels a reader holds the catalog's gate and the mutation  *)
(* lock, shared.                                                            *)
Section == {"tails", "walk", "refresh", "audit", "catchup", "pin"}
Locked == retention.pc = "delete"

(* A remux or image job for a window of the source's time. *)
Ask(r, want) ==
    /\ At(r, "idle")
    /\ reader' = [reader EXCEPT ![r].pc = "ask", ![r].want = want]
    /\ UNCHANGED <<sink, files, journal, catalog, due, pin, orphan, skipped, retention, faults>>

(* pin_source_segments takes the gate and the lock; find_segments rebuilds, *)
(* audits, refreshes or finds the catalog fresh enough.                     *)
Enter(r) ==
    /\ At(r, "ask")
    /\ \A q \in Readers : reader[q].pc \notin Section
    /\ ~ Locked
    /\ \/ ~ catalog.init /\ Goto(r, "tails")
       \/ catalog.init /\ Goto(r, "refresh")
       \/ catalog.init /\ ~ due /\ Goto(r, "pin")
    /\ UNCHANGED <<sink, files, journal, catalog, due, pin, orphan, skipped, retention, faults>>

(* _rebuild notes the end of the journal before it walks the tree. *)
Tails(r) ==
    /\ At(r, "tails")
    /\ catalog' = [catalog EXCEPT !.inode = journal.inode, !.offset = Len(journal.chunks)]
    /\ Goto(r, "walk")
    /\ UNCHANGED <<sink, files, journal, due, pin, orphan, skipped, retention, faults>>

(* Segments that _refresh_candidate does not find settled yet: those that   *)
(* are damaged, and some of those still being published.                    *)
Unsettled ==
    {(Present \ Whole) \cup young : young \in SUBSET {s \in Whole : s \in group}}

Walk(r) ==
    /\ At(r, "walk")
    /\ \E pending \in Unsettled :
        catalog' = [catalog EXCEPT !.init = TRUE, !.entries = Present \ pending, !.pending = pending]
    /\ Goto(r, "catchup")
    /\ due' = FALSE
    /\ skipped' = FALSE
    /\ UNCHANGED <<sink, files, journal, pin, orphan, retention, faults>>

(* mutant: a replaced journal is not noticed *)
ResetNever == FALSE

(* The chunks of the journal from the cursor to the last newline.  A record *)
(* that follows a torn one is part of the same, invalid line, unless the    *)
(* cursor is between the two.  A journal shorter than the cursor counts as  *)
(* replaced too; only a crash of the host shortens one, and it takes the    *)
(* catalog with the cursor along.                                           *)
Reset == catalog.inode # 0 /\ catalog.inode # journal.inode

Start == IF Reset THEN 0 ELSE catalog.offset
Complete ==
    {i \in (Start + 1)..Len(journal.chunks) :
        \E j \in i..Len(journal.chunks) : journal.chunks[j] # Torn}
Records ==
    {journal.chunks[i] : i \in {j \in Complete :
        journal.chunks[j] # Torn /\ (j = Start + 1 \/ journal.chunks[j - 1] # Torn)}}
Invalid == Reset \/ \E i \in Complete : journal.chunks[i] = Torn

Consumed(cat) ==
    [cat EXCEPT !.entries = @ \cup Records, !.pending = @ \ Records,
                !.inode = journal.inode,
                !.offset = Max({Start} \cup Complete)]

(* _refresh: pending candidates are looked at again, then the journal is    *)
(* read.  An invalid line, a replaced journal, a read error or a due        *)
(* reconciliation lead to the audit of the directory; so does a missing     *)
(* journal.                                                                 *)
Refresh(r) ==
    /\ At(r, "refresh")
    /\ \E unsettled \in Unsettled :
        LET settled == catalog.pending \cap (Present \ unsettled)
            looked == [catalog EXCEPT !.entries = @ \cup settled,
                                      !.pending = @ \cap unsettled]
        IN
        \/ /\ catalog' = Consumed(looked)
           /\ Goto(r, IF due \/ Invalid \/ journal.inode = 0 THEN "audit" ELSE "pin")
           /\ UNCHANGED faults
        \/ /\ catalog' = looked
           /\ Goto(r, "audit")
           /\ Fault
    /\ UNCHANGED <<sink, files, journal, due, pin, orphan, skipped, retention>>

(* mutant: the audit only drops entries *)
AuditKnown(r) ==
    /\ At(r, "audit")
    /\ catalog' = [catalog EXCEPT !.entries = @ \cap Present]
    /\ Goto(r, "catchup")
    /\ due' = FALSE
    /\ skipped' = FALSE
    /\ UNCHANGED <<sink, files, journal, pin, orphan, retention, faults>>

(* mutant: the audit only adds entries *)
AuditNewOnly(r) ==
    /\ At(r, "audit")
    /\ \E unsettled \in Unsettled :
        catalog' = [catalog EXCEPT !.entries = @ \cup (Present \ unsettled),
                                   !.pending = unsettled \ catalog.entries]
    /\ Goto(r, "catchup")
    /\ due' = FALSE
    /\ skipped' = FALSE
    /\ UNCHANGED <<sink, files, journal, pin, orphan, retention, faults>>

(* The membership audit: entries whose directory is there are kept unseen,  *)
(* the others go, and new directories are candidates.                       *)
Audit(r) ==
    /\ At(r, "audit")
    /\ \E unsettled \in Unsettled :
        LET known == catalog.entries \cap Present IN
        catalog' = [catalog EXCEPT !.entries = known \cup (Present \ unsettled),
                                   !.pending = unsettled \ known]
    /\ Goto(r, "catchup")
    /\ due' = FALSE
    /\ skipped' = FALSE
    /\ UNCHANGED <<sink, files, journal, pin, orphan, retention, faults>>

(* After a walk or an audit the journal is read once more; what this read   *)
(* says about the need of an audit is dropped.                              *)
CatchUp(r) ==
    /\ At(r, "catchup")
    /\ \/ catalog' = Consumed(catalog) /\ skipped' = (skipped \/ Invalid) /\ UNCHANGED faults
       \/ Fault /\ UNCHANGED <<catalog, skipped>>
    /\ Goto(r, "pin")
    /\ UNCHANGED <<sink, files, journal, due, pin, orphan, retention>>

(* _source_window_candidates: the segments of the window and one more on    *)
(* either side; all of them if none is in the window.                       *)
Selected(want) ==
    LET entries == catalog.entries
        inside == entries \cap want
        low == {s \in entries : s < Min(inside)}
        high == {s \in entries : s > Max(inside)}
    IN  IF inside = {} THEN entries
        ELSE inside \cup (IF low = {} THEN {} ELSE {Max(low)})
                    \cup (IF high = {} THEN {} ELSE {Min(high)})

(* SegmentReadPin._activate_locked checks the files and writes the marker.  *)
(* A segment that is missing or changed, or a window that is not covered,   *)
(* sends the task back to be tried again, unless its deadline has passed,   *)
(* which only matters here for a request that cannot be served.             *)
Pinnable(segs) == segs \subseteq Whole

Pin(r) ==
    LET segs == Selected(reader[r].want) IN
    /\ At(r, "pin")
    /\ IF Pinnable(segs) /\ reader[r].want \subseteq segs
       THEN /\ pin' = [pin EXCEPT ![r] = [segs |-> segs, live |-> TRUE]]
            /\ Goto(r, "read")
       ELSE /\ \/ Goto(r, "ask")
               \/ ~ reader[r].want \subseteq Whole /\ reader' = [reader EXCEPT ![r] = IdleReader]
            /\ UNCHANGED pin
    /\ UNCHANGED <<sink, files, journal, catalog, due, orphan, skipped, retention, faults>>

(* __exit__ removes the marker under the shared lock. *)
Unpin(r) ==
    /\ At(r, "read")
    /\ ~ Locked
    /\ pin' = [pin EXCEPT ![r] = NoPin]
    /\ reader' = [reader EXCEPT ![r] = IdleReader]
    /\ UNCHANGED <<sink, files, journal, catalog, due, orphan, skipped, retention, faults>>

ReconcileDue ==
    /\ catalog.init
    /\ ~ due
    /\ due' = TRUE
    /\ UNCHANGED <<sink, files, journal, catalog, reader, pin, orphan, skipped, retention, faults>>

PinExpires(r) ==
    /\ pin[r].live
    /\ Fault
    /\ pin' = [pin EXCEPT ![r].live = FALSE]
    /\ UNCHANGED <<sink, files, journal, catalog, due, reader, orphan, skipped, retention>>

OrphanExpires ==
    /\ orphan # {}
    /\ orphan' = {}
    /\ UNCHANGED <<sink, files, journal, catalog, due, reader, pin, skipped, retention, faults>>

(* The media-worker dies: its catalog is gone, its markers stay. *)
IndexStopped ==
    /\ catalog' = NoCatalog
    /\ due' = FALSE
    /\ skipped' = FALSE
    /\ reader' = [r \in Readers |-> IdleReader]
    /\ pin' = [r \in Readers |-> NoPin]
    /\ orphan' = orphan \cup UNION {pin[r].segs : r \in {q \in Readers : pin[q].live}}

IndexCrash ==
    /\ Fault
    /\ IndexStopped
    /\ UNCHANGED <<sink, files, journal, retention>>

-----------------------------------------------------------------------------
(* Retention: cleanup_once                                                  *)

(* Segments older than the cutoff, found without any lock. *)
Discover(cutoff) ==
    /\ retention.pc = "idle"
    /\ retention' = [pc |-> "found", victims |-> {s \in Whole : s <= cutoff}]
    /\ retention'.victims # {}
    /\ UNCHANGED <<sink, files, journal, indexVars, faults>>

(* The markers are read once the exclusive lock is held. *)
Pinned == orphan \cup UNION {pin[r].segs : r \in {q \in Readers : pin[q].live}}

(* mutant: the readers' shared lock is not waited for *)
LockTreeAtOnce ==
    /\ retention.pc = "found"
    /\ retention' = [pc |-> "delete", victims |-> retention.victims \ Pinned]
    /\ UNCHANGED <<sink, files, journal, indexVars, faults>>

LockTree ==
    /\ retention.pc = "found"
    /\ \A r \in Readers : reader[r].pc \notin Section
    /\ retention' = [pc |-> "delete", victims |-> retention.victims \ Pinned]
    /\ UNCHANGED <<sink, files, journal, indexVars, faults>>

(* The oldest victim goes if it is still as it was found. *)
Delete ==
    /\ retention.pc = "delete"
    /\ retention.victims # {}
    /\ LET s == Min(retention.victims) IN
        /\ durable' = durable \ {s}
        /\ retention' = [retention EXCEPT !.victims = @ \ {s}]
        /\ disk' = [disk EXCEPT ![s] = IF @ = "whole" THEN "none" ELSE @]
    /\ UNCHANGED <<sink, journal, indexVars, faults>>

UnlockTree ==
    /\ retention.pc = "delete"
    /\ retention.victims = {}
    /\ retention' = [retention EXCEPT !.pc = "idle"]
    /\ UNCHANGED <<sink, files, journal, indexVars, faults>>

(* The script dies, perhaps while it removes the files of a segment. *)
RetentionCrash ==
    /\ retention.pc # "idle"
    /\ Fault
    /\ retention' = [pc |-> "idle", victims |-> {}]
    /\ \/ UNCHANGED disk
       \/ /\ retention.pc = "delete" /\ retention.victims # {}
          /\ disk[Min(retention.victims)] = "whole"
          /\ disk' = [disk EXCEPT ![Min(retention.victims)] = "damaged"]
    /\ UNCHANGED <<sink, durable, journal, indexVars>>

(* The host dies.  A rename that was not synced may be undone, a video,     *)
(* which is never synced, may be cut short, and the journal may lose its    *)
(* end.                                                                     *)
HostCrash ==
    /\ Fault
    /\ \E undone \in SUBSET (Present \ durable), short \in SUBSET Whole :
        disk' = [s \in Segments |-> IF s \in undone THEN "none"
                                    ELSE IF s \in short THEN "damaged" ELSE disk[s]]
    /\ \E n \in 0..Len(journal.chunks) : journal' = [journal EXCEPT !.chunks = SubSeq(@, 1, n)]
    /\ SinkStopped
    /\ IndexStopped
    /\ retention' = [pc |-> "idle", victims |-> {}]
    /\ UNCHANGED durable

-----------------------------------------------------------------------------
Sink == (\E s \in Segments : CloseFragment(s)) \/ TakeGroup \/ Prepare \/ Rename \/ Fence
            \/ AppendJournal \/ Finish

Lookup(r) ==
    \/ Enter(r) \/ Tails(r) \/ Walk(r) \/ Refresh(r) \/ Audit(r) \/ CatchUp(r) \/ Pin(r)
    \/ Unpin(r)

Retention == (\E s \in Segments : Discover(s)) \/ LockTree \/ Delete \/ UnlockTree

Next ==
    \/ Sink \/ SinkCrash
    \/ \E r \in Readers : Lookup(r) \/ PinExpires(r) \/ \E want \in Windows : Ask(r, want)
    \/ ReconcileDue \/ OrphanExpires \/ IndexCrash
    \/ Retention \/ RetentionCrash
    \/ HostCrash

Spec == Init /\ [][Next]_vars

(***************************************************************************)
(* The publication worker, the maintenance script and the lanes go on;     *)
(* there is always another request, a lane that waits for the gate or the  *)
(* lock gets it, and the reconciliation comes due every 30 s.  No camera   *)
(* need produce a segment and nothing need be deleted.                     *)
(***************************************************************************)
Fairness ==
    /\ WF_vars(TakeGroup \/ Prepare \/ Rename \/ Fence \/ AppendJournal \/ Finish)
    /\ WF_vars(LockTree \/ Delete \/ UnlockTree)
    /\ WF_vars(ReconcileDue)
    /\ \A r \in Readers :
        /\ WF_vars(\E want \in Windows : Ask(r, want))
        /\ WF_vars(Tails(r) \/ Walk(r) \/ Refresh(r) \/ Audit(r) \/ CatchUp(r) \/ Pin(r))
        /\ SF_vars(Enter(r)) /\ SF_vars(Unpin(r))

FairSpec == Spec /\ Fairness
-----------------------------------------------------------------------------
(* Properties                                                               *)

(* Every variable keeps its type; markers and cursors name what there is.   *)
TypeOK ==
    /\ stage \in [Segments -> Stages] /\ group \subseteq Segments
    /\ disk \in [Segments -> {"none", "whole", "damaged"}] /\ durable \subseteq Segments
    /\ journal.inode \in 0..(N + 1) /\ Len(journal.chunks) <= MaxJournal
    /\ \A i \in 1..Len(journal.chunks) : journal.chunks[i] \in Segments \cup {Torn}
    /\ catalog \in [init : BOOLEAN, entries : SUBSET Segments, pending : SUBSET Segments,
                    inode : 0..(N + 1), offset : 0..MaxJournal]
    /\ due \in BOOLEAN /\ skipped \in BOOLEAN
    /\ reader \in [Readers -> [pc : Section \cup {"idle", "ask", "read"},
                               want : SUBSET Segments]]
    /\ pin \in [Readers -> [segs : SUBSET Segments, live : BOOLEAN]]
    /\ orphan \subseteq Segments
    /\ retention \in [pc : {"idle", "found", "delete"}, victims : SUBSET Segments]
    /\ faults \in 0..MaxFaults

(* What a lane reads under a marker that has not expired stays whole on     *)
(* disk, however retention and lookups interleave, whatever the catalog     *)
(* still believes, and although retention looked for victims before it had  *)
(* the lock.                                                                *)
PinHolds ==
    \A r \in Readers : At(r, "read") /\ pin[r].live => pin[r].segs \subseteq Whole

(* A segment that has been announced in the journal or reported as          *)
(* published to the sink's callback leaves the disk only as a victim that   *)
(* retention holds the lock for, not in any crash of a process or the host. *)
PublishedSurvives ==
    [][\A s \in Segments :
        stage[s] \in {"announced", "published"} /\ disk[s] # "none" /\ disk'[s] = "none"
            => Locked /\ s \in retention.victims]_vars

(* The cursor leaves no gap: a segment on disk with a record in the journal *)
(* is known to the catalog, or the record is still ahead of the cursor, or  *)
(* the journal was replaced since, which the next read will notice.  The    *)
(* one exception is a trailing read that found the journal replaced or      *)
(* invalid, and it lasts until the next audit.                              *)
NoSilentGap ==
    \A s \in Segments :
        /\ catalog.init /\ ~ skipped
        /\ s \in Whole
        /\ \E i \in 1..Len(journal.chunks) : journal.chunks[i] = s
        => \/ s \in catalog.entries \cup catalog.pending
           \/ \E r \in Readers : At(r, "audit") \/ At(r, "walk")
           \/ catalog.inode # journal.inode
           \/ \E i \in (catalog.offset + 1)..Len(journal.chunks) : journal.chunks[i] = s

(* A segment that is in its final directory gets into the catalog, though   *)
(* its announcement failed, was torn, was rotated away or was lost.         *)
EventuallyIndexed ==
    \A s \in Segments : disk[s] = "whole" ~> (s \in catalog.entries \/ disk[s] # "whole")

(* A request for a window that is on disk is served, whatever stale entries *)
(* retention leaves in the catalog.  A segment that is only half deleted is *)
(* excepted: the audit does not see it.                                     *)
RequestServed ==
    \A r \in Readers :
        At(r, "ask") ~> (At(r, "read") \/ ~ reader[r].want \subseteq Whole \/ Present # Whole)
=============================================================================
