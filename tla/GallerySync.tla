---------------------------- MODULE GallerySync ----------------------------
(***************************************************************************)
(* The Qdrant index of the face gallery: triggers of migration 021 write   *)
(* an outbox row in the transaction of every gallery or person change; a   *)
(* sync worker (sync_qdrant_gallery.py --mode run) claims the rows and     *)
(* brings the point of each gallery row up to date; an operator may run    *)
(* --mode drain-outbox, bootstrap or reconcile beside it.                  *)
(*                                                                         *)
(* Vectors and payloads are abstracted to the version of the gallery row   *)
(* they were read from.  A row or person is never activated again: no      *)
(* statement of the repository does so.                                    *)
(***************************************************************************)
EXTENDS Integers, Sequences, FiniteSets, FiniteSetsExt

CONSTANTS
    N,            \* gallery rows 1..N, in the order of their ids
    Seeded,       \* the first rows, registered and indexed at the start
    Persons,
    PersonOf,     \* [1..N -> Persons]
    Workers,      \* processes that drain the outbox
    Operators,    \* processes that run bootstrap or reconcile
    BatchSize,    \* QDRANT_SYNC_BATCH_SIZE
    MaxAttempts,  \* QDRANT_SYNC_MAX_ATTEMPTS
    MaxChanges,   \* bound: changes of the gallery and of persons
    MaxCommands,  \* bound: commands of an operator
    MaxFaults     \* bound: failed calls, crashes, rows that time out early

ASSUME GallerySyncAssumptions ==
    /\ N \in Nat \ {0} /\ BatchSize \in Nat \ {0} /\ MaxAttempts \in Nat \ {0}
    /\ Seeded \in 0..N /\ PersonOf \in [1..N -> Persons]
    /\ Workers \cap Operators = {} /\ IsFiniteSet(Workers)
    /\ MaxChanges \in Nat /\ MaxCommands \in Nat /\ MaxFaults \in Nat

Galleries == 1..N
Processes == Workers \cup Operators
NoPoint == 0    \* the version of a point that does not exist

VARIABLES
    gallery,   \* person_gallery_embeddings: version and is_active of each row
    active,    \* persons.is_active
    closing,   \* an open UPDATE of persons and the gallery rows its trigger saw
    outbox,    \* gallery_vector_sync_outbox, in the order of insertion
    point,     \* Qdrant: the version each point was built from
    worker,    \* a drain_outbox call of each worker
    command,   \* a bootstrap or reconcile call of each operator
    overtaken, \* what another process wrote since a process read its source
    doubtful,  \* points whose last write had been overtaken
    changes,
    faults

vars == <<gallery, active, closing, outbox, point, worker, command,
          overtaken, doubtful, changes, faults>>
database == <<gallery, active, closing, changes>>
index == <<point, overtaken, doubtful>>

----------------------------------------------------------------------------
(* The tables.                                                             *)

Oldest(S, n) == {i \in S : Cardinality({j \in S : j < i}) < n}

(* gallery_row_by_id, active_gallery_rows: the version to be indexed.      *)
Source(g) ==
    IF gallery[g].is_active /\ active[PersonOf[g]] THEN gallery[g].version ELSE NoPoint

Entry(g, operation) ==
    [gallery |-> g, operation |-> operation, status |-> "pending",
     attempts |-> 0, ripe |-> TRUE]

RowsWith(statuses) == {i \in DOMAIN outbox : outbox[i].status \in statuses}

(* A row whose change may not have reached the index.                      *)
Unsettled(g) ==
    \E i \in RowsWith({"pending", "processing", "retry", "poisoned"}) : outbox[i].gallery = g

----------------------------------------------------------------------------
(* Who has read the source of a point and will write it from what it read. *)

Reads(p) ==
    IF p \in Workers
    THEN IF worker[p].pc = "write" /\ outbox[worker[p].row].operation = "upsert"
         THEN {outbox[worker[p].row].gallery} ELSE {}
    ELSE command[p].absent \cup DOMAIN command[p].page

(* p changes the points of G to the versions of new.                       *)
WritePoints(p, G, new) ==
    /\ point' = [g \in Galleries |-> IF g \in G THEN new[g] ELSE point[g]]
    /\ overtaken' = [q \in Processes |->
            IF q = p THEN overtaken[q] \ G ELSE overtaken[q] \cup (G \cap Reads(q))]
    /\ doubtful' = (doubtful \ G) \cup (G \cap overtaken[p])

(* A change of the gallery, or a write of a worker, that a command sees.   *)
Disturbed == [o \in Operators |-> [command[o] EXCEPT !.undisturbed = FALSE]]

Idle == [pc |-> "idle", claimed |-> <<>>, row |-> 0, version |-> NoPoint]
Resting(n) ==
    [pc |-> "idle", mode |-> "bootstrap", after |-> 0, page |-> <<>>, absent |-> {},
     extra |-> {}, undisturbed |-> FALSE, runs |-> n]

Init ==
    /\ gallery = [g \in Galleries |->
            [version |-> IF g <= Seeded THEN 1 ELSE 0, is_active |-> g <= Seeded]]
    /\ active = [p \in Persons |-> TRUE]
    /\ closing = [p \in Persons |-> [open |-> FALSE, seen |-> {}]]
    /\ outbox = <<>>
    /\ point = [g \in Galleries |-> IF g <= Seeded THEN 1 ELSE NoPoint]
    /\ worker = [w \in Workers |-> Idle]
    /\ command = [o \in Operators |-> Resting(0)]
    /\ overtaken = [p \in Processes |-> {}]
    /\ doubtful = {}
    /\ changes = 0 /\ faults = 0

----------------------------------------------------------------------------
(* mutant: no row while an earlier one is not done *)
EnqueuedOnce(g, is_active) ==
    IF Unsettled(g) THEN outbox
    ELSE Append(outbox, Entry(g, IF is_active THEN "upsert" ELSE "delete"))

(* mutant: nothing is reclaimed *)
ReclaimableNever == {}

(* mutant: a row is given up as completed *)
FailedStatusGivenUp(attempts) == IF attempts >= MaxAttempts THEN "completed" ELSE "retry"

(* mutant: a page starts one id late *)
PageSkipping(after) ==
    Oldest({g \in Galleries : g > after + 1 /\ Source(g) # NoPoint}, BatchSize)

----------------------------------------------------------------------------
(* Changes of the gallery.  Each is a statement of an autocommit           *)
(* connection, and its trigger runs in the same transaction.               *)

Change == changes < MaxChanges /\ changes' = changes + 1
Fault == faults < MaxFaults /\ faults' = faults + 1

(* gallery_vector_sync_person_gallery_trigger looks at the row alone.      *)
Enqueued(g, is_active) ==
    Append(outbox, Entry(g, IF is_active THEN "upsert" ELSE "delete"))

(* add_embedding: a new row, also for a person that is not active.         *)
Register(g) ==
    /\ Change
    /\ gallery[g].version = 0
    /\ \A h \in Galleries : h < g => gallery[h].version # 0
    /\ gallery' = [gallery EXCEPT ![g] = [version |-> 1, is_active |-> TRUE]]
    /\ outbox' = Enqueued(g, TRUE)
    /\ command' = Disturbed
    /\ UNCHANGED <<active, closing, worker, index, faults>>

(* _promote_gallery_primary: is_primary of an active row changes.          *)
Promote(g) ==
    /\ Change
    /\ gallery[g].is_active
    /\ gallery' = [gallery EXCEPT ![g].version = @ + 1]
    /\ outbox' = Enqueued(g, TRUE)
    /\ command' = Disturbed
    /\ UNCHANGED <<active, closing, worker, index, faults>>

(* soft_delete_gallery, deactivate.                                        *)
Remove(g) ==
    /\ Change
    /\ gallery[g].is_active
    /\ gallery' = [gallery EXCEPT ![g].is_active = FALSE]
    /\ outbox' = Enqueued(g, FALSE)
    /\ command' = Disturbed
    /\ UNCHANGED <<active, closing, worker, index, faults>>

(* soft_delete_person: gallery_vector_sync_person_trigger loops over the   *)
(* rows that are committed when the statement ends ...                     *)
RemovePerson(p) ==
    /\ Change
    /\ active[p] /\ ~closing[p].open
    /\ closing' = [closing EXCEPT ![p] =
            [open |-> TRUE, seen |-> {g \in Galleries : PersonOf[g] = p /\ gallery[g].version # 0}]]
    /\ UNCHANGED <<gallery, active, outbox, worker, command, index, faults>>

(* ... and its commit makes the change and the outbox rows visible.  A row *)
(* registered in between is in doubt, as is a version of it read before.   *)
RemovePersonCommit(p) ==
    LET Missed == {g \in Galleries : PersonOf[g] = p /\ gallery[g].version # 0} \ closing[p].seen IN
    /\ closing[p].open
    /\ active' = [active EXCEPT ![p] = FALSE]
    /\ closing' = [closing EXCEPT ![p] = [open |-> FALSE, seen |-> {}]]
    /\ \E ids \in [1..Cardinality(closing[p].seen) -> closing[p].seen] :
        /\ \A i, j \in DOMAIN ids : i < j => ids[i] < ids[j]
        /\ outbox' = outbox \o [i \in DOMAIN ids |-> Entry(ids[i], "delete")]
    /\ doubtful' = doubtful \cup Missed
    /\ overtaken' = [q \in Processes |-> overtaken[q] \cup (Missed \cap Reads(q))]
    /\ command' = Disturbed
    /\ UNCHANGED <<gallery, point, worker, changes, faults>>

(* The backoff of a row in retry ends, or the claim of a row in processing *)
(* gets older than the timeout: when nobody works on it any more, or       *)
(* because a batch takes too long.                                         *)
Elapse(i) ==
    /\ ~outbox[i].ripe
    /\ outbox[i].status \in {"retry", "processing"}
    /\ \/ /\ outbox[i].status = "processing"
          /\ \E w \in Workers : i \in DOMAIN worker[w].claimed
          /\ Fault
       \/ /\ outbox[i].status = "retry" \/ \A w \in Workers : i \notin DOMAIN worker[w].claimed
          /\ UNCHANGED faults
    /\ outbox' = [outbox EXCEPT ![i].ripe = TRUE]
    /\ UNCHANGED <<database, worker, command, index>>

----------------------------------------------------------------------------
(* drain_outbox.                                                           *)

(* reclaim_stale_processing_rows: the row is due at once.  When there is   *)
(* nothing to reclaim the statement changes nothing, and is not a step.    *)
Reclaimable == {i \in RowsWith({"processing"}) : outbox[i].ripe}

Reclaim(w) ==
    /\ worker[w].pc = "idle" /\ Reclaimable # {}
    /\ outbox' = [i \in DOMAIN outbox |->
            IF i \in Oldest(Reclaimable, BatchSize) THEN [outbox[i] EXCEPT !.status = "retry"]
            ELSE outbox[i]]
    /\ worker' = [worker EXCEPT ![w].pc = "claim"]
    /\ UNCHANGED <<database, command, index, faults>>

(* claim_outbox_rows: the row as claimed carries its number of attempts.   *)
Claimable == {i \in RowsWith({"pending", "retry"}) : outbox[i].ripe}

Claim(w) ==
    LET rows == Oldest(Claimable, BatchSize) IN
    /\ worker[w].pc = "claim" \/ (worker[w].pc = "idle" /\ Reclaimable = {})
    /\ outbox' = [i \in DOMAIN outbox |->
            IF i \in rows
            THEN [outbox[i] EXCEPT !.status = "processing", !.attempts = @ + 1, !.ripe = FALSE]
            ELSE outbox[i]]
    /\ worker' = [worker EXCEPT ![w] =
            [Idle EXCEPT !.pc = IF rows = {} THEN "idle" ELSE "row",
                         !.claimed = [i \in rows |-> outbox[i].attempts + 1]]]
    /\ UNCHANGED <<database, command, index, faults>>

(* The loop takes the rows as RETURNING gave them, in no stated order.  An *)
(* upsert reads the row as it is now; a delete reads nothing.              *)
Read(w) ==
    /\ worker[w].pc = "row"
    /\ \E i \in DOMAIN worker[w].claimed :
        LET g == outbox[i].gallery IN
        /\ worker' = [worker EXCEPT ![w].pc = "write", ![w].row = i, ![w].version =
                IF outbox[i].operation = "delete" THEN NoPoint ELSE Source(g)]
        /\ overtaken' = [overtaken EXCEPT ![w] = {}]
    /\ UNCHANGED <<database, outbox, command, point, doubtful, faults>>

(* delete_points, or upsert_rows: applied and answered ...                 *)
Target(w) == outbox[worker[w].row].gallery

Write(w) ==
    /\ worker[w].pc = "write"
    /\ WritePoints(w, {Target(w)}, [g \in {Target(w)} |-> worker[w].version])
    /\ worker' = [worker EXCEPT ![w].pc = "complete"]
    /\ command' = Disturbed
    /\ UNCHANGED <<database, outbox, faults>>

(* ... or an exception, of the call whether or not it was applied, of the  *)
(* read before it or of mark_outbox_completed after it.                    *)
Raise(w) ==
    /\ worker[w].pc \in {"write", "complete"}
    /\ Fault
    /\ \/ UNCHANGED <<index, command>>
       \/ /\ worker[w].pc = "write"
          /\ WritePoints(w, {Target(w)}, [g \in {Target(w)} |-> worker[w].version])
          /\ command' = Disturbed
    /\ worker' = [worker EXCEPT ![w].pc = "failed"]
    /\ UNCHANGED <<database, outbox>>

Proceed(w) ==
    LET rest == [i \in DOMAIN worker[w].claimed \ {worker[w].row} |-> worker[w].claimed[i]] IN
    worker' = [worker EXCEPT ![w] =
        [Idle EXCEPT !.pc = IF DOMAIN rest = {} THEN "idle" ELSE "row", !.claimed = rest]]

(* mark_outbox_completed: by id, whoever has claimed the row since.        *)
Complete(w) ==
    /\ worker[w].pc = "complete"
    /\ outbox' = [outbox EXCEPT ![worker[w].row].status = "completed"]
    /\ Proceed(w)
    /\ UNCHANGED <<database, command, index, faults>>

(* mark_outbox_failed: by id, with the attempts of the claimed row.        *)
FailedStatus(attempts) == IF attempts >= MaxAttempts THEN "poisoned" ELSE "retry"

MarkFailed(w) ==
    LET i == worker[w].row
        status == FailedStatus(worker[w].claimed[i])
    IN
    /\ worker[w].pc = "failed"
    /\ outbox' = [outbox EXCEPT ![i].status = status,
                                ![i].ripe = @ /\ status = "poisoned"]
    /\ Proceed(w)
    /\ UNCHANGED <<database, command, index, faults>>

(* The process dies, or mark_outbox_failed raises and ends the loop.       *)
Crash(w) ==
    /\ worker[w].pc # "idle"
    /\ Fault
    /\ worker' = [worker EXCEPT ![w] = Idle]
    /\ UNCHANGED <<database, outbox, command, index>>

----------------------------------------------------------------------------
(* bootstrap and reconcile.                                                *)

Run(o) ==
    /\ command[o].pc = "idle" /\ command[o].runs < MaxCommands
    /\ \E mode \in {"bootstrap", "reconcile"} :
        command' = [command EXCEPT ![o] =
            [Resting(command[o].runs + 1) EXCEPT !.pc = "scan", !.mode = mode,
                                                 !.undisturbed = TRUE]]
    /\ overtaken' = [overtaken EXCEPT ![o] = {}]
    /\ UNCHANGED <<database, outbox, worker, point, doubtful, faults>>

(* active_gallery_rows: the next page, and the rows it shows not to exist. *)
Page(after) == Oldest({g \in Galleries : g > after /\ Source(g) # NoPoint}, BatchSize)

Scan(o) ==
    LET page == Page(command[o].after)
        upto == IF page = {} THEN N ELSE Max(page)
        gone == ((command[o].after + 1)..upto) \ page
    IN
    /\ command[o].pc = "scan"
    /\ command' = [command EXCEPT
            ![o].pc = IF page # {} THEN "upsert"
                      ELSE IF command[o].mode = "reconcile" THEN "scroll" ELSE "idle",
            ![o].page = [g \in page |-> Source(g)],
            ![o].absent = IF command[o].mode = "reconcile" THEN @ \cup gone ELSE {},
            ![o].after = upto]
    /\ UNCHANGED <<database, outbox, worker, index, faults>>

(* upsert_rows of the page.                                                *)
Upsert(o) ==
    /\ command[o].pc = "upsert"
    /\ WritePoints(o, DOMAIN command[o].page, command[o].page)
    /\ command' = [q \in Operators |->
            IF q = o THEN [command[o] EXCEPT !.pc = "scan", !.page = <<>>]
            ELSE [command[q] EXCEPT !.undisturbed = FALSE]]
    /\ UNCHANGED <<database, outbox, worker, faults>>

(* scroll_active_point_ids, and the points that are not in PostgreSQL.     *)
Extra(o) == {g \in command[o].absent : point[g] # NoPoint}

Scroll(o) ==
    /\ command[o].pc = "scroll"
    /\ command' = [command EXCEPT
            ![o].pc = IF Extra(o) = {} THEN "idle" ELSE "delete",
            ![o].extra = Extra(o), ![o].absent = Extra(o)]
    /\ UNCHANGED <<database, outbox, worker, index, faults>>

(* delete_points of one chunk.                                             *)
Delete(o) ==
    LET chunk == Oldest(command[o].extra, BatchSize) IN
    /\ command[o].pc = "delete"
    /\ WritePoints(o, chunk, [g \in chunk |-> NoPoint])
    /\ command' = [q \in Operators |->
            IF q = o
            THEN [command[o] EXCEPT !.pc = IF command[o].extra = chunk THEN "idle" ELSE "delete",
                                    !.extra = @ \ chunk, !.absent = @ \ chunk]
            ELSE [command[q] EXCEPT !.undisturbed = FALSE]]
    /\ UNCHANGED <<database, outbox, worker, faults>>

(* Any exception ends the command.                                         *)
Abandon(o) ==
    /\ command[o].pc # "idle"
    /\ Fault
    /\ command' = [command EXCEPT ![o] = Resting(command[o].runs)]
    /\ UNCHANGED <<database, outbox, worker, index>>

----------------------------------------------------------------------------
WorkerStep(w) ==
    \/ Reclaim(w) \/ Claim(w) \/ Read(w) \/ Write(w) \/ Complete(w) \/ MarkFailed(w)

CommandStep(o) == Scan(o) \/ Upsert(o) \/ Scroll(o) \/ Delete(o)

Next ==
    \/ \E g \in Galleries : Register(g) \/ Promote(g) \/ Remove(g)
    \/ \E p \in Persons : RemovePerson(p) \/ RemovePersonCommit(p)
    \/ \E i \in DOMAIN outbox : Elapse(i)
    \/ \E w \in Workers : WorkerStep(w) \/ Raise(w) \/ Crash(w)
    \/ \E o \in Operators : Run(o) \/ CommandStep(o) \/ Abandon(o)

Spec == Init /\ [][Next]_vars

(* Workers and their host keep running, timers run out, calls return.      *)
Fairness ==
    /\ \A w \in Workers : WF_vars(WorkerStep(w))
    /\ \A i \in 1..(N * MaxChanges) : WF_vars(i \in DOMAIN outbox /\ Elapse(i))
    /\ \A p \in Persons : WF_vars(RemovePersonCommit(p))

FairSpec == Spec /\ Fairness

----------------------------------------------------------------------------
Versions == 0..(MaxChanges + 1)

(* Every variable holds values of the code's tables and locals.  A row is  *)
(* claimed at most once per failure, crash or timeout and once more, and a *)
(* failing row stops at MaxAttempts.                                       *)
TypeOK ==
    /\ gallery \in [Galleries -> [version : Versions, is_active : BOOLEAN]]
    /\ active \in [Persons -> BOOLEAN]
    /\ closing \in [Persons -> [open : BOOLEAN, seen : SUBSET Galleries]]
    /\ \A i \in DOMAIN outbox :
        /\ outbox[i].gallery \in Galleries /\ outbox[i].operation \in {"upsert", "delete"}
        /\ outbox[i].status \in {"pending", "processing", "retry", "completed", "poisoned"}
        /\ outbox[i].attempts \in 0..(faults + 1) /\ outbox[i].ripe \in BOOLEAN
        /\ (outbox[i].attempts = 0) = (outbox[i].status = "pending")
    /\ point \in [Galleries -> Versions]
    /\ \A w \in Workers :
        /\ worker[w].pc \in {"idle", "claim", "row", "write", "complete", "failed"}
        /\ DOMAIN worker[w].claimed \subseteq DOMAIN outbox
        /\ worker[w].pc \in {"write", "complete", "failed"} => worker[w].row \in DOMAIN worker[w].claimed
        /\ worker[w].version \in Versions
    /\ \A o \in Operators :
        /\ command[o].pc \in {"idle", "scan", "upsert", "scroll", "delete"}
        /\ command[o].absent \cup command[o].extra \cup DOMAIN command[o].page \subseteq Galleries
    /\ overtaken \in [Processes -> SUBSET Galleries]
    /\ doubtful \subseteq Galleries

(* When every outbox row of a gallery row is completed, the point in       *)
(* Qdrant is that of the row as it is now, and there is none for an        *)
(* inactive row or person, whatever failed, was retried, timed out or was  *)
(* settled by a worker that had lost the row; unless the last write of the *)
(* point came from a source read before another process wrote the point,   *)
(* or the row was registered while its person was being removed.           *)
CompletedMeansIndexed ==
    \A g \in Galleries :
        ~Unsettled(g) /\ g \notin doubtful => point[g] = Source(g)

(* A command that ends without an exception and without a change of the    *)
(* gallery or a drained row since it began leaves an index that is equal   *)
(* to PostgreSQL (reconcile) or has all of it (bootstrap), whatever state  *)
(* the index and the outbox were in.                                       *)
CommandRepairs ==
    \A o \in Operators :
        command[o].pc = "idle" /\ command[o].undisturbed =>
            \A g \in Galleries :
                command[o].mode = "reconcile" \/ Source(g) # NoPoint => point[g] = Source(g)

(* Once the gallery stops changing every outbox row is completed or        *)
(* poisoned and stays so, whether its worker failed, died or was too slow. *)
RowsSettle == <>[](RowsWith({"completed", "poisoned"}) = DOMAIN outbox)
============================================================================
