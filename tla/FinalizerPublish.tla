------------------------- MODULE FinalizerPublish -------------------------
(***************************************************************************)
(* The files of one finalized event (services/media-worker/app/worker.py,  *)
(* _finalize_one and _publish_finalizer_attempt).                          *)
(*                                                                         *)
(* A finalizer builds a bundle in an attempt directory of its own, checks  *)
(* its fence, puts the directory in the place of the event's canonical one *)
(* and commits the outcome.  Fence and outcome are in the database, the    *)
(* directories on disk: the check, the look at the canonical directory,    *)
(* the two renames and the commit are separate steps, and the lease may    *)
(* expire, the row be recovered and another finalizer be at work between   *)
(* any two of them.  The row itself is the subject of EvidenceLifecycle;   *)
(* here it is reduced to its fence and its outcome.                        *)
(***************************************************************************)
EXTENDS Naturals, FiniteSets

CONSTANTS
    Finalizers,     \* finalizer threads, of one process or of several
    MaxGeneration,  \* bound on the claims of the row
    MaxFaults       \* bound on crashes and failing calls

ASSUME ConstantsAssumption ==
    /\ IsFiniteSet(Finalizers)
    /\ MaxGeneration \in Nat
    /\ MaxFaults \in Nat

VARIABLES
    row,        \* phase, lease generation and clip_path of evidence_tasks
    fin,        \* what each finalizer is doing
    incoming,   \* .incoming/<event>/<generation>-<token>, per generation
    canonical,  \* the event's directory, None if there is none
    quarantine, \* .quarantine/<event>/: the directories that were replaced
    sink,       \* the remuxed output a bundle is built from is on disk
    audit,      \* cleanup_audit of the sink output
    index,      \* the bundle's rows in the search index
    faults,
    displaced,  \* history: a finalizer without the fence has quarantined
    littered,   \* history: generations whose attempt directory a failure has left
    abandoned   \* history: a fault cut the steps after the commit short

vars == <<row, fin, incoming, canonical, quarantine, sink, audit, index,
          faults, displaced, littered, abandoned>>

History == <<displaced, littered, abandoned>>

None == [gen |-> 0, clip |-> FALSE, sidecars |-> FALSE]

Phases == {"released", "finalizing", "materialized", "failed"}

(* _summary_clip_status *)
Kinds == {"ready", "generated_unverified", "generated_annotation_failed",
          "duration_guard_failed"}

(* _without_published_raw_clip: a failed guard takes the clip away.         *)
HasClip(kind) == kind # "duration_guard_failed"

(* _evidence_state_for_clip_status *)
EvidenceState(kind) ==
    IF kind \in {"ready", "generated_unverified"} THEN "materialized" ELSE "failed"

Idle == [pc |-> "idle", gen |-> 0, kind |-> "ready", healthy |-> TRUE]

Labels == {"idle", "build", "check", "fence", "look", "converge", "quarantine",
           "rename", "settle", "commit", "details", "index", "cleanup"}

(* Where an attempt directory has an owner that will discard or rename it.  *)
Building == {"build", "check", "fence", "look", "converge", "quarantine", "rename"}

Init ==
    /\ row = [phase |-> "released", gen |-> 0, clip |-> FALSE]
    /\ fin = [f \in Finalizers |-> Idle]
    /\ incoming = [g \in 1..MaxGeneration |-> "none"]
    /\ canonical = None
    /\ quarantine = {}
    /\ sink = TRUE
    /\ audit = "none"
    /\ index = "none"
    /\ faults = 0
    /\ displaced = FALSE
    /\ littered = {}
    /\ abandoned = FALSE

At(f, pc) == fin[f].pc = pc

Goto(f, pc) == fin' = [fin EXCEPT ![f].pc = pc]

End(f) == fin' = [fin EXCEPT ![f] = Idle]

(* The predicate of every fenced statement: status, owner, token,           *)
(* generation.  The expiry of the lease is not part of it.                  *)
Held(f) == row.phase = "finalizing" /\ row.gen = fin[f].gen

Fault == faults < MaxFaults /\ faults' = faults + 1

(* The own attempt directory is not in .incoming any more.                  *)
Vacated(f) == incoming' = [incoming EXCEPT ![fin[f].gen] = "none"] /\ UNCHANGED littered

(* It stays, whole or in part, and nobody will look at it again.            *)
Left(f) ==
    /\ littered' = IF incoming[fin[f].gen] = "none" THEN littered
                   ELSE littered \cup {fin[f].gen}
    /\ UNCHANGED incoming

(* _discard_finalizer_attempt: the own attempt directory, no other; an      *)
(* OSError of the removal is logged and the caller goes on.                 *)
Discard(f) ==
    \/ Vacated(f) /\ UNCHANGED faults
    \/ Left(f) /\ Fault

(* retry_finalizer_handoff: the lease is given back, the handoff kept.      *)
RetryIfHeld(f) ==
    row' = IF Held(f) THEN [row EXCEPT !.phase = "released"] ELSE row

(* fail_rolling_task with the fence *)
FailIfHeld(f) ==
    row' = IF Held(f) THEN [row EXCEPT !.phase = "failed"] ELSE row

Files == <<incoming, canonical, quarantine, sink>>
After == <<audit, index>>

-----------------------------------------------------------------------------
(* _finalize_one up to the publish step                                     *)

(* claim_finalizer_task with a fresh fence, the health handle registered,   *)
(* and a leftover of the own attempt discarded: under a fresh generation    *)
(* there is none.                                                           *)
Claim(f) ==
    /\ At(f, "idle")
    /\ row.phase = "released" /\ row.gen < MaxGeneration
    /\ row' = [row EXCEPT !.phase = "finalizing", !.gen = @ + 1]
    /\ fin' = [fin EXCEPT ![f] = [Idle EXCEPT !.pc = "build", !.gen = row.gen + 1]]
    /\ incoming' = [incoming EXCEPT ![row.gen + 1] = "none"]
    /\ UNCHANGED <<canonical, quarantine, sink, After, faults, History>>

(* _finalize_post_savant_evidence_bundle makes the directory and fills it.  *)
StartBundle(f) ==
    /\ At(f, "build")
    /\ sink
    /\ incoming[fin[f].gen] = "none"
    /\ incoming' = [incoming EXCEPT ![fin[f].gen] = "partial"]
    /\ UNCHANGED <<row, fin, canonical, quarantine, sink, After, faults, History>>

(* The input is not needed any more once it has been copied.                *)
FinishBundle(f) ==
    /\ At(f, "build")
    /\ incoming[fin[f].gen] = "partial"
    /\ incoming' = [incoming EXCEPT ![fin[f].gen] = "whole"]
    /\ \E kind \in Kinds : fin' = [fin EXCEPT ![f].pc = "check", ![f].kind = kind]
    /\ UNCHANGED <<row, canonical, quarantine, sink, After, faults, History>>

(* The build raises: a missing input, a timeout, any other error.  The      *)
(* attempt is discarded, unless the same error prevents that too, and the   *)
(* task failed; a forced shutdown, or a failure that could not be written,  *)
(* releases it instead.                                                     *)
BundleRaises(f) ==
    /\ At(f, "build")
    /\ \/ Fault /\ (Vacated(f) \/ Left(f))
       \/ ~sink /\ Discard(f)
    /\ FailIfHeld(f) \/ RetryIfHeld(f)
    /\ End(f)
    /\ UNCHANGED <<canonical, quarantine, sink, After, displaced, abandoned>>

(* The supervisor's heartbeat found no row, or the attempt is too old,      *)
(* which it may be while the fence is still held.                           *)
HeartbeatLost(f) ==
    /\ fin[f].pc \in Building \cup {"settle"}
    /\ fin[f].healthy
    /\ fin' = [fin EXCEPT ![f].healthy = FALSE]
    /\ UNCHANGED <<row, Files, After, faults, History>>

(* mutant: the attempt stays *)
CheckHealthKeeping(f) ==
    /\ At(f, "check")
    /\ \/ fin[f].healthy /\ Goto(f, "fence") /\ UNCHANGED <<row, incoming>>
       \/ /\ ~fin[f].healthy
          /\ FailIfHeld(f)
          /\ End(f)
          /\ UNCHANGED incoming
    /\ UNCHANGED <<canonical, quarantine, sink, After, faults, History>>

(* An unhealthy handle ends the attempt before the publish step.  Neither   *)
(* of its two reasons is retryable, so retry_finalizer_handoff fails the    *)
(* task if the fence is still held; if it raises, the end of _finalize_one  *)
(* releases the task.                                                       *)
CheckHealth(f) ==
    /\ At(f, "check")
    /\ \/ fin[f].healthy /\ Goto(f, "fence") /\ UNCHANGED <<row, incoming, littered, faults>>
       \/ /\ ~fin[f].healthy
          /\ \/ Discard(f) /\ FailIfHeld(f)
             \/ Fault /\ (Vacated(f) \/ Left(f)) /\ RetryIfHeld(f)
          /\ End(f)
    /\ UNCHANGED <<canonical, quarantine, sink, After, displaced, abandoned>>

-----------------------------------------------------------------------------
(* _publish_finalizer_attempt                                               *)

(* heartbeat_lease, the fence check of the publish step                     *)
CheckFence(f) ==
    /\ At(f, "fence")
    /\ \/ Held(f) /\ Goto(f, "look") /\ UNCHANGED <<incoming, littered, faults>>
       \/ ~Held(f) /\ Discard(f) /\ End(f)
    /\ UNCHANGED <<row, canonical, quarantine, sink, After, displaced, abandoned>>

(* mutant: the clip is not among the files that must be there *)
CanonicalIsCompleteWithoutClip(f) == canonical.sidecars

(* _canonical_attempt_is_complete: every file of the own bundle is there.   *)
CanonicalIsComplete(f) ==
    canonical.sidecars /\ (HasClip(fin[f].kind) => canonical.clip)

Look(f) ==
    /\ At(f, "look")
    /\ Goto(f, IF canonical = None THEN "rename"
               ELSE IF CanonicalIsComplete(f) THEN "converge" ELSE "quarantine")
    /\ UNCHANGED <<row, Files, After, faults, History>>

(* What is there is complete: the own attempt is not needed.                *)
Converge(f) ==
    /\ At(f, "converge")
    /\ Discard(f)
    /\ Goto(f, "settle")
    /\ UNCHANGED <<row, canonical, quarantine, sink, After, displaced, abandoned>>

(* An exception of the publish step, caught at the end of _finalize_one:    *)
(* the task is released, the attempt directory stays.                       *)
PublishRaises(f) ==
    /\ RetryIfHeld(f)
    /\ End(f)
    /\ Left(f)
    /\ UNCHANGED <<canonical, quarantine, sink, After, displaced, abandoned>>

(* A directory in the quarantine; whether it has its sidecars, nobody asks. *)
Quarantined(directory) == [directory EXCEPT !.sidecars = FALSE]

(* os.replace(canonical_dir, quarantine_path) *)
Quarantine(f) ==
    /\ At(f, "quarantine")
    /\ canonical # None
    /\ quarantine' = quarantine \cup {Quarantined(canonical)}
    /\ canonical' = None
    /\ displaced' = (displaced \/ ~Held(f))
    /\ Goto(f, "rename")
    /\ UNCHANGED <<row, incoming, sink, After, faults, littered, abandoned>>

(* It is gone: another finalizer was faster.                                *)
QuarantineFails(f) ==
    /\ At(f, "quarantine")
    /\ canonical = None
    /\ PublishRaises(f)
    /\ UNCHANGED faults

(* What was built.  "sidecars": every file is there that the check of       *)
(* _canonical_attempt_is_complete looks for.  A bundle of the frame-cache   *)
(* path whose rows go to the database names an annotations file that was    *)
(* never written (persist_sidecar_files), so it never looks complete.       *)
Bundle(f, sidecars) ==
    [gen |-> fin[f].gen, clip |-> HasClip(fin[f].kind), sidecars |-> sidecars]

(* mutant: the rename replaces what has appeared meanwhile *)
RenameOver(f) ==
    /\ At(f, "rename")
    /\ \E sidecars \in BOOLEAN : canonical' = Bundle(f, sidecars)
    /\ Vacated(f)
    /\ Goto(f, "settle")
    /\ UNCHANGED <<row, quarantine, sink, After, faults, displaced, abandoned>>

(* os.replace(attempt_dir, canonical_dir) *)
Rename(f) ==
    /\ At(f, "rename")
    /\ canonical = None
    /\ \E sidecars \in BOOLEAN : canonical' = Bundle(f, sidecars)
    /\ Vacated(f)
    /\ Goto(f, "settle")
    /\ UNCHANGED <<row, quarantine, sink, After, faults, displaced, abandoned>>

(* A directory that is not empty is not replaced.                           *)
RenameFails(f) ==
    /\ At(f, "rename")
    /\ canonical # None
    /\ PublishRaises(f)
    /\ UNCHANGED faults

(* The statement or the file system fails.                                  *)
PublishFault(f) ==
    /\ fin[f].pc \in {"fence", "look", "quarantine", "rename", "settle", "commit"}
    /\ Fault
    /\ PublishRaises(f)

-----------------------------------------------------------------------------
(* _finalize_one after the publish step                                     *)

(* mutant: the input is removed as soon as the bundle is in place *)
SettleHealthCleaning(f) ==
    /\ At(f, "settle")
    /\ \/ fin[f].healthy /\ Goto(f, "commit") /\ UNCHANGED row
       \/ ~fin[f].healthy /\ FailIfHeld(f) /\ End(f)
    /\ sink' = FALSE
    /\ UNCHANGED <<incoming, canonical, quarantine, After, faults, History>>

(* The health of the handle once more; the published directory stays.       *)
SettleHealth(f) ==
    /\ At(f, "settle")
    /\ \/ fin[f].healthy /\ Goto(f, "commit") /\ UNCHANGED row
       \/ ~fin[f].healthy /\ FailIfHeld(f) /\ End(f)
    /\ UNCHANGED <<Files, After, faults, History>>

(* complete_finalizer_task *)
Commit(f) ==
    /\ At(f, "commit")
    /\ \/ /\ Held(f)
          /\ row' = [row EXCEPT !.phase = EvidenceState(fin[f].kind),
                                !.clip = @ \/ HasClip(fin[f].kind)]
          /\ Goto(f, "details")
       \/ ~Held(f) /\ End(f) /\ UNCHANGED row
    /\ UNCHANGED <<Files, After, faults, History>>

(* Its answer is lost: the statement of the retry finds no row, and what    *)
(* follows the commit is not done.                                          *)
CommitUnanswered(f) ==
    /\ At(f, "commit")
    /\ Held(f)
    /\ Fault
    /\ row' = [row EXCEPT !.phase = EvidenceState(fin[f].kind),
                          !.clip = @ \/ HasClip(fin[f].kind)]
    /\ abandoned' = TRUE
    /\ End(f)
    /\ UNCHANGED <<Files, After, displaced, littered>>

(* _persist_finalized_event_details *)
Details(f) ==
    /\ At(f, "details")
    /\ Goto(f, "index")
    /\ UNCHANGED <<row, Files, After, faults, History>>

(* _retain_in_memory_bundle_sidecars makes the directory if it is not there *)
(* and writes annotations and summary, which may be all that was missing.   *)
Retained(f, directory) ==
    IF canonical = None THEN {[None EXCEPT !.gen = fin[f].gen]}
    ELSE {directory, [directory EXCEPT !.sidecars = TRUE]}

(* _prune_success_evidence_sidecars: what is in the database goes from the  *)
(* disk, in whatever directory is in the event's place by now; a file that  *)
(* cannot be removed stays.                                                 *)
Pruned == {[canonical EXCEPT !.sidecars = s] : s \in {FALSE, canonical.sidecars}}

(* ... when the outcome is one of success *)
PrunedIfReady(f) ==
    IF EvidenceState(fin[f].kind) = "materialized" THEN Pruned ELSE {}

(* _index_finalized_bundle: the rows are written, then the sidecars pruned, *)
(* or retained before if the outcome is a failure, then the status is set.  *)
(* Its except clause retains, after a failing status also what was pruned.  *)
Index(f) ==
    /\ At(f, "index")
    /\ \/ /\ index' = "ready"
          /\ canonical' \in IF EvidenceState(fin[f].kind) = "materialized" THEN Pruned
                             ELSE Retained(f, canonical)
          /\ UNCHANGED faults
       \/ /\ Fault
          /\ index' = "failed"
          /\ \E directory \in {canonical} \cup PrunedIfReady(f) :
                canonical' \in Retained(f, directory)
    /\ Goto(f, "cleanup")
    /\ UNCHANGED <<row, incoming, quarantine, sink, audit, History>>

(* mutant: a removal that failed is not recorded *)
CleanupUnrecorded(f) ==
    /\ At(f, "cleanup")
    /\ \/ /\ fin[f].kind = "ready"
          /\ sink' = FALSE
          /\ audit' = IF sink THEN "deleted" ELSE "missing"
          /\ UNCHANGED faults
       \/ /\ fin[f].kind = "ready"
          /\ Fault
          /\ UNCHANGED <<audit, sink>>
       \/ /\ fin[f].kind # "ready"
          /\ audit' = "skipped"
          /\ UNCHANGED <<sink, faults>>
    /\ End(f)
    /\ UNCHANGED <<row, incoming, canonical, quarantine, index, History>>

(* _cleanup_processed_sink_output with record_cleanup_outcome: only the     *)
(* status "ready" has its input removed; a failing removal is recorded.     *)
Cleanup(f) ==
    /\ At(f, "cleanup")
    /\ \/ /\ fin[f].kind = "ready"
          /\ sink' = FALSE
          /\ audit' = IF sink THEN "deleted" ELSE "missing"
          /\ UNCHANGED faults
       \/ /\ fin[f].kind = "ready"
          /\ Fault
          /\ audit' = "cleanup_pending"
          /\ UNCHANGED sink
       \/ /\ fin[f].kind # "ready"
          /\ audit' = "skipped"
          /\ UNCHANGED <<sink, faults>>
    /\ End(f)
    /\ UNCHANGED <<row, incoming, canonical, quarantine, index, History>>

(* A statement after the commit raises, or the process dies there: nothing  *)
(* is retried, whatever has been done to the sidecars by then, and the      *)
(* input may have been removed without a record of it.                      *)
FollowUpLost(f) ==
    /\ fin[f].pc \in {"details", "index", "cleanup"}
    /\ Fault
    /\ \/ UNCHANGED canonical
       \/ /\ At(f, "index")
          /\ \E directory \in {canonical} \cup PrunedIfReady(f) :
                canonical' \in {directory} \cup Retained(f, directory)
    /\ sink' \in {sink} \cup IF At(f, "cleanup") /\ fin[f].kind = "ready" THEN {FALSE} ELSE {}
    /\ abandoned' = TRUE
    /\ End(f)
    /\ UNCHANGED <<row, incoming, quarantine, After, displaced, littered>>

-----------------------------------------------------------------------------
(* The main loop                                                            *)

(* The lease of a finalizer expires and the recovery pass of some process   *)
(* releases the row; the handoff is there.                                  *)
Recover ==
    /\ row.phase = "finalizing"
    /\ row' = [row EXCEPT !.phase = "released"]
    /\ UNCHANGED <<fin, Files, After, faults, History>>

(* _recover_pending_sink_cleanups.  The removal may fail once more, or the  *)
(* process die before the outcome is recorded: it stays pending.            *)
RecoverCleanup ==
    /\ audit = "cleanup_pending"
    /\ \/ /\ sink' = FALSE
          /\ audit' = IF sink THEN "deleted" ELSE "missing"
          /\ UNCHANGED faults
       \/ /\ Fault
          /\ sink' \in {sink, FALSE}
          /\ UNCHANGED audit
    /\ UNCHANGED <<row, fin, incoming, canonical, quarantine, index, History>>

(* The process of a finalizer dies before the commit.                       *)
Crash(f) ==
    /\ fin[f].pc \in Building \cup {"settle", "commit"}
    /\ Fault
    /\ End(f)
    /\ Left(f)
    /\ UNCHANGED <<row, canonical, quarantine, sink, After, displaced, abandoned>>

-----------------------------------------------------------------------------
Step(f) ==
    \/ StartBundle(f) \/ FinishBundle(f) \/ BundleRaises(f)
    \/ CheckHealth(f) \/ CheckFence(f) \/ Look(f) \/ Converge(f)
    \/ Quarantine(f) \/ QuarantineFails(f) \/ Rename(f) \/ RenameFails(f)
    \/ PublishFault(f)
    \/ SettleHealth(f) \/ Commit(f) \/ CommitUnanswered(f)
    \/ Details(f) \/ Index(f) \/ Cleanup(f) \/ FollowUpLost(f)

Next ==
    \/ \E f \in Finalizers : Claim(f) \/ Step(f) \/ HeartbeatLost(f) \/ Crash(f)
    \/ Recover
    \/ RecoverCleanup

Spec == Init /\ [][Next]_vars

(* A finalizer thread goes on (its subprocesses have timeouts), and the     *)
(* main loop polls for pending cleanups.                                    *)
Fairness ==
    /\ \A f \in Finalizers : WF_vars(Step(f))
    /\ WF_vars(RecoverCleanup)

FairSpec == Spec /\ Fairness

-----------------------------------------------------------------------------
(* Properties                                                               *)

Bundles == [gen : 0..MaxGeneration, clip : BOOLEAN, sidecars : BOOLEAN]

(* Every variable keeps its type; a finalizer at work has a generation.     *)
TypeOK ==
    /\ row \in [phase : Phases, gen : 0..MaxGeneration, clip : BOOLEAN]
    /\ fin \in [Finalizers -> [pc : Labels, gen : 0..MaxGeneration, kind : Kinds,
                               healthy : BOOLEAN]]
    /\ \A f \in Finalizers : fin[f].pc # "idle" => fin[f].gen \in 1..row.gen
    /\ incoming \in [1..MaxGeneration -> {"none", "partial", "whole"}]
    /\ canonical \in Bundles
    /\ quarantine \subseteq Bundles
    /\ sink \in BOOLEAN
    /\ audit \in {"none", "deleted", "missing", "skipped", "cleanup_pending"}
    /\ index \in {"none", "ready", "failed"}
    /\ faults \in 0..MaxFaults
    /\ displaced \in BOOLEAN /\ abandoned \in BOOLEAN
    /\ littered \subseteq 1..MaxGeneration

Committed == row.phase = "materialized"

(* The clip an event is materialized with is on disk: in the event's        *)
(* directory, where clip_path says, unless a finalizer that had lost its    *)
(* fence after checking it moved the directory away, and in the quarantine  *)
(* even then.                                                               *)
CommittedClipOnDisk ==
    Committed =>
        /\ row.clip
        /\ ~displaced => canonical.clip
        /\ canonical.clip \/ \E b \in quarantine : b.clip

(* The input of the bundle is there until the outcome is committed, so a    *)
(* retry, whatever it was that failed, can build the bundle again.          *)
InputUntilOutcome == ~sink => Committed

(* An attempt directory that no finalizer will rename or discard any more   *)
(* was left by a crash, by an exception of the publish step or by a removal *)
(* that failed: on every other way out, also of a finalizer that has lost   *)
(* its fence or its race, the one that made it gets rid of it.              *)
AttemptAccounted ==
    \A g \in 1..MaxGeneration : incoming[g] # "none" =>
        g \in littered \/ \E f \in Finalizers : fin[f].gen = g /\ fin[f].pc \in Building

(* A directory that was put in an event's place is not overwritten: it      *)
(* stays, loses its sidecars, or goes to the quarantine.                    *)
PublishedNotOverwritten ==
    [][canonical # None /\ canonical'.gen # canonical.gen =>
            Quarantined(canonical) \in quarantine']_vars

(* A materialized event is indexed and its input cleaned up in the end, a   *)
(* failing removal being retried, unless a fault after the commit cut the   *)
(* finalizer short.                                                         *)
FollowUpSettles ==
    Committed ~> \/ index # "none" /\ audit \in {"deleted", "missing", "skipped"}
                 \/ abandoned
=============================================================================
