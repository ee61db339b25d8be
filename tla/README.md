# Verification of the videoanalysis evidence pipeline

TLA+ specifications, TLC configurations and TLAPS proofs for the part of the
repository that decides what happens to a piece of evidence: the ingestion of
the event, the rows of `evidence_tasks`, the workers that claim, materialize,
finalize and recover them, the schedulers around them, the rolling video cache
and the Replay jobs the video comes from, and the files that are published; and
for the synchronisation of the face gallery with its search index. Paths below are relative to the
repository's root; `worker.py` without a directory is
`services/media-worker/app/worker.py`, and `materialization_*.py`,
`segment_index.py` and `source_rotation.py` are beside it.

1. [The system](#1-the-system)
2. [Modules](#2-modules)
3. [Runs](#3-runs)
4. [Disagreements between the code and its documents](#4-disagreements-between-the-code-and-its-documents)
5. [Proofs](#5-proofs)
6. [What is not modelled](#6-what-is-not-modelled)
7. [Plan](#7-plan)

## 1. The system

Cameras are read over RTSP into Replay instances. Savant
(`modules/savant_security`) analyses the frames, runs the behaviour rules and
publishes observations; `services/rolling-cache-sink` keeps the recent video of
every camera as segments on disk. An event needs evidence: an image, a clip cut
from the rolling cache, or a clip exported by Replay. The event-worker creates
one row of `evidence_tasks` per event; media-worker processes claim rows, remux
video, hand the result to a finalizer, and complete or fail the row. The services
share no memory: they meet in PostgreSQL, in Redis streams and on the file system.

| component | state it keeps | operations | what is hard about it |
|---|---|---|---|
| evidence task lifecycle (`materialization_repository.py`, `libs/evidence_lifecycle`) | the row: status, phase, owner, lease owner/token/generation/expiry, ready/next/deadline instants, handoff; `events.media_status` | claim, heartbeat, retry, fail, defer, persist handoff, transfer, complete, recover, expire; project to `events` | every statement is its own transaction; stale holders, lease expiry, crashes between two statements, late projections |
| scheduler resources (`materialization_scheduler.py`) | shutdown phase, work budget, lane tickets, camera slots, heartbeat handles, pool | acquire, release, request, force, close | five threads; capacity given back on many paths; a signal in the middle of anything |
| media-worker main loop and lanes (`worker.py`) | future tables of the remux, finalizer and image lanes | tick: drain, admit, drain again; shutdown loop; forced stop | a failing completion among several; hand-over of permit and heartbeat from one lane to another |
| remux source rotation (`source_rotation.py`) | one cursor per camera and a sequence in the database | next turns, mark served | read, claim and advance are three statements, shared by several processes |
| rolling segment index and read pins (`segment_index.py`, `rolling_cache.py`) | catalog of segments, cursors into the journals, pins with expiry | walk, refresh from journal, audit, select, pin, unpin | retention between selection and pin; a journal replaced between two reads |
| rolling cache publication (`rolling-cache-sink/app/publishing.py`) | staged fragments, journal, ledger | stage, fsync, rename, append | a crash of the process or the host between any two file operations |
| rolling cache retention (`scripts/runtime/rolling_cache_maintenance.py`) | none of its own; the mutation lock, pins | discover, lock, load pins, delete | victims are chosen before the lock is held; a crash in the middle of a segment |
| event ingestion (`event-worker`) | Redis consumer group, `events`, cooldowns | read, claim pending, insert, acknowledge, create task | redelivery, duplicate delivery, two consumers inside one cooldown |
| replay admission (`clip-worker`) | replay slots with fences, submission attempts | acquire, submit, resolve uncertain outcomes, take over, sweep deadlines | a submit whose answer is lost; takeover of a slow holder |
| clip window planning (`replay_planner.py`) | none | window, chunk plan | boundary arithmetic |
| gallery synchronisation (`face-worker`) | outbox rows, Qdrant points | claim, reclaim stale, upsert or delete, settle | a reclaimed row settled by its old owner |
| face recognition workers | Redis streams | consume, embed, match | delivery; the rest is numerical |
| analysis forwarder (`sampler.py`) | last forwarded timestamp per camera | sample | timestamp resets |
| behaviour rules (`modules/savant_security/custom`) | state per track | observe a frame | tracks that disappear and come back |
| runtime topology control (`api/app/services/runtime_*`) | status file, apply thread | start, report, stop, read status | status request against the job thread |
| storage maintenance (`api`) | segments, bundles on disk | retention under the mutation lock | races with readers |
| bundle building (`worker.py`, `_finalize_one`; `post_savant_evidence_bundle.py`) | attempt, canonical and quarantine directories, cleanup audit, index rows | build, check fence, look, quarantine, rename, commit, index, prune, clean up | fence in the database, files on disk; two finalizers on one directory; a fault after the commit |
| API, viewer, deployment | rendering, configuration | | no protocol of their own |

The components interact as follows. The event-worker inserts a task that is
`manifest_ready`. The scheduler thread of each media-worker process polls
candidates (ordered by the rotation), claims a row with a fresh fence, takes lane
ticket, camera slot, work permit and heartbeat handle, and submits a lane job. A
remux job's completion is drained by the scheduler thread, which persists the
handoff in the row and passes permit, heartbeat and fence to the finalizer lane;
the finalizer claims the handed-off fence, builds the bundle and completes the row.
If a process dies, the recovery pass of any process puts its rows back when the
lease has expired: to the finalizer if a handoff is there, to `pending` if the
deadline allows, to `expired` otherwise.

What makes each component correct, in one line each:

* lifecycle: one holder at a time, stale holders cannot write, outcomes are
  final, finished remux work is not lost, readers of `events` are not told an
  outcome that did not happen, no task is stuck;
* resources and lanes: everything acquired is given back by somebody, limits
  bound the real work, shutdown ends;
* rotation: no camera waits longer because another has a deep backlog;
* publication and pins: an announced segment is complete and durable, a pinned
  one is not deleted, every segment on disk is found;
* bundles: what the database says was published is on disk, nothing published is
  overwritten, the input is kept until there is an outcome;
* ingestion: one event, at most one alert and one request per message, whatever the
  redelivery; nothing acknowledged is lost;
* replay: at most one Replay job per event, acknowledged only with an outcome;
* gallery: the index converges to the last state of each row.

## 2. Modules

| module | models |
|---|---|
| `EvidenceTask` | abstract promise about one task: numbered fences, an artifact that survives, a final outcome, truthful announcements |
| `EvidenceLifecycle` | every statement on the row and on `events`, with the callers that decide which one is issued; refines `EvidenceTask` |
| `WorkAdmission` | one media-worker process: scheduler thread, lanes, heartbeats, shutdown |
| `SourceRotation` | the rotation, shared by several processes |
| `EventIngestion` | event-workers on one consumer group: delivery, insert, alert, task, record request, acknowledgement |
| `ReplayAdmission` | clip-workers on one consumer group: slots, fenced submission, takeover, time-outs |
| `RollingCache` | sink, segment index, lanes with their pins, and retention over one directory tree |
| `FinalizerPublish` | the directories of one event, between several finalizers and the row's fence |
| `GallerySync` | gallery tables with their triggers, outbox, sync workers, bootstrap and reconcile, the index |
| `MC...` | the instances TLC checks, one module for each of the above but `EvidenceTask` |
| `..._proofs` | the theorems, one module for each of the above but `EvidenceTask` and the `MC...` |

The modules meet in the row of `evidence_tasks`. `EventIngestion` ends where the row
of `EvidenceLifecycle` begins; `ReplayAdmission` has the `replay_*` columns of the row
and reduces the rest to its materialization status, as `FinalizerPublish` reduces it
to fence and outcome; `RollingCache` is what a lane job of `WorkAdmission` reads from.
Each reduction keeps what the other side may do to the part that is modelled, as an
action that may come at any time.

Operators marked `mutant:` stand beside the definition they distort. They are
used by no specification; putting one in the place of its neighbour must make a
property fail, which shows that the property depends on that line of code.

### EvidenceLifecycle

*State.* `task` is the row. `kind` distinguishes image, rolling video and Replay
video. Instants are kept as ticks left, because `now()` occurs only in comparisons;
`NoTime` is NULL. The `uuid4` token of a fresh claim is drawn in the statement that
increments the generation, so the generation stands for the pair, and a fence is
`[owner, gen]`. `handoff` is the generation that persisted it, 0 for `{}`. `job[w]`
is what worker `w` has in memory: its mode, the fence it believes it holds, the
status it still has to project, and the health of its heartbeat handle. `rec` and
`recDue` are the recovery pass and its projections to come. `event` is
`events.media_status`.

*Actions.* One per statement, with what its callers make of the result:
`ClaimRolling`, `RetryRolling`, `FailRolling`, `CompleteImage`, `PersistHandoff`,
`ExactTransfer` (claim of the handed-off fence), `GenericClaim` (claim of a released
handoff or an exported clip), `CompleteFinalizer`, `FailFinalizer`, `RetryHandoff`,
`FinalizerNotReady`; for outcomes decided before a claim `ReadCurrentLease`, then, in
a later statement, `FinishUnclaimed`, `ScheduleUnclaimedRetry` or
`RetryUnclaimedHandoff`; `Project`, the second statement of most functions;
`Heartbeat`; the recovery pass statement by statement; the clip-worker's deadline
sweep; `Tick`. A fenced statement that matches no row ends the job (`Fenced`).
`ProjectFault`, `HeartbeatError`, `AgeOut`, `Crash` and `CrashRecovery` are the
failures, which may come between any two statements.

*Abstractions.* Rows are independent, so there is one. The recovery passes of
several processes are one pass (their statements are idempotent and each step is
atomic). `failed` stands for `failed` and `materialization_failed`. The legacy
`status` column, a function of status and phase, and the audit columns are left
out, with `record_cleanup_outcome`, which writes only the latter. A Replay export
that has appeared stays available, and a row in `Offered` may be found at any time.

### WorkAdmission

*State.* `job[j]` is an attempt: the table that tracks its future (`track`;
`transfer` is the local `transferred_handoffs` of `_drain_completed`), its future
(`run`), and what it holds (`ticket`, `slot`, `permit`, `beat`). `agenda` is the
control state of the scheduler thread: the stages still to run in this tick or in
the shutdown loop. `todo` and `rows` are what the current loop has not visited.
`phase`, `force` and `inside` are the shutdown controller, `inside` meaning that the
scheduler thread holds its lock. `lost` is history: the attempts whose only owner was the
local table that an exception of `_drain_completed` took.

*Actions.* `Wake` begins a tick (`TickAgenda`) or the shutdown loop; `Advance`
enters the next stage. Drains: `NotDone`, `DrainLane`, `SettleRemux`,
`PersistRemux` and the two failing completions. Admission: `Submit`, `SkipRow`,
`StopAdmitting`; transferred handoffs: `AdmitTransfer`, `LeaveTransfer`,
`StopTransfers`, `Converge`. Lane threads: `Start`, `FinalizerClaims`, `Finish`.
Others: `HeartbeatLost`, `Signal`, `SignalInside`, `GraceExpires`, `StopCheck`,
`ForceCheck`, `ForceStop`, `Close`; `AbandonTick` for an exception of the recovery pass
before the drains or of an admission query, after which the main loop goes on.

*Abstractions.* Only the scheduler thread acquires and other threads only release,
so an admission attempt (ticket, slot, permit, claim, register, submit, or the
release of what was taken) is one step. The database grants or refuses a claim
nondeterministically. The order of an executor's queue is not kept.

### SourceRotation

*State.* `task[k]` (ready or not, when due, by which process it runs), `cursor` and `seq` (the rotation table and its
sequence), `poll[p]` (where process `p` is in `process()`), and the history variable
`passed[s][t]`: how often `t` was claimed since `s` began to wait for its turn. A count
starts over when `s` is served, when it has nothing to wait for, and when a row of a
higher priority arrives for it.

*Actions.* `BeginPoll` (turn query), `BeginPollUnturned` (it fails, no restriction),
`Fetch` (candidate query, with the ranking inside a camera), then row by row
`SkipRow`, `NoPermit`, `Claim`, `DeferAtClaim`; `MarkServed` or `MarkFails`; `EndPoll`;
`Settle` (the lane job is drained: done, or deferred for a coverage miss);
`BecomeReady`. The image lane, which shares the camera slots, is not in this module.

### EventIngestion

*State.* `produced`, `group`, `last` and `pel` are the stream and its consumer group;
`events`, `clip` and `task` the columns the handler writes; `alerts`, `dedupe` and
`requests` what it sends to Redis; `proc[w]` where worker `w` is in its batch and
handler; `mem[w]` its recording policy, which dies with it. `skipped` and `cut` are
history: messages behind which a group was created, and events whose inserting
handler a fault ended.

*Actions.* `Produce`; `Start` (group created at the end of the stream), `LoseGroup`,
`ReadNew` (which recreates a lost group at 0), `ReadPending` (the oldest entries, of
which any that are idle long enough are claimed); the handler statement by statement:
`InsertEvent`, `InsertFails`, `DecidePolicy` with the alert, `MarkSuppressed`, `Admit`
(the counts), `CreateTask`, `CreateFails`, `Gate`, `PublishRequest`, `SetClipPending`,
`Ack`; `Abort` (an exception, the rest of the batch stays pending), `Crash`,
`ExpireKey`, and `EndTask` for the media-worker.

*Abstractions.* An event carries what the gates compare: key, source, timestamp. The
windows of a task, the default policies and the parsing are left out.

### ReplayAdmission

*State.* `msg`, `task`, `slot` (status, owner, generation, create state and job of the
`replay_*` columns), `late` and `overdue` (its two deadlines), `transit`, `jobs`,
`running` and `video` (Replay), `proc[w]`.

*Actions.* `ReadNew`, `Reclaim`, `Ack`; `CheckTerminal`, `LoadSlot`, `Gate`, `Load`,
`Snapshot` and `Acquire` (the statement takes its snapshot, waits for the advisory
lock, then writes), `Takeover`, `Recover`, `MarkSubmitting`, `Submit`, `Abort`,
`MarkUncertain`, `Commit`, `MarkFailed`; Replay's `Arrive` (a create request whose
answer was lost, late) and `JobEnds`; `SinkStable`, `MediaCompletes`, the deadlines
and the sweep `Expire`; `Crash`. Every statement may fail, before or after its effect.

*Abstractions.* A generation is only compared with the one a worker remembers, so
one that nobody remembers stands for the next. The plan is reduced to whether there
is one and whether it is the slot's. The column `materialization_owner` is not kept: when
there is a video a finalizer may have claimed the row, and `MarkFailed` then may find it
or not (`MayBeTaken`).

### RollingCache

*State.* `stage[s]` (how far the publication of segment `s` is), `group` (the cohort
being committed), `disk[s]` and `durable` (its directory, and whether its rename has
been synced), `journal`, `catalog` (entries, pending, cursor), `reader[r]`, `pin[r]`
and `orphan` (marker files, those of dead processes too), `retention`.

*Actions.* Sink: `CloseFragment`, `TakeGroup`, `Prepare`, `Rename`, `Fence`,
`AppendJournal`, `Finish`, `SinkCrash`. Lookup: `Ask`, `Enter`, `Walk`, `Refresh`,
`Audit`, `CatchUp`, `Pin`, `Unpin`, `ReconcileDue`, `PinExpires`, `IndexCrash`.
Retention: `Discover`, `LockTree`, `Delete`, `UnlockTree`, `RetentionCrash`.
`HostCrash` ends all three and loses any rename that was not synced.

*Abstractions.* One camera and epoch. Contents of a segment are whole or damaged. A
deletion that a host crash undoes is left out, and so is a journal that has become shorter
than the cursor: appends are not synced, so a host crash may shorten it, but the cursor is
in the memory of a process that dies with the host.

### FinalizerPublish

*State.* `row` (phase, generation, whether `clip_path` is set), `fin[f]` (program
counter, generation, status of the bundle, health of the heartbeat handle),
`incoming[g]` (the attempt directory of each claim), `canonical`, `quarantine`,
`sink` (the input), `audit`, `index`. `displaced`, `littered` (the generations whose attempt
directory a failure has left) and `abandoned` are history and name the exceptions of the
properties.

*Actions.* `Claim`, `StartBundle`, `FinishBundle`, `BundleRaises`, `HeartbeatLost`,
`CheckHealth`, `CheckFence`, `Look`, `Converge`, `Quarantine`, `Rename` and their
failures, `PublishFault`, `SettleHealth`, `Commit`, `CommitUnanswered`, `Details`,
`Index` (with the pruning or retaining of sidecars), `Cleanup`, `FollowUpLost`,
`Recover`, `RecoverCleanup`, `Crash`. Wherever the code discards an attempt directory
(`Discard`) the removal may fail, which `_discard_finalizer_attempt` logs, and the caller
goes on. `HeartbeatLost` is no fault: a lease may end and an attempt grow too old at any time.

*Abstractions.* Of a bundle: which claim built it, whether it has the clip and whether a
later finalizer finds it complete (`sidecars`). The last is arbitrary for a bundle that has
just been put in place: it depends on which files the path it was built on names and writes,
and a bundle of the frame-cache path whose rows go to the database (the default) names an
annotations file it does not write and never looks complete. The row's other transitions
are `EvidenceLifecycle`'s.

### GallerySync

*State.* `gallery` (version and activity of each face), `active` (persons), `closing`
(an open transaction of a person's removal and what its trigger saw), `outbox`,
`point` (the version each index point was built from), `worker[w]`, `command[o]`;
`overtaken` and `doubtful` are history.

*Actions.* `Register`, `Promote`, `Remove`, `RemovePerson` and its commit, each with
its trigger; `Reclaim`, `Claim`, `Read`, `Write`, `Raise`, `Proceed`, `Complete`,
`MarkFailed`, `Crash`; `Run`, `Scan`, `Upsert`, `Scroll`, `Delete`, `Abandon` of an
operator's command; `Elapse` for backoff and processing time-out.

*Abstractions.* Vectors and payloads are the version they were read from.

## 3. Runs

Each run asks one question. All but `publish` check for deadlock; there the one task
may be finished and nothing is left to do.

| run | instance | shows |
|---|---|---|
| `lifecycle` | 2 job slots, 2 claims, 1 fault, 1 rejection; lease and retry 1 tick, ready after 1, deadline after 3; 179,235 states | the invariants, the action properties, the refinement of `EvidenceTask`, and `NoStall` |
| `handoff_discarded` | smallest instance that shows it | section 4 |
| `admission` | 2 attempts, 2 cameras, 2 permits, 2 rows per stage, failing completions; 118,916 states | `NoOrphan`, `StopReleases`, `ShutdownStops`, `AttemptsEnd` |
| `admission_limits` | 4 attempts, 2 permits, 1 slot per camera, failing completions and interrupting signals; 148,749 states | `WithinLimits`: the limits bound the work that occupies executors even when a fault has leaked resources |
| `rotation` | 2 processes with one remux worker, camera `a` with 4 tasks (one urgent), camera `b` with 1, one deferral, one failing statement, exhausted budget; 445,234 states | `BoundedOvertaking` |
| `ingestion` | 2 event-workers, batches of 2; a message the database rejects and two of one cooldown key with one timestamp; 1 fault; 393,464 states | `AlertOnce`, `RequestOnce`, `SuppressedHasCause`, `EvidenceAccounted`, `AckImpliesStored`, `EventuallyStored` |
| `ingestion_admission` | 2 event-workers, 6 events of 2 cameras, 1 reserved place each and 1 shared; 1,402,162 states | `SharedPoolBounded` |
| `replay` | 2 clip-workers, 1 request, 1 slot, 1 fault; 361,817 states | `AtMostOneReplayJob`, `AbortedHasNoJob`, `AckHasOutcome`, `RequestsSettle` |
| `cache` | 2 segments, cohorts of up to 2, a journal of 1 record, 1 lane, 1 fault; 156,364 states | `PinHolds`, `NoSilentGap`, `PublishedSurvives`, `EventuallyIndexed`, `RequestServed` |
| `publish` | 2 finalizers, 3 claims, 2 faults; 1,132,735 states | `CommittedClipOnDisk`, `InputUntilOutcome`, `AttemptAccounted`, `PublishedNotOverwritten`, `FollowUpSettles` |
| `gallery` | 2 sync workers, 2 faces of one person, batches of 2, 2 attempts, 2 changes, 2 faults; 319,021 states | `CompletedMeansIndexed`, `RowsSettle` |
| `gallery_commands` | 1 sync worker, 1 operator with 2 commands, 3 faces in pages of 2, 2 changes, 1 fault; 1,655,329 states | `CommandRepairs`, `CompletedMeansIndexed` |

Every module has a `TypeOK`, and each is proved (section 5). The one of
`EvidenceLifecycle` is in its run; the others are left out of the runs, to keep these for
what could really go wrong.

Every invariant and action property of the passing runs is also proved for all values of
the constants. For these a run is the evidence that the proved specification can do what
it is meant to, and its mutants that each property can fail; the size of an instance
matters for the liveness properties, which are only checked.

*Why the bounds are enough.*

* `lifecycle`: two job slots are two threads of one process as well as two processes; a
  stale holder against the current one needs two, and a second claim is what makes a
  holder stale. With the lease shorter than the deadline the recovery pass meets a dead
  lease both before and after it, with and without a handoff.
* `admission`: two attempts suffice for one attempt to be drained, transferred or
  admitted while another is in any state, including the finalizer lane and its queue;
  the loops treat attempts independently of each other but for the limits, which
  `admission_limits` exercises with more attempts than any limit allows.
* `rotation`: the backlog of `a` is longer than the bound (two processes and one fault, 3)
  so that the bound can be exceeded, and is with the rotation's ordering changed; one
  worker per process is the deployed value (`infra/env/midterm.env`).
* `ingestion`: two workers are what a redelivery needs to meet the first delivery; the
  rejected message is first in the pending list, where it could hold up the others.
  `ingestion_admission` has more events than the pool and its allowance can take.
* `replay`: the second worker is the one that reclaims; a fault is what makes a create
  uncertain. One event is enough for properties of one event, and with one slot it is
  its own rival only; the limits are not claimed (section 4).
* `cache`: two segments are a window and its guard, or a cohort. A journal of one
  record is replaced by every second append, the hardest case for the cursor.
* `publish`: three claims let a finalizer be stale, be replaced, and the replacement be
  replaced; two faults let one attempt fail and a follow-up fail.
* `gallery`: two rows of one face can be out of order in two batches; with three faces
  and pages of two a command sees a full and a short page.

Symmetry is used in `admission_limits` only.

*Fairness.* Nothing is assumed about faults or rejections.

* `lifecycle`: a job that was started ends (`WF` on `Outcome` and `Project` of each
  worker: subprocesses have timeouts and the attempt age is bounded); claimable rows are
  polled, the recovery pass runs on every tick of the main loop and the sweep on every
  poll of the clip-worker; time passes.
* `admission`: the scheduler thread keeps running and the grace period ends; the
  watcher's `SF` says that it is not kept for ever from a lock the scheduler thread takes
  briefly. `AttemptsEnd` carries its own assumptions: a tick with the rolling poll only
  recurs (it is due every second, the general one every two or more), lane jobs end,
  a queued job is not passed over for ever, which stands for the executor's first-in
  first-out order, and from some moment on no completion statement fails any more (nobody
  can promise that an attempt leaves its table if every attempt to settle it fails). Nothing
  is assumed about how often or where one fails before, and a tick may be abandoned at
  any time.
* `ingestion`: a process is restarted by its container and its loop goes on (`WF`). An
  entry that nobody claims only grows older, so some poll finds all listed entries old
  enough (`SF` on that poll).
* `replay`: workers go on (`WF`), deliveries that are held are reclaimed and the sweep
  comes round (`SF`, because a crash or a change of the row may intervene); both deadlines
  pass, and the media-worker releases the slot of a stable video and ends its task.
  Nothing is assumed of Replay.
* `cache`: the publication worker, a retention pass that was started and a lookup go on,
  lanes keep asking, and the reconciliation comes due every 30 s (`WF`); a lane that waits
  for the gate or the lock gets it in the end (`SF`). No camera need produce a segment and
  nothing need be deleted.
* `gallery`: workers go on, timers run out, an open transaction commits.
* `publish`: a finalizer thread goes on, its subprocesses having timeouts, and the main
  loop polls for pending cleanups.

The properties, by the question they answer:

* *Can a stale holder write?* `SoleHolder`, `FreshFence`, `TerminalAbsorbing`;
  on disk `CommittedClipOnDisk` and `PublishedNotOverwritten`.
* *Can finished work be lost or a row be stuck?* `HandoffSurvives`, `RowShape`,
  `NoStall`, `InputUntilOutcome`, `FollowUpSettles`. `RowShape` matters because every
  query selects by status, phase, owner and lease together: a row in another combination
  would be invisible to all of them.
* *Can a reader be misled?* `EventFollowsTask`, `CompletedMeansIndexed`.
* *Does it all add up?* `ImplementsEvidenceTask`.
* *Is capacity leaked, exceeded, or held by a stopped process?* `NoOrphan`,
  `WithinLimits`, `StopReleases`, `AttemptsEnd`, `SharedPoolBounded`, `AttemptAccounted`.
* *Does a shutdown end?* `ShutdownStops`.
* *Does a busy camera starve a quiet one?* `BoundedOvertaking`.
* *What does a message cause, delivered once or five times?* `AlertOnce`, `RequestOnce`,
  `AtMostOneReplayJob`, `AbortedHasNoJob`, `SuppressedHasCause`.
* *Is a message given up without effect, or never?* `AckImpliesStored`,
  `EvidenceAccounted`, `EventuallyStored`, `AckHasOutcome`, `RequestsSettle`, `RowsSettle`.
* *Is video there when it is read, and found when it is there?* `PinHolds`,
  `PublishedSurvives`, `NoSilentGap`, `EventuallyIndexed`, `RequestServed`.
* *Does a repair repair?* `CommandRepairs`.

## 4. Disagreements between the code and its documents

`handoff_discarded` is a run that TLC violates, its property stating what
`specs/33_midterm_media_worker_evidence_scheduler_remediation_plan.md` says
(`PendingHandoffNotDiscarded`): `persist_finalizer_handoff` commits, its projection
raises, and the drain loop's `except Exception` fails the task with the still valid
fence, discarding the artifact.

The models show more of them. Each is named in the property it would violate, as an
exception or a switched-off fault, so that it can be seen again by taking the exception
away.

* *Lost lease.* A heartbeat statement that raises is booked as a lost fence; the job,
  whose fence is intact, then fails its task terminally (`HeartbeatError`, then
  `FailRolling` with `lease_lost`). The specification calls a lost fence a recoverable
  exit.
* *Event regression.* The projection of an earlier transition may come after the one of
  the terminal transition and sets `events.media_status` back to an active value.
  `EventFollowsTask` speaks of final values only.
* *Orphaned handoffs.* A completion statement that raises inside an `except` clause of
  `_drain_completed` loses the local table of handoffs drained before it; their permits
  are never released (`lost` in `NoOrphan` and `StopReleases`, which say that the loss stops
  there). Raised in the shutdown loop it ends `run_worker` before the forced stop and the
  close (stage `died`, excepted in `ShutdownStops` and `AttemptsEnd`).
* *Blocked shutdown.* The signal handler runs in the scheduler thread and takes a plain
  `Lock` that this thread may hold (`SignalsInterrupt = TRUE` breaks `ShutdownStops`).
* *Deferral spends the turn.* The cursor is advanced at submission, the coverage miss is
  found by the lane job.
* *Stale publisher.* A finalizer that loses its fence after `heartbeat_lease` (worker.py
  6507) goes on. The winner meanwhile commits and prunes its sidecars, which makes its
  directory look incomplete to the stale one; that moves it to the quarantine and puts
  its own in place, or dies in between and leaves a materialized event without files.
  The specification says (line 624) "A stale lease holder cannot publish, commit, or
  delete the winner's files". Without `~displaced =>` `CommittedClipOnDisk` fails. The
  file is never lost: it is in the quarantine.
* *Left attempts.* Nothing looks at an attempt directory in `.incoming` again once its
  finalizer is gone, and its bytes count against the storage limit. One is left by a crash,
  by an exception of the publish step, which is caught at the end of `_finalize_one` (7020)
  and releases the task only, and by a removal that fails in `_discard_finalizer_attempt`
  (6322), which swallows the error (`littered`).
* *Follow-up not retried.* Index and terminal commit are separate transactions, though
  the specification (lines 616 to 624) wants one: a fault between them leaves the event
  unindexed or its input on disk for ever (`abandoned`).
* *Replay limits.* The counts come from a snapshot that is older than the advisory lock
  (`clip-worker/app/repository.py` 771), so two waiting workers may both find room. The
  docstring of the V1 form of the statement (322 to 327) calls this "safe to reuse when
  multiple clip-worker consumers are introduced later". One consumer is deployed.
* *Slots that only time out.* A failed proof lookup after an unanswered create
  acknowledges the request with the slot active (`request_processor.py` 802), and
  `commit_replay_job_handoff` does not accept an uncertain create, so a job found by
  recovery is never committed.
* *Half-deleted segment.* Retention that dies inside a directory leaves one that the audit
  keeps and pins refuse; nothing repairs it (excepted in `RequestServed`).
* *Dropped audit.* The trailing journal read of a refresh (`segment_index.py` 1407)
  discards its demand for an audit; the segment waits for the periodic one (`skipped` in
  `NoSilentGap`).
* *Cooldown.* The gate reads the events of the key that are stored and unmarked at that
  moment and marks its own later. An event handled before an earlier one is stored passes
  beside it, and two of one timestamp handled at the same time may each take the other for
  its cause. `SuppressedHasCause` says that there was a cause, not that it was announced.
* *Gallery.* `reconcile` beside the sync worker may delete a newly indexed face or put back
  a removed one (`doubtful`); the person trigger misses a face registered before its
  commit; a row that only ever crashes its worker is never poisoned, as the plan in
  `specs/28...` line 471 wants; `claim_outbox_rows` promises an order that `RETURNING`
  does not give.

Two observations concern configurations no document speaks of. With more than
one remux worker per process and a work budget that admits one row per poll, the rows of
a turn are tried oldest first and `BoundedOvertaking` does not hold; it is stated for one.
With three processes one of them may claim a task of a camera and mark it only after the
camera's next task has begun to wait and was overtaken: the late mark puts the camera's
cursor behind the others again, and the other two processes may overtake it once more.
`passed` therefore counts from the moment the wait for a turn begins, and a late mark begins
it anew.

## 5. Proofs

Each module below proves `TypeCorrect` (`Spec => []TypeOK`) and one theorem for every
safety property of its component, named after the property with `Holds` appended
(`THEOREM AlertOnceHolds == Spec => []AlertOnce`); the refinement is `Refinement`.

| module | properties proved |
|---|---|
| `EvidenceLifecycle_proofs` | `RowShape`, `SoleHolder`, `EventFollowsTask`, `TerminalAbsorbing`, `HandoffSurvives`, `FreshFence`, `ImplementsEvidenceTask` |
| `FinalizerPublish_proofs` | `CommittedClipOnDisk`, `InputUntilOutcome`, `AttemptAccounted`, `PublishedNotOverwritten` |
| `WorkAdmission_proofs` | `WithinLimits`, `NoOrphan`, `StopReleases` |
| `SourceRotation_proofs` | `BoundedOvertaking` |
| `EventIngestion_proofs` | `AlertOnce`, `RequestOnce`, `SuppressedHasCause`, `EvidenceAccounted`, `AckImpliesStored`, `SharedPoolBounded` |
| `ReplayAdmission_proofs` | `AtMostOneReplayJob`, `AbortedHasNoJob`, `AckHasOutcome` |
| `RollingCache_proofs` | `PinHolds`, `NoSilentGap`, `PublishedSurvives` |
| `GallerySync_proofs` | `CompletedMeansIndexed`, `CommandRepairs` |

*Assumptions.* Those the modules declare: finitely many workers, processes, cameras and
stored events where they are counted; sizes of batches, windows, lanes and limits positive,
the other bounds natural numbers, switches Boolean; a process is not called like the
absence of one; an event-worker exists; `MaxActive >= 2`, without which `run_worker` does not
start. They are otherwise arbitrary, so the results hold for any number of workers, claims,
messages and faults. No theorem has a hypothesis of its own; `BoundedOvertaking` is stated for
one worker per process (section 4). Every inductive invariant was checked by TLC on instances of
its module before it was proved, most of them larger than the run's.

*Argument for `EvidenceLifecycle`.* None of the properties is inductive by itself. The
inductive invariant is

    IInv == TypeOK /\ RowShape /\ SoleHolder /\ EventFollowsTask

`SoleHolder` needs `RowShape`, because whether a fence can match again depends on the
phase the row is in; the clause that a job still remuxing under the row's fence has no
handoff is what makes `FailRolling` harmless to `HandoffSurvives`; `EventFollowsTask`
needs that terminal rows are not written, which needs that their lease is NULL
(`RowShape`) and that a stale job's fence is not (`SoleHolder`). The proof goes through
a classification: every step changes the row in one of six ways (`RowStep`: keep,
grant, pass on, deliver, release, finish) and at most one job. `WorkerStep` and
`SystemStep` establish this action by action together with `RowShape`; the rest, the
action properties and the refinement follow from the six ways alone. Under the
refinement mapping these six are the steps of `EvidenceTask`.

*Argument for `FinalizerPublish`.* The invariant adds four facts to the properties:

    IInv == TypeOK /\ OneEach /\ ClipPlaced /\ OutcomeFollowed /\ RetryAfterOutcome
            /\ CommittedClipOnDisk /\ InputUntilOutcome /\ AttemptAccounted

A commit makes `CommittedClipOnDisk` true only if the committing finalizer's clip is still
where it put it, or found it. That is `ClipPlaced`: while it holds the fence nobody else
does (`OneEach`: generations of finalizers at work differ), so whoever quarantines the
directory meanwhile is without the fence, which is the exception the property names. The
input is removed by a finalizer that is past its commit, or by the retry of a removal;
`OutcomeFollowed` and `RetryAfterOutcome` say that the outcome is in the row then. What a
step can do is established aspect by aspect (`FinStep`, `RowStep`, `AttemptStep`,
`FilesStep`, `PlacedStep`, `InputStep`), and preservation follows from these effects.

*Argument for `WorkAdmission`.*

    WorkInv == TypeOK /\ Shaped(agenda) /\ AllSound /\ StageOK /\ Bounded

What an attempt holds depends on its own record (`Sound`: where its ticket, slot, permit
and heartbeat are, by table and future; `Kept`: what is held has an owner, or, for the
attempts in `lost` and only for them, `Leaked`: a permit that nobody will give back, and
neither a slot nor a ticket) and on where the scheduler thread is (`StageOK`: the
tables a stage has still to visit, that transfers exist only between a remux drain and the
converge loop, that nothing executes outside a table before the forced stop). The agenda is
a sequence; of it the proof needs only which stage may follow which (`Shaped`), which is
also what puts a `converge` behind every handoff. The limits cannot be proved of the
counters, since work goes on after a forced stop has given them back: `Bounded` counts the
attempts that hold a permit or slot *or* still occupy the executor they held it for, and
every step but an admission only lessens what an attempt holds (`Eases`). `StopReleases`
needs one more invariant: after a stop that was not forced no attempt is left.

*Argument for `SourceRotation`.*

    RotationInv == Types /\ Owned /\ (Workers = 1 => Fair)

The bound itself says nothing about the polls under way. `Fair` distinguishes two
situations of a camera `s` that `t` has overtaken. While `t` is not ahead in the cursor, every
claim of `t` still has its mark to come (`Pend`) or its mark failed, so there are at most as
many as processes and faults. Once it is, no turn query puts `t` before `s`, and only the
polls that were under way can claim `t` (`Threats`), each one row: claims so far plus threats
stay within the bound. A mark passes from the first situation to the second, which is where
the two counts meet, because a process that has a mark to make is no threat. The proof that
a poll begun with `t` behind `s` cannot claim `t` is about the first turn and the first row:
the maximum of the priorities, the minimum of cursors and due times, and the candidate query.

*Argument for `EventIngestion`.*

    IngestInv == TypeOK /\ Handlers /\ OneInserter /\ Rows /\ EvidenceAccounted /\ NoGroupNoList

All five properties of single events rest on `OneInserter`: of all handlers that work on
deliveries of one event at most one got an id from `insert_event`, and only that one goes on to
alert, create and record. `Handlers` says what it may rely on at each label; a crash or an
exception ends it and puts the event in `cut`. `SharedPoolBounded` needs a count that the
property does not mention: places are promised by the counting statement before the insert
takes them. `PoolBounded` bounds the places promised beyond the reservation and one per worker
by the limit and the faults. When a count grants a place of the pool, each of the other
workers has at most one grant it has not inserted, so what the count saw is at least what was
promised less one per other worker; mapping every promised place down by that many is an
injection into the places the count saw (`GrantFromPool`).

*Argument for `ReplayAdmission`.*

    ReplayInv == TypeOK /\ FreeRows /\ NotStarted /\ NoCall /\ CallUntouched /\ OneCall
                 /\ AtMostOneReplayJob /\ AckReady /\ AckedReady

At most one worker is between the marking of a create call and its answer (`OneCall`), and
while it is there is neither a job nor a request in transit (`CallUntouched`); nor is there
before the marking or after a refusal (`NoCall`). A worker that takes over a started call
never comes to the marking (`NotStarted`), and one that lost its slot fails the fence, whose
generation is new at each takeover. So the one create request that is sent finds nothing.

*Argument for `RollingCache`.*

    CacheInv == TypeOK /\ Numbered /\ Named /\ Synced /\ OneInside /\ LockHeld
                /\ VictimsSafe /\ PinsWhole /\ Cursor /\ Rebuilding /\ NoSilentGap

`PinHolds` comes from the lock: readers in the section and retention exclude each other
(`LockHeld`), victims are dropped under the lock if a live marker names them (`VictimsSafe`),
and every live marker, of a reading lane or not, names whole segments (`PinsWhole`).
`PublishedSurvives` is `Synced`: what is about to be announced has been fenced. `NoSilentGap`
is inductive only with the position of the cursor (`Cursor`: within its file, which is not
newer than the journal), with the numbering of journal files (a replaced journal never has
the number the cursor remembers), and with one reader at a time in the catalog.

*Argument for `GallerySync`.* `GalleryInv` adds to the types: every point is that of its row,
or excused by name, or a change is *owed*, that is, one of its outbox rows is open and nobody is about
to complete it (`Indexed`). That is only kept if whoever has read a row and will write its
point is honest: it holds what the row is now, or was overtaken, or a change other than the
one it is handling is owed (`Honest`, `PageHonest`). `Achieved` is what an undisturbed command
has put right so far, page by page. The type invariant bounds the attempts of a row by the
faults, for which `Paid` counts the failures that are about to be booked.

*Only model-checked.* Liveness (`NoStall`, `ShutdownStops`, `AttemptsEnd`,
`EventuallyStored`, `RequestsSettle`, `EventuallyIndexed`, `RequestServed`, `RowsSettle`,
`FollowUpSettles`): fairness and `ENABLED` are outside the prover's reach.

## 6. What is not modelled

* Lifecycle: branches for a database without migration 030. Loss of a Replay export after
  it was found: such a row may stay `pending` under owner `media_finalizer`, which neither
  expiry statement selects (listed as a hazard).
* Media-worker: the V1 scheduler path, the legacy snapshot and annotation image jobs, the
  storage guards, `BoundedIoGate` and the connection pool (waiting for an fsync slot or a
  connection).
* Contents of bundles, manifests and segments; frame arithmetic; ffmpeg; GStreamer.
* Ingestion: the person-observation batch, image-only tasks, coverage merging (disabled by
  default), messages that cannot be parsed.
* Replay: the V1 path of the clip-worker's `worker.py`, the cooldown and quota gates, the
  quarantine of malformed requests, the proof lookup; the planner's arithmetic.
* Rolling cache: the fallback directory scan, the row cache and eviction of catalogs,
  back-pressure and close of the dispatcher, the assignment of rows to fragments. Byte
  quotas only choose which segments go.
* Gallery: creation of the collection and its alias, the rebuild mode, the search.
* Clip window planning, the analysis forwarder, behaviour rules, runtime topology control,
  storage maintenance of the API: planned below. The face recognition workers repeat the
  event-worker's delivery; the rest of them is numerical. API, viewer and registration are
  request handlers over the database.
* Deployment, operator scripts and the test harness (among them the largest files of the
  repository) have no protocol of the system in them; they were read for limits and intent.

## 7. Plan

1. An abstract specification of delivery (a message is pending until its effect is stored)
   that `EventIngestion` and `ReplayAdmission` both refine, proved from the invariants of
   section 5.
2. `TopologyJob` (`runtime_topology_jobs.py`): status request against the job thread, and
   the supervisor's recovery loop.
3. Pure operators: clip windows of `replay_planner.py`, `pts_fps_gate`, the sampler,
   against reference definitions over bounded inputs.
4. Storage maintenance of the API, which shares the mutation lock with `RollingCache`.
