---------------------- MODULE EvidenceLifecycle_proofs ----------------------
(***************************************************************************)
(* Proofs about EvidenceLifecycle, for any set of workers and any lease,   *)
(* retry, ready and deadline times.                                        *)
(***************************************************************************)
EXTENDS EvidenceLifecycle, TLAPS

USE DEF NoTime, NoLease, NoHandoff, NoStatus

(* A row that gets another status and phase is a row. *)
LEMMA WithStatusType ==
    ASSUME NEW t \in Task, NEW s \in Statuses, NEW p \in Phases
    PROVE  WithStatus(t, s, p) \in Task
BY DEF WithStatus, Task

(* A row whose lease columns are cleared is a row. *)
LEMMA UnleasedType ==
    ASSUME NEW t \in Task
    PROVE  Unleased(t) \in Task
BY DEF Unleased, Task, Fences

(* The terminal field-reset contract yields a row. *)
LEMMA TerminalRowType ==
    ASSUME NEW t \in Task, NEW s \in Statuses
    PROVE  TerminalRow(t, s) \in Task
<1>1. "terminal" \in Phases
  BY DEF Phases
<1>2. Unleased(WithStatus(t, s, "terminal")) \in Task
  BY <1>1, WithStatusType, UnleasedType
<1> QED
  BY <1>2 DEF TerminalRow, Task, Owners

(* The failure contract yields a row. *)
LEMMA FailedRowType ==
    ASSUME NEW t \in Task, NEW r \in RetryableReasons \cup TerminalReasons
    PROVE  FailedRow(t, r) \in Task
<1>1. TerminalRow(t, "failed") \in Task
  BY TerminalRowType DEF Statuses, Terminal
<1> QED
  BY <1>1 DEF FailedRow, Task

(* A claim yields a row. *)
LEMMA LeasedRowType ==
    ASSUME NEW t \in Task, NEW p \in Phases, NEW o \in Owners, NEW f \in Fences
    PROVE  LeasedRow(t, p, o, f) \in Task
<1>1. WithStatus(t, "materializing", p) \in Task
  BY WithStatusType DEF Statuses
<1> QED
  BY <1>1, TicksAssumption DEF LeasedRow, Task, Fences

(* A worker that is given a mode, a fence and a due projection is a job. *)
LEMMA SetType ==
    ASSUME job \in [Workers -> Job], NEW w \in Workers, NEW m \in Modes,
           NEW f \in Fences, NEW d \in Statuses \cup {NoStatus}, Set(w, m, f, d)
    PROVE  job' \in [Workers -> Job]
<1>1. [mode |-> m, fence |-> f, due |-> d, health |-> "ok"] \in Job
  BY DEF Job
<1> QED
  BY <1>1 DEF Set

(* A worker that stops is a job. *)
LEMMA EndType ==
    ASSUME job \in [Workers -> Job], NEW w \in Workers, End(w)
    PROVE  job' \in [Workers -> Job]
<1>1. NoLease \in Fences /\ NoStatus \in Statuses \cup {NoStatus} /\ "idle" \in Modes
  BY DEF Fences, Modes
<1> QED
  BY <1>1, SetType DEF End

(* A fenced statement keeps the row and the jobs well typed. *)
LEMMA FencedType ==
    ASSUME TypeOK, NEW w \in Workers, NEW row \in Task, NEW d \in Statuses,
           Fenced(w, row, d)
    PROVE  task' \in Task /\ job' \in [Workers -> Job]
<1>1. NoLease \in Fences /\ "idle" \in Modes
  BY DEF Fences, Modes
<1>2. CASE Holds(w) /\ task' = row /\ Set(w, "idle", NoLease, d)
  BY <1>1, <1>2, SetType DEF TypeOK
<1>3. CASE ~Holds(w) /\ End(w) /\ UNCHANGED task
  BY <1>3, EndType DEF TypeOK
<1> QED
  BY <1>2, <1>3 DEF Fenced

(* What every retry delay is. *)
LEMMA DelayType == 1..RetryTicks \subseteq Nat
BY TicksAssumption

(* The states and the vocabulary the types range over. *)
LEMMA Vocabulary ==
    /\ Statuses = {"manifest_ready", "pending", "materializing", "materialized",
                   "deferred", "failed", "expired"}
    /\ Phases = {"waiting_ready", "waiting_coverage", "image_running", "remux_running",
                 "finalizer_pending", "finalizing", "terminal"}
    /\ Owners = {"rolling", "replay", "media_finalizer", "terminal"}
    /\ RetryableReasons \cup TerminalReasons =
          {"not_ready", "capacity", "transient", "invalid_input", "storage_hard_stop",
           "lease_lost", "unknown"}
BY DEF Statuses, Claimable, Terminal, Phases, WaitingPhases, FinalizerPhases, Owners,
       RetryableReasons, TerminalReasons

(* Initially the types hold. *)
LEMMA InitTypeOK == Init => TypeOK
<1> SUFFICES ASSUME Init PROVE TypeOK
  OBVIOUS
<1>1. PICK kind \in Kinds : task = NewTask(kind)
  BY DEF Init
<1>2. task \in Task
  BY <1>1, Vocabulary, TicksAssumption DEF NewTask, Task, Kinds, Fences
<1>3. Idle \in Job
  BY DEF Idle, Job, Modes, Fences
<1> QED
  BY <1>2, <1>3, Vocabulary DEF Init, TypeOK, RecoverySteps

(* Every step of a worker preserves the types. *)
LEMMA WorkerTypeOK ==
    ASSUME TypeOK, NEW w \in Workers,
           \/ ClaimRolling(w) \/ GenericClaim(w) \/ ReadCurrentLease(w)
           \/ Outcome(w) \/ Project(w) \/ Heartbeat(w) \/ Fault(w)
    PROVE  TypeOK'
<1> USE Vocabulary
<1>a. /\ task \in Task /\ event \in Statuses /\ job \in [Workers -> Job]
      /\ rec \in RecoverySteps \cup {"project"} /\ recDue \in [RecoverySteps -> BOOLEAN]
      /\ faults \in Nat /\ rejections \in Nat
  BY DEF TypeOK
<1>b. job[w] \in Job /\ job[w].fence \in Fences /\ job[w].fence.gen \in Nat
  BY <1>a DEF Job, Fences
<1>c. /\ task.gen \in Nat /\ task.lease \in Fences /\ task.status \in Statuses
      /\ task.owner \in Owners /\ task.kind \in Kinds
  BY <1>a DEF Task
<1>f. ASSUME NEW row \in Task, NEW d \in Statuses, Fenced(w, row, d), UNCHANGED Local
      PROVE  TypeOK'
  <2>1. task' \in Task /\ job' \in [Workers -> Job]
    BY <1>f, FencedType
  <2> QED
    BY <1>a, <1>f, <2>1 DEF TypeOK, Local
<1>g. ASSUME task' \in Task, NEW m \in Modes, NEW f \in Fences,
             NEW d \in Statuses \cup {NoStatus}, Set(w, m, f, d), UNCHANGED Local
      PROVE  TypeOK'
  <2>1. job' \in [Workers -> Job]
    BY <1>a, <1>g, SetType
  <2> QED
    BY <1>a, <1>g, <2>1 DEF TypeOK, Local
<1>e. ASSUME End(w), UNCHANGED task, UNCHANGED Local
      PROVE  TypeOK'
  <2>1. job' \in [Workers -> Job]
    BY <1>a, <1>e, EndType
  <2> QED
    BY <1>a, <1>e, <2>1 DEF TypeOK, Local
<1>h. ASSUME NEW g \in Nat, StartFinalizing(w, g), UNCHANGED Local
      PROVE  TypeOK'
  <2>1. FinalizerFence(g) \in Fences
    BY DEF FinalizerFence, Fences
  <2>2. task' \in Task
    BY <1>a, <1>h, <2>1, LeasedRowType DEF StartFinalizing
  <2>3. Set(w, "finalizing", FinalizerFence(g), "materializing")
    BY <1>h DEF StartFinalizing
  <2> QED
    BY <2>1, <2>2, <2>3, <1>g, <1>h DEF Modes
<1>1. CASE ClaimRolling(w)
  <2> DEFINE f == RunnerFence(task.gen + 1)
  <2>1. f \in Fences
    BY <1>c DEF Fences, RunnerFence
  <2>2. RollingPhase(task.kind) \in Phases
    BY DEF RollingPhase
  <2>3. LeasedRow(task, RollingPhase(task.kind), "rolling", f) \in Task
    BY <1>a, <2>1, <2>2, LeasedRowType
  <2>4. /\ task' = [LeasedRow(task, RollingPhase(task.kind), "rolling", f)
                       EXCEPT !.handoff = 0]
        /\ Set(w, "running", f, "materializing")
        /\ UNCHANGED Local
    BY <1>1 DEF ClaimRolling
  <2>5. task' \in Task
    BY <2>3, <2>4 DEF Task
  <2> QED
    BY <1>g, <2>1, <2>4, <2>5 DEF Modes
<1>2. CASE RetryRolling(w)
  <2>1. PICK reason \in {"not_ready", "transient"} \cup
                 IF job[w].health = "ok" THEN {} ELSE {HealthReason(job[w].health)},
             delay \in 1..RetryTicks :
          Fenced(w, RetryRollingRow(reason, delay),
                 IF reason \in RetryableReasons THEN "pending" ELSE "failed")
    BY <1>2 DEF RetryRolling
  <2>2. reason \in RetryableReasons \cup TerminalReasons
    BY DEF HealthReason
  <2>3. RetryRollingRow(reason, delay) \in Task
    <3>1. CASE reason \in RetryableReasons
      <4> DEFINE p == IF reason = "not_ready" THEN "waiting_coverage" ELSE "waiting_ready"
      <4>1. Unleased(WithStatus(task, "pending", p)) \in Task
        BY <1>a, WithStatusType, UnleasedType
      <4>2. delay \in Nat
        BY DelayType
      <4>3. [Unleased(WithStatus(task, "pending", p))
               EXCEPT !.owner = "rolling", !.next = delay, !.handoff = NoHandoff] \in Task
        BY <4>1, <4>2 DEF Task
      <4> QED
        BY <3>1, <4>3 DEF RetryRollingRow
    <3>2. CASE reason \notin RetryableReasons
      BY <1>a, <2>2, <3>2, FailedRowType DEF RetryRollingRow
    <3> QED
      BY <3>1, <3>2
  <2>4. UNCHANGED Local
    BY <1>2 DEF RetryRolling
  <2> QED
    BY <1>f, <2>1, <2>3, <2>4
<1>3. CASE FailRolling(w)
  <2>1. PICK reason \in {"transient", "invalid_input", "unknown"} :
          Fenced(w, FailedRow(task, reason), "failed")
    BY <1>3 DEF FailRolling
  <2>2. UNCHANGED Local
    BY <1>3 DEF FailRolling
  <2> QED
    BY <1>a, <1>f, <2>1, <2>2, FailedRowType
<1>4. CASE CompleteImage(w)
  <2>1. job' \in [Workers -> Job]
    BY <1>a, <1>4, EndType DEF CompleteImage
  <2>2. TerminalRow(task, "materialized") \in Task
    BY <1>a, TerminalRowType
  <2>3. [TerminalRow(task, "materialized") EXCEPT !.handoff = NoHandoff] \in Task
    BY <2>2 DEF Task
  <2>4. task' \in Task /\ event' \in Statuses
    BY <1>a, <1>4, <2>3 DEF CompleteImage
  <2> QED
    BY <1>a, <1>4, <2>1, <2>4 DEF CompleteImage, TypeOK
<1>5. CASE PersistHandoff(w)
  <2>1. WithStatus(task, "materializing", "finalizer_pending") \in Task
    BY <1>a, WithStatusType
  <2>2. [WithStatus(task, "materializing", "finalizer_pending")
           EXCEPT !.owner = "media_finalizer", !.ttl = LeaseTicks,
                  !.handoff = job[w].fence.gen] \in Task
    BY <2>1, <1>b, TicksAssumption DEF Task
  <2>3. UNCHANGED Local
    BY <1>5 DEF PersistHandoff
  <2>4. CASE End(w) /\ UNCHANGED task
    BY <2>3, <2>4, <1>e
  <2>5. CASE /\ task' = [WithStatus(task, "materializing", "finalizer_pending")
                            EXCEPT !.owner = "media_finalizer", !.ttl = LeaseTicks,
                                   !.handoff = job[w].fence.gen]
             /\ Set(w, "queued", job[w].fence, "materializing")
    BY <1>b, <1>g, <2>2, <2>3, <2>5 DEF Modes
  <2> QED
    BY <1>5, <2>4, <2>5 DEF PersistHandoff
<1>6. CASE ExactTransfer(w)
  BY <1>6, <1>c, <1>e, <1>h DEF ExactTransfer
<1>7. CASE GenericClaim(w)
  <2>1. task.gen + 1 \in Nat
    BY <1>c
  <2> QED
    BY <1>7, <1>c, <1>e, <1>h, <2>1 DEF GenericClaim
<1>8. CASE CompleteFinalizer(w)
  <2>1. job' \in [Workers -> Job]
    BY <1>a, <1>8, EndType DEF CompleteFinalizer
  <2>2. task' \in Task /\ event' \in Statuses
    <3>1. CASE Holds(w)
      <4>1. PICK outcome \in {"materialized", "failed"} :
              /\ task' = [TerminalRow(task, outcome) EXCEPT
                             !.failure = IF outcome = "failed" THEN "unknown" ELSE "none"]
              /\ event' = outcome
        BY <1>8, <3>1 DEF CompleteFinalizer
      <4>2. TerminalRow(task, outcome) \in Task
        BY <1>a, TerminalRowType
      <4> QED
        BY <4>1, <4>2 DEF Task
    <3>2. CASE ~Holds(w)
      BY <1>a, <1>8, <3>2 DEF CompleteFinalizer
    <3> QED
      BY <3>1, <3>2
  <2> QED
    BY <1>a, <1>8, <2>1, <2>2 DEF CompleteFinalizer, TypeOK
<1>9. CASE FailFinalizer(w)
  <2>1. PICK reason \in {"transient", "invalid_input", "unknown"} \cup
                 IF job[w].health = "ok" THEN {} ELSE {HealthReason(job[w].health)} :
          Fenced(w, FailedRow(task, reason), "failed")
    BY <1>9 DEF FailFinalizer
  <2>2. reason \in RetryableReasons \cup TerminalReasons
    BY DEF HealthReason
  <2>3. UNCHANGED Local
    BY <1>9 DEF FailFinalizer
  <2> QED
    BY <1>a, <1>f, <2>1, <2>2, <2>3, FailedRowType
<1>10. CASE RetryHandoff(w)
  <2>1. UNCHANGED Local
    BY <1>10 DEF RetryHandoff
  <2>2. CASE End(w) /\ UNCHANGED task
    BY <1>e, <2>1, <2>2
  <2>3. ASSUME NEW delay \in 1..RetryTicks,
               task' = [Unleased(WithStatus(task, "materializing", "finalizer_pending"))
                           EXCEPT !.owner = "media_finalizer", !.next = delay],
               Set(w, "idle", NoLease, "materializing")
        PROVE  TypeOK'
    <3>1. Unleased(WithStatus(task, "materializing", "finalizer_pending")) \in Task
      BY <1>a, WithStatusType, UnleasedType
    <3>2. task' \in Task
      BY <2>3, <3>1, DelayType DEF Task
    <3>3. NoLease \in Fences /\ "idle" \in Modes
      BY DEF Fences, Modes
    <3> QED
      BY <1>g, <2>1, <2>3, <3>2, <3>3
  <2> QED
    BY <1>10, <2>2, <2>3 DEF RetryHandoff
<1>11. CASE FinalizerNotReady(w)
  BY <1>11, <1>e DEF FinalizerNotReady, Local
<1>12. CASE ReadCurrentLease(w)
  <2>1. job' \in [Workers -> Job]
    <3>1. /\ (IF task.lease = NoLease THEN "unleased" ELSE "adopted") \in Modes
          /\ NoStatus \in Statuses \cup {NoStatus}
      BY DEF Modes
    <3> QED
      BY <1>a, <1>c, <1>12, <3>1, SetType DEF ReadCurrentLease
  <2> QED
    BY <1>a, <1>12, <2>1 DEF ReadCurrentLease, TypeOK
<1>13. CASE FinishUnclaimed(w)
  <2>1. NoLease \in Fences /\ "idle" \in Modes
    BY DEF Fences, Modes
  <2>2. [TerminalRow(task, "deferred") EXCEPT !.handoff = NoHandoff] \in Task
    <3>1. TerminalRow(task, "deferred") \in Task
      BY <1>a, TerminalRowType
    <3> QED
      BY <3>1 DEF Task
  <2>3. FailedRow(task, "invalid_input") \in Task
    BY <1>a, FailedRowType
  <2>4. UNCHANGED Local
    BY <1>13 DEF FinishUnclaimed
  <2>5. CASE /\ task' = [TerminalRow(task, "deferred") EXCEPT !.handoff = NoHandoff]
             /\ Set(w, "idle", NoLease, "deferred")
    BY <1>g, <2>1, <2>2, <2>4, <2>5
  <2>6. CASE task' = FailedRow(task, "invalid_input") /\ Set(w, "idle", NoLease, "failed")
    BY <1>g, <2>1, <2>3, <2>4, <2>6
  <2>7. CASE End(w) /\ UNCHANGED task
    BY <1>e, <2>4, <2>7
  <2> QED
    BY <1>13, <2>5, <2>6, <2>7 DEF FinishUnclaimed
<1>14. CASE ScheduleUnclaimedRetry(w)
  <2>1. UNCHANGED Local
    BY <1>14 DEF ScheduleUnclaimedRetry
  <2>2. CASE End(w) /\ UNCHANGED task
    BY <1>e, <2>1, <2>2
  <2>3. ASSUME NEW owner \in {task.owner, "media_finalizer"}, NEW delay \in 1..RetryTicks,
               task' = [WithStatus(task, "pending", "waiting_ready")
                           EXCEPT !.owner = owner, !.next = delay],
               Set(w, "idle", NoLease, "pending")
        PROVE  TypeOK'
    <3>1. WithStatus(task, "pending", "waiting_ready") \in Task
      BY <1>a, WithStatusType
    <3>2. owner \in Owners
      BY <1>c
    <3>3. task' \in Task
      BY <2>3, <3>1, <3>2, DelayType DEF Task
    <3>4. NoLease \in Fences /\ "idle" \in Modes
      BY DEF Fences, Modes
    <3> QED
      BY <1>g, <2>1, <2>3, <3>3, <3>4
  <2> QED
    BY <1>14, <2>2, <2>3 DEF ScheduleUnclaimedRetry
<1>15. CASE RetryUnclaimedHandoff(w)
  <2>1. UNCHANGED Local
    BY <1>15 DEF RetryUnclaimedHandoff
  <2>2. CASE End(w) /\ UNCHANGED task
    BY <1>e, <2>1, <2>2
  <2>3. ASSUME NEW delay \in 1..RetryTicks,
               task' = [task EXCEPT !.owner = "media_finalizer", !.next = delay],
               Set(w, "idle", NoLease, "materializing")
        PROVE  TypeOK'
    <3>1. task' \in Task
      BY <1>a, <2>3, DelayType DEF Task
    <3>2. NoLease \in Fences /\ "idle" \in Modes
      BY DEF Fences, Modes
    <3> QED
      BY <1>g, <2>1, <2>3, <3>1, <3>2
  <2> QED
    BY <1>15, <2>2, <2>3 DEF RetryUnclaimedHandoff
<1>16. CASE Project(w)
  <2>1. event' \in Statuses
    BY <1>b, <1>16 DEF Project, Job
  <2>2. job' \in [Workers -> Job]
    BY <1>a, <1>16 DEF Project, Job
  <2> QED
    BY <1>a, <1>16, <2>1, <2>2 DEF Project, TypeOK
<1>17. CASE Heartbeat(w)
  <2>1. task' \in Task
    BY <1>a, <1>17, TicksAssumption DEF Heartbeat, Task
  <2>2. job' \in [Workers -> Job]
    BY <1>a, <1>17 DEF Heartbeat, Job
  <2> QED
    BY <1>a, <1>17, <2>1, <2>2 DEF Heartbeat, TypeOK, Local
<1>18. CASE ProjectFault(w)
  <2>1. job' \in [Workers -> Job]
    <3>1. CASE job[w].mode = "queued"
      <4>1. /\ Set(w, "failing", job[w].fence, NoStatus)
            /\ "failing" \in Modes /\ NoStatus \in Statuses \cup {NoStatus}
        BY <1>18, <3>1 DEF ProjectFault, Modes
      <4> QED
        BY <1>a, <1>b, <4>1, SetType
    <3>2. CASE job[w].mode # "queued"
      BY <1>a, <1>18, <3>2, EndType DEF ProjectFault
    <3> QED
      BY <3>1, <3>2
  <2> QED
    BY <1>a, <1>18, <2>1 DEF ProjectFault, TypeOK
<1>19. CASE HeartbeatError(w) \/ AgeOut(w)
  <2>1. job' \in [Workers -> Job]
    BY <1>a, <1>19, SMTT(30) DEF HeartbeatError, AgeOut, Job
  <2> QED
    BY <1>a, <1>19, <2>1 DEF HeartbeatError, AgeOut, TypeOK
<1>20. CASE Crash(w)
  <2>1. job' \in [Workers -> Job]
    BY <1>a, <1>20, EndType DEF Crash
  <2> QED
    BY <1>a, <1>20, <2>1 DEF Crash, TypeOK
<1> QED
  BY <1>1, <1>2, <1>3, <1>4, <1>5, <1>6, <1>7, <1>8, <1>9, <1>10, <1>11, <1>12, <1>13,
     <1>14, <1>15, <1>16, <1>17, <1>18, <1>19, <1>20 DEF Outcome, Fault

(* Recovery, the deadline sweep and the clock preserve the types. *)
LEMMA SystemTypeOK ==
    ASSUME TypeOK, RecoveryPass \/ CrashRecovery \/ ExpireReplayOwned \/ Tick
    PROVE  TypeOK'
<1> USE Vocabulary
<1>a. /\ task \in Task /\ event \in Statuses /\ job \in [Workers -> Job]
      /\ rec \in RecoverySteps \cup {"project"} /\ recDue \in [RecoverySteps -> BOOLEAN]
      /\ faults \in Nat /\ rejections \in Nat
  BY DEF TypeOK
<1>1. CASE Recover
  <2>1. rec \in RecoverySteps /\ rec' \in RecoverySteps \cup {"project"}
    BY <1>1 DEF Recover, RecoverySteps, NextRecoveryStep
  <2>2. RecoveredRow(rec) \in Task
    <3>1. CASE rec = "ready"
      <4>1. WithStatus(task, "expired", "terminal") \in Task
        BY <1>a, WithStatusType
      <4>2. [WithStatus(task, "expired", "terminal")
               EXCEPT !.owner = "terminal", !.next = NoTime] \in Task
        BY <4>1 DEF Task
      <4> QED
        BY <3>1, <4>2 DEF RecoveredRow
    <3>2. CASE rec = "expire"
      BY <1>a, <3>2, TerminalRowType DEF RecoveredRow
    <3>3. CASE rec = "handoff"
      <4>1. Unleased(WithStatus(task, "materializing", "finalizer_pending")) \in Task
        BY <1>a, WithStatusType, UnleasedType
      <4>2. [Unleased(WithStatus(task, "materializing", "finalizer_pending"))
               EXCEPT !.owner = "media_finalizer"] \in Task
        BY <4>1 DEF Task
      <4> QED
        BY <3>3, <4>2 DEF RecoveredRow
    <3>4. CASE rec = "retry"
      <4>1. Unleased(WithStatus(task, "pending", "waiting_ready")) \in Task
        BY <1>a, WithStatusType, UnleasedType
      <4>2. [Unleased(WithStatus(task, "pending", "waiting_ready"))
               EXCEPT !.owner = "rolling", !.next = 0] \in Task
        BY <4>1 DEF Task
      <4> QED
        BY <3>4, <4>2 DEF RecoveredRow
    <3> QED
      BY <2>1, <3>1, <3>2, <3>3, <3>4 DEF RecoverySteps
  <2>3. recDue' \in [RecoverySteps -> BOOLEAN]
    BY <1>a, <1>1 DEF Recover
  <2> QED
    BY <1>a, <1>1, <2>1, <2>2, <2>3 DEF Recover, TypeOK
<1>2. CASE ProjectRecovery
  <2>1. PICK step \in RecoverySteps :
          event' = RecoveredStatus(step) /\ recDue' = [recDue EXCEPT ![step] = FALSE]
    BY <1>2 DEF ProjectRecovery
  <2>2. event' \in Statuses
    BY <2>1 DEF RecoveredStatus, RecoverySteps
  <2>3. recDue' \in [RecoverySteps -> BOOLEAN]
    BY <1>a, <2>1
  <2> QED
    BY <1>a, <1>2, <2>2, <2>3 DEF ProjectRecovery, TypeOK
<1>3. CASE EndRecovery
  BY <1>a, <1>3 DEF EndRecovery, TypeOK, RecoverySteps
<1>4. CASE CrashRecovery
  BY <1>a, <1>4 DEF CrashRecovery, TypeOK, RecoverySteps
<1>5. CASE ExpireReplayOwned
  <2>1. TerminalRow(task, "expired") \in Task
    BY <1>a, TerminalRowType
  <2> QED
    BY <1>a, <1>5, <2>1 DEF ExpireReplayOwned, TypeOK
<1>6. CASE Tick
  <2>1. ASSUME NEW i \in Nat \cup {NoTime}
        PROVE  /\ Sooner(i) \in Nat \cup {NoTime}
               /\ i \in Nat => Sooner(i) \in Nat
    BY DEF Sooner
  <2>2. /\ Sooner(task.ready) \in Nat /\ Sooner(task.deadline) \in Nat
        /\ Sooner(task.ttl) \in Nat /\ Sooner(task.next) \in Nat \cup {NoTime}
    BY <1>a, <2>1 DEF Task
  <2>3. task' \in Task
    BY <1>a, <1>6, <2>2 DEF Tick, Task
  <2> QED
    BY <1>a, <1>6, <2>3 DEF Tick, TypeOK
<1> QED
  BY <1>1, <1>2, <1>3, <1>4, <1>5, <1>6 DEF RecoveryPass

(* The types are preserved by every step. *)
LEMMA NextTypeOK == TypeOK /\ [Next]_vars => TypeOK'
<1> SUFFICES ASSUME TypeOK, [Next]_vars PROVE TypeOK'
  OBVIOUS
<1>1. CASE Next
  BY <1>1, WorkerTypeOK, SystemTypeOK DEF Next
<1>2. CASE UNCHANGED vars
  BY <1>2 DEF vars, TypeOK
<1> QED
  BY <1>1, <1>2

(* Type correctness of the lifecycle for every set of workers. *)
THEOREM TypeCorrect == Spec => []TypeOK
BY InitTypeOK, NextTypeOK, PTL DEF Spec

-----------------------------------------------------------------------------
(* The safety invariants and the refinement of EvidenceTask.  Every step    *)
(* changes the row in one of six ways (RowStep) and at most one job         *)
(* (JobStep, EventStep).  That is proved action by action, together with    *)
(* RowShape; everything else follows from the six ways alone.               *)

Finished == task.status \in Terminal

(* Nothing that a fence or an outcome depends on changes. *)
RowKeep ==
    /\ task.gen' = task.gen /\ task.lease' = task.lease /\ task.handoff' = task.handoff
    /\ Finished' <=> Finished
    /\ Finished => task' = task

(* An unleased row is given a fence with the next generation. *)
RowGrant ==
    /\ ~Finished /\ ~Finished'
    /\ task.lease = NoLease
    /\ task.gen' = task.gen + 1
    /\ task.lease' \in {RunnerFence(task.gen'), FinalizerFence(task.gen')}
    /\ task.handoff' = task.handoff

(* The remux fence is passed on to the finalizer. *)
RowPass ==
    /\ ~Finished /\ ~Finished'
    /\ task.phase = "finalizer_pending" /\ task.handoff = task.gen
    /\ task.lease = RunnerFence(task.gen)
    /\ task.gen' = task.gen
    /\ task.lease' = FinalizerFence(task.gen)
    /\ task.handoff' = task.handoff

(* The holder persists its handoff. *)
RowDeliver ==
    /\ ~Finished /\ ~Finished'
    /\ task.lease # NoLease
    /\ task.handoff = NoHandoff
    /\ task.gen' = task.gen /\ task.lease' = task.lease
    /\ task.handoff' = task.gen
    /\ task.phase = "remux_running" /\ task.phase' = "finalizer_pending"

(* The fence is given up or recovered; a handoff stays. *)
RowRelease ==
    /\ ~Finished /\ ~Finished'
    /\ task.lease # NoLease /\ task.lease' = NoLease
    /\ task.gen' = task.gen /\ task.handoff' = task.handoff

(* The row gets its final status. *)
RowFinish ==
    /\ ~Finished /\ Finished'
    /\ task.lease' = NoLease
    /\ task.gen' = task.gen
    /\ task.status' = "materialized" => task.lease # NoLease

RowStep == RowKeep \/ RowGrant \/ RowPass \/ RowDeliver \/ RowRelease \/ RowFinish

(* Job w keeps its fence, drops it, reads the row's, or has just claimed it; *)
(* a handoff is delivered by the job that holds the fence.                   *)
Fenceless == {"idle", "unleased"}

JobStep(w) ==
    /\ \A v \in Workers \ {w} : job'[v] = job[v]
    /\ RowDeliver => /\ job[w].mode \in Claimed /\ job[w].fence = task.lease
                     /\ job'[w].mode # "running"
    /\ \/ /\ job'[w].fence = job[w].fence
          /\ job'[w].mode \in Claimed => job[w].mode \in Claimed
          /\ job'[w].mode = "running" => job[w].mode = "running"
          /\ job[w].mode \in Fenceless => job'[w].mode \in Fenceless
          /\ ~RowGrant /\ ~RowPass
       \/ /\ job'[w].fence = NoLease
          /\ job'[w].mode = "idle"
          /\ ~RowGrant /\ ~RowPass
       \/ /\ job'[w].fence = task.lease
          /\ job'[w].mode = IF task.lease = NoLease THEN "unleased" ELSE "adopted"
          /\ task' = task
       \/ /\ RowGrant \/ RowPass
          /\ job'[w].fence = task.lease'
          /\ job'[w].mode \in Claimed
          /\ job'[w].mode = "running" => task.handoff' = NoHandoff

(* The event changes by itself, to a status that was due, or with the row. *)
EventStep(w) ==
    /\ \/ event' = event
       \/ task' = task /\ event' = job[w].due
       \/ RowFinish /\ event' = task.status'
    /\ job'[w].due \in {job[w].due, NoStatus, "pending", "materializing"} \/ 
       job'[w].due = task.status'
    /\ recDue' = recDue

(* What the terminal contract does to the columns the invariants read. *)
LEMMA TerminalRowFields ==
    ASSUME NEW t \in Task, NEW s
    PROVE  LET r == TerminalRow(t, s)
           IN  /\ r.status = s /\ r.phase = "terminal" /\ r.owner = "terminal"
               /\ r.lease = NoLease /\ r.next = NoTime /\ r.gen = t.gen
               /\ r.handoff = t.handoff /\ r.kind = t.kind
BY DEF TerminalRow, Unleased, WithStatus, Task

(* What the failure contract does to them. *)
LEMMA FailedRowFields ==
    ASSUME NEW t \in Task, NEW reason
    PROVE  LET r == FailedRow(t, reason)
           IN  /\ r.status = "failed" /\ r.phase = "terminal" /\ r.owner = "terminal"
               /\ r.lease = NoLease /\ r.next = NoTime /\ r.gen = t.gen
               /\ r.handoff = NoHandoff /\ r.kind = t.kind
BY DEF FailedRow, TerminalRow, Unleased, WithStatus, Task

(* What a claim does to them. *)
LEMMA LeasedRowFields ==
    ASSUME NEW t \in Task, NEW p, NEW o, NEW f
    PROVE  LET r == LeasedRow(t, p, o, f)
           IN  /\ r.status = "materializing" /\ r.phase = p /\ r.owner = o
               /\ r.lease = f /\ r.next = NoTime /\ r.gen = f.gen
               /\ r.handoff = t.handoff /\ r.kind = t.kind
BY DEF LeasedRow, WithStatus, Task

(* What releasing a lease with another status and phase does to them. *)
LEMMA ReleasedRowFields ==
    ASSUME NEW t \in Task, NEW s, NEW p
    PROVE  LET r == Unleased(WithStatus(t, s, p))
           IN  /\ r.status = s /\ r.phase = p /\ r.owner = t.owner
               /\ r.lease = NoLease /\ r.next = t.next /\ r.gen = t.gen
               /\ r.handoff = t.handoff /\ r.kind = t.kind
BY DEF Unleased, WithStatus, Task

(* Fences of different owners or generations differ, and none is NULL. *)
LEMMA FenceFacts ==
    ASSUME NEW g, NEW h
    PROVE  /\ RunnerFence(g) # NoLease /\ FinalizerFence(g) # NoLease
           /\ RunnerFence(g).gen = g /\ FinalizerFence(g).gen = g
           /\ RunnerFence(g).owner = "runner" /\ FinalizerFence(g).owner = "finalizer"
           /\ RunnerFence(g) # FinalizerFence(h)
           /\ RunnerFence(g) = RunnerFence(h) => g = h
           /\ FinalizerFence(g) = FinalizerFence(h) => g = h
<1>1. RunnerFence(g).owner = "runner" /\ FinalizerFence(h).owner = "finalizer"
      /\ FinalizerFence(g).owner = "finalizer" /\ NoLease.owner = "none"
  BY DEF RunnerFence, FinalizerFence
<1>2. /\ RunnerFence(g).gen = g /\ FinalizerFence(g).gen = g
      /\ RunnerFence(h).gen = h /\ FinalizerFence(h).gen = h
  BY DEF RunnerFence, FinalizerFence
<1> QED
  BY <1>1, <1>2

(* Which of the six shapes a row has can be read off single columns. *)
LEMMA ShapeFacts ==
    ASSUME TypeOK, RowShape
    PROVE  /\ task.gen \in Nat /\ task.handoff \in Nat
           /\ task.lease # NoLease <=> (Running \/ HandedOff \/ Finalizing)
           /\ Finished <=> Done
           /\ task.status \in Claimable <=> Waiting
           /\ task.lease # NoLease => task.lease.gen = task.gen
           /\ task.status = "materializing" => ~Finished
<1>1. task.gen \in Nat /\ task.handoff \in Nat
  BY DEF TypeOK, Task
<1>2. CASE Waiting
  BY <1>1, <1>2, FenceFacts DEF Waiting, Running, HandedOff, Finalizing, Done, Shape,
     Finished, Claimable, Terminal
<1>3. CASE Running
  BY <1>1, <1>3, FenceFacts DEF Waiting, Running, Done, Shape, Finished, Claimable, Terminal
<1>4. CASE HandedOff
  BY <1>1, <1>4, FenceFacts DEF Waiting, HandedOff, Done, Shape, Finished, Claimable, Terminal
<1>5. CASE Released
  BY <1>1, <1>5, FenceFacts DEF Waiting, Released, Running, HandedOff, Finalizing, Done,
     Shape, Finished, Claimable, Terminal
<1>6. CASE Finalizing
  BY <1>1, <1>6, FenceFacts DEF Waiting, Finalizing, Done, Shape, Finished, Claimable, Terminal
<1>7. CASE Done
  BY <1>1, <1>7, FenceFacts DEF Waiting, Running, HandedOff, Finalizing, Done, Shape,
     Finished, Claimable, Terminal
<1> QED
  BY <1>2, <1>3, <1>4, <1>5, <1>6, <1>7 DEF RowShape

(* A step that leaves the lease alone or clears it issues no fence. *)
LEMMA NoFenceIssued ==
    ASSUME task.lease' \in {NoLease, task.lease}
    PROVE  ~RowGrant /\ ~RowPass
BY FenceFacts DEF RowGrant, RowPass

(* Dropping the fence is a job step of a step that issues no fence. *)
LEMMA JobDrops ==
    ASSUME job \in [Workers -> Job], NEW w \in Workers, NEW d,
           Set(w, "idle", NoLease, d), task.lease' \in {NoLease, task.lease}, ~RowDeliver
    PROVE  JobStep(w) /\ job'[w].due = d
<1>1. job'[w] = [mode |-> "idle", fence |-> NoLease, due |-> d, health |-> "ok"]
  BY DEF Set
<1>2. \A v \in Workers \ {w} : job'[v] = job[v]
  BY DEF Set
<1> QED
  BY <1>1, <1>2, NoFenceIssued DEF JobStep

(* A worker that stops without touching the row. *)
LEMMA StopStep ==
    ASSUME TypeOK, RowShape, NEW w \in Workers, End(w), UNCHANGED <<task, event, recDue>>
    PROVE  RowShape' /\ RowStep /\ JobStep(w) /\ EventStep(w)
<1>1. RowKeep /\ RowShape'
  BY DEF RowShape, Waiting, Running, HandedOff, Released, Finalizing, Done, Shape,
         RowKeep, Finished
<1>2. ~RowDeliver
  BY DEF RowDeliver
<1>3. JobStep(w) /\ job'[w].due = NoStatus
  BY <1>2, JobDrops DEF End, TypeOK
<1> QED
  BY <1>1, <1>3 DEF EventStep, RowStep

(* A statement that finishes the row and drops the fence. *)
LEMMA FinishStep ==
    ASSUME TypeOK, RowShape, NEW w \in Workers, NEW s \in Terminal,
           ~Finished, s = "materialized" => task.lease # NoLease,
           /\ task'.status = s /\ task'.phase = "terminal" /\ task'.owner = "terminal"
           /\ task'.lease = NoLease /\ task'.next = NoTime /\ task'.gen = task.gen,
           \/ Set(w, "idle", NoLease, s) /\ event' = event
           \/ End(w) /\ event' = s,
           recDue' = recDue
    PROVE  RowShape' /\ RowStep /\ JobStep(w) /\ EventStep(w)
<1>1. RowFinish
  BY DEF RowFinish, Finished
<1>2. RowShape'
  BY DEF RowShape, Done, Shape
<1>3. ~RowDeliver
  BY DEF RowDeliver, Finished
<1>4. JobStep(w) /\ job'[w].due \in {s, NoStatus}
  BY <1>3, JobDrops DEF End, TypeOK
<1> QED
  BY <1>1, <1>2, <1>4 DEF RowStep, EventStep

(* A statement that releases the lease and keeps the handoff. *)
LEMMA ReleaseStep ==
    ASSUME TypeOK, RowShape', NEW w \in Workers, NEW d \in {"pending", "materializing"},
           task.lease # NoLease, ~Finished, ~Finished',
           task'.lease = NoLease /\ task'.gen = task.gen /\ task'.handoff = task.handoff,
           Set(w, "idle", NoLease, d), event' = event, recDue' = recDue
    PROVE  RowShape' /\ RowStep /\ JobStep(w) /\ EventStep(w)
<1>1. RowRelease /\ ~RowDeliver
  BY DEF RowRelease, RowDeliver
<1>2. JobStep(w) /\ job'[w].due = d
  BY <1>1, JobDrops DEF TypeOK
<1> QED
  BY <1>1, <1>2 DEF RowStep, EventStep

(* A fenced statement that finishes the row. *)
LEMMA FencedFinish ==
    ASSUME TypeOK, RowShape, NEW w \in Workers, NEW row \in Task,
           /\ row.status = "failed" /\ row.phase = "terminal" /\ row.owner = "terminal"
           /\ row.lease = NoLease /\ row.next = NoTime /\ row.gen = task.gen,
           Fenced(w, row, "failed"), UNCHANGED Local
    PROVE  RowShape' /\ RowStep /\ JobStep(w) /\ EventStep(w)
<1>1. CASE Holds(w) /\ task' = row /\ Set(w, "idle", NoLease, "failed")
  <2>1. ~Finished
    BY <1>1, ShapeFacts DEF Holds
  <2> QED
    BY <1>1, <2>1, FinishStep DEF Local, Terminal
<1>2. CASE ~Holds(w) /\ End(w) /\ UNCHANGED task
  BY <1>2, StopStep DEF Local
<1> QED
  BY <1>1, <1>2 DEF Fenced

(* A claim: the row gets a fence and the job keeps it. *)
LEMMA ClaimStep ==
    ASSUME TypeOK, RowShape', NEW w \in Workers, NEW m \in Claimed, NEW f,
           RowGrant \/ RowPass, ~RowDeliver, m = "running" => task'.handoff = NoHandoff,
           task'.lease = f, Set(w, m, f, "materializing"), UNCHANGED <<event, recDue>>
    PROVE  RowShape' /\ RowStep /\ JobStep(w) /\ EventStep(w)
<1>1. job'[w] = [mode |-> m, fence |-> f, due |-> "materializing", health |-> "ok"]
  BY DEF Set, TypeOK
<1>2. \A v \in Workers \ {w} : job'[v] = job[v]
  BY DEF Set, TypeOK
<1>3. JobStep(w)
  BY <1>1, <1>2 DEF JobStep
<1>4. EventStep(w)
  BY <1>1 DEF EventStep
<1> QED
  BY <1>3, <1>4 DEF RowStep

(* Every step of a worker changes the row in one of the six ways, keeps its *)
(* shape and changes that worker's job only.                                *)
LEMMA WorkerStep ==
    ASSUME TypeOK, RowShape, SoleHolder, NEW w \in Workers,
           \/ ClaimRolling(w) \/ GenericClaim(w) \/ ReadCurrentLease(w)
           \/ Outcome(w) \/ Project(w) \/ Heartbeat(w) \/ Fault(w)
    PROVE  RowShape' /\ RowStep /\ JobStep(w) /\ EventStep(w)
<1> DEFINE Goal == RowShape' /\ RowStep /\ JobStep(w) /\ EventStep(w)
<1>a. /\ task \in Task /\ job \in [Workers -> Job] /\ task.gen \in Nat
      /\ job[w] \in Job /\ task.handoff \in Nat /\ task.status \in Statuses
  BY DEF TypeOK, Task
<1>h. ASSUME Holds(w), job[w].mode \notin Fenceless
      PROVE  /\ ~Finished /\ task.lease # NoLease
             /\ Running \/ HandedOff \/ Finalizing
             /\ job[w].mode = "running" => task.handoff = NoHandoff
  BY <1>h, ShapeFacts DEF Holds, SoleHolder, Fenceless
<1>e. ASSUME End(w), UNCHANGED task, UNCHANGED Local
      PROVE  Goal
  BY <1>e, StopStep DEF Local
<1>f. ASSUME NEW reason \in RetryableReasons \cup TerminalReasons,
             Fenced(w, FailedRow(task, reason), "failed"), UNCHANGED Local
      PROVE  Goal
  BY <1>a, <1>f, FailedRowType, FailedRowFields, FencedFinish
<1>s. ASSUME NEW g \in Nat, StartFinalizing(w, g), UNCHANGED Local,
             \/ task.lease = NoLease /\ ~Finished /\ g = task.gen + 1
             \/ HandedOff /\ g = task.gen
      PROVE  Goal
  <2>1. /\ task'.status = "materializing" /\ task'.phase = "finalizing"
        /\ task'.owner = "media_finalizer" /\ task'.lease = FinalizerFence(g)
        /\ task'.gen = g /\ task'.handoff = task.handoff
    BY <1>a, <1>s, LeasedRowFields, FenceFacts DEF StartFinalizing
  <2>2. RowShape'
    BY <2>1 DEF RowShape, Finalizing, Shape
  <2>3. ~Finished'
    BY <2>1 DEF Finished, Terminal
  <2>4. RowGrant \/ RowPass
    BY <1>s, <2>1, <2>3 DEF RowGrant, RowPass, HandedOff, Shape, Finished, Terminal
  <2>5. ~RowDeliver
    BY <2>1 DEF RowDeliver
  <2>6. Set(w, "finalizing", FinalizerFence(g), "materializing")
    BY <1>s DEF StartFinalizing
  <2> QED
    BY <1>s, <2>1, <2>2, <2>4, <2>5, <2>6, ClaimStep DEF Claimed, Local
<1>q. ASSUME ~Finished, task.lease # NoLease, task.handoff # NoHandoff, NEW delay,
             task' = [Unleased(WithStatus(task, "materializing", "finalizer_pending"))
                         EXCEPT !.owner = "media_finalizer", !.next = delay],
             Set(w, "idle", NoLease, "materializing"), UNCHANGED Local
      PROVE  Goal
  <2> DEFINE r == Unleased(WithStatus(task, "materializing", "finalizer_pending"))
  <2>1. r \in Task
    BY <1>a, Vocabulary, WithStatusType, UnleasedType
  <2>2. /\ task'.status = "materializing" /\ task'.phase = "finalizer_pending"
        /\ task'.owner = "media_finalizer" /\ task'.lease = NoLease
        /\ task'.gen = task.gen /\ task'.handoff = task.handoff
    BY <1>a, <1>q, <2>1, ReleasedRowFields DEF Task
  <2>3. RowShape' /\ ~Finished'
    BY <1>q, <2>2 DEF RowShape, Released, Shape, Finished, Terminal
  <2> QED
    BY <1>q, <2>2, <2>3, ReleaseStep DEF Local
<1>1. CASE ClaimRolling(w)
  <2> DEFINE f == RunnerFence(task.gen + 1)
  <2>1. /\ task' = [LeasedRow(task, RollingPhase(task.kind), "rolling", f)
                       EXCEPT !.handoff = NoHandoff]
        /\ Set(w, "running", f, "materializing") /\ UNCHANGED Local
        /\ task.lease = NoLease /\ task.status \in Claimable
    BY <1>1 DEF ClaimRolling
  <2>2. Waiting /\ ~Finished
    BY <2>1, ShapeFacts DEF Finished, Claimable, Terminal
  <2>3. f \in Fences /\ RollingPhase(task.kind) \in Phases /\ "rolling" \in Owners
    BY <1>a, Vocabulary DEF Fences, RunnerFence, RollingPhase
  <2>4. LeasedRow(task, RollingPhase(task.kind), "rolling", f) \in Task
    BY <1>a, <2>3, LeasedRowType
  <2>5. /\ task'.status = "materializing" /\ task'.phase = RollingPhase(task.kind)
        /\ task'.owner = "rolling" /\ task'.lease = f /\ task'.gen = task.gen + 1
        /\ task'.handoff = NoHandoff /\ task'.kind = task.kind
    BY <1>a, <2>1, <2>4, LeasedRowFields, FenceFacts DEF Task
  <2>6. RowShape' /\ ~Finished'
    BY <1>a, <2>5 DEF RowShape, Running, Shape, Finished, Terminal
  <2>7. RowGrant /\ ~RowDeliver
    BY <2>1, <2>2, <2>5, <2>6 DEF RowGrant, RowDeliver, Waiting
  <2> QED
    BY <2>1, <2>5, <2>6, <2>7, ClaimStep DEF Claimed, Local
<1>2. CASE RetryRolling(w)
  <2>1. PICK reason \in {"not_ready", "transient"} \cup
                 IF job[w].health = "ok" THEN {} ELSE {HealthReason(job[w].health)},
             delay \in 1..RetryTicks :
          Fenced(w, RetryRollingRow(reason, delay),
                 IF reason \in RetryableReasons THEN "pending" ELSE "failed")
    BY <1>2 DEF RetryRolling
  <2>2. reason \in RetryableReasons \cup TerminalReasons
    BY Vocabulary DEF HealthReason
  <2>3. UNCHANGED Local /\ In(w, "running")
    BY <1>2 DEF RetryRolling
  <2>4. CASE reason \notin RetryableReasons
    BY <1>f, <2>1, <2>2, <2>3, <2>4 DEF RetryRollingRow
  <2>5. CASE reason \in RetryableReasons /\ ~Holds(w)
    BY <1>e, <2>1, <2>3, <2>5 DEF Fenced
  <2>6. CASE reason \in RetryableReasons /\ Holds(w)
    <3> DEFINE p == IF reason = "not_ready" THEN "waiting_coverage" ELSE "waiting_ready"
               r == Unleased(WithStatus(task, "pending", p))
    <3>1. r \in Task
      BY <1>a, Vocabulary, WithStatusType, UnleasedType
    <3>2. /\ task' = [r EXCEPT !.owner = "rolling", !.next = delay, !.handoff = NoHandoff]
          /\ Set(w, "idle", NoLease, "pending")
      BY <2>1, <2>6 DEF Fenced, RetryRollingRow
    <3>3. /\ task'.status = "pending" /\ task'.phase = p /\ task'.owner = "rolling"
          /\ task'.lease = NoLease /\ task'.gen = task.gen /\ task'.handoff = NoHandoff
      BY <1>a, <3>1, <3>2, ReleasedRowFields DEF Task
    <3>4. RowShape' /\ ~Finished'
      BY <3>3 DEF RowShape, Waiting, Shape, Claimable, WaitingPhases, Finished, Terminal
    <3>5. ~Finished /\ task.lease # NoLease /\ task.handoff = NoHandoff
      BY <1>h, <2>3, <2>6 DEF In, Fenceless
    <3> QED
      BY <2>3, <3>2, <3>3, <3>4, <3>5, ReleaseStep DEF Local
  <2> QED
    BY <2>4, <2>5, <2>6
<1>3. CASE FailRolling(w)
  BY <1>3, <1>f, Vocabulary DEF FailRolling
<1>4. CASE CompleteImage(w)
  <2>1. In(w, "running") /\ End(w) /\ recDue' = recDue
    BY <1>4 DEF CompleteImage
  <2>2. CASE ~Holds(w)
    BY <1>4, <2>1, <2>2, StopStep DEF CompleteImage
  <2>3. CASE Holds(w)
    <3>1. /\ task' = [TerminalRow(task, "materialized") EXCEPT !.handoff = NoHandoff]
          /\ event' = "materialized"
      BY <1>4, <2>3 DEF CompleteImage
    <3>2. TerminalRow(task, "materialized") \in Task
      BY <1>a, Vocabulary, TerminalRowType
    <3>3. /\ task'.status = "materialized" /\ task'.phase = "terminal"
          /\ task'.owner = "terminal" /\ task'.lease = NoLease /\ task'.next = NoTime
          /\ task'.gen = task.gen
      BY <1>a, <3>1, <3>2, TerminalRowFields DEF Task
    <3>4. ~Finished /\ task.lease # NoLease
      BY <1>h, <2>1, <2>3 DEF In, Fenceless
    <3> QED
      BY <2>1, <3>1, <3>3, <3>4, FinishStep DEF Terminal
  <2> QED
    BY <2>2, <2>3
<1>5. CASE PersistHandoff(w)
  <2>1. UNCHANGED Local /\ In(w, "running")
    BY <1>5 DEF PersistHandoff
  <2>2. CASE ~(Holds(w) /\ task.phase = "remux_running")
    BY <1>5, <1>e, <2>1, <2>2 DEF PersistHandoff
  <2>3. CASE Holds(w) /\ task.phase = "remux_running"
    <3> DEFINE r == WithStatus(task, "materializing", "finalizer_pending")
    <3>1. /\ task' = [r EXCEPT !.owner = "media_finalizer", !.ttl = LeaseTicks,
                               !.handoff = job[w].fence.gen]
          /\ Set(w, "queued", job[w].fence, "materializing")
      BY <1>5, <2>3 DEF PersistHandoff
    <3>2. r \in Task
      BY <1>a, Vocabulary, WithStatusType
    <3>3. r.lease = task.lease /\ r.gen = task.gen /\ r.status = "materializing"
          /\ r.phase = "finalizer_pending"
      BY <1>a DEF WithStatus, Task
    <3>4. /\ task'.status = "materializing" /\ task'.phase = "finalizer_pending"
          /\ task'.owner = "media_finalizer" /\ task'.lease = task.lease
          /\ task'.gen = task.gen /\ task'.handoff = job[w].fence.gen
      BY <3>1, <3>2, <3>3 DEF Task
    <3>5. ~Finished /\ Running /\ job[w].fence = task.lease
      BY <1>h, <2>1, <2>3 DEF In, Fenceless, HandedOff, Finalizing, Shape, Holds
    <3>6. job[w].fence.gen = task.gen /\ task.lease = RunnerFence(task.gen) /\ task.gen > 0
      BY <3>5, FenceFacts DEF Running, Shape
    <3>7. RowShape' /\ ~Finished'
      BY <3>4, <3>6 DEF RowShape, HandedOff, Shape, Finished, Terminal
    <3>8. RowDeliver
      BY <2>3, <3>4, <3>5, <3>6, <3>7, FenceFacts DEF RowDeliver, Running
    <3>9. ~RowGrant /\ ~RowPass
      BY <3>4, NoFenceIssued
    <3>10. /\ job'[w] = [mode |-> "queued", fence |-> job[w].fence,
                         due |-> "materializing", health |-> "ok"]
           /\ \A v \in Workers \ {w} : job'[v] = job[v]
      BY <1>a, <3>1 DEF Set
    <3>11. JobStep(w)
      BY <2>1, <3>5, <3>8, <3>9, <3>10 DEF JobStep, Claimed, In, Fenceless
    <3> QED
      BY <2>1, <3>7, <3>8, <3>10, <3>11 DEF RowStep, EventStep, Local
  <2> QED
    BY <2>2, <2>3
<1>6. CASE ExactTransfer(w)
  <2>1. UNCHANGED Local /\ In(w, "queued")
    BY <1>6 DEF ExactTransfer
  <2>2. CASE End(w) /\ UNCHANGED task
    BY <1>e, <2>1, <2>2
  <2>3. CASE Holds(w) /\ task.phase = "finalizer_pending" /\ StartFinalizing(w, task.gen)
    <3>1. HandedOff
      BY <1>a, <1>h, <2>1, <2>3 DEF In, Fenceless, Running, Finalizing, Shape, RollingPhase
    <3> QED
      BY <1>a, <1>s, <2>1, <2>3, <3>1
  <2> QED
    BY <1>6, <2>2, <2>3 DEF ExactTransfer
<1>7. CASE GenericClaim(w)
  <2>1. UNCHANGED Local
    BY <1>7 DEF GenericClaim
  <2>2. CASE End(w) /\ UNCHANGED task
    BY <1>e, <2>1, <2>2
  <2>3. CASE GenericClaimable /\ task.lease = NoLease /\ StartFinalizing(w, task.gen + 1)
    BY <1>a, <1>s, <2>1, <2>3 DEF GenericClaimable, Finished
  <2>4. CASE GenericClaimable /\ task.lease # NoLease /\ StartFinalizing(w, task.gen)
    <3>1. HandedOff
      BY <2>4, ShapeFacts DEF GenericClaimable, Running, Finalizing, Shape, RollingPhase
    <3> QED
      BY <1>a, <1>s, <2>1, <2>4, <3>1
  <2> QED
    BY <1>7, <2>2, <2>3, <2>4 DEF GenericClaim
<1>8. CASE CompleteFinalizer(w)
  <2>1. In(w, "finalizing") /\ End(w) /\ recDue' = recDue
    BY <1>8 DEF CompleteFinalizer
  <2>2. CASE ~Holds(w)
    BY <1>8, <2>1, <2>2, StopStep DEF CompleteFinalizer
  <2>3. CASE Holds(w)
    <3>1. PICK outcome \in {"materialized", "failed"} :
             /\ task' = [TerminalRow(task, outcome) EXCEPT
                            !.failure = IF outcome = "failed" THEN "unknown" ELSE "none"]
             /\ event' = outcome
      BY <1>8, <2>3 DEF CompleteFinalizer
    <3>2. TerminalRow(task, outcome) \in Task
      BY <1>a, Vocabulary, TerminalRowType
    <3>3. /\ task'.status = outcome /\ task'.phase = "terminal"
          /\ task'.owner = "terminal" /\ task'.lease = NoLease /\ task'.next = NoTime
          /\ task'.gen = task.gen
      BY <1>a, <3>1, <3>2, TerminalRowFields DEF Task
    <3>4. ~Finished /\ task.lease # NoLease
      BY <1>h, <2>1, <2>3 DEF In, Fenceless
    <3> QED
      BY <2>1, <3>1, <3>3, <3>4, FinishStep DEF Terminal
  <2> QED
    BY <2>2, <2>3
<1>9. CASE FailFinalizer(w)
  <2>1. PICK reason \in {"transient", "invalid_input", "unknown"} \cup
                 IF job[w].health = "ok" THEN {} ELSE {HealthReason(job[w].health)} :
          Fenced(w, FailedRow(task, reason), "failed")
    BY <1>9 DEF FailFinalizer
  <2>2. reason \in RetryableReasons \cup TerminalReasons
    BY Vocabulary DEF HealthReason
  <2> QED
    BY <1>9, <1>f, <2>1, <2>2 DEF FailFinalizer
<1>10. CASE RetryHandoff(w)
  <2>1. UNCHANGED Local /\ (In(w, "finalizing") \/ In(w, "queued") \/ In(w, "adopted"))
    BY <1>10 DEF RetryHandoff
  <2>2. CASE End(w) /\ UNCHANGED task
    BY <1>e, <2>1, <2>2
  <2>3. CASE ~(End(w) /\ UNCHANGED task)
    <3>1. Holds(w) /\ task.handoff # NoHandoff /\ Set(w, "idle", NoLease, "materializing")
      BY <1>10, <2>3 DEF RetryHandoff
    <3>2. PICK delay \in 1..RetryTicks :
             task' = [Unleased(WithStatus(task, "materializing", "finalizer_pending"))
                         EXCEPT !.owner = "media_finalizer", !.next = delay]
      BY <1>10, <2>3 DEF RetryHandoff
    <3>3. ~Finished /\ task.lease # NoLease
      BY <1>h, <2>1, <3>1 DEF In, Fenceless
    <3> QED
      BY <1>q, <2>1, <3>1, <3>2, <3>3
  <2> QED
    BY <2>2, <2>3
<1>11. CASE FinalizerNotReady(w)
  BY <1>11, <1>e DEF FinalizerNotReady, Local
<1>k. ASSUME UNCHANGED task
      PROVE  RowShape' /\ RowKeep /\ ~RowDeliver /\ ~RowGrant /\ ~RowPass
  <2>1. RowKeep /\ RowShape'
    BY <1>k DEF RowShape, Waiting, Running, HandedOff, Released, Finalizing, Done, Shape,
           RowKeep, Finished
  <2> QED
    BY <1>k, <2>1, NoFenceIssued DEF RowDeliver
<1>12. CASE ReadCurrentLease(w)
  <2> DEFINE m == IF task.lease = NoLease THEN "unleased" ELSE "adopted"
  <2>1. Set(w, m, task.lease, NoStatus) /\ UNCHANGED <<task, event, recDue>>
    BY <1>12 DEF ReadCurrentLease
  <2>2. /\ job'[w] = [mode |-> m, fence |-> task.lease, due |-> NoStatus, health |-> "ok"]
        /\ \A v \in Workers \ {w} : job'[v] = job[v]
    BY <1>a, <2>1 DEF Set
  <2>3. RowShape' /\ RowKeep /\ ~RowDeliver
    BY <1>k, <2>1
  <2>4. JobStep(w)
    BY <2>1, <2>2, <2>3 DEF JobStep
  <2> QED
    BY <2>1, <2>2, <2>3, <2>4 DEF RowStep, EventStep
<1>u. ASSUME In(w, "unleased"), UNCHANGED Local, NEW d \in {"pending", "materializing"},
             Set(w, "idle", NoLease, d), ~Finished, ~Finished', RowShape',
             task'.lease = task.lease /\ task'.gen = task.gen /\ task'.handoff = task.handoff
      PROVE  Goal
  <2>1. RowKeep
    BY <1>u DEF RowKeep
  <2>2. ~RowDeliver
    BY <1>a, <1>u DEF RowDeliver, In, Job, RowShape, Waiting, Running, HandedOff, Released,
       Finalizing, Done, Shape
  <2>3. JobStep(w) /\ job'[w].due = d
    BY <1>a, <1>u, <2>2, JobDrops
  <2> QED
    BY <1>u, <2>1, <2>3 DEF RowStep, EventStep, Local
<1>13. CASE FinishUnclaimed(w)
  <2>1. UNCHANGED Local /\ (In(w, "adopted") \/ In(w, "unleased"))
    BY <1>13 DEF FinishUnclaimed
  <2>2. CASE End(w) /\ UNCHANGED task
    BY <1>e, <2>1, <2>2
  <2>3. CASE Unfinished(w) /\ ~(End(w) /\ UNCHANGED task)
    <3>1. ~Finished
      BY <2>3, ShapeFacts DEF Unfinished, Finished, Holds
    <3>2. CASE /\ task' = [TerminalRow(task, "deferred") EXCEPT !.handoff = NoHandoff]
               /\ Set(w, "idle", NoLease, "deferred")
      <4>1. TerminalRow(task, "deferred") \in Task
        BY <1>a, Vocabulary, TerminalRowType
      <4>2. /\ task'.status = "deferred" /\ task'.phase = "terminal"
            /\ task'.owner = "terminal" /\ task'.lease = NoLease /\ task'.next = NoTime
            /\ task'.gen = task.gen
        BY <1>a, <3>2, <4>1, TerminalRowFields DEF Task
      <4> QED
        BY <2>1, <3>1, <3>2, <4>2, FinishStep DEF Terminal, Local
    <3>3. CASE /\ task' = FailedRow(task, "invalid_input")
               /\ Set(w, "idle", NoLease, "failed")
      <4>1. /\ task'.status = "failed" /\ task'.phase = "terminal"
            /\ task'.owner = "terminal" /\ task'.lease = NoLease /\ task'.next = NoTime
            /\ task'.gen = task.gen
        BY <1>a, <3>3, FailedRowFields
      <4> QED
        BY <2>1, <3>1, <3>3, <4>1, FinishStep DEF Terminal, Local
    <3> QED
      BY <1>13, <2>3, <3>2, <3>3 DEF FinishUnclaimed
  <2> QED
    BY <1>13, <2>2, <2>3 DEF FinishUnclaimed
<1>14. CASE ScheduleUnclaimedRetry(w)
  <2>1. UNCHANGED Local /\ In(w, "unleased")
    BY <1>14 DEF ScheduleUnclaimedRetry
  <2>2. CASE End(w) /\ UNCHANGED task
    BY <1>e, <2>1, <2>2
  <2>3. CASE ~(End(w) /\ UNCHANGED task)
    <3>1. /\ task.status \in Claimable /\ task.lease = NoLease
          /\ Set(w, "idle", NoLease, "pending")
      BY <1>14, <2>3 DEF ScheduleUnclaimedRetry
    <3>2. PICK owner \in {task.owner, "media_finalizer"}, delay \in 1..RetryTicks :
             task' = [WithStatus(task, "pending", "waiting_ready")
                         EXCEPT !.owner = owner, !.next = delay]
      BY <1>14, <2>3 DEF ScheduleUnclaimedRetry
    <3>3. Waiting /\ ~Finished
      BY <3>1, ShapeFacts DEF Finished, Claimable, Terminal
    <3>4. /\ task'.status = "pending" /\ task'.phase = "waiting_ready"
          /\ task'.owner = owner /\ task'.lease = task.lease /\ task'.gen = task.gen
          /\ task'.handoff = task.handoff
      BY <1>a, <3>2 DEF WithStatus, Task
    <3>5. RowShape' /\ ~Finished'
      BY <3>3, <3>4 DEF RowShape, Waiting, Shape, Claimable, WaitingPhases, Finished, Terminal
    <3> QED
      BY <1>u, <2>1, <3>1, <3>3, <3>4, <3>5
  <2> QED
    BY <2>2, <2>3
<1>15. CASE RetryUnclaimedHandoff(w)
  <2>1. UNCHANGED Local /\ In(w, "unleased")
    BY <1>15 DEF RetryUnclaimedHandoff
  <2>2. CASE End(w) /\ UNCHANGED task
    BY <1>e, <2>1, <2>2
  <2>3. CASE ~(End(w) /\ UNCHANGED task)
    <3>1. /\ task.status = "materializing" /\ task.phase = "finalizer_pending"
          /\ task.handoff # NoHandoff /\ task.lease = NoLease
          /\ Set(w, "idle", NoLease, "materializing")
      BY <1>15, <2>3 DEF RetryUnclaimedHandoff
    <3>2. PICK delay \in 1..RetryTicks :
             task' = [task EXCEPT !.owner = "media_finalizer", !.next = delay]
      BY <1>15, <2>3 DEF RetryUnclaimedHandoff
    <3>3. /\ task'.status = "materializing" /\ task'.phase = "finalizer_pending"
          /\ task'.owner = "media_finalizer" /\ task'.lease = task.lease
          /\ task'.gen = task.gen /\ task'.handoff = task.handoff
      BY <1>a, <3>1, <3>2 DEF Task
    <3>4. RowShape' /\ ~Finished /\ ~Finished'
      BY <3>1, <3>3 DEF RowShape, Released, Shape, Finished, Terminal
    <3> QED
      BY <1>u, <2>1, <3>1, <3>3, <3>4
  <2> QED
    BY <2>2, <2>3
<1>j. ASSUME RowShape', RowKeep, ~RowDeliver, ~RowGrant, ~RowPass, recDue' = recDue,
             event' = event \/ (task' = task /\ event' = job[w].due),
             \A v \in Workers \ {w} : job'[v] = job[v],
             job'[w].fence = job[w].fence, job'[w].due \in {job[w].due, NoStatus},
             \/ job'[w].mode = job[w].mode
             \/ job[w].mode = "queued" /\ job'[w].mode = "failing"
      PROVE  Goal
  <2>1. JobStep(w)
    BY <1>j DEF JobStep, Claimed, Fenceless
  <2>2. EventStep(w)
    BY <1>j DEF EventStep
  <2> QED
    BY <1>j, <2>1, <2>2 DEF RowStep
<1>m. ASSUME NEW h, job' = [job EXCEPT ![w].health = h]
      PROVE  /\ \A v \in Workers \ {w} : job'[v] = job[v]
             /\ job'[w].fence = job[w].fence /\ job'[w].due = job[w].due
             /\ job'[w].mode = job[w].mode
  BY <1>a, <1>m DEF Job
<1>16. CASE Project(w)
  <2>1. /\ job' = [job EXCEPT ![w].due = NoStatus] /\ event' = job[w].due
        /\ UNCHANGED <<task, recDue>>
    BY <1>16 DEF Project
  <2>2. /\ \A v \in Workers \ {w} : job'[v] = job[v]
        /\ job'[w].fence = job[w].fence /\ job'[w].due = NoStatus
        /\ job'[w].mode = job[w].mode
    BY <1>a, <2>1 DEF Job
  <2> QED
    BY <1>j, <1>k, <2>1, <2>2
<1>17. CASE Heartbeat(w)
  <2>1. UNCHANGED <<event, recDue>>
    BY <1>17 DEF Heartbeat, Local
  <2>2. CASE ~Holds(w)
    <3>1. job' = [job EXCEPT ![w].health = "lost"] /\ UNCHANGED task
      BY <1>17, <2>2 DEF Heartbeat
    <3> QED
      BY <1>j, <1>k, <1>m, <2>1, <3>1
  <2>3. CASE Holds(w)
    <3>1. task' = [task EXCEPT !.ttl = LeaseTicks] /\ UNCHANGED job
      BY <1>17, <2>3 DEF Heartbeat
    <3>2. /\ task'.status = task.status /\ task'.phase = task.phase
          /\ task'.owner = task.owner /\ task'.lease = task.lease /\ task'.gen = task.gen
          /\ task'.handoff = task.handoff /\ task'.kind = task.kind /\ task'.next = task.next
      BY <1>a, <3>1 DEF Task
    <3>3. ~Finished
      BY <2>3, ShapeFacts DEF Holds
    <3>4. RowShape'
      BY <3>2 DEF RowShape, Waiting, Running, HandedOff, Released, Finalizing, Done, Shape
    <3>5. RowKeep
      BY <3>2, <3>3 DEF RowKeep, Finished
    <3>6. ~RowDeliver /\ ~RowGrant /\ ~RowPass
      BY <3>2, NoFenceIssued DEF RowDeliver
    <3> QED
      BY <1>j, <2>1, <3>1, <3>4, <3>5, <3>6
  <2> QED
    BY <2>2, <2>3
<1>18. CASE ProjectFault(w)
  <2>1. UNCHANGED <<task, event, recDue>>
    BY <1>18 DEF ProjectFault
  <2>2. CASE job[w].mode # "queued"
    BY <1>18, <2>1, <2>2, StopStep DEF ProjectFault
  <2>3. CASE job[w].mode = "queued"
    <3>1. Set(w, "failing", job[w].fence, NoStatus)
      BY <1>18, <2>3 DEF ProjectFault
    <3>2. /\ job'[w] = [mode |-> "failing", fence |-> job[w].fence, due |-> NoStatus,
                        health |-> "ok"]
          /\ \A v \in Workers \ {w} : job'[v] = job[v]
      BY <1>a, <3>1 DEF Set
    <3> QED
      BY <1>j, <1>k, <2>1, <2>3, <3>2
  <2> QED
    BY <2>2, <2>3
<1>19. CASE HeartbeatError(w) \/ AgeOut(w)
  <2>1. UNCHANGED <<task, event, recDue>>
    BY <1>19 DEF HeartbeatError, AgeOut
  <2>2. PICK h : job' = [job EXCEPT ![w].health = h]
    BY <1>19 DEF HeartbeatError, AgeOut
  <2> QED
    BY <1>j, <1>k, <1>m, <2>1, <2>2
<1>20. CASE Crash(w)
  BY <1>20, StopStep DEF Crash
<1> QED
  BY <1>1, <1>2, <1>3, <1>4, <1>5, <1>6, <1>7, <1>8, <1>9, <1>10, <1>11, <1>12, <1>13,
     <1>14, <1>15, <1>16, <1>17, <1>18, <1>19, <1>20 DEF Outcome, Fault

(* The recovery pass, the deadline sweep and time change no job. *)
SweepStep ==
    /\ job' = job
    /\ ~RowGrant /\ ~RowPass /\ ~RowDeliver
    /\ \/ event' = event
       \/ task' = task /\ \E step \in RecoverySteps :
                             recDue[step] /\ event' = RecoveredStatus(step)
       \/ RowFinish /\ event' = task.status'
    /\ \A step \in RecoverySteps :
          recDue'[step] => \/ recDue[step]
                           \/ RecoveredStatus(step) \in Terminal
                                 => task.status' = RecoveredStatus(step)

(* They too change the row in one of the six ways and keep its shape. *)
LEMMA SystemStep ==
    ASSUME TypeOK, RowShape, RecoveryPass \/ CrashRecovery \/ ExpireReplayOwned \/ Tick
    PROVE  RowShape' /\ RowStep /\ SweepStep
<1> DEFINE Goal == RowShape' /\ RowStep /\ SweepStep
<1>a. /\ task \in Task /\ task.gen \in Nat /\ task.handoff \in Nat
      /\ recDue \in [RecoverySteps -> BOOLEAN]
  BY DEF TypeOK, Task
<1>k. ASSUME UNCHANGED task
      PROVE  RowShape' /\ RowKeep /\ ~RowDeliver /\ ~RowGrant /\ ~RowPass
  <2>1. RowKeep /\ RowShape'
    BY <1>k DEF RowShape, Waiting, Running, HandedOff, Released, Finalizing, Done, Shape,
           RowKeep, Finished
  <2> QED
    BY <1>k, <2>1, NoFenceIssued DEF RowDeliver
<1>n. ASSUME task'.lease \in {NoLease, task.lease}, task'.handoff = task.handoff
      PROVE  ~RowDeliver /\ ~RowGrant /\ ~RowPass
  <2>1. RowDeliver => task.gen = 0 /\ task.lease # NoLease /\ task.phase = "remux_running"
    BY <1>n DEF RowDeliver
  <2>2. task.phase = "remux_running" /\ task.lease # NoLease => task.gen > 0
    BY <1>a, ShapeFacts DEF Running, HandedOff, Finalizing, Shape
  <2> QED
    BY <1>a, <1>n, <2>1, <2>2, NoFenceIssued
<1>t. ASSUME NEW s \in Terminal, s # "materialized", ~Finished,
             /\ task'.status = s /\ task'.phase = "terminal" /\ task'.owner = "terminal"
             /\ task'.lease = NoLease /\ task'.next = NoTime /\ task'.gen = task.gen
             /\ task'.handoff = task.handoff
      PROVE  RowShape' /\ RowFinish /\ ~RowDeliver /\ ~RowGrant /\ ~RowPass
  <2>1. RowFinish
    BY <1>t DEF RowFinish, Finished
  <2>2. RowShape'
    BY <1>t DEF RowShape, Done, Shape
  <2> QED
    BY <1>n, <1>t, <2>1, <2>2
<1>r. ASSUME task.lease # NoLease, ~Finished, ~Finished', RowShape',
             task'.lease = NoLease /\ task'.gen = task.gen /\ task'.handoff = task.handoff
      PROVE  RowRelease /\ ~RowDeliver /\ ~RowGrant /\ ~RowPass
  BY <1>n, <1>r DEF RowRelease
<1>1. CASE Recover
  <2>1. job' = job /\ event' = event /\ rec \in RecoverySteps
    BY <1>1 DEF Recover
  <2>2. CASE ~Recovers(rec)
    <3>1. UNCHANGED <<task, recDue>>
      BY <1>1, <2>2 DEF Recover
    <3> QED
      BY <1>k, <2>1, <3>1 DEF RowStep, SweepStep
  <2>3. CASE Recovers(rec)
    <3>1. task' = RecoveredRow(rec) /\ recDue' = [recDue EXCEPT ![rec] = TRUE]
      BY <1>1, <2>3 DEF Recover
    <3>w. ASSUME RowShape', RowStep, ~RowDeliver, ~RowGrant, ~RowPass,
                 RecoveredStatus(rec) \in Terminal => task'.status = RecoveredStatus(rec)
          PROVE  Goal
      BY <1>a, <2>1, <3>1, <3>w DEF SweepStep
    <3>2. CASE rec = "ready"
      <4>1. ReadyPastDeadline /\ RecoveredStatus(rec) = "expired"
        BY <2>3, <3>2 DEF Recovers, RecoveredStatus
      <4>2. task' = [WithStatus(task, "expired", "terminal")
                        EXCEPT !.owner = "terminal", !.next = NoTime]
        BY <3>1, <3>2 DEF RecoveredRow
      <4>3. /\ task'.status = "expired" /\ task'.phase = "terminal"
            /\ task'.owner = "terminal" /\ task'.lease = NoLease /\ task'.next = NoTime
            /\ task'.gen = task.gen /\ task'.handoff = task.handoff
        BY <1>a, <4>1, <4>2 DEF WithStatus, Task, ReadyPastDeadline
      <4>4. ~Finished
        BY <4>1 DEF ReadyPastDeadline, Finished, Claimable, Terminal
      <4> QED
        BY <1>t, <3>w, <4>1, <4>3, <4>4 DEF Terminal, RowStep
    <3>l. ASSUME LeaseDead PROVE ~Finished /\ task.lease # NoLease
      BY <3>l, ShapeFacts DEF LeaseDead
    <3>3. CASE rec = "expire"
      <4>1. LeaseDead /\ RecoveredStatus(rec) = "expired"
        BY <2>3, <3>3 DEF Recovers, RecoveredStatus
      <4>2. task' = TerminalRow(task, "expired")
        BY <3>1, <3>3 DEF RecoveredRow
      <4>3. /\ task'.status = "expired" /\ task'.phase = "terminal"
            /\ task'.owner = "terminal" /\ task'.lease = NoLease /\ task'.next = NoTime
            /\ task'.gen = task.gen /\ task'.handoff = task.handoff
        BY <1>a, <4>2, TerminalRowFields
      <4> QED
        BY <1>t, <3>w, <3>l, <4>1, <4>3 DEF Terminal, RowStep
    <3>4. CASE rec = "handoff"
      <4> DEFINE r == Unleased(WithStatus(task, "materializing", "finalizer_pending"))
      <4>1. LeaseDead /\ task.handoff # NoHandoff /\ RecoveredStatus(rec) = "materializing"
        BY <2>3, <3>4 DEF Recovers, RecoveredStatus
      <4>2. task' = [r EXCEPT !.owner = "media_finalizer"]
        BY <3>1, <3>4 DEF RecoveredRow
      <4>3. r \in Task
        BY <1>a, Vocabulary, WithStatusType, UnleasedType
      <4>4. /\ task'.status = "materializing" /\ task'.phase = "finalizer_pending"
            /\ task'.owner = "media_finalizer" /\ task'.lease = NoLease
            /\ task'.gen = task.gen /\ task'.handoff = task.handoff
        BY <1>a, <4>2, <4>3, ReleasedRowFields DEF Task
      <4>5. RowShape' /\ ~Finished'
        BY <4>1, <4>4 DEF RowShape, Released, Shape, Finished, Terminal
      <4> QED
        BY <1>r, <3>w, <3>l, <4>1, <4>4, <4>5 DEF RowStep, Terminal
    <3>5. CASE rec = "retry"
      <4> DEFINE r == Unleased(WithStatus(task, "pending", "waiting_ready"))
      <4>1. LeaseDead /\ task.handoff = NoHandoff /\ RecoveredStatus(rec) = "pending"
        BY <2>3, <3>5 DEF Recovers, RecoveredStatus
      <4>2. task' = [r EXCEPT !.owner = "rolling", !.next = 0]
        BY <3>1, <3>5 DEF RecoveredRow
      <4>3. r \in Task
        BY <1>a, Vocabulary, WithStatusType, UnleasedType
      <4>4. /\ task'.status = "pending" /\ task'.phase = "waiting_ready"
            /\ task'.owner = "rolling" /\ task'.lease = NoLease
            /\ task'.gen = task.gen /\ task'.handoff = task.handoff
        BY <1>a, <4>2, <4>3, ReleasedRowFields DEF Task
      <4>5. RowShape' /\ ~Finished'
        BY <4>1, <4>4 DEF RowShape, Waiting, Shape, Claimable, WaitingPhases, Finished, Terminal
      <4> QED
        BY <1>r, <3>w, <3>l, <4>1, <4>4, <4>5 DEF RowStep, Terminal
    <3> QED
      BY <2>1, <3>2, <3>3, <3>4, <3>5 DEF RecoverySteps
  <2> QED
    BY <2>2, <2>3
<1>2. CASE ProjectRecovery
  <2>1. UNCHANGED <<task, job>>
    BY <1>2 DEF ProjectRecovery
  <2>2. PICK step \in RecoverySteps :
           /\ recDue[step] /\ event' = RecoveredStatus(step)
           /\ recDue' = [recDue EXCEPT ![step] = FALSE]
    BY <1>2 DEF ProjectRecovery
  <2>3. \A s \in RecoverySteps : recDue'[s] => recDue[s]
    BY <1>a, <2>2
  <2> QED
    BY <1>k, <2>1, <2>2, <2>3 DEF RowStep, SweepStep
<1>3. CASE EndRecovery
  <2>1. UNCHANGED <<task, event, job, recDue>>
    BY <1>3 DEF EndRecovery
  <2> QED
    BY <1>k, <2>1 DEF RowStep, SweepStep
<1>4. CASE CrashRecovery
  <2>1. UNCHANGED <<task, event, job>> /\ \A s \in RecoverySteps : ~recDue'[s]
    BY <1>4 DEF CrashRecovery
  <2> QED
    BY <1>k, <2>1 DEF RowStep, SweepStep
<1>5. CASE ExpireReplayOwned
  <2>1. /\ task' = TerminalRow(task, "expired") /\ event' = "expired"
        /\ UNCHANGED <<job, recDue>> /\ task.status \in Claimable
    BY <1>5 DEF ExpireReplayOwned
  <2>2. /\ task'.status = "expired" /\ task'.phase = "terminal"
        /\ task'.owner = "terminal" /\ task'.lease = NoLease /\ task'.next = NoTime
        /\ task'.gen = task.gen /\ task'.handoff = task.handoff
    BY <1>a, <2>1, TerminalRowFields
  <2>3. ~Finished
    BY <2>1 DEF Finished, Claimable, Terminal
  <2> QED
    BY <1>t, <2>1, <2>2, <2>3 DEF Terminal, RowStep, SweepStep
<1>6. CASE Tick
  <2>1. /\ ~Finished
        /\ task' = [task EXCEPT !.ready = Sooner(@), !.next = Sooner(@),
                                !.deadline = Sooner(@), !.ttl = Sooner(@)]
        /\ UNCHANGED <<event, job, recDue>>
    BY <1>6 DEF Tick, Finished
  <2>2. /\ task'.status = task.status /\ task'.phase = task.phase
        /\ task'.owner = task.owner /\ task'.lease = task.lease /\ task'.gen = task.gen
        /\ task'.handoff = task.handoff /\ task'.kind = task.kind
    BY <1>a, <2>1 DEF Task
  <2>3. RowShape'
    BY <2>1, <2>2 DEF RowShape, Waiting, Running, HandedOff, Released, Finalizing, Done,
       Shape, Finished
  <2>4. RowKeep
    BY <2>1, <2>2 DEF RowKeep, Finished
  <2> QED
    BY <1>n, <2>1, <2>2, <2>3, <2>4 DEF RowStep, SweepStep
<1> QED
  BY <1>1, <1>2, <1>3, <1>4, <1>5, <1>6 DEF RecoveryPass

(* The generation never decreases; the lease changes only by a grant, by a   *)
(* pass or to NULL; a finished row does not change.                          *)
LEMMA RowFacts ==
    ASSUME TypeOK, TypeOK', RowShape, RowStep
    PROVE  /\ task.gen' \in {task.gen, task.gen + 1}
           /\ RowGrant \/ task.gen' = task.gen
           /\ RowGrant \/ RowPass \/ task.lease' \in {NoLease, task.lease}
           /\ task.handoff' = task.handoff \/ RowDeliver \/ RowFinish
           /\ Finished => task' = task
<1>1. CASE RowKeep
  BY <1>1 DEF RowKeep
<1>2. CASE RowGrant
  BY <1>2 DEF RowGrant
<1>3. CASE RowPass
  BY <1>3 DEF RowPass
<1>4. CASE RowDeliver
  BY <1>4 DEF RowDeliver
<1>5. CASE RowRelease
  BY <1>5 DEF RowRelease
<1>6. CASE RowFinish
  BY <1>6 DEF RowFinish
<1> QED
  BY <1>1, <1>2, <1>3, <1>4, <1>5, <1>6 DEF RowStep

(* What SoleHolder says of a single job. *)
SoundJob(w) ==
    /\ job[w].fence.gen <= task.gen
    /\ job[w].mode \notin Fenceless => job[w].fence # NoLease
    /\ job[w].mode = "running" /\ job[w].fence = task.lease => task.handoff = NoHandoff
    /\ task.lease = RunnerFence(task.gen) => job[w].fence # FinalizerFence(task.gen)

(* A job that a step leaves alone stays sound, and if it holds the new fence *)
(* it held the old one.                                                      *)
LEMMA BystanderSound ==
    ASSUME TypeOK, TypeOK', RowShape, SoleHolder, RowStep, NEW v \in Workers,
           job'[v] = job[v],
           RowDeliver => ~(job[v].mode = "running" /\ job[v].fence = task.lease)
    PROVE  /\ SoundJob(v)'
           /\ job[v].mode \in Claimed /\ job[v].fence = task.lease'
                 => ~RowGrant /\ ~RowPass /\ job[v].fence = task.lease
<1>1. SoundJob(v)
  BY DEF SoleHolder, SoundJob, Fenceless
<1>2. /\ task.gen \in Nat /\ task.gen' \in Nat /\ job[v].fence.gen \in Nat
      /\ task.handoff \in Nat
  BY DEF TypeOK, Task, Job, Fences
<1>3. CASE RowGrant
  <2>1. job[v].fence.gen < task.gen' /\ task.gen' = task.gen + 1
    BY <1>1, <1>2, <1>3 DEF RowGrant, SoundJob
  <2>2. task.lease'.gen = task.gen'
    BY <1>3, FenceFacts DEF RowGrant
  <2>3. job[v].fence # task.lease' /\ job[v].fence # FinalizerFence(task.gen')
    BY <1>2, <2>1, <2>2, FenceFacts
  <2> QED
    BY <1>1, <1>2, <2>1, <2>3 DEF SoundJob
<1>4. CASE RowPass
  <2>1. /\ task.gen' = task.gen /\ task.lease' = FinalizerFence(task.gen)
        /\ task.lease = RunnerFence(task.gen)
    BY <1>4 DEF RowPass
  <2>2. job[v].fence # task.lease'
    BY <1>1, <2>1 DEF SoundJob
  <2>3. task.lease' # RunnerFence(task.gen')
    BY <2>1, FenceFacts
  <2> QED
    BY <1>1, <2>1, <2>2, <2>3 DEF SoundJob
<1>5. CASE ~RowGrant /\ ~RowPass
  <2>1. task.gen' = task.gen /\ task.lease' \in {NoLease, task.lease}
    BY <1>5, RowFacts
  <2>2. task.lease' = RunnerFence(task.gen') => task.lease = RunnerFence(task.gen)
    BY <2>1, FenceFacts
  <2>3. job[v].mode \notin Fenceless /\ job[v].fence = task.lease' => task.lease' = task.lease
    BY <1>1, <2>1 DEF SoundJob
  <2>4. ASSUME job[v].mode = "running", job[v].fence = task.lease'
        PROVE  task.handoff' = NoHandoff
    <3>1. task.lease' = task.lease /\ task.lease' # NoLease
      BY <1>1, <2>3, <2>4 DEF Fenceless, SoundJob
    <3>2. ~RowDeliver /\ ~RowFinish
      BY <2>4, <3>1 DEF RowFinish
    <3> QED
      BY <1>1, <2>4, <3>1, <3>2, RowFacts DEF SoundJob
  <2> QED
    BY <1>1, <1>5, <2>1, <2>2, <2>3, <2>4 DEF SoundJob, Claimed, Fenceless
<1> QED
  BY <1>3, <1>4, <1>5

(* The acting job stays sound, and it holds a new fence only by claiming it  *)
(* or by having held the old one.                                            *)
LEMMA ActorSound ==
    ASSUME TypeOK, TypeOK', RowShape, RowShape', SoleHolder, RowStep, NEW w \in Workers,
           JobStep(w)
    PROVE  /\ SoundJob(w)'
           /\ job'[w].mode \in Claimed /\ job'[w].fence = task.lease' /\ ~RowGrant /\ ~RowPass
                 => job[w].mode \in Claimed /\ job[w].fence = task.lease
<1>1. SoundJob(w)
  BY DEF SoleHolder, SoundJob, Fenceless
<1>2. /\ task.gen \in Nat /\ task.gen' \in Nat /\ job[w].fence.gen \in Nat
      /\ task.handoff \in Nat /\ NoLease.gen = 0
  BY DEF TypeOK, Task, Job, Fences
<1>g. ~RowGrant /\ ~RowPass =>
         task.gen' = task.gen /\ task.lease' \in {NoLease, task.lease}
  BY RowFacts
<1>3. CASE /\ job'[w].fence = job[w].fence
           /\ job'[w].mode \in Claimed => job[w].mode \in Claimed
           /\ job'[w].mode = "running" => job[w].mode = "running"
           /\ job[w].mode \in Fenceless => job'[w].mode \in Fenceless
           /\ ~RowGrant /\ ~RowPass
  <2>1. task.gen' = task.gen /\ task.lease' \in {NoLease, task.lease}
    BY <1>3, <1>g
  <2>2. ASSUME job'[w].mode \notin Fenceless
        PROVE  job'[w].fence # NoLease
    BY <1>1, <1>3, <2>2 DEF SoundJob
  <2>3. ASSUME job'[w].mode = "running", job'[w].fence = task.lease'
        PROVE  task.handoff' = NoHandoff
    <3>1. task.lease' = task.lease /\ task.lease' # NoLease
      BY <2>1, <2>2, <2>3 DEF Fenceless
    <3>2. ~RowDeliver /\ ~RowFinish
      BY <2>3, <3>1 DEF RowFinish, JobStep
    <3> QED
      BY <1>1, <1>3, <2>3, <3>1, <3>2, RowFacts DEF SoundJob
  <2>4. task.lease' = RunnerFence(task.gen') => task.lease = RunnerFence(task.gen)
    BY <2>1, FenceFacts
  <2> QED
    BY <1>1, <1>3, <2>1, <2>2, <2>3, <2>4 DEF SoundJob, Claimed, Fenceless
<1>4. CASE /\ job'[w].fence = NoLease
           /\ job'[w].mode = "idle"
           /\ ~RowGrant /\ ~RowPass
  BY <1>2, <1>4, FenceFacts DEF SoundJob, Fenceless, Claimed
<1>5. CASE /\ job'[w].fence = task.lease
           /\ job'[w].mode = IF task.lease = NoLease THEN "unleased" ELSE "adopted"
           /\ task' = task
  <2>1. task.lease.gen \in Nat /\ task.lease.gen <= task.gen
    BY <1>2, ShapeFacts
  <2>2. task.lease = RunnerFence(task.gen) => task.lease # FinalizerFence(task.gen)
    BY FenceFacts
  <2> QED
    BY <1>5, <2>1, <2>2 DEF SoundJob, Fenceless, Claimed
<1>6. CASE /\ RowGrant \/ RowPass
           /\ job'[w].fence = task.lease'
           /\ job'[w].mode \in Claimed
           /\ job'[w].mode = "running" => task.handoff' = NoHandoff
  <2>1. /\ task.lease' \in {RunnerFence(task.gen'), FinalizerFence(task.gen')}
        /\ task.lease' # NoLease /\ task.lease'.gen = task.gen'
    BY <1>6, FenceFacts DEF RowGrant, RowPass
  <2>2. task.lease' = RunnerFence(task.gen') => task.lease' # FinalizerFence(task.gen')
    BY FenceFacts
  <2> QED
    BY <1>2, <1>6, <2>1, <2>2 DEF SoundJob
<1> QED
  BY <1>3, <1>4, <1>5, <1>6 DEF JobStep

(* A worker's step preserves SoleHolder. *)
LEMMA WorkerSoleHolder ==
    ASSUME TypeOK, TypeOK', RowShape, RowShape', SoleHolder, RowStep, NEW w \in Workers,
           JobStep(w)
    PROVE  SoleHolder'
<1>1. \A v \in Workers \ {w} : job'[v] = job[v]
  BY DEF JobStep
<1>2. \A v \in Workers \ {w} :
         RowDeliver => ~(job[v].mode = "running" /\ job[v].fence = task.lease)
  BY DEF JobStep, SoleHolder, Claimed
<1>3. \A v \in Workers \ {w} :
         /\ SoundJob(v)'
         /\ job[v].mode \in Claimed /\ job[v].fence = task.lease'
               => ~RowGrant /\ ~RowPass /\ job[v].fence = task.lease
  BY <1>1, <1>2, BystanderSound
<1>4. \A v \in Workers : SoundJob(v)'
  BY <1>3, ActorSound
<1>5. ASSUME NEW u \in Workers, NEW v \in Workers,
             job'[u].mode \in Claimed, job'[v].mode \in Claimed,
             job'[u].fence = task.lease', job'[v].fence = task.lease'
      PROVE  u = v
  <2>1. CASE RowGrant \/ RowPass
    BY <1>1, <1>3, <1>5, <2>1
  <2>2. CASE ~RowGrant /\ ~RowPass
    <3>1. \A x \in {u, v} : job[x].mode \in Claimed /\ job[x].fence = task.lease
      BY <1>1, <1>3, <1>5, <2>2, ActorSound
    <3> QED
      BY <3>1 DEF SoleHolder
  <2> QED
    BY <2>1, <2>2
<1> QED
  BY <1>4, <1>5 DEF SoleHolder, SoundJob, Fenceless

(* A step of the sweeps preserves SoleHolder. *)
LEMMA SweepSoleHolder ==
    ASSUME TypeOK, TypeOK', RowShape, SoleHolder, RowStep, SweepStep
    PROVE  SoleHolder'
<1>1. \A v \in Workers :
         /\ SoundJob(v)'
         /\ job[v].mode \in Claimed /\ job[v].fence = task.lease' => job[v].fence = task.lease
  BY BystanderSound DEF SweepStep
<1>2. job' = job
  BY DEF SweepStep
<1> QED
  BY <1>1, <1>2 DEF SoleHolder, SoundJob, Fenceless

(* A worker's step preserves EventFollowsTask: a due outcome is the row's    *)
(* own, and a finished row does not change before it is projected.           *)
LEMMA WorkerEventFollows ==
    ASSUME TypeOK, TypeOK', RowShape, EventFollowsTask, RowStep, NEW w \in Workers,
           JobStep(w), EventStep(w)
    PROVE  EventFollowsTask'
<1>1. Finished => task' = task
  BY RowFacts
<1>2. event' \in Terminal => event' = task.status'
  BY <1>1 DEF EventStep, EventFollowsTask, Finished
<1>3. ASSUME NEW v \in Workers, job'[v].due \in Terminal
      PROVE  job'[v].due = task.status'
  <2>1. CASE job'[v].due = job[v].due
    BY <1>1, <1>3, <2>1 DEF EventFollowsTask, Finished
  <2>2. CASE v = w /\ job'[w].due # job[w].due
    BY <1>3, <2>2 DEF EventStep, Terminal
  <2> QED
    BY <2>1, <2>2 DEF JobStep
<1>4. ASSUME NEW step \in RecoverySteps, recDue'[step], RecoveredStatus(step) \in Terminal
      PROVE  task.status' = RecoveredStatus(step)
  BY <1>1, <1>4 DEF EventStep, EventFollowsTask, Finished
<1> QED
  BY <1>2, <1>3, <1>4 DEF EventFollowsTask, RecoveredStatus

(* A step of the sweeps preserves EventFollowsTask. *)
LEMMA SweepEventFollows ==
    ASSUME TypeOK, TypeOK', RowShape, EventFollowsTask, RowStep, SweepStep
    PROVE  EventFollowsTask'
<1>1. Finished => task' = task
  BY RowFacts
<1>2. event' \in Terminal => event' = task.status'
  BY <1>1 DEF SweepStep, EventFollowsTask, Finished
<1>3. \A v \in Workers : job'[v].due \in Terminal => job'[v].due = task.status'
  BY <1>1 DEF SweepStep, EventFollowsTask, Finished
<1>4. ASSUME NEW step \in RecoverySteps, recDue'[step], RecoveredStatus(step) \in Terminal
      PROVE  task.status' = RecoveredStatus(step)
  BY <1>1, <1>4 DEF SweepStep, EventFollowsTask, Finished
<1> QED
  BY <1>2, <1>3, <1>4 DEF EventFollowsTask, RecoveredStatus

(* The inductive invariant. *)
IInv == TypeOK /\ RowShape /\ SoleHolder /\ EventFollowsTask

(* A new row waits, nobody holds it, and no outcome is announced. *)
LEMMA InitIInv == Init => IInv
<1> SUFFICES ASSUME Init PROVE IInv
  OBVIOUS
<1>1. TypeOK
  BY InitTypeOK
<1>2. PICK kind \in Kinds : task = NewTask(kind)
  BY DEF Init
<1>3. /\ task.status = "manifest_ready" /\ task.phase = "waiting_ready"
      /\ task.owner \in {"rolling", "replay"} /\ task.lease = NoLease
      /\ task.handoff = NoHandoff /\ task.gen = 0
  BY <1>2 DEF NewTask
<1>4. RowShape
  BY <1>3 DEF RowShape, Waiting, Shape, Claimable, WaitingPhases
<1>5. \A w \in Workers :
         /\ job[w].mode = "idle" /\ job[w].fence = NoLease /\ job[w].due = NoStatus
  BY DEF Init, Idle
<1>6. SoleHolder
  BY <1>3, <1>5, FenceFacts DEF SoleHolder, Claimed
<1>7. EventFollowsTask
  BY <1>5 DEF Init, EventFollowsTask, Terminal
<1> QED
  BY <1>1, <1>4, <1>6, <1>7 DEF IInv

(* Every step has one of the shapes and preserves the invariant. *)
LEMMA NextStep ==
    ASSUME IInv, Next
    PROVE  IInv' /\ RowStep /\ (SweepStep \/ \E w \in Workers : JobStep(w) /\ EventStep(w))
<1>1. TypeOK'
  BY NextTypeOK DEF IInv
<1>2. ASSUME NEW w \in Workers,
             \/ ClaimRolling(w) \/ GenericClaim(w) \/ ReadCurrentLease(w)
             \/ Outcome(w) \/ Project(w) \/ Heartbeat(w) \/ Fault(w)
      PROVE  IInv' /\ RowStep /\ JobStep(w) /\ EventStep(w)
  <2>1. RowShape' /\ RowStep /\ JobStep(w) /\ EventStep(w)
    BY <1>2, WorkerStep DEF IInv
  <2> QED
    BY <1>1, <2>1, WorkerSoleHolder, WorkerEventFollows DEF IInv
<1>3. ASSUME RecoveryPass \/ CrashRecovery \/ ExpireReplayOwned \/ Tick
      PROVE  IInv' /\ RowStep /\ SweepStep
  <2>1. RowShape' /\ RowStep /\ SweepStep
    BY <1>3, SystemStep DEF IInv
  <2> QED
    BY <1>1, <2>1, SweepSoleHolder, SweepEventFollows DEF IInv
<1> QED
  BY <1>2, <1>3 DEF Next

(* The invariant does not depend on anything but the variables. *)
LEMMA StutterIInv ==
    ASSUME IInv, UNCHANGED vars
    PROVE  IInv'
<1>1. TypeOK'
  BY DEF IInv, TypeOK, vars
<1>2. RowShape'
  BY DEF IInv, RowShape, Waiting, Running, HandedOff, Released, Finalizing, Done, Shape, vars
<1>3. SoleHolder'
  BY DEF IInv, SoleHolder, vars
<1>4. EventFollowsTask'
  BY DEF IInv, EventFollowsTask, vars
<1> QED
  BY <1>1, <1>2, <1>3, <1>4 DEF IInv

(* The invariant holds in every reachable state. *)
THEOREM Invariance == Spec => []IInv
<1>1. Init => IInv
  BY InitIInv
<1>2. IInv /\ [Next]_vars => IInv'
  BY NextStep, StutterIInv
<1> QED
  BY <1>1, <1>2, PTL DEF Spec

(* Whatever the workers, the sweeps and the crashes do, the row keeps one of *)
(* the six shapes the statements of materialization_repository.py select on. *)
THEOREM RowShapeHolds == Spec => []RowShape
BY Invariance, PTL DEF IInv

(* The fence admits one claimed holder at a time, for any number of workers  *)
(* and any number of claims, expiries and takeovers.                         *)
THEOREM SoleHolderHolds == Spec => []SoleHolder
BY Invariance, PTL DEF IInv

(* A late _project_event can never announce an outcome the task does not     *)
(* have.                                                                     *)
THEOREM EventFollowsTaskHolds == Spec => []EventFollowsTask
BY Invariance, PTL DEF IInv

(* No statement writes a row that has reached a terminal status.             *)
THEOREM TerminalAbsorbingHolds == Spec => TerminalAbsorbing
<1>1. IInv /\ [Next]_vars => [task.status \in Terminal => UNCHANGED task]_vars
  <2> SUFFICES ASSUME IInv, Next, Finished PROVE UNCHANGED task
    BY DEF Finished
  <2> QED
    BY NextStep, RowFacts DEF IInv
<1> QED
  BY <1>1, Invariance, PTL DEF Spec, TerminalAbsorbing

(* A persisted handoff is given up only with a terminal outcome.             *)
THEOREM HandoffSurvivesHolds == Spec => HandoffSurvives
<1>1. IInv /\ [Next]_vars =>
         [task.handoff # NoHandoff /\ task.handoff' # task.handoff
             => task.status' \in Terminal]_vars
  <2> SUFFICES ASSUME IInv, Next, task.handoff # NoHandoff, task.handoff' # task.handoff
               PROVE  task.status' \in Terminal
    OBVIOUS
  <2>1. RowFinish
    BY NextStep, RowFacts DEF IInv, RowDeliver
  <2> QED
    BY <2>1 DEF RowFinish, Finished
<1> QED
  BY <1>1, Invariance, PTL DEF Spec, HandoffSurvives

(* A fence is never issued twice: it has a new generation or is the handoff's *)
(* own, passed from the remux owner to the finalizer.                         *)
THEOREM FreshFenceHolds == Spec => FreshFence
<1> DEFINE Fresh == task.lease' \notin {task.lease, NoLease} =>
                       \/ task.gen' = task.gen + 1
                       \/ /\ task.gen' = task.gen
                          /\ task.phase = "finalizer_pending"
                          /\ task.handoff = task.gen
                          /\ task.lease' = FinalizerFence(task.gen)
<1>1. IInv /\ [Next]_vars => [Fresh]_vars
  <2> SUFFICES ASSUME IInv, Next, task.lease' \notin {task.lease, NoLease}
               PROVE  \/ task.gen' = task.gen + 1
                      \/ /\ task.gen' = task.gen
                         /\ task.phase = "finalizer_pending"
                         /\ task.handoff = task.gen
                         /\ task.lease' = FinalizerFence(task.gen)
    OBVIOUS
  <2>1. RowGrant \/ RowPass
    BY NextStep, RowFacts DEF IInv
  <2> QED
    BY <2>1 DEF RowGrant, RowPass
<1> QED
  BY <1>1, Invariance, PTL DEF Spec, FreshFence

(* What the refinement mapping reads off the row and the event. *)
LEMMA StageFacts ==
    /\ Finished => Stage = "done"
    /\ ~Finished /\ task.lease # NoLease => Stage = "held"
    /\ ~Finished /\ task.lease = NoLease /\ task.handoff = NoHandoff => Stage = "waiting"
    /\ ~Finished /\ task.lease = NoLease /\ task.handoff # NoHandoff => Stage = "released"
BY DEF Stage, Finished

(* A step that moves the fence, the handoff or the generation leaves the     *)
(* event alone, unless it finishes the row.                                  *)
LEMMA EventUntouched ==
    ASSUME SweepStep \/ \E w \in Workers : EventStep(w), task' # task, ~RowFinish
    PROVE  event' = event
BY DEF SweepStep, EventStep

(* Every step of the system is a step of EvidenceTask or leaves it alone.    *)
LEMMA StepRefines ==
    ASSUME IInv, Next
    PROVE  [Promise!Next]_(Promise!absvars)
<1> DEFINE Abs == [Promise!Next]_(Promise!absvars)
<1>1. /\ IInv' /\ RowStep
      /\ SweepStep \/ \E w \in Workers : EventStep(w)
  BY NextStep
<1>2. /\ event \in Terminal => Finished /\ event = task.status
      /\ event' \in Terminal => Finished' /\ event' = task.status'
  BY <1>1 DEF IInv, EventFollowsTask, Finished
<1>p. /\ Finished' => Stage' = "done"
      /\ ~Finished' /\ task.lease' # NoLease => Stage' = "held"
      /\ ~Finished' /\ task.lease' = NoLease /\ task.handoff' = NoHandoff => Stage' = "waiting"
      /\ ~Finished' /\ task.lease' = NoLease /\ task.handoff' # NoHandoff => Stage' = "released"
  BY DEF Stage, Finished
<1>n. task.gen \in Nat
  BY DEF IInv, TypeOK, Task
<1>3. CASE RowKeep
  <2>1. Stage' = Stage
    BY <1>3, <1>p, StageFacts DEF RowKeep
  <2>2. Promise!Announce
    BY <1>2, <1>3, <2>1, StageFacts DEF Promise!Announce, RowKeep, Finished
  <2> QED
    BY <2>2 DEF Promise!Next
<1>4. CASE RowGrant
  <2>1. event' = event
    BY <1>1, <1>4, <1>n, EventUntouched DEF RowGrant, RowFinish
  <2>2. Stage \in {"waiting", "released"} /\ Stage' = "held"
    BY <1>4, <1>p, StageFacts, FenceFacts DEF RowGrant
  <2>3. Promise!Grant
    BY <1>4, <2>1, <2>2 DEF Promise!Grant, RowGrant, Finished
  <2> QED
    BY <2>3 DEF Promise!Next
<1>5. CASE RowPass
  <2>1. event' = event
    BY <1>1, <1>5, EventUntouched, FenceFacts DEF RowPass, RowFinish
  <2>2. Stage' = Stage
    BY <1>5, <1>p, StageFacts, FenceFacts DEF RowPass
  <2> QED
    BY <1>5, <2>1, <2>2 DEF Promise!absvars, RowPass, Finished
<1>6. CASE RowDeliver
  <2>1. event' = event
    BY <1>1, <1>6, EventUntouched DEF RowDeliver, RowFinish
  <2>2. Stage = "held" /\ Stage' = "held"
    BY <1>6, <1>p, StageFacts DEF RowDeliver
  <2>3. Promise!Deliver
    BY <1>6, <2>1, <2>2 DEF Promise!Deliver, RowDeliver, Finished
  <2> QED
    BY <2>3 DEF Promise!Next
<1>7. CASE RowRelease
  <2>1. event' = event
    BY <1>1, <1>7, EventUntouched DEF RowRelease, RowFinish
  <2>2. /\ Stage = "held"
        /\ Stage' = IF task.handoff = NoHandoff THEN "waiting" ELSE "released"
    BY <1>7, <1>p, StageFacts DEF RowRelease
  <2>3. Promise!Release
    BY <1>7, <2>1, <2>2 DEF Promise!Release, RowRelease, Finished
  <2> QED
    BY <2>3 DEF Promise!Next
<1>8. CASE RowFinish
  <2>1. Stage # "done" /\ Stage' = "done"
    BY <1>8, <1>p, StageFacts DEF RowFinish
  <2>2. task.status' = "materialized" => Stage = "held"
    BY <1>8, StageFacts DEF RowFinish
  <2>3. event \notin Terminal
    BY <1>2, <1>8 DEF RowFinish
  <2>4. Promise!Finish
    BY <1>2, <1>8, <2>1, <2>2, <2>3 DEF Promise!Finish, RowFinish, Finished
  <2> QED
    BY <2>4 DEF Promise!Next
<1> QED
  BY <1>1, <1>3, <1>4, <1>5, <1>6, <1>7, <1>8 DEF RowStep

(* The statements and their callers implement the promise of EvidenceTask,   *)
(* for any set of workers and any times.                                     *)
THEOREM Refinement == Spec => ImplementsEvidenceTask
<1>1. Init => Promise!Init
  <2> SUFFICES ASSUME Init PROVE Promise!Init
    OBVIOUS
  <2>1. PICK kind \in Kinds : task = NewTask(kind)
    BY DEF Init
  <2>2. /\ task.status = "manifest_ready" /\ task.lease = NoLease
        /\ task.handoff = NoHandoff /\ task.gen = 0 /\ event = "manifest_ready"
    BY <2>1 DEF NewTask, Init
  <2> QED
    BY <2>2 DEF Promise!Init, Stage, Terminal
<1>2. IInv /\ [Next]_vars => [Promise!Next]_(Promise!absvars)
  <2>1. CASE Next
    BY <2>1, StepRefines
  <2>2. CASE UNCHANGED vars
    BY <2>2 DEF vars, Promise!absvars, Stage
  <2> QED
    BY <2>1, <2>2
<1> QED
  BY <1>1, <1>2, Invariance, PTL DEF Spec, ImplementsEvidenceTask, Promise!Spec
=============================================================================
