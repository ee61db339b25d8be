---------------------- MODULE FinalizerPublish_proofs ----------------------
(***************************************************************************)
(* For any number of finalizers, claims and faults: the clip an event is   *)
(* materialized with is on disk, its input was not removed before, attempt *)
(* directories are accounted for, and nothing published is overwritten.    *)
(***************************************************************************)
EXTENDS FinalizerPublish, TLAPS

Fin == [pc : Labels, gen : 0..MaxGeneration, kind : Kinds, healthy : BOOLEAN]

Row == [phase : Phases, gen : 0..MaxGeneration, clip : BOOLEAN]

(* A finalizer at work has a generation that was issued.                    *)
Numbered == \A f \in Finalizers : fin[f].pc # "idle" => fin[f].gen \in 1..row.gen

(* What a step of finalizer f leaves alone, and what it makes of f.         *)
Moves(f, pc) ==
    /\ fin' \in [Finalizers -> Fin]
    /\ fin'[f].pc = pc /\ fin'[f].gen = fin[f].gen /\ fin'[f].kind = fin[f].kind
    /\ \A g \in Finalizers \ {f} : fin'[g] = fin[g]

Ends(f) ==
    /\ fin' \in [Finalizers -> Fin]
    /\ fin'[f].pc = "idle"
    /\ \A g \in Finalizers \ {f} : fin'[g] = fin[g]

-----------------------------------------------------------------------------
(* The building blocks of the actions                                       *)

(* What typing says of the finalizers and of the row.                       *)
LEMMA TypeParts ==
    ASSUME TypeOK
    PROVE  fin \in [Finalizers -> Fin] /\ row \in Row /\ Numbered
BY DEF TypeOK, Fin, Row, Numbered

(* Goto moves one finalizer.                                                *)
LEMMA GotoMoves ==
    ASSUME fin \in [Finalizers -> Fin], NEW f \in Finalizers, NEW pc \in Labels, Goto(f, pc)
    PROVE  Moves(f, pc)
BY DEF Goto, Fin, Moves

(* End makes one finalizer idle.                                            *)
LEMMA EndEnds ==
    ASSUME fin \in [Finalizers -> Fin], NEW f \in Finalizers, End(f)
    PROVE  Ends(f)
<1>1. Idle \in Fin /\ Idle.pc = "idle"
  BY ConstantsAssumption DEF Idle, Fin, Labels, Kinds
<1>. QED  BY <1>1 DEF End, Ends

(* A retried row is released or untouched.                                  *)
LEMMA RetryRow ==
    ASSUME row \in Row, NEW f, RetryIfHeld(f)
    PROVE  /\ row' \in Row /\ row'.gen = row.gen /\ row'.clip = row.clip
           /\ row' = row \/ (Held(f) /\ row'.phase = "released")
BY DEF Row, RetryIfHeld, Phases

(* A failed row is terminal or untouched.                                   *)
LEMMA FailRow ==
    ASSUME row \in Row, NEW f, FailIfHeld(f)
    PROVE  /\ row' \in Row /\ row'.gen = row.gen /\ row'.clip = row.clip
           /\ row' = row \/ (Held(f) /\ row'.phase = "failed")
BY DEF Row, FailIfHeld, Phases

(* A committed row has the outcome of the bundle.                           *)
LEMMA CommitRow ==
    ASSUME row \in Row, NEW k \in Kinds,
           row' = [row EXCEPT !.phase = EvidenceState(k), !.clip = @ \/ HasClip(k)]
    PROVE  /\ row' \in Row /\ row'.gen = row.gen
           /\ row'.phase = EvidenceState(k) /\ row'.clip = (row.clip \/ HasClip(k))
<1>1. EvidenceState(k) \in Phases
  BY DEF EvidenceState, Phases
<1>2. (row.clip \/ HasClip(k)) \in BOOLEAN
  BY DEF HasClip
<1>. QED  BY <1>1, <1>2 DEF Row

(* An attempt that has been moved or removed is gone, the others stay.      *)
LEMMA VacatedOne ==
    ASSUME incoming \in [1..MaxGeneration -> {"none", "partial", "whole"}],
           NEW f, fin[f].gen \in 1..MaxGeneration, Vacated(f)
    PROVE  /\ incoming' \in [1..MaxGeneration -> {"none", "partial", "whole"}]
           /\ incoming'[fin[f].gen] = "none"
           /\ \A g \in 1..MaxGeneration \ {fin[f].gen} : incoming'[g] = incoming[g]
BY DEF Vacated

(* The generation of a finalizer at work numbers an attempt directory.      *)
LEMMA GenInRange ==
    ASSUME TypeOK, NEW f \in Finalizers, fin[f].pc # "idle"
    PROVE  fin[f].gen \in 1..MaxGeneration
<1>1. row.gen \in 0..MaxGeneration /\ fin[f].gen \in 1..row.gen
  BY TypeParts DEF Row, Numbered
<1>. QED  BY <1>1, ConstantsAssumption

-----------------------------------------------------------------------------
(* Typing                                                                   *)

Dirs == [1..MaxGeneration -> {"none", "partial", "whole"}]

(* The part of TypeOK that is about the finalizers, the row and the files   *)
(* they are building.                                                       *)
CoreOK ==
    /\ fin \in [Finalizers -> Fin] /\ row \in Row /\ Numbered
    /\ incoming \in Dirs /\ littered \subseteq 1..MaxGeneration

(* The part about what is published and what is recorded of it.             *)
RestOK ==
    /\ canonical \in Bundles /\ quarantine \subseteq Bundles
    /\ sink \in BOOLEAN
    /\ audit \in {"none", "deleted", "missing", "skipped", "cleanup_pending"}
    /\ index \in {"none", "ready", "failed"}
    /\ faults \in 0..MaxFaults
    /\ displaced \in BOOLEAN /\ abandoned \in BOOLEAN

(* The two parts are the whole.                                             *)
LEMMA TypeSplit == TypeOK <=> CoreOK /\ RestOK
BY DEF TypeOK, CoreOK, RestOK, Fin, Row, Numbered, Dirs

(* Fewer or the same finalizers at work, under an unchanged numbering.      *)
LEMMA StillNumbered ==
    ASSUME Numbered, row'.gen = row.gen, NEW f \in Finalizers,
           Ends(f) \/ (fin[f].pc # "idle" /\ \E pc \in Labels : Moves(f, pc))
    PROVE  Numbered'
BY DEF Numbered, Ends, Moves

(* None and what a rename puts in place are bundles.                        *)
LEMMA BundleTypes ==
    /\ None \in Bundles
    /\ \A g \in 0..MaxGeneration, c \in BOOLEAN, s \in BOOLEAN :
          [gen |-> g, clip |-> c, sidecars |-> s] \in Bundles
    /\ \A b \in Bundles, g \in 0..MaxGeneration :
          [b EXCEPT !.sidecars = FALSE] \in Bundles /\ [None EXCEPT !.gen = g] \in Bundles
<1>1. None \in Bundles
  BY ConstantsAssumption DEF None, Bundles
<1>2. ASSUME NEW g \in 0..MaxGeneration, NEW c \in BOOLEAN, NEW s \in BOOLEAN
      PROVE  [gen |-> g, clip |-> c, sidecars |-> s] \in Bundles
  BY DEF Bundles
<1>3. ASSUME NEW b \in Bundles, NEW g \in 0..MaxGeneration
      PROVE  [b EXCEPT !.sidecars = FALSE] \in Bundles /\ [None EXCEPT !.gen = g] \in Bundles
  BY <1>1 DEF Bundles
<1>. QED  BY <1>1, <1>2, <1>3

(* A directory is still a bundle in the quarantine, and keeps its clip.     *)
LEMMA QuarantinedBundle ==
    ASSUME canonical \in Bundles
    PROVE  Quarantined(canonical) \in Bundles /\ Quarantined(canonical).clip = canonical.clip
BY DEF Quarantined, Bundles

(* What the index step makes of the event's directory, on any of its ways   *)
(* out: a bundle of the same generation, if there was one, and the same     *)
(* clip.                                                                    *)
LEMMA IndexedBundle ==
    ASSUME fin \in [Finalizers -> Fin], canonical \in Bundles, NEW f \in Finalizers,
           NEW directory \in {canonical} \cup Pruned,
           NEW b \in {directory} \cup Retained(f, directory)
    PROVE  /\ b \in Bundles /\ b.clip = canonical.clip
           /\ canonical # None => b.gen = canonical.gen
<1>1. fin[f].gen \in 0..MaxGeneration
  BY DEF Fin
<1>2. directory \in Bundles /\ directory.clip = canonical.clip /\ directory.gen = canonical.gen
  BY DEF Pruned, Bundles
<1>3. CASE canonical = None
  <2>1. b \in {directory, [None EXCEPT !.gen = fin[f].gen]}
    BY <1>3 DEF Retained
  <2>2. [None EXCEPT !.gen = fin[f].gen].clip = None.clip
    BY DEF None
  <2>. QED  BY <1>1, <1>2, <1>3, <2>1, <2>2, BundleTypes
<1>4. CASE canonical # None
  <2>1. b \in {directory, [directory EXCEPT !.sidecars = TRUE]}
    BY <1>4 DEF Retained
  <2>. QED  BY <1>2, <1>4, <2>1 DEF Bundles
<1>. QED  BY <1>3, <1>4

(* The count of faults stays within its bound.                              *)
LEMMA FaultCounts ==
    ASSUME faults \in 0..MaxFaults, faults' = faults \/ Fault
    PROVE  faults' \in 0..MaxFaults
BY ConstantsAssumption DEF Fault

(* A step keeps the types of what is published and recorded.                *)
LEMMA RestStep ==
    ASSUME TypeOK, Next
    PROVE  RestOK'
<1>. USE ConstantsAssumption
<1>0. RestOK /\ fin \in [Finalizers -> Fin]
  BY TypeSplit, TypeParts
<1>1. CASE Recover
  BY <1>0, <1>1 DEF Recover, Files, After, History, RestOK
<1>2. CASE RecoverCleanup
  <2>1. /\ sink' \in {sink, FALSE} /\ audit' \in {"deleted", "missing", audit}
        /\ (faults' = faults \/ Fault)
        /\ UNCHANGED <<canonical, quarantine, index, displaced, abandoned>>
    BY <1>2 DEF RecoverCleanup, History
  <2>2. faults' \in 0..MaxFaults
    BY <1>0, <2>1, FaultCounts DEF RestOK
  <2>. QED  BY <1>0, <2>1, <2>2 DEF RestOK
<1>3. ASSUME NEW f \in Finalizers, Claim(f) \/ Step(f) \/ HeartbeatLost(f) \/ Crash(f)
      PROVE  RestOK'
  <2>0. fin[f] \in Fin
    BY <1>0
  <2>1. CASE \/ Claim(f) \/ StartBundle(f) \/ FinishBundle(f) \/ Look(f) \/ HeartbeatLost(f)
             \/ SettleHealth(f) \/ Commit(f) \/ Details(f)
    <3>1. UNCHANGED <<canonical, quarantine, sink, audit, index, faults, displaced, abandoned>>
      BY <2>1 DEF Claim, StartBundle, FinishBundle, Look, HeartbeatLost, SettleHealth, Commit,
         Details, Files, After, History
    <3>. QED  BY <1>0, <3>1 DEF RestOK
  <2>2. CASE \/ BundleRaises(f) \/ QuarantineFails(f) \/ RenameFails(f) \/ PublishFault(f)
             \/ CheckHealth(f) \/ CheckFence(f) \/ Converge(f) \/ Crash(f)
    <3>1. UNCHANGED <<canonical, quarantine, sink, audit, index, displaced, abandoned>>
      BY <2>2 DEF BundleRaises, QuarantineFails, RenameFails, PublishFault, PublishRaises,
         CheckHealth, CheckFence, Converge, Crash, After
    <3>2. faults' = faults \/ Fault
      BY <2>2 DEF BundleRaises, QuarantineFails, RenameFails, PublishFault, CheckHealth,
         CheckFence, Converge, Discard, Crash
    <3>. QED  BY <1>0, <3>1, <3>2 DEF RestOK, Fault
  <2>3. CASE Quarantine(f)
    <3>1. /\ quarantine' = quarantine \cup {Quarantined(canonical)} /\ canonical' = None
          /\ displaced' = (displaced \/ ~Held(f))
          /\ UNCHANGED <<sink, audit, index, faults, abandoned>>
      BY <2>3 DEF Quarantine, After
    <3>2. displaced' \in BOOLEAN
      BY <1>0, <3>1 DEF RestOK, Held
    <3>3. canonical' \in Bundles /\ quarantine' \subseteq Bundles
      <4>1. canonical \in Bundles /\ quarantine \subseteq Bundles
        BY <1>0 DEF RestOK
      <4>2. Quarantined(canonical) \in Bundles
        BY <4>1, QuarantinedBundle
      <4>. QED  BY <3>1, <4>1, <4>2, BundleTypes
    <3>. QED  BY <1>0, <3>1, <3>2, <3>3, Zenon DEF RestOK
  <2>4. CASE Rename(f)
    <3>1. PICK s \in BOOLEAN :
              canonical' = [gen |-> fin[f].gen, clip |-> HasClip(fin[f].kind), sidecars |-> s]
      BY <2>4 DEF Rename, Bundle
    <3>2. UNCHANGED <<quarantine, sink, audit, index, faults, displaced, abandoned>>
      BY <2>4 DEF Rename, After
    <3>3. fin[f].gen \in 0..MaxGeneration /\ HasClip(fin[f].kind) \in BOOLEAN
      BY <2>0 DEF Fin, HasClip
    <3>4. canonical' \in Bundles
      BY <3>1, <3>3, BundleTypes
    <3>. QED  BY <1>0, <3>2, <3>4, Zenon DEF RestOK
  <2>5. CASE CommitUnanswered(f) \/ FollowUpLost(f)
    <3>1. /\ abandoned' = TRUE /\ sink' \in {sink, FALSE} /\ Fault
          /\ UNCHANGED <<quarantine, audit, index, displaced>>
      BY <2>5 DEF CommitUnanswered, FollowUpLost, Files, After
    <3>2. faults' \in 0..MaxFaults /\ sink' \in BOOLEAN
      BY <1>0, <3>1, FaultCounts DEF RestOK
    <3>3. canonical \in Bundles
      BY <1>0 DEF RestOK
    <3>4. \/ canonical' = canonical
          \/ \E directory \in {canonical} \cup Pruned :
                canonical' \in {directory} \cup Retained(f, directory)
      BY <2>5 DEF CommitUnanswered, FollowUpLost, PrunedIfReady, Files
    <3>5. canonical' \in Bundles
      BY <1>0, <3>3, <3>4, IndexedBundle
    <3>. QED  BY <1>0, <3>1, <3>2, <3>5, Zenon DEF RestOK
  <2>6. CASE Index(f)
    <3>1. /\ index' \in {"ready", "failed"} /\ (faults' = faults \/ Fault)
          /\ UNCHANGED <<quarantine, sink, audit, displaced, abandoned>>
      BY <2>6 DEF Index, History
    <3>2. \E directory \in {canonical} \cup Pruned :
             canonical' \in {directory} \cup Retained(f, directory)
      BY <2>6 DEF Index, PrunedIfReady
    <3>3. canonical \in Bundles
      BY <1>0 DEF RestOK
    <3>4. canonical' \in Bundles
      BY <1>0, <3>2, <3>3, IndexedBundle
    <3>. QED  BY <1>0, <3>1, <3>4 DEF RestOK, Fault
  <2>7. CASE Cleanup(f)
    <3>1. /\ sink' \in {sink, FALSE} /\ audit' \in {"deleted", "missing", "skipped", "cleanup_pending"}
          /\ faults' = faults \/ Fault
          /\ UNCHANGED <<canonical, quarantine, index, displaced, abandoned>>
      BY <2>7 DEF Cleanup, History
    <3>2. faults' \in 0..MaxFaults /\ sink' \in BOOLEAN
      BY <1>0, <3>1, FaultCounts DEF RestOK
    <3>. QED  BY <1>0, <3>1, <3>2 DEF RestOK
  <2>. QED  BY <1>3, <2>1, <2>2, <2>3, <2>4, <2>5, <2>6, <2>7 DEF Step
<1>. QED  BY <1>1, <1>2, <1>3 DEF Next

-----------------------------------------------------------------------------
(* What a step of one finalizer at work can do, aspect by aspect            *)

Acts(f) == Step(f) \/ HeartbeatLost(f) \/ Crash(f)

(* It moves this finalizer only, which keeps its generation until it ends.  *)
FinEffect(f) ==
    /\ fin[f].pc # "idle"
    /\ fin' \in [Finalizers -> Fin]
    /\ \A g \in Finalizers \ {f} : fin'[g] = fin[g]
    /\ fin'[f].pc # "idle" => fin'[f].gen = fin[f].gen

(* It writes the row only under the fence, and materializes it only by a    *)
(* commit of the bundle it has.                                             *)
RowEffect(f) ==
    /\ row' \in Row /\ row'.gen = row.gen
    /\ \/ row' = row
       \/ Held(f) /\ row'.phase \in {"released", "failed"}
       \/ /\ Held(f) /\ fin[f].pc = "commit"
          /\ row'.phase = EvidenceState(fin[f].kind)
          /\ row'.clip = (row.clip \/ HasClip(fin[f].kind))

(* It touches its own attempt directory only, and leaves it littered if at  *)
(* all.                                                                     *)
AttemptEffect(f) ==
    /\ incoming' \in Dirs
    /\ littered \subseteq littered' /\ littered' \subseteq 1..MaxGeneration
    /\ \A g \in 1..MaxGeneration \ {fin[f].gen} : incoming'[g] = incoming[g]
    /\ incoming'[fin[f].gen] # "none" =>
          \/ fin[f].gen \in littered'
          \/ fin'[f].pc \in Building
          \/ fin[f].pc \notin Building /\ incoming[fin[f].gen] # "none"

(* The effect on the finalizers, action by action.                          *)
LEMMA FinStep ==
    ASSUME TypeOK, NEW f \in Finalizers, Acts(f)
    PROVE  FinEffect(f)
<1>0. fin \in [Finalizers -> Fin]
  BY TypeParts
<1>1. fin[f].pc # "idle"
  BY DEF Acts, Step, HeartbeatLost, Crash, StartBundle, FinishBundle, BundleRaises, CheckHealth,
     CheckFence, Look, Converge, Quarantine, QuarantineFails, Rename, RenameFails, PublishFault,
     SettleHealth, Commit, CommitUnanswered, Details, Index, Cleanup, FollowUpLost, At, Building
<1>2. CASE StartBundle(f)
  BY <1>0, <1>1, <1>2 DEF StartBundle, FinEffect
<1>3. CASE FinishBundle(f)
  <2>1. PICK k \in Kinds : fin' = [fin EXCEPT ![f].pc = "check", ![f].kind = k]
    BY <1>3 DEF FinishBundle
  <2>2. "check" \in Labels
    BY DEF Labels
  <2>. QED  BY <1>0, <1>1, <2>1, <2>2 DEF FinEffect, Fin
<1>4. CASE HeartbeatLost(f)
  BY <1>0, <1>1, <1>4 DEF HeartbeatLost, FinEffect, Fin
<1>5. CASE ~(StartBundle(f) \/ FinishBundle(f) \/ HeartbeatLost(f))
  <2>1. End(f) \/ \E pc \in Labels : Goto(f, pc)
    BY <1>5 DEF Acts, Step, Crash, BundleRaises, CheckHealth, CheckFence, Look, Converge,
       Quarantine, QuarantineFails, Rename, RenameFails, PublishFault, PublishRaises,
       SettleHealth, Commit, CommitUnanswered, Details, Index, Cleanup, FollowUpLost, Labels
  <2>2. Ends(f) \/ \E pc \in Labels : Moves(f, pc)
    BY <1>0, <2>1, EndEnds, GotoMoves
  <2>. QED  BY <1>1, <2>2 DEF FinEffect, Ends, Moves
<1>. QED  BY <1>2, <1>3, <1>4, <1>5

(* The effect on the row, action by action.                                 *)
LEMMA RowStep ==
    ASSUME TypeOK, NEW f \in Finalizers, Acts(f)
    PROVE  RowEffect(f)
<1>0. row \in Row /\ fin[f] \in Fin
  BY TypeParts
<1>1. CASE RetryIfHeld(f)
  BY <1>0, <1>1, RetryRow DEF RowEffect
<1>2. CASE FailIfHeld(f)
  BY <1>0, <1>2, FailRow DEF RowEffect
<1>3. CASE UNCHANGED row
  BY <1>0, <1>3 DEF RowEffect
<1>4. CASE /\ Held(f) /\ At(f, "commit")
           /\ row' = [row EXCEPT !.phase = EvidenceState(fin[f].kind),
                                 !.clip = @ \/ HasClip(fin[f].kind)]
  BY <1>0, <1>4, CommitRow DEF RowEffect, Fin, At
<1>. QED
  BY <1>1, <1>2, <1>3, <1>4 DEF Acts, Step, HeartbeatLost, Crash, StartBundle, FinishBundle,
     BundleRaises, CheckHealth, CheckFence, Look, Converge, Quarantine, QuarantineFails, Rename,
     RenameFails, PublishFault, PublishRaises, SettleHealth, Commit, CommitUnanswered, Details,
     Index, Cleanup, FollowUpLost

(* The effect on the attempt directories, action by action.                 *)
LEMMA AttemptStep ==
    ASSUME TypeOK, NEW f \in Finalizers, Acts(f)
    PROVE  AttemptEffect(f)
<1>0. /\ incoming \in Dirs /\ littered \subseteq 1..MaxGeneration
      /\ fin \in [Finalizers -> Fin]
  BY TypeSplit DEF CoreOK
<1>1. fin[f].pc # "idle"
  BY FinStep DEF FinEffect
<1>2. fin[f].gen \in 1..MaxGeneration
  BY <1>1, GenInRange
<1>3. CASE Vacated(f)
  <2>1. UNCHANGED littered
    BY <1>3 DEF Vacated
  <2>. QED  BY <1>0, <1>2, <1>3, <2>1, VacatedOne DEF AttemptEffect, Dirs
<1>4. CASE StartBundle(f) \/ FinishBundle(f)
  <2>1. /\ fin'[f].pc \in Building /\ UNCHANGED littered
        /\ \E d \in {"none", "partial", "whole"} : incoming' = [incoming EXCEPT ![fin[f].gen] = d]
    BY <1>0, <1>4 DEF StartBundle, FinishBundle, Building, At, History, Fin
  <2>. QED  BY <1>0, <1>2, <2>1 DEF AttemptEffect, Dirs
<1>5. CASE Left(f)
  BY <1>0, <1>2, <1>5 DEF Left, AttemptEffect
<1>6. CASE /\ UNCHANGED <<incoming, littered>>
           /\ fin'[f].pc \in Building \/ fin[f].pc \notin Building
  BY <1>0, <1>2, <1>6 DEF AttemptEffect
<1>7. ASSUME NEW pc, Goto(f, pc)
      PROVE  fin'[f].pc = pc
  BY <1>0, <1>7 DEF Goto, Fin
<1>8. CASE HeartbeatLost(f)
  <2>1. UNCHANGED <<incoming, littered>> /\ fin'[f].pc = fin[f].pc
    BY <1>0, <1>8 DEF HeartbeatLost, Files, History, Fin
  <2>. QED  BY <1>0, <1>2, <2>1 DEF AttemptEffect
<1>9. CASE CheckHealth(f) \/ CheckFence(f) \/ Look(f) \/ Quarantine(f)
  <2>1. \/ Vacated(f) \/ Left(f)
        \/ UNCHANGED <<incoming, littered>> /\ \E pc \in Building : Goto(f, pc)
    BY <1>9 DEF CheckHealth, CheckFence, Look, Quarantine, Discard, Files, History, Building
  <2>. QED  BY <1>3, <1>5, <1>6, <1>7, <2>1
<1>10. CASE Converge(f) \/ Rename(f) \/ BundleRaises(f)
  BY <1>3, <1>5, <1>10 DEF Converge, Rename, BundleRaises, Discard
<1>11. CASE QuarantineFails(f) \/ RenameFails(f) \/ PublishFault(f) \/ Crash(f)
  BY <1>5, <1>11 DEF QuarantineFails, RenameFails, PublishFault, PublishRaises, Crash
<1>12. CASE \/ SettleHealth(f) \/ Commit(f) \/ CommitUnanswered(f)
            \/ Details(f) \/ Index(f) \/ Cleanup(f) \/ FollowUpLost(f)
  <2>1. fin[f].pc \notin Building
    BY <1>12 DEF SettleHealth, Commit, CommitUnanswered, Details, Index, Cleanup, FollowUpLost,
       At, Building
  <2>2. UNCHANGED <<incoming, littered>>
    BY <1>12 DEF SettleHealth, Commit, CommitUnanswered, Details, Index, Cleanup, FollowUpLost,
       Files, History
  <2>. QED  BY <1>6, <2>1, <2>2
<1>. QED
  BY <1>4, <1>8, <1>9, <1>10, <1>11, <1>12 DEF Acts, Step

(* What a claim does: a fresh generation for a finalizer that was idle.     *)
LEMMA ClaimStep ==
    ASSUME TypeOK, NEW f \in Finalizers, Claim(f)
    PROVE  /\ fin' \in [Finalizers -> Fin] /\ fin[f].pc = "idle"
           /\ fin'[f].pc = "build" /\ fin'[f].gen = row'.gen
           /\ \A g \in Finalizers \ {f} : fin'[g] = fin[g]
           /\ row' \in Row /\ row'.gen = row.gen + 1 /\ row'.gen \in 1..MaxGeneration
           /\ row.phase = "released" /\ row'.phase = "finalizing"
           /\ incoming' \in Dirs /\ incoming'[row'.gen] = "none"
           /\ \A g \in 1..MaxGeneration \ {row'.gen} : incoming'[g] = incoming[g]
<1>0. fin \in [Finalizers -> Fin] /\ row \in Row /\ incoming \in Dirs
  BY TypeSplit DEF CoreOK
<1>1. /\ row' \in Row /\ row'.gen = row.gen + 1 /\ row'.gen \in 1..MaxGeneration
      /\ row.phase = "released" /\ row'.phase = "finalizing"
  <2>1. row.gen + 1 \in 0..MaxGeneration /\ row.gen + 1 \in 1..MaxGeneration
    BY <1>0, ConstantsAssumption DEF Claim, Row
  <2>2. row' = [row EXCEPT !.phase = "finalizing", !.gen = row.gen + 1] /\ row.phase = "released"
    BY DEF Claim
  <2>. QED  BY <1>0, <2>1, <2>2 DEF Row, Phases
<1>2. fin' \in [Finalizers -> Fin] /\ fin'[f].pc = "build" /\ fin'[f].gen = row'.gen
  <2>. DEFINE r == [Idle EXCEPT !.pc = "build", !.gen = row.gen + 1]
  <2>1. row.gen + 1 \in 0..MaxGeneration
    BY <1>0, ConstantsAssumption DEF Claim, Row
  <2>2. r \in Fin /\ r.pc = "build" /\ r.gen = row.gen + 1
    BY <2>1 DEF Idle, Fin, Labels, Kinds
  <2>3. fin' = [fin EXCEPT ![f] = r]
    BY DEF Claim
  <2>. QED  BY <1>0, <1>1, <2>2, <2>3
<1>3. fin[f].pc = "idle" /\ \A g \in Finalizers \ {f} : fin'[g] = fin[g]
  BY <1>0 DEF Claim, At
<1>4. /\ incoming' \in Dirs /\ incoming'[row'.gen] = "none"
      /\ \A g \in 1..MaxGeneration \ {row'.gen} : incoming'[g] = incoming[g]
  BY <1>0, <1>1 DEF Claim, Dirs
<1>. QED  BY <1>1, <1>2, <1>3, <1>4

(* The recovery pass releases a claimed row and does nothing else.          *)
LEMMA RecoverStep ==
    ASSUME row \in Row, Recover
    PROVE  /\ row' \in Row /\ row'.gen = row.gen /\ row'.clip = row.clip
           /\ row.phase = "finalizing" /\ row'.phase = "released"
BY DEF Recover, Row, Phases

(* A step keeps the types of the finalizers, the row and the attempts.      *)
LEMMA CoreStep ==
    ASSUME TypeOK, Next
    PROVE  CoreOK'
<1>0. CoreOK
  BY TypeSplit
<1>1. CASE Recover
  BY <1>0, <1>1, RecoverStep DEF CoreOK, Numbered, Recover, Files, History
<1>2. CASE RecoverCleanup
  BY <1>0, <1>2 DEF RecoverCleanup, CoreOK, Numbered, History
<1>3. ASSUME NEW f \in Finalizers, Claim(f)
      PROVE  CoreOK'
  <2>1. UNCHANGED littered
    BY <1>3 DEF Claim, History
  <2>2. Numbered'
    <3>1. row.gen \in Nat /\ row'.gen = row.gen + 1
      BY <1>0, <1>3, ClaimStep, ConstantsAssumption DEF CoreOK, Row
    <3>2. \A g \in Finalizers \ {f} : fin'[g] = fin[g]
      BY <1>3, ClaimStep
    <3>3. fin'[f].gen = row'.gen
      BY <1>3, ClaimStep
    <3>. QED  BY <1>0, <3>1, <3>2, <3>3 DEF CoreOK, Numbered
  <2>. QED  BY <1>0, <1>3, <2>1, <2>2, ClaimStep DEF CoreOK
<1>4. ASSUME NEW f \in Finalizers, Acts(f)
      PROVE  CoreOK'
  <2>1. FinEffect(f) /\ RowEffect(f) /\ AttemptEffect(f)
    BY <1>4, FinStep, RowStep, AttemptStep
  <2>2. Numbered'
    BY <1>0, <2>1 DEF CoreOK, Numbered, FinEffect, RowEffect
  <2>. QED  BY <2>1, <2>2 DEF CoreOK, FinEffect, RowEffect, AttemptEffect
<1>. QED  BY <1>1, <1>2, <1>3, <1>4 DEF Next, Acts

(* Every variable keeps its type, whatever the number of finalizers, of     *)
(* claims and of faults.                                                    *)
THEOREM TypeCorrect == Spec => []TypeOK
<1>1. Init => TypeOK
  <2>. SUFFICES ASSUME Init
                PROVE  CoreOK /\ RestOK
    BY TypeSplit
  <2>1. Idle \in Fin /\ Idle.pc = "idle"
    BY ConstantsAssumption DEF Idle, Fin, Labels, Kinds
  <2>2. row \in Row
    BY ConstantsAssumption DEF Init, Row, Phases
  <2>3. fin \in [Finalizers -> Fin] /\ Numbered /\ incoming \in Dirs /\ littered = {}
    BY <2>1 DEF Init, Numbered, Dirs
  <2>4. RestOK
    <3>1. canonical \in Bundles /\ quarantine \subseteq Bundles
      BY BundleTypes DEF Init
    <3>2. faults \in 0..MaxFaults
      BY ConstantsAssumption DEF Init
    <3>. QED  BY <3>1, <3>2 DEF Init, RestOK
  <2>. QED  BY <2>2, <2>3, <2>4 DEF CoreOK
<1>2. TypeOK /\ [Next]_vars => TypeOK'
  <2>1. CASE TypeOK /\ Next
    BY <2>1, CoreStep, RestStep, TypeSplit DEF TypeOK, CoreOK, RestOK, Fin, Row, Numbered, Dirs,
       Bundles
  <2>2. CASE TypeOK /\ UNCHANGED vars
    BY <2>2 DEF vars, TypeOK, Bundles
  <2>. QED  BY <2>1, <2>2
<1>. QED  BY <1>1, <1>2, PTL DEF Spec

-----------------------------------------------------------------------------
(* The inductive invariant                                                  *)

Placed == {"converge", "settle", "commit"}

Following == {"details", "index", "cleanup"}

ClipSomewhere == canonical.clip \/ \E b \in quarantine : b.clip

(* No two finalizers at work have one generation.                           *)
OneEach ==
    \A f, g \in Finalizers :
        f # g /\ fin[f].pc # "idle" /\ fin[g].pc # "idle" => fin[f].gen # fin[g].gen

(* A finalizer that is past the publish step with a clip finds a clip in    *)
(* the event's place while it holds the fence, unless one was displaced.    *)
ClipPlaced ==
    \A f \in Finalizers : fin[f].pc \in Placed /\ HasClip(fin[f].kind) =>
        /\ ClipSomewhere
        /\ Held(f) /\ ~displaced => canonical.clip

(* A finalizer after its commit works for the outcome in the row.           *)
OutcomeFollowed ==
    \A f \in Finalizers : fin[f].pc \in Following => row.phase = EvidenceState(fin[f].kind)

(* A removal is retried only for a materialized event.                      *)
RetryAfterOutcome == audit = "cleanup_pending" => Committed

IInv ==
    /\ TypeOK
    /\ OneEach
    /\ ClipPlaced
    /\ OutcomeFollowed
    /\ CommittedClipOnDisk
    /\ RetryAfterOutcome
    /\ InputUntilOutcome
    /\ AttemptAccounted

(* What a step of finalizer f does to the published directories: nothing,   *)
(* a quarantine, a rename into an empty place, or the index step, which     *)
(* leaves the clip where it is.                                             *)
FilesEffect(f) ==
    \/ UNCHANGED <<canonical, quarantine, displaced>>
    \/ /\ fin[f].pc = "quarantine"
       /\ fin'[f].pc = "rename" /\ row' = row
       /\ canonical # None /\ canonical' = None
       /\ quarantine' = quarantine \cup {Quarantined(canonical)}
       /\ displaced' = (displaced \/ ~Held(f))
    \/ /\ canonical = None /\ row' = row
       /\ fin[f].pc = "rename" /\ fin'[f].kind = fin[f].kind
       /\ canonical'.clip = HasClip(fin[f].kind)
       /\ UNCHANGED <<quarantine, displaced>>
    \/ /\ fin[f].pc = "index" /\ fin'[f].pc \notin Placed /\ row' = row
       /\ canonical'.clip = canonical.clip
       /\ canonical # None => canonical'.gen = canonical.gen
       /\ UNCHANGED <<quarantine, displaced>>

(* How f comes past the publish step.                                       *)
PlacedEffect(f) ==
    fin'[f].pc \in Placed =>
        \/ /\ fin[f].pc \in Placed /\ fin'[f].kind = fin[f].kind
           /\ UNCHANGED <<row, canonical, quarantine, displaced>>
        \/ /\ fin[f].pc = "look" /\ CanonicalIsComplete(f) /\ fin'[f].kind = fin[f].kind
           /\ UNCHANGED <<row, canonical, quarantine, displaced>>
        \/ /\ fin[f].pc = "rename" /\ fin'[f].kind = fin[f].kind
           /\ canonical'.clip = HasClip(fin[f].kind)

(* How f comes past its commit.                                             *)
FollowingEffect(f) ==
    fin'[f].pc \in Following =>
        /\ fin'[f].kind = fin[f].kind
        /\ \/ fin[f].pc \in Following /\ row' = row
           \/ row'.phase = EvidenceState(fin[f].kind)

(* When the input is removed, and its removal recorded as to be retried.    *)
InputEffect(f) ==
    /\ ~sink' => ~sink \/ (fin[f].pc = "cleanup" /\ fin[f].kind = "ready" /\ row' = row)
    /\ audit' = "cleanup_pending" =>
          \/ audit = "cleanup_pending"
          \/ fin[f].pc = "cleanup" /\ fin[f].kind = "ready" /\ row' = row

(* The effect on the published directories, action by action.               *)
LEMMA FilesStep ==
    ASSUME TypeOK, NEW f \in Finalizers, Acts(f)
    PROVE  FilesEffect(f)
<1>0. fin \in [Finalizers -> Fin] /\ canonical \in Bundles
  BY TypeSplit DEF CoreOK, RestOK
<1>1. ASSUME NEW pc \in Labels, Goto(f, pc)
      PROVE  Moves(f, pc)
  BY <1>0, <1>1, GotoMoves
<1>2. CASE Quarantine(f)
  <2>1. fin'[f].pc = "rename"
    BY <1>1, <1>2 DEF Quarantine, Labels, Moves
  <2>. QED  BY <1>2, <2>1 DEF Quarantine, FilesEffect, At
<1>3. CASE Rename(f)
  <2>1. fin'[f].kind = fin[f].kind
    BY <1>1, <1>3 DEF Rename, Labels, Moves
  <2>. QED  BY <1>3, <2>1 DEF Rename, Bundle, FilesEffect, At
<1>4. CASE Index(f) \/ (FollowUpLost(f) /\ At(f, "index"))
  <2>1. fin'[f].pc \notin Placed
    <3>1. CASE Index(f)
      BY <1>1, <3>1 DEF Index, Labels, Moves, Placed
    <3>2. CASE FollowUpLost(f)
      BY <1>0, <3>2, EndEnds DEF FollowUpLost, Ends, Placed
    <3>. QED  BY <1>4, <3>1, <3>2
  <2>2. \E directory \in {canonical} \cup Pruned :
           canonical' \in {directory} \cup Retained(f, directory)
    BY <1>4 DEF Index, FollowUpLost, PrunedIfReady
  <2>3. /\ canonical'.clip = canonical.clip
        /\ canonical # None => canonical'.gen = canonical.gen
    BY <1>0, <2>2, IndexedBundle
  <2>4. fin[f].pc = "index" /\ row' = row /\ UNCHANGED <<quarantine, displaced>>
    BY <1>4 DEF Index, FollowUpLost, At, History
  <2>. QED  BY <2>1, <2>3, <2>4 DEF FilesEffect
<1>5. CASE ~(Quarantine(f) \/ Rename(f) \/ Index(f) \/ (FollowUpLost(f) /\ At(f, "index")))
  BY <1>5 DEF Acts, Step, HeartbeatLost, Crash, StartBundle, FinishBundle, BundleRaises,
     CheckHealth, CheckFence, Look, Converge, QuarantineFails, RenameFails, PublishFault,
     PublishRaises, SettleHealth, Commit, CommitUnanswered, Details, Cleanup, FollowUpLost,
     Files, History, FilesEffect
<1>. QED  BY <1>2, <1>3, <1>4, <1>5

(* How a finalizer comes past the publish step and past its commit.         *)
LEMMA PlacedStep ==
    ASSUME TypeOK, NEW f \in Finalizers, Acts(f)
    PROVE  PlacedEffect(f) /\ FollowingEffect(f)
<1>0. fin \in [Finalizers -> Fin]
  BY TypeParts
<1>1. ASSUME NEW pc \in Labels, Goto(f, pc)
      PROVE  fin'[f].pc = pc /\ fin'[f].kind = fin[f].kind
  BY <1>0, <1>1, GotoMoves DEF Moves
<1>2. ASSUME End(f)
      PROVE  fin'[f].pc = "idle"
  BY <1>0, <1>2, EndEnds DEF Ends
<1>3. CASE fin'[f].pc \notin Placed \cup Following
  BY <1>3 DEF PlacedEffect, FollowingEffect
<1>4. CASE End(f)
  BY <1>2, <1>3, <1>4 DEF Placed, Following
<1>5. CASE StartBundle(f)
  <2>1. fin'[f].pc = "build"
    BY <1>5 DEF StartBundle, At
  <2>. QED  BY <1>3, <2>1 DEF Placed, Following
<1>6. CASE FinishBundle(f)
  <2>1. fin'[f].pc = "check"
    BY <1>0, <1>6 DEF FinishBundle, Fin
  <2>. QED  BY <1>3, <2>1 DEF Placed, Following
<1>7. CASE HeartbeatLost(f)
  <2>1. fin'[f].pc = fin[f].pc /\ fin'[f].kind = fin[f].kind
    BY <1>0, <1>7 DEF HeartbeatLost, Fin
  <2>2. UNCHANGED <<row, canonical, quarantine, displaced>> /\ fin[f].pc \notin Following
    BY <1>7 DEF HeartbeatLost, Files, History, Building, Following
  <2>. QED  BY <2>1, <2>2 DEF PlacedEffect, FollowingEffect
<1>8. CASE Look(f)
  <2>1. PICK pc \in {"rename", "converge", "quarantine"} :
            Goto(f, pc) /\ (pc = "converge" => CanonicalIsComplete(f))
    BY <1>8 DEF Look
  <2>2. fin'[f].pc = pc /\ fin'[f].kind = fin[f].kind
    BY <1>1, <2>1 DEF Labels
  <2>3. UNCHANGED <<row, canonical, quarantine, displaced>> /\ fin[f].pc = "look"
    BY <1>8 DEF Look, Files, History, At
  <2>. QED  BY <2>1, <2>2, <2>3 DEF PlacedEffect, FollowingEffect, Placed, Following
<1>9. CASE (Converge(f) \/ SettleHealth(f)) /\ ~End(f)
  <2>1. fin'[f].pc \in Placed /\ fin'[f].kind = fin[f].kind
    BY <1>1, <1>9 DEF Converge, SettleHealth, Labels, Placed
  <2>2. UNCHANGED <<row, canonical, quarantine, displaced>> /\ fin[f].pc \in Placed
    BY <1>9 DEF Converge, SettleHealth, Files, History, At, Placed
  <2>. QED  BY <2>1, <2>2 DEF PlacedEffect, FollowingEffect, Placed, Following
<1>10. CASE Rename(f)
  <2>1. fin[f].pc = "rename" /\ fin'[f].pc = "settle" /\ fin'[f].kind = fin[f].kind
    BY <1>1, <1>10 DEF Rename, Labels, At
  <2>2. canonical'.clip = HasClip(fin[f].kind)
    BY <1>10 DEF Rename, Bundle
  <2>. QED  BY <2>1, <2>2 DEF PlacedEffect, FollowingEffect, Placed, Following
<1>11. CASE (CheckHealth(f) \/ CheckFence(f) \/ Quarantine(f)) /\ ~End(f)
  <2>1. fin'[f].pc \in {"fence", "look", "rename"}
    BY <1>1, <1>11 DEF CheckHealth, CheckFence, Quarantine, Labels
  <2>. QED  BY <1>3, <2>1 DEF Placed, Following
<1>12. CASE Commit(f) /\ ~End(f)
  <2>1. fin'[f].pc = "details" /\ fin'[f].kind = fin[f].kind
    BY <1>1, <1>12 DEF Commit, Labels
  <2>2. row'.phase = EvidenceState(fin[f].kind)
    <3>1. row \in Row /\ fin[f].kind \in Kinds
      BY TypeParts DEF Fin
    <3>. QED  BY <1>12, <3>1, CommitRow DEF Commit
  <2>. QED  BY <2>1, <2>2 DEF PlacedEffect, FollowingEffect, Placed, Following
<1>13. CASE Details(f) \/ Index(f)
  <2>1. fin'[f].pc \in Following /\ fin'[f].kind = fin[f].kind
    BY <1>1, <1>13 DEF Details, Index, Labels, Following
  <2>2. row' = row /\ fin[f].pc \in Following
    BY <1>13 DEF Details, Index, At, Following
  <2>. QED  BY <2>1, <2>2 DEF PlacedEffect, FollowingEffect, Placed, Following
<1>. QED
  BY <1>4, <1>5, <1>6, <1>7, <1>8, <1>9, <1>10, <1>11, <1>12, <1>13 DEF Acts, Step, Crash,
     BundleRaises, QuarantineFails, RenameFails, PublishFault, PublishRaises, CommitUnanswered,
     Cleanup, FollowUpLost

(* When the input may go.                                                   *)
LEMMA InputStep ==
    ASSUME TypeOK, NEW f \in Finalizers, Acts(f)
    PROVE  InputEffect(f)
<1>1. CASE Cleanup(f)
  BY <1>1 DEF Cleanup, InputEffect, At
<1>2. CASE FollowUpLost(f)
  <2>1. sink' = sink \/ (At(f, "cleanup") /\ fin[f].kind = "ready")
    BY <1>2 DEF FollowUpLost
  <2>. QED  BY <1>2, <2>1 DEF FollowUpLost, InputEffect, At, After
<1>3. CASE ~(Cleanup(f) \/ FollowUpLost(f))
  <2>1. UNCHANGED <<sink, audit>>
    BY <1>3 DEF Acts, Step, HeartbeatLost, Crash, StartBundle, FinishBundle, BundleRaises,
       CheckHealth, CheckFence, Look, Converge, Quarantine, QuarantineFails, Rename, RenameFails,
       PublishFault, PublishRaises, SettleHealth, Commit, CommitUnanswered, Details, Index,
       Files, After
  <2>. QED  BY <2>1 DEF InputEffect
<1>. QED  BY <1>1, <1>2, <1>3

(* Outcomes are terminal, and a materialized bundle has a clip.             *)
LEMMA OutcomeFacts ==
    /\ \A k : EvidenceState(k) \in {"materialized", "failed"}
    /\ \A k : EvidenceState(k) = "materialized" => HasClip(k)
    /\ EvidenceState("ready") = "materialized"
BY DEF EvidenceState, HasClip

(* The fence of a finalizer is not regained, and an outcome stays.          *)
LEMMA RowStays ==
    ASSUME NEW f \in Finalizers, RowEffect(f)
    PROVE  /\ row.phase # "finalizing" => row' = row
           /\ row' = row \/ (Held(f) /\ row'.phase # "finalizing")
BY OutcomeFacts DEF RowEffect, Held

(* The clip of a finalizer past the publish step stays where it is needed.  *)
LEMMA ClipPlacedKept ==
    ASSUME IInv, NEW f \in Finalizers, Acts(f)
    PROVE  ClipPlaced'
<1>. SUFFICES ASSUME NEW g \in Finalizers, fin'[g].pc \in Placed, HasClip(fin'[g].kind)
              PROVE  ClipSomewhere' /\ (Held(g)' /\ ~displaced' => canonical'.clip)
  BY DEF ClipPlaced
<1>0. /\ FinEffect(f) /\ RowEffect(f) /\ FilesEffect(f) /\ PlacedEffect(f)
      /\ canonical \in Bundles
  BY FinStep, RowStep, FilesStep, PlacedStep, TypeSplit DEF IInv, RestOK
<1>1. CASE g = f
  <2>1. CASE fin[f].pc = "rename"
    <3>1. canonical'.clip = HasClip(fin[f].kind) /\ fin'[f].kind = fin[f].kind
      BY <1>0, <1>1, <2>1 DEF PlacedEffect, Placed
    <3>. QED  BY <1>1, <3>1 DEF ClipSomewhere
  <2>2. CASE fin[f].pc = "look" /\ CanonicalIsComplete(f)
    BY <1>0, <1>1, <2>2 DEF PlacedEffect, CanonicalIsComplete, ClipSomewhere, Placed
  <2>3. CASE /\ fin[f].pc \in Placed /\ fin'[f].kind = fin[f].kind
             /\ UNCHANGED <<row, canonical, quarantine, displaced>>
    <3>1. ClipSomewhere /\ (Held(f) /\ ~displaced => canonical.clip)
      BY <1>1, <2>3 DEF IInv, ClipPlaced
    <3>2. Held(f)' => Held(f)
      BY <1>0, <1>1, <2>3 DEF Held, FinEffect, Placed
    <3>. QED  BY <1>1, <2>3, <3>1, <3>2 DEF ClipSomewhere
  <2>. QED  BY <1>0, <1>1, <2>1, <2>2, <2>3 DEF PlacedEffect
<1>2. CASE g # f
  <2>1. fin'[g] = fin[g]
    BY <1>0, <1>2 DEF FinEffect
  <2>2. ClipSomewhere /\ (Held(g) /\ ~displaced => canonical.clip)
    BY <2>1 DEF IInv, ClipPlaced
  <2>3. Held(g)' => Held(g)
    BY <1>0, <2>1, RowStays DEF Held
  <2>4. CASE UNCHANGED <<canonical, quarantine, displaced>>
    BY <2>2, <2>3, <2>4 DEF ClipSomewhere
  <2>5. CASE /\ quarantine' = quarantine \cup {Quarantined(canonical)}
             /\ displaced' = (displaced \/ ~Held(f))
    <3>1. fin[f].gen # fin[g].gen
      BY <1>0, <1>2, <2>1 DEF IInv, OneEach, FinEffect, Placed
    <3>2. ~(Held(f) /\ Held(g))
      BY <3>1 DEF Held
    <3>3. ClipSomewhere'
      BY <1>0, <2>2, <2>5, QuarantinedBundle DEF ClipSomewhere
    <3>. QED  BY <2>2, <2>3, <2>5, <3>2, <3>3
  <2>6. CASE canonical = None /\ UNCHANGED <<quarantine, displaced>>
    BY <2>2, <2>3, <2>6 DEF ClipSomewhere, None
  <2>7. CASE canonical'.clip = canonical.clip /\ UNCHANGED <<quarantine, displaced>>
    BY <2>2, <2>3, <2>7 DEF ClipSomewhere
  <2>. QED  BY <1>0, <2>4, <2>5, <2>6, <2>7 DEF FilesEffect
<1>. QED  BY <1>1, <1>2

(* The clip of a materialized event stays on disk, and is on disk when the  *)
(* event is materialized.                                                   *)
LEMMA CommittedClipKept ==
    ASSUME IInv, NEW f \in Finalizers, Acts(f)
    PROVE  CommittedClipOnDisk'
<1>. SUFFICES ASSUME Committed'
              PROVE  /\ row'.clip
                     /\ ~displaced' => canonical'.clip
                     /\ ClipSomewhere'
  BY DEF CommittedClipOnDisk, ClipSomewhere
<1>0. /\ FinEffect(f) /\ RowEffect(f) /\ FilesEffect(f)
      /\ Quarantined(canonical).clip = canonical.clip
  BY FinStep, RowStep, FilesStep, TypeSplit, QuarantinedBundle DEF IInv, RestOK
<1>1. CASE row' = row
  <2>1. row.clip /\ (~displaced => canonical.clip) /\ ClipSomewhere
    BY <1>1 DEF IInv, CommittedClipOnDisk, Committed, ClipSomewhere
  <2>2. ~Held(f)
    BY <1>1 DEF Committed, Held
  <2>3. CASE UNCHANGED <<canonical, quarantine, displaced>>
    BY <1>1, <2>1, <2>3 DEF ClipSomewhere
  <2>4. CASE /\ quarantine' = quarantine \cup {Quarantined(canonical)}
             /\ displaced' = (displaced \/ ~Held(f))
    BY <1>0, <1>1, <2>1, <2>2, <2>4 DEF ClipSomewhere
  <2>5. CASE canonical = None /\ UNCHANGED <<quarantine, displaced>>
    BY <1>1, <2>1, <2>5 DEF ClipSomewhere, None
  <2>6. CASE canonical'.clip = canonical.clip /\ UNCHANGED <<quarantine, displaced>>
    BY <1>1, <2>1, <2>6 DEF ClipSomewhere
  <2>. QED  BY <1>0, <2>3, <2>4, <2>5, <2>6 DEF FilesEffect
<1>2. CASE row' # row
  <2>1. /\ Held(f) /\ fin[f].pc = "commit"
        /\ EvidenceState(fin[f].kind) = "materialized"
        /\ row'.clip = (row.clip \/ HasClip(fin[f].kind))
    BY <1>0, <1>2 DEF RowEffect, Committed
  <2>2. HasClip(fin[f].kind)
    BY <2>1, OutcomeFacts
  <2>3. ClipSomewhere /\ (~displaced => canonical.clip)
    BY <2>1, <2>2 DEF IInv, ClipPlaced, Placed
  <2>4. UNCHANGED <<canonical, quarantine, displaced>>
    BY <1>0, <1>2, <2>1 DEF FilesEffect
  <2>. QED  BY <2>1, <2>2, <2>3, <2>4 DEF ClipSomewhere
<1>. QED  BY <1>1, <1>2

(* A step of a finalizer at work keeps the invariant.                       *)
LEMMA ActsKeep ==
    ASSUME IInv, NEW f \in Finalizers, Acts(f)
    PROVE  /\ OneEach' /\ OutcomeFollowed' /\ RetryAfterOutcome' /\ InputUntilOutcome'
           /\ AttemptAccounted'
<1>0. /\ FinEffect(f) /\ RowEffect(f) /\ AttemptEffect(f) /\ FollowingEffect(f)
      /\ InputEffect(f)
  BY FinStep, RowStep, AttemptStep, PlacedStep, InputStep DEF IInv
<1>1. row.phase # "finalizing" => row' = row
  BY <1>0, RowStays
<1>2. OneEach'
  BY <1>0 DEF IInv, OneEach, FinEffect
<1>3. OutcomeFollowed'
  <2>. SUFFICES ASSUME NEW g \in Finalizers, fin'[g].pc \in Following
                PROVE  row'.phase = EvidenceState(fin'[g].kind)
    BY DEF OutcomeFollowed
  <2>1. CASE g = f
    BY <1>0, <2>1 DEF FollowingEffect, IInv, OutcomeFollowed
  <2>2. CASE g # f
    <3>1. fin'[g] = fin[g] /\ row.phase = EvidenceState(fin[g].kind)
      BY <1>0, <2>2 DEF FinEffect, IInv, OutcomeFollowed
    <3>2. row' = row
      BY <1>1, <3>1, OutcomeFacts
    <3>. QED  BY <3>1, <3>2
  <2>. QED  BY <2>1, <2>2
<1>4. fin[f].pc = "cleanup" /\ fin[f].kind = "ready" => Committed
  BY OutcomeFacts DEF IInv, OutcomeFollowed, Following, Committed
<1>5. Committed => Committed'
  BY <1>1 DEF Committed
<1>6. RetryAfterOutcome' /\ InputUntilOutcome'
  BY <1>0, <1>4, <1>5 DEF IInv, RetryAfterOutcome, InputUntilOutcome, InputEffect
<1>7. AttemptAccounted'
  <2>. SUFFICES ASSUME NEW n \in 1..MaxGeneration, incoming'[n] # "none", n \notin littered'
                PROVE  \E g \in Finalizers : fin'[g].gen = n /\ fin'[g].pc \in Building
    BY DEF AttemptAccounted
  <2>1. ASSUME incoming[n] # "none"
        PROVE  \E g \in Finalizers : fin[g].gen = n /\ fin[g].pc \in Building
    BY <1>0, <2>1 DEF IInv, AttemptAccounted, AttemptEffect
  <2>2. ASSUME NEW g \in Finalizers \ {f}, fin[g].gen = n, fin[g].pc \in Building
        PROVE  fin'[g].gen = n /\ fin'[g].pc \in Building
    BY <1>0, <2>2 DEF FinEffect
  <2>3. CASE n # fin[f].gen
    <3>1. incoming[n] # "none"
      BY <1>0, <2>3 DEF AttemptEffect
    <3>. QED  BY <2>1, <2>2, <2>3, <3>1
  <2>4. CASE n = fin[f].gen /\ fin'[f].pc \in Building
    BY <1>0, <2>4 DEF FinEffect, Building
  <2>5. CASE n = fin[f].gen /\ fin[f].pc \notin Building /\ incoming[fin[f].gen] # "none"
    BY <2>1, <2>2, <2>5
  <2>. QED  BY <1>0, <2>3, <2>4, <2>5 DEF AttemptEffect
<1>. QED  BY <1>2, <1>3, <1>6, <1>7

(* The steps that are not of a finalizer at work keep the invariant.        *)
LEMMA OthersKeep ==
    ASSUME IInv, (\E f \in Finalizers : Claim(f)) \/ Recover \/ RecoverCleanup
    PROVE  /\ OneEach' /\ ClipPlaced' /\ OutcomeFollowed' /\ CommittedClipOnDisk'
           /\ RetryAfterOutcome' /\ InputUntilOutcome' /\ AttemptAccounted'
<1>0. TypeOK /\ row \in Row /\ Numbered /\ fin \in [Finalizers -> Fin]
  BY TypeParts DEF IInv
<1>1. CASE Recover
  <2>1. /\ row'.gen = row.gen /\ row'.clip = row.clip
        /\ row.phase = "finalizing" /\ row'.phase = "released"
    BY <1>0, <1>1, RecoverStep
  <2>2. UNCHANGED <<fin, incoming, canonical, quarantine, sink, audit, displaced, littered>>
    BY <1>1 DEF Recover, Files, After, History
  <2>3. OneEach' /\ AttemptAccounted'
    BY <2>2 DEF IInv, OneEach, AttemptAccounted
  <2>4. ClipPlaced' /\ CommittedClipOnDisk'
    BY <2>1, <2>2 DEF IInv, ClipPlaced, CommittedClipOnDisk, Committed, ClipSomewhere, Held
  <2>5. OutcomeFollowed' /\ RetryAfterOutcome' /\ InputUntilOutcome'
    BY <2>1, <2>2, OutcomeFacts DEF IInv, OutcomeFollowed, RetryAfterOutcome, InputUntilOutcome,
       Committed
  <2>. QED  BY <2>3, <2>4, <2>5
<1>2. CASE RecoverCleanup
  <2>1. audit = "cleanup_pending"
    BY <1>2 DEF RecoverCleanup
  <2>2. UNCHANGED <<row, fin, incoming, canonical, quarantine, displaced, littered>>
    BY <1>2 DEF RecoverCleanup, History
  <2>3. OneEach' /\ AttemptAccounted' /\ OutcomeFollowed'
    BY <2>2 DEF IInv, OneEach, AttemptAccounted, OutcomeFollowed
  <2>4. ClipPlaced' /\ CommittedClipOnDisk'
    BY <2>2 DEF IInv, ClipPlaced, CommittedClipOnDisk, Committed, ClipSomewhere, Held
  <2>5. RetryAfterOutcome' /\ InputUntilOutcome'
    BY <2>1, <2>2 DEF IInv, RetryAfterOutcome, InputUntilOutcome, Committed
  <2>. QED  BY <2>3, <2>4, <2>5
<1>3. ASSUME NEW f \in Finalizers, Claim(f)
      PROVE  /\ OneEach' /\ ClipPlaced' /\ OutcomeFollowed' /\ CommittedClipOnDisk'
             /\ RetryAfterOutcome' /\ InputUntilOutcome' /\ AttemptAccounted'
  <2>1. /\ fin[f].pc = "idle" /\ fin'[f].pc = "build" /\ fin'[f].gen = row'.gen
        /\ \A g \in Finalizers \ {f} : fin'[g] = fin[g]
        /\ row'.gen = row.gen + 1 /\ row.gen \in Nat
        /\ row.phase = "released" /\ row'.phase = "finalizing"
        /\ incoming'[row'.gen] = "none"
        /\ \A n \in 1..MaxGeneration \ {row'.gen} : incoming'[n] = incoming[n]
    BY <1>0, <1>3, ClaimStep, ConstantsAssumption DEF Row
  <2>2. UNCHANGED <<canonical, quarantine, sink, audit, displaced, littered>>
    BY <1>3 DEF Claim, After, History
  <2>3. \A g \in Finalizers \ {f} : fin[g].pc # "idle" => fin'[g].gen # row'.gen
    BY <1>0, <2>1 DEF Numbered
  <2>4. OneEach'
    BY <2>1, <2>3 DEF IInv, OneEach
  <2>5. ClipPlaced'
    BY <2>1, <2>2, <2>3 DEF IInv, ClipPlaced, ClipSomewhere, Held, Placed
  <2>6. OutcomeFollowed' /\ CommittedClipOnDisk'
    BY <2>1, OutcomeFacts DEF IInv, OutcomeFollowed, CommittedClipOnDisk, Committed, Following
  <2>7. RetryAfterOutcome' /\ InputUntilOutcome'
    BY <2>1, <2>2 DEF IInv, RetryAfterOutcome, InputUntilOutcome, Committed
  <2>8. AttemptAccounted'
    <3>. SUFFICES ASSUME NEW n \in 1..MaxGeneration, incoming'[n] # "none", n \notin littered'
                  PROVE  \E g \in Finalizers : fin'[g].gen = n /\ fin'[g].pc \in Building
      BY DEF AttemptAccounted
    <3>1. incoming[n] # "none" /\ n \notin littered
      BY <2>1, <2>2
    <3>2. PICK g \in Finalizers : fin[g].gen = n /\ fin[g].pc \in Building
      BY <3>1 DEF IInv, AttemptAccounted
    <3>3. g # f
      BY <2>1, <3>2 DEF Building
    <3>. QED  BY <2>1, <3>2, <3>3
  <2>. QED  BY <2>4, <2>5, <2>6, <2>7, <2>8
<1>. QED  BY <1>1, <1>2, <1>3

(* The invariant is inductive.                                              *)
LEMMA Invariance == Spec => []IInv
<1>1. Init => OneEach /\ ClipPlaced /\ OutcomeFollowed /\ CommittedClipOnDisk
              /\ RetryAfterOutcome /\ InputUntilOutcome /\ AttemptAccounted
  <2>. SUFFICES ASSUME Init
                PROVE  OneEach /\ ClipPlaced /\ OutcomeFollowed /\ CommittedClipOnDisk
                       /\ RetryAfterOutcome /\ InputUntilOutcome /\ AttemptAccounted
    OBVIOUS
  <2>1. \A f \in Finalizers : fin[f].pc = "idle"
    BY DEF Init, Idle
  <2>2. OneEach /\ ClipPlaced /\ OutcomeFollowed
    BY <2>1 DEF OneEach, ClipPlaced, OutcomeFollowed, Placed, Following
  <2>3. CommittedClipOnDisk /\ RetryAfterOutcome /\ InputUntilOutcome /\ AttemptAccounted
    BY DEF Init, CommittedClipOnDisk, RetryAfterOutcome, InputUntilOutcome, AttemptAccounted,
       Committed
  <2>. QED  BY <2>2, <2>3
<1>2. IInv /\ TypeOK' /\ [Next]_vars => IInv'
  <2>. SUFFICES ASSUME IInv, TypeOK', [Next]_vars
                PROVE  IInv'
    OBVIOUS
  <2>1. ASSUME NEW f \in Finalizers, Acts(f)
        PROVE  IInv'
    BY <2>1, ActsKeep, ClipPlacedKept, CommittedClipKept DEF IInv
  <2>2. CASE (\E f \in Finalizers : Claim(f)) \/ Recover \/ RecoverCleanup
    BY <2>2, OthersKeep DEF IInv
  <2>3. CASE UNCHANGED vars
    BY <2>3 DEF vars, IInv, OneEach, ClipPlaced, OutcomeFollowed, CommittedClipOnDisk,
       RetryAfterOutcome, InputUntilOutcome, AttemptAccounted, ClipSomewhere, Held, Committed
  <2>. QED  BY <2>1, <2>2, <2>3 DEF Next, Acts
<1>. QED  BY <1>1, <1>2, TypeCorrect, PTL DEF Spec, IInv

-----------------------------------------------------------------------------
(* The results                                                              *)

(* The clip of a materialized event is on disk, in its place unless a       *)
(* finalizer without the fence has moved the directory away.                *)
THEOREM CommittedClipOnDiskHolds == Spec => []CommittedClipOnDisk
<1>1. IInv => CommittedClipOnDisk
  BY DEF IInv
<1>. QED  BY <1>1, Invariance, PTL

(* The input of a bundle is there until the event is materialized.          *)
THEOREM InputUntilOutcomeHolds == Spec => []InputUntilOutcome
<1>1. IInv => InputUntilOutcome
  BY DEF IInv
<1>. QED  BY <1>1, Invariance, PTL

(* Only a fault leaves an attempt directory without an owner.               *)
THEOREM AttemptAccountedHolds == Spec => []AttemptAccounted
<1>1. IInv => AttemptAccounted
  BY DEF IInv
<1>. QED  BY <1>1, Invariance, PTL

(* No step overwrites a directory in an event's place.                      *)
THEOREM PublishedNotOverwrittenHolds == Spec => PublishedNotOverwritten
<1>1. TypeOK /\ [Next]_vars
        => (canonical # None /\ canonical'.gen # canonical.gen
              => Quarantined(canonical) \in quarantine')
  <2>. SUFFICES ASSUME TypeOK, [Next]_vars, canonical # None, canonical'.gen # canonical.gen
                PROVE  Quarantined(canonical) \in quarantine'
    OBVIOUS
  <2>1. CASE \E f \in Finalizers : Acts(f)
    BY <2>1, FilesStep DEF FilesEffect
  <2>2. CASE \/ \E f \in Finalizers : Claim(f)
             \/ Recover \/ RecoverCleanup \/ UNCHANGED vars
    BY <2>2 DEF Claim, Recover, RecoverCleanup, vars, Files
  <2>. QED  BY <2>1, <2>2 DEF Next, Acts
<1>. QED  BY <1>1, TypeCorrect, PTL DEF Spec, PublishedNotOverwritten
=============================================================================
