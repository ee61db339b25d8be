------------------------ MODULE WorkAdmission_proofs ------------------------
(***************************************************************************)
(* Proofs about WorkAdmission, for every number of attempts, cameras, lane *)
(* sizes and limits: nothing an attempt holds is orphaned, a stopped       *)
(* process holds nothing, and the limits bound the work itself.            *)
(*                                                                         *)
(* The agenda of the scheduler thread is unbounded data to the provers; of *)
(* it the proofs need only which stage may follow which (Shaped).  What an *)
(* attempt holds is a predicate of its record alone (Sound), and StageOK   *)
(* ties the tables to the stage the scheduler thread is in.                *)
(***************************************************************************)
EXTENDS WorkAdmission, FiniteSetTheorems, TLAPS

(* Stages an agenda ends with, and those that follow any other stage.       *)
Lasts == {"sleep", "stopCheck", "forceCheck", "close", "stopped", "died", "blocked"}
Plain == DOMAIN Drains \cup DOMAIN Admits \cup {"snapshot", "sleep", "forceCheck"}

(* y may stand behind x in an agenda.                                       *)
Follows(x, y) ==
    /\ x \notin Lasts
    /\ y \in (CASE x = "handoff" -> {"converge"} [] x = "forceStop" -> {"close"}
                [] x = "remuxAdmit" -> {"remuxRedrain"} [] OTHER -> Plain)

Shaped(a) ==
    /\ a \in Seq(Stages) /\ a # <<>>
    /\ a[Len(a)] \in Lasts
    /\ \A i \in 1..(Len(a) - 1) : Follows(a[i], a[i + 1])

(* What one attempt holds at each point of its life.                        *)
Sound(r) ==
    /\ r.ticket # "none" <=> r.run \in {"queued", "running"}
    /\ r.track = "none" =>
          /\ ~ r.slot /\ r.run \in {"none", "running"}
          /\ r.run = "running" => r.permit = "none" /\ (r.ticket = "finalizer" \/ r.beat # "healthy")
    /\ r.track = "transfer" => r.run = "none" /\ r.permit # "none" /\ ~ r.slot
    /\ r.track \in Lanes /\ r.run \in {"queued", "running"} =>
          r.ticket = r.track /\ r.permit = r.track /\ r.slot
    /\ r.track = "remux" => r.permit = "remux" /\ r.slot
    /\ r.track \in {"image", "finalizer"} /\ r.run \notin {"queued", "running"} =>
          r.permit = "none" /\ ~ r.slot /\ r.beat # "healthy"

(* An attempt in no table has been forgotten, or is run by a lane thread;   *)
(* or an exception has lost it, with its permit.                            *)
Kept(r) == r.track = "none" => r.permit = "none" /\ (r = Idle \/ r.run = "running")
Leaked(r) == r.track = "none" /\ r.run = "none" /\ r.permit # "none"

AllSound ==
    \A j \in Jobs :
        /\ Sound(job[j])
        /\ j \in lost => Leaked(job[j])
        /\ j \notin lost => Kept(job[j])

ForcedStages == {"forceStop", "close", "stopped"}

(* The stage the scheduler thread is in, and what its tables hold then.     *)
StageOK ==
    LET h == Head(agenda) IN
    /\ inside => h \in {"snapshot", "forceCheck", "blocked"}
    /\ rows > 0 => h \in DOMAIN Admits
    /\ h \in DOMAIN Drains => \A j \in todo : job[j].track = Drains[h]
    /\ h \in {"handoff", "converge"} => todo \subseteq Transfers
    /\ h = "converge" => Transfers \subseteq todo
    /\ h = "forceStop" => Tracked = todo
    /\ h \in {"close", "stopped"} => Tracked = {}
    /\ Transfers # {} => h \in RemuxDrains \cup {"handoff", "converge"}
    /\ h \notin ForcedStages => \A j \in Jobs : job[j].track = "none" => ~ Executing(j)

(* Attempts that hold a permit, an image permit or a slot, or still occupy  *)
(* the executor they held it for.                                           *)
Loaded == {j \in Jobs : job[j].permit # "none" \/ Executing(j)}
ImageLoaded == {j \in Jobs : job[j].permit = "image" \/ (Executing(j) /\ job[j].ticket = "image")}
SourceLoaded(s) == {j \in Jobs : (job[j].slot \/ Executing(j)) /\ job[j].source = s}

Bounded ==
    /\ Cardinality(Loaded) <= MaxActive
    /\ Cardinality(ImageLoaded) <= MaxActive - Reserve
    /\ \A s \in Sources : Cardinality(SourceLoaded(s)) <= SourceLimit

WorkInv == TypeOK /\ Shaped(agenda) /\ AllSound /\ StageOK /\ Bounded

-----------------------------------------------------------------------------
(* The stages of the agenda                                                 *)

(* The drain and the admission stages and their lanes.                      *)
LEMMA StageTables ==
    /\ DOMAIN Drains = {"finalizerDrain", "imageDrain", "remuxDrain", "remuxRedrain"}
    /\ DOMAIN Admits = {"finalizerAdmit", "remuxAdmit", "imageAdmit"}
    /\ Drains["finalizerDrain"] = "finalizer" /\ Drains["imageDrain"] = "image"
    /\ Drains["remuxDrain"] = "remux" /\ Drains["remuxRedrain"] = "remux"
    /\ Admits["finalizerAdmit"] = "finalizer" /\ Admits["remuxAdmit"] = "remux"
    /\ Admits["imageAdmit"] = "image"
  BY DEF Drains, Admits

(* The stages, without the tables.                                          *)
LEMMA StageNames ==
    Stages = {"finalizerDrain", "imageDrain", "remuxDrain", "remuxRedrain", "finalizerAdmit",
              "remuxAdmit", "imageAdmit", "handoff", "converge", "sleep", "stopCheck",
              "forceCheck", "forceStop", "close", "snapshot", "stopped", "died", "blocked"}
  BY StageTables DEF Stages

(* An agenda whose first stage is not a last one goes on, with a stage that *)
(* may follow the first.                                                    *)
LEMMA ShapedTail ==
    ASSUME NEW a, Shaped(a), Head(a) \notin Lasts
    PROVE  Shaped(Tail(a)) /\ Follows(Head(a), Head(Tail(a)))
<1>1. a \in Seq(Stages) /\ Len(a) \in Nat /\ Len(a) > 0 /\ Head(a) = a[1]
  BY DEF Shaped
<1>2. Len(a) > 1
  BY <1>1 DEF Shaped
<1>3. /\ Tail(a) \in Seq(Stages) /\ Len(Tail(a)) = Len(a) - 1
      /\ \A i \in 1..(Len(a) - 1) : Tail(a)[i] = a[i + 1]
  BY <1>1, <1>2
<1>4. Tail(a) # <<>> /\ Head(Tail(a)) = a[2] /\ Tail(a)[Len(Tail(a))] = a[Len(a)]
  <2>1. PICK b \in Seq(Stages) : b = Tail(a)
    BY <1>3
  <2>2. Len(b) > 0
    BY <1>1, <1>2, <1>3, <2>1
  <2>3. b # <<>> /\ Head(b) = b[1]
    BY <2>2
  <2>4. b[1] = a[2] /\ b[Len(b)] = a[Len(a)]
    BY <1>1, <1>2, <1>3, <2>1
  <2>. QED  BY <2>1, <2>3, <2>4
<1>5. \A i \in 1..(Len(Tail(a)) - 1) : Follows(Tail(a)[i], Tail(a)[i + 1])
  <2>1. SUFFICES ASSUME NEW i \in 1..(Len(a) - 2) PROVE Follows(Tail(a)[i], Tail(a)[i + 1])
    BY <1>1, <1>2, <1>3
  <2>2. Tail(a)[i] = a[i + 1] /\ Tail(a)[i + 1] = a[(i + 1) + 1] /\ i + 1 \in 1..(Len(a) - 1)
    BY <1>1, <1>2, <1>3
  <2>. QED  BY <2>2 DEF Shaped
<1>6. Follows(a[1], a[2])
  BY <1>1, <1>2 DEF Shaped
<1>. QED  BY <1>1, <1>3, <1>4, <1>5, <1>6 DEF Shaped

(* A stage may be put before an agenda it may precede.                      *)
LEMMA ShapedCons ==
    ASSUME NEW a, Shaped(a), NEW x \in Stages, Follows(x, Head(a))
    PROVE  Shaped(<<x>> \o a) /\ Head(<<x>> \o a) = x
<1>. DEFINE b == <<x>> \o a
<1>1. a \in Seq(Stages) /\ Len(a) \in Nat /\ Len(a) > 0 /\ Head(a) = a[1]
  BY DEF Shaped
<1>2. /\ b \in Seq(Stages) /\ Len(b) = Len(a) + 1 /\ b[1] = x
      /\ \A i \in 1..Len(a) : b[i + 1] = a[i]
  BY <1>1
<1>3. b # <<>> /\ Head(b) = x /\ b[Len(b)] = a[Len(a)]
  BY <1>1, <1>2
<1>. HIDE DEF b
<1>4. \A i \in 1..(Len(b) - 1) : Follows(b[i], b[i + 1])
  <2>1. SUFFICES ASSUME NEW i \in 1..Len(a) PROVE Follows(b[i], b[i + 1])
    BY <1>1, <1>2
  <2>2. CASE i = 1
    BY <1>1, <1>2, <2>2
  <2>3. CASE i > 1
    <3>1. PICK k \in 1..(Len(a) - 1) : i = k + 1
      BY <1>1, <2>3
    <3>2. b[i] = a[k] /\ b[i + 1] = a[k + 1]
      BY <1>1, <1>2, <3>1
    <3>. QED  BY <3>1, <3>2 DEF Shaped
  <2>. QED  BY <1>1, <2>2, <2>3
<1>5. Shaped(b)
  BY <1>1, <1>2, <1>3, <1>4 DEF Shaped
<1>. QED  BY <1>3, <1>5 DEF b

(* The agendas of one stage.                                                *)
LEMMA ShapedLast ==
    ASSUME NEW x \in Lasts
    PROVE  Shaped(<<x>>) /\ Head(<<x>>) = x
  BY StageNames DEF Shaped, Lasts

(* The parts a tick is put together from.                                   *)
Part(p) ==
    /\ p \in Seq(Plain \ Lasts)
    /\ \A i \in 1..(Len(p) - 1) : Follows(p[i], p[i + 1])
    /\ Len(p) > 0 => p[Len(p)] # "remuxAdmit"

(* Two plain stages may follow one another, but for remuxAdmit.             *)
LEMMA PlainFollows ==
    ASSUME NEW x \in Plain \ Lasts, x # "remuxAdmit", NEW y \in Plain
    PROVE  Follows(x, y)
  BY StageTables DEF Follows, Plain, Lasts

(* Parts can be joined, and an agenda put behind them.                      *)
LEMMA PartJoins ==
    ASSUME NEW p, Part(p), NEW q \in Seq(Stages),
           \A i \in 1..(Len(q) - 1) : Follows(q[i], q[i + 1]),
           Len(q) > 0 => q[1] \in Plain
    PROVE  /\ p \o q \in Seq(Stages) /\ Len(p \o q) = Len(p) + Len(q)
           /\ \A i \in 1..Len(p) : (p \o q)[i] = p[i]
           /\ \A i \in 1..Len(q) : (p \o q)[Len(p) + i] = q[i]
           /\ \A i \in 1..(Len(p \o q) - 1) : Follows((p \o q)[i], (p \o q)[i + 1])
<1>. DEFINE b == p \o q
<1>1. p \in Seq(Plain \ Lasts) /\ Plain \subseteq Stages /\ Len(p) \in Nat /\ Len(q) \in Nat
  BY StageTables, StageNames DEF Part, Plain
<1>2. p \in Seq(Stages)
  BY <1>1
<1>3. /\ b \in Seq(Stages) /\ Len(b) = Len(p) + Len(q)
      /\ \A i \in 1..Len(p) : b[i] = p[i]
      /\ \A i \in 1..Len(q) : b[Len(p) + i] = q[i]
  BY <1>1, <1>2
<1>. HIDE DEF b
<1>4. \A i \in 1..(Len(b) - 1) : Follows(b[i], b[i + 1])
  <2>1. SUFFICES ASSUME NEW i \in 1..(Len(p) + Len(q) - 1) PROVE Follows(b[i], b[i + 1])
    BY <1>3
  <2>2. CASE i < Len(p)
    <3>1. b[i] = p[i] /\ b[i + 1] = p[i + 1] /\ i \in 1..(Len(p) - 1)
      BY <1>1, <1>3, <2>2
    <3>. QED  BY <3>1 DEF Part
  <2>3. CASE i = Len(p)
    <3>1. b[i] = p[i] /\ i \in 1..Len(p)
      BY <1>1, <1>3, <2>3
    <3>2. b[i + 1] = q[1] /\ Len(q) > 0
      BY <1>1, <1>3, <2>3
    <3>3. p[i] \in Plain \ Lasts /\ p[i] # "remuxAdmit"
      BY <1>1, <2>3, <3>1 DEF Part
    <3>. QED  BY <3>1, <3>2, <3>3, PlainFollows
  <2>4. CASE i > Len(p)
    <3>1. PICK k \in 1..(Len(q) - 1) : i = Len(p) + k
      <4>1. i - Len(p) \in 1..(Len(q) - 1) /\ i = Len(p) + (i - Len(p))
        BY <1>1, <2>4
      <4>. QED  BY <4>1
    <3>2. b[i] = q[k] /\ k + 1 \in 1..Len(q)
      BY <1>1, <1>3, <3>1
    <3>3. b[i + 1] = q[k + 1]
      <4>1. i + 1 = Len(p) + (k + 1)
        BY <1>1, <3>1
      <4>. QED  BY <1>3, <3>2, <4>1
    <3>. QED  BY <3>1, <3>2, <3>3
  <2>. QED  BY <1>1, <2>2, <2>3, <2>4
<1>. QED  BY <1>3, <1>4 DEF b

(* Joined parts are a part.                                                 *)
LEMMA PartPart ==
    ASSUME NEW p, Part(p), NEW q, Part(q)
    PROVE  Part(p \o q) /\ (Len(p) > 0 => Len(p \o q) > 0 /\ (p \o q)[1] = p[1])
<1>1. p \in Seq(Plain \ Lasts) /\ q \in Seq(Plain \ Lasts) /\ Plain \subseteq Stages
      /\ Len(p) \in Nat /\ Len(q) \in Nat
  BY StageTables, StageNames DEF Part, Plain
<1>2. q \in Seq(Stages) /\ (Len(q) > 0 => q[1] \in Plain)
  BY <1>1
<1>3. \A i \in 1..(Len(q) - 1) : Follows(q[i], q[i + 1])
  BY DEF Part
<1>4. p \o q \in Seq(Plain \ Lasts)
  BY <1>1
<1>5. Len(p \o q) > 0 => (p \o q)[Len(p \o q)] # "remuxAdmit"
  <2>1. CASE Len(q) > 0
    <3>1. (p \o q)[Len(p \o q)] = q[Len(q)]
      BY <1>1, <1>2, <1>3, <2>1, PartJoins
    <3>. QED  BY <2>1, <3>1 DEF Part
  <2>2. CASE Len(q) = 0
    <3>1. Len(p \o q) > 0 => (p \o q)[Len(p \o q)] = p[Len(p)]
      BY <1>1, <1>2, <1>3, <2>2, PartJoins
    <3>2. Len(p \o q) = Len(p)
      BY <1>1, <2>2
    <3>. QED  BY <3>1, <3>2 DEF Part
  <2>. QED  BY <1>1, <2>1, <2>2
<1>6. Len(p) > 0 => Len(p \o q) > 0 /\ (p \o q)[1] = p[1]
  BY <1>1, <1>2, <1>3, PartJoins
<1>7. Part(p \o q)
  BY <1>2, <1>3, <1>4, <1>5, PartJoins DEF Part
<1>. QED  BY <1>6, <1>7

(* A part before an agenda is an agenda.                                    *)
LEMMA PartShaped ==
    ASSUME NEW p, Part(p), NEW a, Shaped(a), Head(a) \in Plain
    PROVE  Shaped(p \o a) /\ (Len(p) > 0 => Head(p \o a) = p[1])
<1>1. p \in Seq(Plain \ Lasts) /\ Plain \subseteq Stages /\ Len(p) \in Nat
  BY StageTables, StageNames DEF Part, Plain
<1>2. a \in Seq(Stages) /\ Len(a) \in Nat /\ Len(a) > 0 /\ Head(a) = a[1]
  BY DEF Shaped
<1>3. /\ p \o a \in Seq(Stages) /\ Len(p \o a) = Len(p) + Len(a)
      /\ \A i \in 1..Len(p) : (p \o a)[i] = p[i]
      /\ \A i \in 1..Len(a) : (p \o a)[Len(p) + i] = a[i]
      /\ \A i \in 1..(Len(p \o a) - 1) : Follows((p \o a)[i], (p \o a)[i + 1])
  BY <1>2, PartJoins DEF Shaped
<1>. DEFINE b == p \o a
<1>. HIDE DEF b
<1>4. b \in Seq(Stages) /\ Len(b) > 0 /\ b[Len(b)] = a[Len(a)]
  BY <1>1, <1>2, <1>3 DEF b
<1>5. b # <<>> /\ Head(b) = b[1]
  BY <1>4
<1>6. \A i \in 1..(Len(b) - 1) : Follows(b[i], b[i + 1])
  BY <1>3 DEF b
<1>7. Len(p) > 0 => b[1] = p[1]
  BY <1>1, <1>3 DEF b
<1>8. Shaped(b)
  BY <1>4, <1>5, <1>6 DEF Shaped
<1>. QED  BY <1>5, <1>7, <1>8 DEF b

(* The agendas run_worker starts with.                                      *)
LEMMA TickShaped ==
    ASSUME NEW generalDue \in BOOLEAN, NEW rollingDue \in BOOLEAN
    PROVE  /\ Shaped(TickAgenda(generalDue, rollingDue))
           /\ Head(TickAgenda(generalDue, rollingDue)) = "finalizerDrain"
<1>. DEFINE first == <<"finalizerDrain", "imageDrain">>
            general == IF generalDue THEN <<"finalizerAdmit">> ELSE <<>>
            roll == IF rollingDue THEN <<"remuxDrain", "remuxAdmit", "remuxRedrain", "imageAdmit">> ELSE <<>>
            end == <<"snapshot", "sleep">>
<1>1. Part(first) /\ Part(general) /\ Part(roll)
  <2>1. Part(<<>>)
    BY DEF Part
  <2>2. Part(<<"finalizerAdmit">>)
    BY StageTables DEF Part, Plain, Lasts, Follows
  <2>3. Part(<<"remuxDrain", "remuxAdmit", "remuxRedrain", "imageAdmit">>)
    BY StageTables DEF Part, Plain, Lasts, Follows
  <2>4. Part(first)
    BY StageTables DEF Part, Plain, Lasts, Follows
  <2>. QED  BY <2>1, <2>2, <2>3, <2>4
<1>2. Shaped(end) /\ Head(end) \in Plain
  BY StageNames, StageTables DEF Shaped, Lasts, Follows, Plain
<1>3. first[1] = "finalizerDrain" /\ Len(first) > 0
  OBVIOUS
<1>. HIDE DEF first, general, roll, end
<1>4. Part(first \o general) /\ Len(first \o general) > 0 /\ (first \o general)[1] = "finalizerDrain"
  BY <1>1, <1>3, PartPart
<1>5. /\ Part((first \o general) \o roll) /\ Len((first \o general) \o roll) > 0
      /\ ((first \o general) \o roll)[1] = "finalizerDrain"
  BY <1>1, <1>4, PartPart
<1>6. /\ Shaped(((first \o general) \o roll) \o end)
      /\ Head(((first \o general) \o roll) \o end) = "finalizerDrain"
  BY <1>2, <1>5, PartShaped
<1>. QED  BY <1>6 DEF TickAgenda, first, general, roll, end

(* The other agendas.                                                       *)
LEMMA FixedShaped ==
    /\ Shaped(StopAgenda) /\ Head(StopAgenda) = "remuxDrain"
    /\ Shaped(<<"snapshot", "sleep">>) /\ Head(<<"snapshot", "sleep">>) = "snapshot"
    /\ Shaped(<<"forceStop", "close">>) /\ Head(<<"forceStop", "close">>) = "forceStop"
    /\ Shaped(<<"handoff", "converge", "snapshot", "sleep">>)
    /\ Head(<<"handoff", "converge", "snapshot", "sleep">>) = "handoff"
    /\ Shaped(Aborted) /\ Head(Aborted) \in {"died", "snapshot"}
<1>1. Shaped(StopAgenda) /\ Head(StopAgenda) = "remuxDrain"
  BY StageNames, StageTables DEF Shaped, Lasts, Follows, Plain, StopAgenda
<1>2. Shaped(<<"snapshot", "sleep">>) /\ Head(<<"snapshot", "sleep">>) = "snapshot"
  BY StageNames, StageTables DEF Shaped, Lasts, Follows, Plain
<1>3. Shaped(<<"forceStop", "close">>) /\ Head(<<"forceStop", "close">>) = "forceStop"
  BY StageNames, StageTables DEF Shaped, Lasts, Follows, Plain
<1>4. /\ Shaped(<<"handoff", "converge", "snapshot", "sleep">>)
      /\ Head(<<"handoff", "converge", "snapshot", "sleep">>) = "handoff"
  BY StageNames, StageTables DEF Shaped, Lasts, Follows, Plain
<1>5. Shaped(<<"died">>) /\ Head(<<"died">>) = "died"
  BY ShapedLast DEF Lasts
<1>. QED  BY <1>1, <1>2, <1>3, <1>4, <1>5 DEF Aborted

(* Before the rest of an agenda come the two stages of a transfer.          *)
LEMMA TransferShaped ==
    ASSUME NEW a, Shaped(a), Head(a) \in Plain
    PROVE  /\ Shaped(<<"handoff", "converge">> \o a)
           /\ Head(<<"handoff", "converge">> \o a) = "handoff"
<1>. DEFINE b == <<"handoff", "converge">> \o a
<1>1. a \in Seq(Stages) /\ Len(a) \in Nat /\ Len(a) > 0 /\ Head(a) = a[1]
  BY DEF Shaped
<1>2. <<"handoff", "converge">> \in Seq(Stages)
  BY StageNames
<1>3. /\ b \in Seq(Stages) /\ Len(b) = Len(a) + 2 /\ b[1] = "handoff" /\ b[2] = "converge"
      /\ \A i \in 1..Len(a) : b[i + 2] = a[i]
  BY <1>1, <1>2
<1>4. b # <<>> /\ Head(b) = "handoff" /\ b[Len(b)] = a[Len(a)]
  BY <1>1, <1>3
<1>. HIDE DEF b
<1>5. \A i \in 1..(Len(b) - 1) : Follows(b[i], b[i + 1])
  <2>1. SUFFICES ASSUME NEW i \in 1..(Len(a) + 1) PROVE Follows(b[i], b[i + 1])
    BY <1>1, <1>3
  <2>2. CASE i = 1
    BY <1>3, <2>2 DEF Follows, Lasts
  <2>3. CASE i = 2
    BY <1>1, <1>3, <2>3 DEF Follows, Lasts
  <2>4. CASE i > 2
    <3>1. i - 2 \in 1..(Len(a) - 1) /\ i = (i - 2) + 2
      BY <1>1, <2>4
    <3>2. PICK k \in 1..(Len(a) - 1) : i = k + 2
      BY <3>1
    <3>3. b[i] = a[k] /\ b[i + 1] = a[k + 1]
      <4>1. k \in 1..Len(a) /\ k + 1 \in 1..Len(a) /\ i + 1 = (k + 1) + 2
        BY <1>1, <3>2
      <4>. QED  BY <1>3, <3>2, <4>1
    <3>. QED  BY <3>2, <3>3 DEF Shaped
  <2>. QED  BY <1>1, <2>2, <2>3, <2>4
<1>6. Shaped(b)
  BY <1>3, <1>4, <1>5 DEF Shaped
<1>. QED  BY <1>4, <1>6 DEF b

(* The stage Advance goes on with.                                          *)
LEMMA FollowingShaped ==
    ASSUME Shaped(agenda),
           Head(agenda) \in DOMAIN Drains \cup DOMAIN Admits \cup {"handoff", "converge", "forceStop"}
    PROVE  /\ Shaped(Following)
           /\ Head(agenda) \in RemuxDrains /\ Transfers # {} => Head(Following) = "handoff"
           /\ Head(agenda) = "handoff" => Head(Following) = "converge"
           /\ Head(agenda) = "forceStop" => Head(Following) = "close"
           /\ Head(agenda) \notin {"handoff", "forceStop"} => Head(Following) \in Plain \cup {"handoff"}
           /\ Head(Following) = "handoff" => Head(agenda) \in RemuxDrains /\ Transfers # {}
<1>. DEFINE h == Head(agenda)
            t == Tail(agenda)
<1>1. h \notin Lasts
  BY StageTables DEF Lasts
<1>2. Shaped(t) /\ Follows(h, Head(t))
  BY <1>1, ShapedTail
<1>3. CASE h \in RemuxDrains /\ Transfers # {}
  <2>1. Head(t) \in Plain
    BY <1>2, <1>3 DEF Follows, RemuxDrains
  <2>2. Following = <<"handoff", "converge">> \o t
    BY <1>3 DEF Following
  <2>. HIDE DEF t
  <2>3. Shaped(Following) /\ Head(Following) = "handoff"
    BY <1>2, <2>1, <2>2, TransferShaped
  <2>. QED  BY <1>3, <2>3 DEF RemuxDrains
<1>4. CASE ~ (h \in RemuxDrains /\ Transfers # {}) /\ Head(t) = "remuxAdmit" /\ ~ AdmissionOpen
  <2>1. Following = Tail(Tail(t))
    BY <1>4 DEF Following
  <2>. HIDE DEF t
  <2>2. Shaped(Tail(t)) /\ Head(Tail(t)) = "remuxRedrain"
    BY <1>2, <1>4, ShapedTail DEF Lasts, Follows
  <2>3. Shaped(Tail(Tail(t))) /\ Head(Tail(Tail(t))) \in Plain
    BY <2>2, ShapedTail DEF Lasts, Follows
  <2>4. h \notin {"handoff", "forceStop"}
    BY <1>2, <1>4 DEF Follows
  <2>. QED  BY <1>4, <2>1, <2>3, <2>4, StageTables DEF Plain
<1>5. CASE ~ (h \in RemuxDrains /\ Transfers # {}) /\ ~ (Head(t) = "remuxAdmit" /\ ~ AdmissionOpen)
  <2>1. Following = t
    BY <1>5 DEF Following
  <2>2. \/ h = "handoff" /\ Head(t) = "converge"
        \/ h = "forceStop" /\ Head(t) = "close"
        \/ h \notin {"handoff", "forceStop"} /\ Head(t) \in Plain
    BY <1>2, StageTables DEF Follows, Plain
  <2>3. Head(t) # "handoff"
    BY <2>2, StageTables DEF Plain
  <2>. HIDE DEF t
  <2>. QED  BY <1>2, <1>5, <2>1, <2>2, <2>3
<1>. QED  BY <1>3, <1>4, <1>5

-----------------------------------------------------------------------------
(* One attempt                                                              *)

Exec(r) == r.run \in {"queued", "running"}

(* Whatever q counts against, r counts against too.                         *)
Lighter(r, q) ==
    /\ q.permit # "none" \/ Exec(q) => r.permit # "none" \/ Exec(r)
    /\ q.permit = "image" \/ (Exec(q) /\ q.ticket = "image") =>
          r.permit = "image" \/ (Exec(r) /\ r.ticket = "image")
    /\ q.slot \/ Exec(q) => (r.slot \/ Exec(r)) /\ q.source = r.source

(* A step of one attempt that adds no load and loses nothing.               *)
Eases(r, q) ==
    /\ q \in Job /\ Sound(q) /\ Lighter(r, q)
    /\ Kept(r) => Kept(q)
    /\ Leaked(r) => Leaked(q)

(* An attempt that is forgotten.                                            *)
LEMMA IdleEases ==
    /\ Idle \in Job /\ Sound(Idle) /\ Kept(Idle) /\ \A r : Lighter(r, Idle)
    /\ \A r : r.track # "none" \/ r.run # "none" => Eases(r, Idle)
    /\ Idle.track = "none" /\ Idle.run = "none" /\ ~ Exec(Idle)
<1>1. Idle \in Job
  BY DEF Idle, Job, Lanes
<1>2. Sound(Idle)
  BY DEF Idle, Sound, Lanes
<1>3. \A r : Lighter(r, Idle)
  BY DEF Idle, Lighter, Exec
<1>4. Idle.track = "none" /\ Idle.run = "none" /\ ~ Exec(Idle)
  BY DEF Idle, Exec
<1>5. Kept(Idle)
  BY DEF Idle, Kept
<1>6. \A r : r.track # "none" \/ r.run # "none" => Eases(r, Idle)
  BY <1>1, <1>2, <1>3, <1>5 DEF Eases, Leaked
<1>. QED  BY <1>1, <1>2, <1>3, <1>4, <1>5, <1>6

(* _FinalizerSchedulerV2.drain_completed, _ImageSchedulerV2.drain_completed *)
LEMMA DrainedIdle ==
    ASSUME NEW r \in Job, Sound(r), r.track \in {"image", "finalizer"}, r.run = "done",
           NEW b \in {r.beat, "none"}
    PROVE  Tidy([Untracked(r) EXCEPT !.beat = b]) = Idle
  BY DEF Job, Sound, Untracked, Tidy

(* The finalizer's attempt is forgotten although its statement failed.      *)
LEMMA FaultedIdle ==
    ASSUME NEW r \in Job, Sound(r), r.track = "finalizer", r.run = "done"
    PROVE  Tidy(Untracked(r)) = Idle
  BY DEF Job, Sound, Untracked, Tidy

(* A remux attempt that is settled.                                         *)
LEMMA SettledIdle ==
    ASSUME NEW r \in Job, Sound(r), r.track = "remux", r.run = "done"
    PROVE  Settled(r) = Idle
  BY DEF Job, Sound, Untracked, Released, Settled, Tidy

(* A transferred handoff that converges.                                    *)
LEMMA ConvergedIdle ==
    ASSUME NEW r \in Job, Sound(r), r.track = "transfer"
    PROVE  Tidy(Released(Untracked(r))) = Idle
  BY DEF Job, Sound, Untracked, Released, Tidy

(* A transferred handoff that is lost with the loop's locals.               *)
LEMMA LostLeaks ==
    ASSUME NEW r \in Job, Sound(r), r.track = "transfer"
    PROVE  /\ Tidy(Untracked(r)) \in Job /\ Sound(Tidy(Untracked(r)))
           /\ Lighter(r, Tidy(Untracked(r))) /\ Leaked(Tidy(Untracked(r)))
<1>. DEFINE q == [r EXCEPT !.track = "none"]
<1>1. r.run = "none" /\ r.permit # "none" /\ ~ r.slot
  BY DEF Sound
<1>2. Untracked(r) = q
  BY <1>1 DEF Untracked, Job
<1>3. q \in Job /\ q.track = "none" /\ q.run = "none" /\ q.permit = r.permit /\ q.slot = r.slot
      /\ q.ticket = r.ticket
  BY <1>1 DEF Job
<1>. HIDE DEF q
<1>4. Tidy(q) = q
  BY <1>1, <1>3 DEF Tidy
<1>5. Sound(q)
  BY <1>1, <1>3 DEF Sound, Lanes
<1>6. Lighter(r, q) /\ Leaked(q)
  BY <1>1, <1>3 DEF Lighter, Exec, Leaked
<1>. QED  BY <1>2, <1>3, <1>4, <1>5, <1>6

(* A handoff that is persisted.                                             *)
LEMMA PersistedEases ==
    ASSUME NEW r \in Job, Sound(r), r.track = "remux", r.run = "done"
    PROVE  Eases(r, [r EXCEPT !.track = "transfer", !.run = "none", !.slot = FALSE])
  BY DEF Job, Sound, Kept, Leaked, Eases, Lighter, Exec, Lanes

(* An executor thread takes the attempt.                                    *)
LEMMA StartedEases ==
    ASSUME NEW r \in Job, Sound(r), r.run = "queued", NEW b \in {r.beat, "none"}
    PROVE  Eases(r, [r EXCEPT !.run = "running", !.beat = b])
  BY DEF Job, Sound, Kept, Leaked, Eases, Lighter, Exec, Lanes, Idle

(* _finalize_one registers its lease.                                       *)
LEMMA ClaimedEases ==
    ASSUME NEW r \in Job, Sound(r), r.run = "running", r.ticket = "finalizer"
    PROVE  Eases(r, [r EXCEPT !.beat = "healthy"])
  BY DEF Job, Sound, Kept, Leaked, Eases, Lighter, Exec, Lanes, Idle

(* A lane thread ends.                                                      *)
LEMMA FinishedEases ==
    ASSUME NEW r \in Job, Sound(r), r.run = "running"
    PROVE  /\ Eases(r, Finished(r)) /\ Finished(r).track = r.track
           /\ r.track = "none" => ~ Exec(Finished(r))
<1>. DEFINE q == [(IF r.ticket = "remux" THEN r ELSE Released(r)) EXCEPT
                     !.run = IF r.track = "none" THEN "none" ELSE "done", !.ticket = "none"]
<1>1. q \in Job
  BY DEF Job, Released
<1>2. /\ q.track = r.track /\ q.run = (IF r.track = "none" THEN "none" ELSE "done") /\ q.ticket = "none"
      /\ q.source = r.source
      /\ r.ticket = "remux" => q.slot = r.slot /\ q.permit = r.permit /\ q.beat = r.beat
      /\ r.ticket # "remux" => q.slot = FALSE /\ q.permit = "none" /\ q.beat = "none"
  BY DEF Job, Released
<1>. HIDE DEF q
<1>3. Finished(r) = Tidy(q)
  BY DEF Finished, q
<1>4. CASE r.track = "none"
  <2>1. Tidy(q) = Idle
    BY <1>2, <1>4 DEF Tidy, Sound
  <2>. QED  BY <1>4, <1>3, <2>1, IdleEases
<1>5. CASE r.track # "none"
  <2>1. Tidy(q) = q
    BY <1>2, <1>5 DEF Tidy
  <2>2. Sound(q) /\ Lighter(r, q)
    BY <1>2, <1>5 DEF Sound, Lighter, Exec, Job, Lanes
  <2>. QED  BY <1>1, <1>2, <1>5, <1>3, <2>1, <2>2 DEF Eases, Kept, Leaked
<1>. QED  BY <1>4, <1>5

(* The heartbeat thread drops a handle.                                     *)
LEMMA BeatLostEases ==
    ASSUME NEW r \in Job, Sound(r), r.beat = "healthy"
    PROVE  /\ Eases(r, Tidy([r EXCEPT !.beat = "lost"]))
           /\ Tidy([r EXCEPT !.beat = "lost"]).track = r.track
           /\ Tidy([r EXCEPT !.beat = "lost"]).run = r.run
  BY IdleEases DEF Job, Sound, Kept, Leaked, Eases, Lighter, Exec, Lanes, Idle, Tidy

(* A forced stop lets the attempt go.                                       *)
LEMMA ForceStoppedEases ==
    ASSUME NEW r \in Job, Sound(r), r.track \in Lanes
    PROVE  Eases(r, ForceStopped(r)) /\ ForceStopped(r).track = "none"
<1>. DEFINE cancelled == IF r.run = "queued" THEN [r EXCEPT !.run = "none", !.ticket = "none"] ELSE r
            gone == Released(Untracked(cancelled))
            q == [gone EXCEPT !.beat = IF r.ticket = "finalizer" /\ r.run = "running" THEN r.beat ELSE @]
<1>1. q \in Job
  <2>1. cancelled \in Job
    BY DEF Job
  <2>. HIDE DEF cancelled
  <2>2. \A u \in Job : Untracked(u) \in Job
    <3>1. SUFFICES ASSUME NEW u \in Job PROVE Untracked(u) \in Job
      OBVIOUS
    <3>2. (IF u.run = "done" THEN "none" ELSE u.run) \in {"none", "queued", "running", "done"}
      BY DEF Job
    <3>3. [u EXCEPT !.track = "none"] \in Job
      BY DEF Job
    <3>4. \A v \in Job, x \in {"none", "queued", "running", "done"} : [v EXCEPT !.run = x] \in Job
      BY DEF Job
    <3>5. Untracked(u) = [[u EXCEPT !.track = "none"] EXCEPT !.run = IF u.run = "done" THEN "none" ELSE u.run]
      BY DEF Job, Untracked
    <3>. QED  BY <3>2, <3>3, <3>4, <3>5, ZenonT(60)
  <2>3. \A u \in Job : Released(u) \in Job
    BY DEF Job, Released
  <2>4. gone \in Job
    BY <2>1, <2>2, <2>3
  <2>. HIDE DEF gone
  <2>. QED  BY <2>4 DEF Job
<1>2. /\ q.track = "none" /\ q.slot = FALSE /\ q.permit = "none"
      /\ q.run = (IF r.run = "running" THEN "running" ELSE "none")
      /\ r.run = "running" => q.ticket = r.ticket /\ q.source = r.source
      /\ r.run # "running" => q.ticket = "none" /\ q.beat = "none"
      /\ r.ticket # "finalizer" => q.beat = "none"
  BY DEF Job, Released, Untracked, Sound, Lanes
<1>. HIDE DEF q
<1>3. ForceStopped(r) = Tidy(q)
  BY DEF ForceStopped, q
<1>4. CASE r.run = "running"
  <2>1. Tidy(q) = q
    BY <1>2, <1>4 DEF Tidy
  <2>2. Sound(q) /\ Lighter(r, q)
    BY <1>2, <1>4 DEF Sound, Lighter, Exec, Job, Lanes
  <2>. QED  BY <1>1, <1>2, <1>3, <1>4, <2>1, <2>2 DEF Eases, Kept, Leaked, Lanes
<1>5. CASE r.run # "running"
  <2>1. Tidy(q) = Idle
    BY <1>2, <1>5 DEF Tidy
  <2>. QED  BY <1>3, <2>1, IdleEases DEF Lanes
<1>. QED  BY <1>4, <1>5

(* The registry of heartbeats closes.                                       *)
LEMMA ClosedEases ==
    ASSUME NEW r \in Job, Sound(r)
    PROVE  /\ Eases(r, Tidy([r EXCEPT !.beat = "none"]))
           /\ Tidy([r EXCEPT !.beat = "none"]).track = r.track
           /\ Tidy([r EXCEPT !.beat = "none"]).run = r.run
  BY IdleEases DEF Job, Sound, Kept, Leaked, Eases, Lighter, Exec, Lanes, Idle, Tidy

-----------------------------------------------------------------------------
(* Load                                                                     *)

(* The sizes that are compared are numbers.                                 *)
LEMMA JobSets ==
    ASSUME NEW S \in SUBSET Jobs
    PROVE  IsFiniteSet(S) /\ Cardinality(S) \in Nat
  BY JobsAssumption, FS_Subset, FS_CardinalityType

(* The limits are numbers; the reserve leaves room for one image.           *)
LEMMA LimitFacts ==
    MaxActive \in Nat /\ MaxActive - Reserve \in Nat /\ SourceLimit \in Nat
  BY LimitsAssumption DEF Reserve

(* Fewer attempts stay within a limit.                                      *)
LEMMA SetShrinks ==
    ASSUME NEW S \in SUBSET Jobs, NEW T \in SUBSET S, NEW n \in Nat, Cardinality(S) <= n
    PROVE  Cardinality(T) <= n
<1>1. Cardinality(T) <= Cardinality(S) /\ Cardinality(T) \in Nat /\ Cardinality(S) \in Nat
  BY JobSets, FS_Subset
<1>. QED  BY <1>1

(* One attempt more stays within a limit that was not reached.              *)
LEMMA SetGrows ==
    ASSUME NEW S \in SUBSET Jobs, NEW j \in Jobs, NEW T \in SUBSET (S \cup {j}), NEW n \in Nat,
           Cardinality(S) < n
    PROVE  Cardinality(T) <= n
<1>1. IsFiniteSet(S) /\ Cardinality(S) \in Nat
  BY JobSets
<1>2. /\ IsFiniteSet(S \cup {j}) /\ Cardinality(S \cup {j}) \in Nat
      /\ Cardinality(S \cup {j}) <= Cardinality(S) + 1
  <2>1. IsFiniteSet(S \cup {j})
    BY <1>1, FS_AddElement
  <2>2. Cardinality(S \cup {j}) = IF j \in S THEN Cardinality(S) ELSE Cardinality(S) + 1
    BY <1>1, FS_AddElement
  <2>. QED  BY <1>1, <2>1, <2>2, FS_CardinalityType
<1>3. Cardinality(T) <= Cardinality(S \cup {j}) /\ Cardinality(T) \in Nat
  BY <1>2, FS_Subset, FS_CardinalityType
<1>. QED  BY <1>1, <1>2, <1>3

(* Steps that add no load keep the limits.                                  *)
LEMMA EasedBounded ==
    ASSUME Bounded, \A k \in Jobs : job'[k] = job[k] \/ Lighter(job[k], job'[k])
    PROVE  Bounded'
<1>1. Loaded' \subseteq Loaded /\ Loaded \subseteq Jobs
  BY DEF Loaded, Executing, Lighter, Exec
<1>2. ImageLoaded' \subseteq ImageLoaded /\ ImageLoaded \subseteq Jobs
  BY DEF ImageLoaded, Executing, Lighter, Exec
<1>3. \A s \in Sources : SourceLoaded(s)' \subseteq SourceLoaded(s) /\ SourceLoaded(s) \subseteq Jobs
  BY DEF SourceLoaded, Executing, Lighter, Exec
<1>4. Cardinality(Loaded') <= MaxActive
  BY <1>1, LimitFacts, SetShrinks DEF Bounded
<1>5. Cardinality(ImageLoaded') <= MaxActive - Reserve
  BY <1>2, LimitFacts, SetShrinks DEF Bounded
<1>6. \A s \in Sources : Cardinality(SourceLoaded(s)') <= SourceLimit
  BY <1>3, LimitFacts, SetShrinks DEF Bounded
<1>. QED  BY <1>4, <1>5, <1>6 DEF Bounded, Reserve

(* The types, sound attempts and the limits after such a step.              *)
LEMMA EasedJobs ==
    ASSUME WorkInv, DOMAIN job' = Jobs, job' = [k \in Jobs |-> job'[k]],
           \A k \in Jobs : job'[k] = job[k] \/ Eases(job[k], job'[k]), UNCHANGED lost
    PROVE  job' \in [Jobs -> Job] /\ AllSound' /\ Bounded'
<1>1. job \in [Jobs -> Job] /\ AllSound /\ Bounded
  BY DEF WorkInv, TypeOK
<1>2. \A k \in Jobs : /\ job'[k] \in Job /\ Sound(job'[k])
                      /\ k \in lost' => Leaked(job'[k])
                      /\ k \notin lost' => Kept(job'[k])
  BY <1>1 DEF AllSound, Eases
<1>3. Bounded'
  BY <1>1, EasedBounded DEF Eases
<1>. QED  BY <1>2, <1>3 DEF AllSound

(* ... when it is a step of one attempt.                                    *)
LEMMA EasedJob ==
    ASSUME WorkInv, NEW j \in Jobs, NEW q, Eases(job[j], q), job' = [job EXCEPT ![j] = q],
           UNCHANGED lost
    PROVE  /\ job' \in [Jobs -> Job] /\ AllSound' /\ Bounded'
           /\ job'[j] = q /\ \A k \in Jobs \ {j} : job'[k] = job[k]
<1>1. job \in [Jobs -> Job]
  BY DEF WorkInv, TypeOK
<1>2. /\ DOMAIN job' = Jobs /\ job' = [k \in Jobs |-> job'[k]]
      /\ job'[j] = q /\ \A k \in Jobs \ {j} : job'[k] = job[k]
  BY <1>1
<1>. QED  BY <1>2, EasedJobs

-----------------------------------------------------------------------------
(* Stages                                                                   *)

(* The scheduler thread does not move: attempts stay in their tables, and   *)
(* none that is in no table starts to execute.                              *)
LEMMA RestingStage ==
    ASSUME WorkInv, UNCHANGED <<agenda, todo, rows, inside>>,
           \A k \in Jobs : /\ job'[k].track = job[k].track
                           /\ job[k].track = "none" /\ Exec(job'[k]) => Exec(job[k])
    PROVE  StageOK' /\ Shaped(agenda)'
<1>1. Transfers' = Transfers /\ Tracked' = Tracked
  BY DEF Transfers, Tracked
<1>2. \A k \in todo : k \in Jobs
  BY DEF WorkInv, TypeOK
<1>3. Shaped(agenda)'
  BY DEF WorkInv
<1>4. \A k \in Jobs : (job[k].track = "none" => ~ Executing(k)) => (job'[k].track = "none" => ~ Executing(k)')
  BY DEF Executing, Exec
<1>5. StageOK
  BY DEF WorkInv
<1>. QED  BY <1>1, <1>2, <1>3, <1>4, <1>5 DEF StageOK

(* A step of another thread on attempt j.                                   *)
LEMMA ThreadStep ==
    ASSUME WorkInv, NEW j \in Jobs, NEW q, Eases(job[j], q), job' = [job EXCEPT ![j] = q],
           q.track = job[j].track, job[j].track = "none" /\ Exec(q) => Exec(job[j]),
           UNCHANGED <<agenda, todo, rows, phase, force, inside, lost>>
    PROVE  WorkInv'
<1>1. /\ job' \in [Jobs -> Job] /\ AllSound' /\ Bounded'
      /\ job'[j] = q /\ \A k \in Jobs \ {j} : job'[k] = job[k]
  BY EasedJob
<1>2. StageOK' /\ Shaped(agenda)'
  BY <1>1, RestingStage
<1>3. TypeOK'
  BY <1>1 DEF WorkInv, TypeOK
<1>. QED  BY <1>1, <1>2, <1>3 DEF WorkInv

(* Lane threads and the heartbeat thread keep the invariant.                *)
LEMMA ThreadsKeep ==
    ASSUME WorkInv, NEW j \in Jobs, Start(j) \/ FinalizerClaims(j) \/ Finish(j) \/ HeartbeatLost(j)
    PROVE  WorkInv'
<1>. DEFINE r == job[j]
<1>1. job \in [Jobs -> Job] /\ r \in Job /\ Sound(r)
  BY DEF WorkInv, TypeOK, AllSound
<1>2. CASE Start(j)
  <2>. DEFINE b == IF r.ticket = "finalizer" THEN "none" ELSE r.beat
              q == [r EXCEPT !.run = "running", !.beat = b]
  <2>1. r.run = "queued" /\ b \in {r.beat, "none"}
    BY <1>2 DEF Start
  <2>2. job' = [job EXCEPT ![j] = q]
    BY <1>1, <1>2 DEF Start, Job
  <2>. HIDE DEF b
  <2>3. Eases(r, q) /\ q.track = r.track /\ Exec(r)
    BY <1>1, <2>1, StartedEases DEF Job, Exec
  <2>. HIDE DEF q
  <2>. QED  BY <1>2, <2>2, <2>3, ThreadStep DEF Start
<1>3. CASE FinalizerClaims(j)
  <2>. DEFINE q == [r EXCEPT !.beat = "healthy"]
  <2>1. r.run = "running" /\ r.ticket = "finalizer"
    BY <1>3 DEF FinalizerClaims
  <2>2. job' = [job EXCEPT ![j] = q]
    BY <1>1, <1>3 DEF FinalizerClaims, Job
  <2>3. Eases(r, q) /\ q.track = r.track /\ Exec(r)
    BY <1>1, <2>1, ClaimedEases DEF Job, Exec
  <2>. HIDE DEF q
  <2>. QED  BY <1>3, <2>2, <2>3, ThreadStep DEF FinalizerClaims
<1>4. CASE Finish(j)
  <2>1. r.run = "running" /\ job' = [job EXCEPT ![j] = Finished(r)]
    BY <1>1, <1>4 DEF Finish
  <2>2. Eases(r, Finished(r)) /\ Finished(r).track = r.track /\ Exec(r)
    BY <1>1, <2>1, FinishedEases DEF Exec
  <2>. QED  BY <1>4, <2>1, <2>2, ThreadStep DEF Finish
<1>5. CASE HeartbeatLost(j)
  <2>. DEFINE q == Tidy([r EXCEPT !.beat = "lost"])
  <2>1. r.beat = "healthy" /\ job' = [job EXCEPT ![j] = q]
    BY <1>1, <1>5 DEF HeartbeatLost
  <2>2. Eases(r, q) /\ q.track = r.track /\ q.run = r.run
    BY <1>1, <2>1, BeatLostEases
  <2>. HIDE DEF q
  <2>3. Exec(q) => Exec(r)
    BY <2>2 DEF Exec
  <2>. QED  BY <1>5, <2>1, <2>2, <2>3, ThreadStep DEF HeartbeatLost
<1>. QED  BY <1>2, <1>3, <1>4, <1>5

(* What the loop of a stage iterates over.                                  *)
LEMMA SnapshotFacts ==
    ASSUME NEW h \in Stages
    PROVE  /\ Snapshot(h) \subseteq Jobs
           /\ h \in DOMAIN Drains => \A j \in Snapshot(h) : job[j].track = Drains[h]
           /\ h \in {"handoff", "converge"} => Snapshot(h) \subseteq Transfers
           /\ h = "converge" => Transfers \subseteq Snapshot(h)
           /\ h = "forceStop" => Tracked = Snapshot(h)
<1>1. h \in DOMAIN Drains => h \notin {"handoff", "converge", "forceStop"}
  BY StageTables
<1>2. CASE h \in DOMAIN Drains
  BY <1>1, <1>2 DEF Snapshot, Transfers, Tracked
<1>3. CASE h \notin DOMAIN Drains
  BY <1>3 DEF Snapshot, Transfers, Tracked
<1>. QED  BY <1>2, <1>3

(* The scheduler thread enters the first stage of agenda a.                 *)
LEMMA EnterKeeps ==
    ASSUME WorkInv, NEW a, Shaped(a), Enter(a), inside' = FALSE,
           \A k \in Jobs : /\ job'[k].track = job[k].track
                           /\ job[k].track = "none" /\ Exec(job'[k]) => Exec(job[k]),
           Head(a) \in {"close", "stopped"} => Tracked = {},
           Transfers # {} => Head(a) \in RemuxDrains \cup {"handoff", "converge"},
           Head(a) \notin ForcedStages => Head(agenda) \notin ForcedStages
    PROVE  /\ StageOK' /\ Shaped(agenda)' /\ todo' \subseteq Jobs /\ rows' \in 0..MaxRows
           /\ agenda' \in Seq(Stages) /\ agenda' # <<>> /\ inside' \in BOOLEAN
<1>1. a \in Seq(Stages) /\ a # <<>> /\ Head(a) \in Stages
  BY DEF Shaped
<1>2. Transfers' = Transfers /\ Tracked' = Tracked
  BY DEF Transfers, Tracked
<1>3. agenda' = a /\ todo' = Snapshot(Head(a)) /\ rows' \in 0..MaxRows
      /\ (rows' > 0 => Head(a) \in DOMAIN Admits)
  BY LimitsAssumption DEF Enter
<1>4. todo' \subseteq Jobs
  BY <1>1, <1>3, SnapshotFacts
<1>5. Head(a) \notin ForcedStages => \A k \in Jobs : job'[k].track = "none" => ~ Executing(k)'
  BY DEF WorkInv, StageOK, Executing, Exec
<1>6. StageOK'
  <2>1. Head(a) \in DOMAIN Drains => \A j \in todo' : job'[j].track = Drains[Head(a)]
    BY <1>1, <1>3, <1>4, SnapshotFacts
  <2>2. /\ Head(a) \in {"handoff", "converge"} => todo' \subseteq Transfers'
        /\ Head(a) = "converge" => Transfers' \subseteq todo'
        /\ Head(a) = "forceStop" => Tracked' = todo'
    BY <1>1, <1>2, <1>3, SnapshotFacts
  <2>. QED  BY <1>2, <1>3, <1>5, <2>1, <2>2 DEF StageOK
<1>. QED  BY <1>1, <1>3, <1>4, <1>6

(* ... with attempts that ease, if at all.                                  *)
LEMMA EnterStep ==
    ASSUME WorkInv, NEW a, Shaped(a), Enter(a), inside' = FALSE, UNCHANGED <<job, lost>>,
           phase' \in Phases, force' \in BOOLEAN,
           Head(a) \in {"close", "stopped"} => Tracked = {},
           Transfers # {} => Head(a) \in RemuxDrains \cup {"handoff", "converge"},
           Head(a) \notin ForcedStages => Head(agenda) \notin ForcedStages
    PROVE  WorkInv'
<1>1. /\ StageOK' /\ Shaped(agenda)' /\ todo' \subseteq Jobs /\ rows' \in 0..MaxRows
      /\ agenda' \in Seq(Stages) /\ agenda' # <<>> /\ inside' \in BOOLEAN
  BY EnterKeeps
<1>2. AllSound' /\ job' \in [Jobs -> Job] /\ Bounded'
  BY EasedBounded DEF WorkInv, TypeOK, AllSound
<1>. QED  BY <1>1, <1>2 DEF WorkInv, TypeOK

(* The steps between stages keep the invariant.                             *)
LEMMA EntersKeep ==
    ASSUME WorkInv, Advance \/ Wake \/ EndSnapshot \/ AbandonTick \/ StopCheck \/ ForceCheck
    PROVE  WorkInv'
<1>. DEFINE h == Head(agenda)
<1>1. /\ Shaped(agenda) /\ phase \in Phases /\ force \in BOOLEAN /\ inside \in BOOLEAN
      /\ StageOK /\ h \in Stages
  BY DEF WorkInv, TypeOK, Shaped
<1>2. /\ inside => h \in {"snapshot", "forceCheck", "blocked"}
      /\ h = "converge" => Transfers \subseteq todo
      /\ h = "forceStop" => Tracked = todo
      /\ h \in {"close", "stopped"} => Tracked = {}
      /\ Transfers # {} => h \in RemuxDrains \cup {"handoff", "converge"}
  BY <1>1 DEF StageOK
<1>3. CASE Advance
  <2>1. /\ h \in DOMAIN Drains \cup DOMAIN Admits \cup {"handoff", "converge", "forceStop"}
        /\ todo = {} /\ Enter(Following) /\ UNCHANGED <<job, phase, force, inside, lost>>
    BY <1>3 DEF Advance
  <2>2. /\ Shaped(Following)
        /\ h \in RemuxDrains /\ Transfers # {} => Head(Following) = "handoff"
        /\ h = "handoff" => Head(Following) = "converge"
        /\ h = "forceStop" => Head(Following) = "close"
        /\ h \notin {"handoff", "forceStop"} => Head(Following) \in Plain \cup {"handoff"}
    BY <1>1, <2>1, FollowingShaped
  <2>3. inside' = FALSE
    BY <1>1, <1>2, <2>1, StageTables
  <2>4. Head(Following) \in {"close", "stopped"} => Tracked = {}
    BY <1>2, <2>1, <2>2, StageTables DEF Plain
  <2>5. Transfers # {} => Head(Following) \in RemuxDrains \cup {"handoff", "converge"}
    BY <1>2, <2>1, <2>2
  <2>6. Head(Following) \notin ForcedStages => h \notin ForcedStages
    BY <2>1, <2>2, StageTables DEF ForcedStages
  <2>. QED  BY <1>1, <2>1, <2>2, <2>3, <2>4, <2>5, <2>6, EnterStep
<1>4. CASE Wake
  <2>1. h = "sleep" /\ Transfers = {} /\ inside' = FALSE /\ UNCHANGED <<job, force, lost>>
    BY <1>1, <1>2, <1>4 DEF Wake, At, RemuxDrains
  <2>2. h \notin ForcedStages
    BY <2>1 DEF ForcedStages
  <2>3. CASE \E general, rolling \in BOOLEAN : Enter(TickAgenda(general, rolling)) /\ UNCHANGED phase
    <3>1. PICK general \in BOOLEAN, rolling \in BOOLEAN : Enter(TickAgenda(general, rolling))
      BY <2>3
    <3>2. Shaped(TickAgenda(general, rolling)) /\ Head(TickAgenda(general, rolling)) = "finalizerDrain"
      BY TickShaped
    <3>. QED  BY <1>1, <2>1, <2>2, <2>3, <3>1, <3>2, EnterStep
  <2>4. CASE Enter(<<"stopCheck">>) /\ phase' = IF phase = "quiescing" THEN "draining" ELSE phase
    <3>1. Shaped(<<"stopCheck">>) /\ Head(<<"stopCheck">>) = "stopCheck"
      BY ShapedLast DEF Lasts
    <3>2. phase' \in Phases
      BY <1>1, <2>4 DEF Phases
    <3>. QED  BY <1>1, <2>1, <2>2, <2>4, <3>1, <3>2, EnterStep
  <2>. QED  BY <1>4, <2>3, <2>4 DEF Wake
<1>5. CASE EndSnapshot
  <2>1. h = "snapshot" /\ Transfers = {} /\ inside' = FALSE /\ Enter(Tail(agenda)) /\ UNCHANGED <<job, phase, force, lost>>
    BY <1>2, <1>5 DEF EndSnapshot, At, RemuxDrains
  <2>2. Shaped(Tail(agenda)) /\ Head(Tail(agenda)) \in Plain
    BY <1>1, <2>1, ShapedTail DEF Follows, Lasts
  <2>3. Head(Tail(agenda)) \notin {"close", "stopped"} /\ h \notin ForcedStages
    BY <2>1, <2>2, StageTables DEF Plain, ForcedStages
  <2>. QED  BY <1>1, <2>1, <2>2, <2>3, EnterStep
<1>6. CASE AbandonTick
  <2>1. /\ h \in DOMAIN Admits \cup {"sleep"} /\ Enter(<<"snapshot", "sleep">>)
        /\ UNCHANGED <<job, phase, force, inside, lost>>
    BY <1>6 DEF AbandonTick, At
  <2>2. Transfers = {} /\ inside' = FALSE /\ h \notin ForcedStages
    BY <1>1, <1>2, <2>1, StageTables DEF RemuxDrains, ForcedStages
  <2>. QED  BY <1>1, <2>1, <2>2, FixedShaped, EnterStep
<1>7. CASE StopCheck
  <2>. DEFINE a == IF Tracked = {} THEN <<"close">> ELSE StopAgenda
  <2>1. h = "stopCheck" /\ Transfers = {} /\ inside' = FALSE /\ Enter(a) /\ UNCHANGED <<job, phase, force, lost>>
    BY <1>1, <1>2, <1>7 DEF StopCheck, At, RemuxDrains
  <2>2. Shaped(a) /\ (Head(a) \in {"close", "stopped"} => Tracked = {})
    BY FixedShaped, ShapedLast DEF Lasts
  <2>3. h \notin ForcedStages
    BY <2>1 DEF ForcedStages
  <2>. HIDE DEF a
  <2>. QED  BY <1>1, <2>1, <2>2, <2>3, EnterStep
<1>8. CASE ForceCheck
  <2>. DEFINE a == IF force THEN <<"forceStop", "close">> ELSE <<"stopCheck">>
  <2>1. h = "forceCheck" /\ Transfers = {} /\ inside' = FALSE /\ UNCHANGED <<job, force, lost>>
    BY <1>2, <1>8 DEF ForceCheck, At, RemuxDrains
  <2>2. Enter(a) /\ phase' \in Phases
    BY <1>1, <1>8 DEF ForceCheck, Phases
  <2>3. Shaped(a) /\ Head(a) \notin {"close", "stopped"}
    BY FixedShaped, ShapedLast DEF Lasts
  <2>4. h \notin ForcedStages
    BY <2>1 DEF ForcedStages
  <2>. HIDE DEF a
  <2>. QED  BY <1>1, <2>1, <2>2, <2>3, <2>4, EnterStep
<1>. QED  BY <1>3, <1>4, <1>5, <1>6, <1>7, <1>8

(* The loop of a stage visits attempt j, which becomes q.                   *)
LEMMA VisitStage ==
    ASSUME WorkInv, NEW j \in todo, todo' = todo \ {j}, UNCHANGED <<agenda, rows, inside>>,
           NEW q, job'[j] = q, \A k \in Jobs \ {j} : job'[k] = job[k],
           Head(agenda) \in DOMAIN Drains \cup {"handoff", "converge", "forceStop"},
           q.track = "transfer" => \/ Head(agenda) \in RemuxDrains
                                   \/ Head(agenda) = "handoff" /\ job[j].track = "transfer",
           Head(agenda) = "forceStop" => q.track \notin Lanes,
           Head(agenda) # "forceStop" /\ q.track = "none" => ~ Exec(q)
    PROVE  StageOK' /\ Shaped(agenda)' /\ todo' \subseteq Jobs
<1>. DEFINE h == Head(agenda)
<1>1. todo \subseteq Jobs /\ StageOK /\ Shaped(agenda) /\ j \in Jobs
  BY DEF WorkInv, TypeOK
<1>2. /\ Transfers' = IF q.track = "transfer" THEN Transfers \cup {j} ELSE Transfers \ {j}
      /\ Tracked' = IF q.track \in Lanes THEN Tracked \cup {j} ELSE Tracked \ {j}
  BY <1>1 DEF Transfers, Tracked
<1>3. /\ h \in RemuxDrains => h \in DOMAIN Drains
      /\ h \in DOMAIN Drains => h \notin {"handoff", "converge", "forceStop", "close", "stopped"}
      /\ h \notin {"close", "stopped"}
  BY StageTables DEF RemuxDrains
<1>4. h \notin ForcedStages => \A k \in Jobs : job'[k].track = "none" => ~ Executing(k)'
  <2>1. SUFFICES ASSUME h \notin ForcedStages, NEW k \in Jobs, job'[k].track = "none"
                 PROVE  ~ Executing(k)'
    OBVIOUS
  <2>2. CASE k = j
    BY <2>1, <2>2 DEF ForcedStages, Executing, Exec
  <2>3. CASE k # j
    BY <1>1, <2>1, <2>3 DEF StageOK, Executing
  <2>. QED  BY <2>2, <2>3
<1>5. h \in DOMAIN Drains => \A k \in todo' : job'[k].track = Drains[h]
  BY <1>1 DEF StageOK
<1>6. /\ h \in {"handoff", "converge"} => todo' \subseteq Transfers'
      /\ h = "converge" => Transfers' \subseteq todo'
      /\ h = "forceStop" => Tracked' = todo'
      /\ Transfers' # {} => h \in RemuxDrains \cup {"handoff", "converge"}
  BY <1>1, <1>2, <1>3 DEF StageOK
<1>7. /\ inside' => h \in {"snapshot", "forceCheck", "blocked"}
      /\ rows' > 0 => h \in DOMAIN Admits
  BY <1>1 DEF StageOK
<1>8. StageOK'
  BY <1>3, <1>4, <1>5, <1>6, <1>7 DEF StageOK
<1>. QED  BY <1>1, <1>8

(* ... when it eases.                                                       *)
LEMMA VisitStep ==
    ASSUME WorkInv, NEW j \in todo, todo' = todo \ {j}, UNCHANGED <<agenda, rows, phase, force, inside, lost>>,
           NEW q, Eases(job[j], q), job' = [job EXCEPT ![j] = q],
           Head(agenda) \in DOMAIN Drains \cup {"handoff", "converge", "forceStop"},
           q.track = "transfer" => \/ Head(agenda) \in RemuxDrains
                                   \/ Head(agenda) = "handoff" /\ job[j].track = "transfer",
           Head(agenda) = "forceStop" => q.track \notin Lanes,
           Head(agenda) # "forceStop" /\ q.track = "none" => ~ Exec(q)
    PROVE  WorkInv'
<1>1. j \in Jobs
  BY DEF WorkInv, TypeOK
<1>2. /\ job' \in [Jobs -> Job] /\ AllSound' /\ Bounded'
      /\ job'[j] = q /\ \A k \in Jobs \ {j} : job'[k] = job[k]
  BY <1>1, EasedJob
<1>3. StageOK' /\ Shaped(agenda)' /\ todo' \subseteq Jobs
  BY <1>2, VisitStage
<1>. QED  BY <1>2, <1>3 DEF WorkInv, TypeOK

(* Every visit but the admission of a transfer keeps the invariant.         *)
LEMMA VisitsKeep ==
    ASSUME WorkInv, NEW j \in Jobs,
           \/ NotDone(j) \/ DrainLane(j) \/ SettleRemux(j) \/ PersistRemux(j)
           \/ LeaveTransfer(j) \/ Converge(j) \/ ForceStop(j)
    PROVE  WorkInv'
<1>. DEFINE r == job[j]
            h == Head(agenda)
<1>1. job \in [Jobs -> Job] /\ r \in Job /\ Sound(r) /\ StageOK
  BY DEF WorkInv, TypeOK, AllSound
<1>2. j \in todo /\ todo' = todo \ {j} /\ UNCHANGED <<agenda, rows, phase, force, inside, lost>>
  BY DEF NotDone, DrainLane, SettleRemux, PersistRemux, LeaveTransfer, Converge, ForceStop, Visit
<1>3. Eases(r, r)
  BY <1>1 DEF Eases, Lighter
<1>4. r.track # "none" => Eases(r, Idle)
  BY IdleEases
<1>5. CASE NotDone(j) \/ LeaveTransfer(j)
  <2>1. job' = [job EXCEPT ![j] = r]
    BY <1>1, <1>5 DEF NotDone, LeaveTransfer
  <2>2. \/ h \in DOMAIN Drains /\ r.track = Drains[h]
        \/ h = "handoff" /\ r.track = "transfer"
    BY <1>1, <1>2, <1>5 DEF StageOK, NotDone, LeaveTransfer, At, Transfers
  <2>3. h \in DOMAIN Drains => h # "forceStop" /\ h # "handoff" /\ Drains[h] \notin {"transfer", "none"}
    BY StageTables
  <2>. QED  BY <1>2, <1>3, <2>1, <2>2, <2>3, VisitStep
<1>6. CASE DrainLane(j)
  <2>1. h \in {"finalizerDrain", "imageDrain"} /\ r.run = "done"
    BY <1>6 DEF DrainLane
  <2>2. r.track \in {"image", "finalizer"} /\ h \in DOMAIN Drains /\ h # "forceStop"
    BY <1>1, <1>2, <2>1, StageTables DEF StageOK
  <2>. DEFINE b == IF At("imageDrain") THEN "none" ELSE r.beat
  <2>3. job' = [job EXCEPT ![j] = Tidy([Untracked(r) EXCEPT !.beat = b])]
    BY <1>1, <1>6 DEF DrainLane
  <2>4. b \in {r.beat, "none"}
    OBVIOUS
  <2>. HIDE DEF b
  <2>5. job' = [job EXCEPT ![j] = Idle]
    BY <1>1, <2>1, <2>2, <2>3, <2>4, DrainedIdle
  <2>. QED  BY <1>2, <1>4, <2>2, <2>5, IdleEases, VisitStep
<1>7. CASE SettleRemux(j) \/ PersistRemux(j)
  <2>1. h \in RemuxDrains /\ r.run = "done"
    BY <1>7 DEF SettleRemux, PersistRemux, RemuxDone
  <2>2. r.track = "remux" /\ h \in DOMAIN Drains /\ h # "forceStop"
    BY <1>1, <1>2, <2>1, StageTables DEF StageOK, RemuxDrains
  <2>3. CASE SettleRemux(j)
    <3>1. job' = [job EXCEPT ![j] = Idle]
      BY <1>1, <2>1, <2>2, <2>3, SettledIdle DEF SettleRemux
    <3>. QED  BY <1>2, <1>4, <2>2, <3>1, IdleEases, VisitStep
  <2>4. CASE PersistRemux(j)
    <3>. DEFINE q == [r EXCEPT !.track = "transfer", !.run = "none", !.slot = FALSE]
    <3>1. job' = [job EXCEPT ![j] = q]
      BY <1>1, <2>4 DEF PersistRemux
    <3>2. Eases(r, q) /\ q.track = "transfer"
      BY <1>1, <2>1, <2>2, PersistedEases DEF Job
    <3>. HIDE DEF q
    <3>. QED  BY <1>2, <2>1, <2>2, <3>1, <3>2, VisitStep
  <2>. QED  BY <1>7, <2>3, <2>4
<1>8. CASE Converge(j)
  <2>1. h = "converge" /\ r.track = "transfer"
    BY <1>1, <1>2, <1>8 DEF Converge, At, StageOK, Transfers
  <2>2. job' = [job EXCEPT ![j] = Idle]
    BY <1>1, <1>8, <2>1, ConvergedIdle DEF Converge
  <2>. QED  BY <1>2, <1>4, <2>1, <2>2, IdleEases, VisitStep
<1>9. CASE ForceStop(j)
  <2>1. h = "forceStop" /\ job' = [job EXCEPT ![j] = ForceStopped(r)] /\ r.track \in Lanes
    BY <1>1, <1>2, <1>9 DEF ForceStop, At, StageOK, Tracked
  <2>2. Eases(r, ForceStopped(r)) /\ ForceStopped(r).track = "none"
    BY <1>1, <2>1, ForceStoppedEases
  <2>. QED  BY <1>2, <2>1, <2>2, VisitStep DEF Lanes
<1>. QED  BY <1>5, <1>6, <1>7, <1>8, <1>9

-----------------------------------------------------------------------------
(* Admission                                                                *)

(* While the scheduler thread still admits, whatever executes holds its     *)
(* permit and its slot, so that the counters count the work.                *)
LEMMA CountersCount ==
    ASSUME WorkInv, Head(agenda) \notin ForcedStages
    PROVE  /\ Loaded = {j \in Jobs : job[j].permit # "none"}
           /\ \A s \in Sources : SourceLoaded(s) = {j \in Jobs : job[j].slot /\ job[j].source = s}
<1>1. \A j \in Jobs : Executing(j) => job[j].permit # "none" /\ job[j].slot
  <2>1. SUFFICES ASSUME NEW j \in Jobs, Executing(j) PROVE job[j].permit # "none" /\ job[j].slot
    OBVIOUS
  <2>2. job[j] \in Job /\ Sound(job[j]) /\ job[j].track # "none"
    BY <2>1 DEF WorkInv, TypeOK, AllSound, StageOK
  <2>3. job[j].track # "transfer"
    BY <2>1, <2>2 DEF Sound, Executing
  <2>4. job[j].track \in Lanes
    BY <2>2, <2>3 DEF Job
  <2>. QED  BY <2>1, <2>2, <2>4 DEF Sound, Executing, Lanes
<1>. QED  BY <1>1 DEF Loaded, SourceLoaded

(* A new attempt is sound.                                                  *)
LEMMA AttemptSound ==
    ASSUME NEW lane \in Lanes, NEW s \in Sources \cup {NoSource}, NEW b \in {"none", "healthy", "lost"}
    PROVE  /\ Attempt(lane, s, b) \in Job /\ Sound(Attempt(lane, s, b))
           /\ Attempt(lane, s, b).track = lane /\ Attempt(lane, s, b).permit = lane
           /\ Attempt(lane, s, b).ticket = lane /\ Attempt(lane, s, b).source = s
<1>1. Attempt(lane, s, b) \in Job
  BY DEF Attempt, Job
<1>2. Sound(Attempt(lane, s, b))
  BY DEF Attempt, Sound, Lanes
<1>. QED  BY <1>1, <1>2 DEF Attempt

(* Submit adds one attempt where the counters leave room.                   *)
LEMMA SubmitKeeps ==
    ASSUME WorkInv, NEW lane \in Lanes, Submit(lane)
    PROVE  WorkInv'
<1>. DEFINE b == IF lane = "finalizer" THEN "none" ELSE "healthy"
<1>1. PICK s \in Sources, j \in Jobs :
         CanTakeSlot(s) /\ job[j] = Idle /\ job' = [job EXCEPT ![j] = Attempt(lane, s, b)]
  BY DEF Submit
<1>2. /\ Head(agenda) \in DOMAIN Admits /\ rows > 0 /\ rows' = rows - 1 /\ CanTakePermit(lane)
      /\ UNCHANGED <<agenda, todo, phase, force, inside, lost>>
  BY DEF Submit
<1>3. Head(agenda) \notin ForcedStages \cup DOMAIN Drains \cup RemuxDrains \cup {"handoff", "converge"}
  BY <1>2, StageTables DEF ForcedStages, RemuxDrains
<1>. DEFINE q == Attempt(lane, s, b)
<1>4. q \in Job /\ Sound(q) /\ q.track = lane /\ q.permit = lane /\ q.ticket = lane /\ q.source = s
  BY AttemptSound
<1>. HIDE DEF q, b
<1>5. job \in [Jobs -> Job] /\ AllSound /\ Bounded /\ StageOK /\ rows \in 0..MaxRows
  BY DEF WorkInv, TypeOK
<1>6. job'[j] = q /\ (\A k \in Jobs \ {j} : job'[k] = job[k]) /\ job' \in [Jobs -> Job]
  BY <1>1, <1>4, <1>5 DEF q
<1>7. AllSound'
  <2>1. j \notin lost /\ Kept(q)
    BY <1>1, <1>4, <1>5 DEF AllSound, Leaked, Idle, Kept, Lanes
  <2>. QED  BY <1>2, <1>4, <1>5, <1>6, <2>1 DEF AllSound
<1>8. Bounded'
  <2>1. /\ Loaded = {k \in Jobs : job[k].permit # "none"}
        /\ SourceLoaded(s) = {k \in Jobs : job[k].slot /\ job[k].source = s}
    BY <1>3, CountersCount
  <2>2. Loaded \subseteq Jobs /\ ImageLoaded \subseteq Loaded /\ \A t \in Sources : SourceLoaded(t) \subseteq Jobs
    BY DEF Loaded, ImageLoaded, SourceLoaded
  <2>3. Cardinality(Loaded) < IF lane = "image" THEN MaxActive - Reserve ELSE MaxActive
    BY <1>2, <2>1 DEF CanTakePermit
  <2>4. Cardinality(SourceLoaded(s)) < SourceLimit
    BY <1>1, <2>1 DEF CanTakeSlot
  <2>5. /\ Loaded' \subseteq Loaded \cup {j}
        /\ ImageLoaded' \subseteq ImageLoaded \cup {j}
        /\ lane # "image" => ImageLoaded' \subseteq ImageLoaded
        /\ \A t \in Sources : SourceLoaded(t)' \subseteq SourceLoaded(t) \cup {j}
        /\ \A t \in Sources \ {s} : SourceLoaded(t)' \subseteq SourceLoaded(t)
    <3>1. Loaded' \subseteq Loaded \cup {j} /\ ImageLoaded' \subseteq ImageLoaded \cup {j}
      BY <1>6 DEF Loaded, ImageLoaded, Executing
    <3>2. lane # "image" => ImageLoaded' \subseteq ImageLoaded
      BY <1>4, <1>6 DEF ImageLoaded, Executing
    <3>3. \A t \in Sources : SourceLoaded(t)' \subseteq SourceLoaded(t) \cup {j}
      BY <1>6 DEF SourceLoaded, Executing
    <3>4. \A t \in Sources \ {s} : SourceLoaded(t)' \subseteq SourceLoaded(t)
      BY <1>4, <1>6 DEF SourceLoaded, Executing
    <3>. QED  BY <3>1, <3>2, <3>3, <3>4
  <2>6. Cardinality(Loaded') <= MaxActive
    <3>1. Cardinality(Loaded) \in Nat /\ Cardinality(Loaded) < MaxActive
      <4>1. MaxActive - Reserve <= MaxActive
        BY LimitsAssumption DEF Reserve
      <4>2. Cardinality(Loaded) \in Nat
        BY <2>2, JobSets
      <4>. QED  BY <2>3, <4>1, <4>2, LimitFacts
    <3>. QED  BY <2>2, <2>5, <3>1, LimitFacts, SetGrows
  <2>7. Cardinality(ImageLoaded') <= MaxActive - Reserve
    <3>1. CASE lane = "image"
      <4>1. Cardinality(ImageLoaded) <= Cardinality(Loaded) /\ Cardinality(ImageLoaded) \in Nat
            /\ Cardinality(Loaded) \in Nat
        BY <2>2, JobSets, FS_Subset
      <4>2. Cardinality(ImageLoaded) < MaxActive - Reserve
        BY <2>3, <3>1, <4>1, LimitFacts
      <4>. QED  BY <2>2, <2>5, <4>2, LimitFacts, SetGrows
    <3>2. CASE lane # "image"
      BY <1>5, <2>2, <2>5, <3>2, LimitFacts, SetShrinks DEF Bounded
    <3>. QED  BY <3>1, <3>2
  <2>8. \A t \in Sources : Cardinality(SourceLoaded(t)') <= SourceLimit
    <3>1. SUFFICES ASSUME NEW t \in Sources PROVE Cardinality(SourceLoaded(t)') <= SourceLimit
      OBVIOUS
    <3>2. CASE t = s
      BY <2>2, <2>4, <2>5, <3>2, LimitFacts, SetGrows
    <3>3. CASE t # s
      BY <1>5, <2>2, <2>5, <3>3, LimitFacts, SetShrinks DEF Bounded
    <3>. QED  BY <3>2, <3>3
  <2>. QED  BY <2>6, <2>7, <2>8 DEF Bounded, Reserve
<1>9. StageOK' /\ Shaped(agenda)'
  <2>1. Transfers = {} /\ Transfers' = {}
    <3>1. Transfers = {}
      BY <1>3, <1>5 DEF StageOK
    <3>. QED  BY <1>4, <1>6, <3>1 DEF Transfers, Lanes
  <2>2. \A k \in Jobs : job'[k].track = "none" => ~ Executing(k)'
    BY <1>3, <1>4, <1>5, <1>6 DEF StageOK, Executing, Lanes
  <2>3. inside' => Head(agenda) \in {"snapshot", "forceCheck", "blocked"}
    BY <1>2, <1>5 DEF StageOK
  <2>. QED  BY <1>2, <1>3, <2>1, <2>2, <2>3 DEF StageOK, WorkInv, ForcedStages
<1>10. TypeOK'
  <2>1. rows' \in 0..MaxRows
    BY <1>2, <1>5, LimitsAssumption
  <2>. QED  BY <1>2, <1>6, <2>1 DEF WorkInv, TypeOK
<1>. QED  BY <1>7, <1>8, <1>9, <1>10 DEF WorkInv

(* A transferred handoff takes a slot and keeps its permit.                 *)
LEMMA AdmitTransferKeeps ==
    ASSUME WorkInv, NEW j \in Jobs, AdmitTransfer(j)
    PROVE  WorkInv'
<1>. DEFINE r == job[j]
            q == Attempt("finalizer", r.source, r.beat)
<1>1. /\ Head(agenda) = "handoff" /\ j \in todo /\ todo' = todo \ {j} /\ CanTakeSlot(r.source)
      /\ UNCHANGED <<agenda, rows, phase, force, inside, lost>>
  BY DEF AdmitTransfer, At, Visit
<1>2. job \in [Jobs -> Job] /\ r \in Job /\ Sound(r) /\ AllSound /\ Bounded /\ StageOK
  BY DEF WorkInv, TypeOK, AllSound
<1>3. r.track = "transfer" /\ r.permit # "none" /\ r.run = "none" /\ r.slot = FALSE
  BY <1>1, <1>2 DEF StageOK, Transfers, Sound, Job
<1>4. /\ q \in Job /\ Sound(q) /\ q.track = "finalizer" /\ q.permit = "finalizer"
      /\ q.ticket = "finalizer" /\ q.source = r.source
  BY <1>2, AttemptSound DEF Job, Lanes
<1>5. job' = [job EXCEPT ![j] = q]
  BY <1>2 DEF AdmitTransfer
<1>. HIDE DEF q
<1>6. job'[j] = q /\ (\A k \in Jobs \ {j} : job'[k] = job[k]) /\ job' \in [Jobs -> Job]
  BY <1>2, <1>4, <1>5
<1>7. AllSound'
  <2>1. j \notin lost /\ Kept(q)
    BY <1>2, <1>3, <1>4 DEF AllSound, Leaked, Kept
  <2>. QED  BY <1>1, <1>2, <1>4, <1>6, <2>1 DEF AllSound
<1>8. Bounded'
  <2>1. Head(agenda) \notin ForcedStages
    BY <1>1 DEF ForcedStages
  <2>2. Loaded' \subseteq Loaded /\ Loaded \subseteq Jobs
    BY <1>3, <1>6 DEF Loaded, Executing
  <2>3. ImageLoaded' \subseteq ImageLoaded /\ ImageLoaded \subseteq Jobs
    BY <1>4, <1>6 DEF ImageLoaded, Executing
  <2>4. \A t \in Sources : /\ SourceLoaded(t) \subseteq Jobs
                           /\ SourceLoaded(t)' \subseteq SourceLoaded(t) \cup {j}
                           /\ t # r.source => SourceLoaded(t)' \subseteq SourceLoaded(t)
    BY <1>4, <1>6 DEF SourceLoaded, Executing
  <2>5. Cardinality(Loaded') <= MaxActive
    BY <1>2, <2>2, LimitFacts, SetShrinks DEF Bounded
  <2>6. Cardinality(ImageLoaded') <= MaxActive - Reserve
    BY <1>2, <2>3, LimitFacts, SetShrinks DEF Bounded
  <2>7. \A t \in Sources : Cardinality(SourceLoaded(t)') <= SourceLimit
    <3>1. SUFFICES ASSUME NEW t \in Sources PROVE Cardinality(SourceLoaded(t)') <= SourceLimit
      OBVIOUS
    <3>2. CASE t = r.source
      <4>1. Cardinality(SourceLoaded(t)) < SourceLimit
        BY <1>1, <2>1, <3>2, CountersCount DEF CanTakeSlot
      <4>. QED  BY <2>4, <4>1, LimitFacts, SetGrows
    <3>3. CASE t # r.source
      BY <1>2, <2>4, <3>3, LimitFacts, SetShrinks DEF Bounded
    <3>. QED  BY <3>2, <3>3
  <2>. QED  BY <2>5, <2>6, <2>7 DEF Bounded, Reserve
<1>9. StageOK' /\ Shaped(agenda)' /\ todo' \subseteq Jobs
  BY <1>1, <1>4, <1>6, VisitStage
<1>. QED  BY <1>1, <1>6, <1>7, <1>8, <1>9 DEF WorkInv, TypeOK

-----------------------------------------------------------------------------
(* Faults, the end of the process, and steps that move nothing              *)

(* A stage is given up: no transfer is left.                                *)
LEMMA LeaveStage ==
    ASSUME WorkInv, NEW a, Shaped(a), agenda' = a, todo' = {}, rows' = 0, Transfers' = {},
           inside' => Head(a) = "blocked",
           Head(a) \in {"died", "snapshot", "blocked"},
           \A k \in Jobs : job'[k].track = "none" => ~ Executing(k)'
    PROVE  /\ StageOK' /\ Shaped(agenda)' /\ todo' \subseteq Jobs /\ rows' \in 0..MaxRows
           /\ agenda' \in Seq(Stages) /\ agenda' # <<>>
<1>1. Head(a) \notin DOMAIN Drains \cup RemuxDrains \cup ForcedStages \cup {"handoff", "converge"}
  BY StageTables DEF RemuxDrains, ForcedStages
<1>2. StageOK'
  BY <1>1 DEF StageOK, ForcedStages
<1>. QED  BY <1>2, LimitsAssumption DEF Shaped

(* The statements of a completion that fail.                                *)
LEMMA FaultsKeep ==
    ASSUME WorkInv, NEW j \in Jobs, DrainFinalizerFault(j) \/ SettleRemuxFault(j)
    PROVE  WorkInv'
<1>. DEFINE h == Head(agenda)
<1>1. /\ job \in [Jobs -> Job] /\ AllSound /\ StageOK /\ rows \in 0..MaxRows /\ inside \in BOOLEAN
      /\ \A k \in Jobs : job[k] \in Job /\ Sound(job[k])
  BY DEF WorkInv, TypeOK, AllSound
<1>2. /\ j \in todo /\ job[j].run = "done" /\ agenda' = Aborted /\ todo' = {}
      /\ UNCHANGED <<rows, phase, force, inside>>
      /\ h \in RemuxDrains \cup {"finalizerDrain"}
  BY DEF DrainFinalizerFault, SettleRemuxFault, RemuxDone, At
<1>3. /\ h \in DOMAIN Drains /\ h \notin DOMAIN Admits /\ h \notin ForcedStages
      /\ h \notin {"snapshot", "forceCheck", "blocked"}
  BY <1>2, StageTables DEF RemuxDrains, ForcedStages
<1>4. rows' = 0 /\ inside' = FALSE
  BY <1>1, <1>2, <1>3, LimitsAssumption DEF StageOK
<1>5. Shaped(Aborted) /\ Head(Aborted) \in {"died", "snapshot", "blocked"}
  BY FixedShaped
<1>6. \A k \in Jobs : job[k].track = "none" => ~ Exec(job[k])
  BY <1>1, <1>3 DEF StageOK, Executing, Exec
<1>7. CASE DrainFinalizerFault(j)
  <2>1. h = "finalizerDrain" /\ job[j].track = "finalizer"
    BY <1>1, <1>2, <1>7, StageTables DEF DrainFinalizerFault, At, StageOK
  <2>2. job' = [job EXCEPT ![j] = Idle]
    BY <1>1, <1>2, <1>7, <2>1, FaultedIdle DEF DrainFinalizerFault
  <2>3. Eases(job[j], Idle) /\ UNCHANGED lost
    BY <1>7, <2>1, IdleEases DEF DrainFinalizerFault
  <2>4. /\ job' \in [Jobs -> Job] /\ AllSound' /\ Bounded'
        /\ job'[j] = Idle /\ \A k \in Jobs \ {j} : job'[k] = job[k]
    BY <2>2, <2>3, EasedJob
  <2>5. Transfers' = {}
    <3>1. Transfers = {}
      BY <1>1, <2>1 DEF StageOK, RemuxDrains
    <3>. QED  BY <2>4, <3>1, IdleEases DEF Transfers
  <2>6. \A k \in Jobs : job'[k].track = "none" => ~ Executing(k)'
    BY <1>6, <2>4, IdleEases DEF Executing, Exec
  <2>7. /\ StageOK' /\ Shaped(agenda)' /\ todo' \subseteq Jobs /\ rows' \in 0..MaxRows
        /\ agenda' \in Seq(Stages) /\ agenda' # <<>>
    BY <1>2, <1>4, <1>5, <2>5, <2>6, LeaveStage
  <2>8. lost' \subseteq Jobs
    BY <2>3 DEF WorkInv, TypeOK
  <2>. QED  BY <1>2, <2>4, <2>7, <2>8 DEF WorkInv, TypeOK
<1>8. CASE SettleRemuxFault(j)
  <2>1. h \in RemuxDrains
    BY <1>8 DEF SettleRemuxFault, RemuxDone
  <2>2. job[j].track = "remux"
    BY <1>1, <1>2, <1>3, <2>1, StageTables DEF StageOK, RemuxDrains
  <2>3. Settled(job[j]) = Idle
    BY <1>1, <1>2, <2>2, SettledIdle
  <2>4. \A k \in Jobs :
          job'[k] = IF k = j THEN Idle
                    ELSE IF k \in Transfers THEN Tidy(Untracked(job[k])) ELSE job[k]
    BY <1>8, <2>3 DEF SettleRemuxFault
  <2>5. DOMAIN job' = Jobs /\ job' = [k \in Jobs |-> job'[k]]
    BY <1>8 DEF SettleRemuxFault
  <2>6. \A k \in Transfers :
          /\ Tidy(Untracked(job[k])) \in Job /\ Sound(Tidy(Untracked(job[k])))
          /\ Lighter(job[k], Tidy(Untracked(job[k]))) /\ Leaked(Tidy(Untracked(job[k])))
    BY <1>1, LostLeaks DEF Transfers
  <2>7. Eases(job[j], Idle) /\ j \notin Transfers /\ j \notin lost
    BY <1>1, <2>2, IdleEases DEF Transfers, AllSound, Leaked
  <2>8. lost' = lost \cup Transfers /\ Transfers \subseteq Jobs /\ lost \subseteq Jobs
    BY <1>8 DEF SettleRemuxFault, Transfers, WorkInv, TypeOK
  <2>9. \A k \in Jobs : job'[k] \in Job /\ Sound(job'[k])
    BY <1>1, <2>4, <2>6, IdleEases
  <2>10. \A k \in Jobs : (k \in lost' => Leaked(job'[k])) /\ (k \notin lost' => Kept(job'[k]))
    BY <1>1, <2>4, <2>6, <2>7, <2>8, IdleEases DEF AllSound
  <2>11. \A k \in Jobs : job'[k] = job[k] \/ Lighter(job[k], job'[k])
    BY <2>4, <2>6, IdleEases
  <2>12. job' \in [Jobs -> Job] /\ AllSound' /\ Bounded' /\ lost' \subseteq Jobs
    BY <2>5, <2>8, <2>9, <2>10, <2>11, EasedBounded DEF AllSound, WorkInv
  <2>13. \A k \in Jobs : \/ job'[k] = job[k] /\ k \notin Transfers
                         \/ job'[k].track = "none" /\ ~ Exec(job'[k])
    BY <2>4, <2>6, IdleEases DEF Leaked, Exec
  <2>14. Transfers' = {}
    BY <2>13 DEF Transfers
  <2>15. \A k \in Jobs : job'[k].track = "none" => ~ Executing(k)'
    BY <1>6, <2>13 DEF Executing, Exec
  <2>16. /\ StageOK' /\ Shaped(agenda)' /\ todo' \subseteq Jobs /\ rows' \in 0..MaxRows
         /\ agenda' \in Seq(Stages) /\ agenda' # <<>>
    BY <1>2, <1>4, <1>5, <2>14, <2>15, LeaveStage
  <2>. QED  BY <1>2, <2>12, <2>16 DEF WorkInv, TypeOK
<1>. QED  BY <1>7, <1>8

(* MaterializationResources.close                                           *)
LEMMA CloseKeeps ==
    ASSUME WorkInv, Close
    PROVE  WorkInv'
<1>1. job \in [Jobs -> Job] /\ lost \subseteq Jobs /\ AllSound /\ StageOK /\ inside \in BOOLEAN /\ force \in BOOLEAN
  BY DEF WorkInv, TypeOK
<1>2. /\ Head(agenda) = "close" /\ phase' = "stopped" /\ Enter(<<"stopped">>) /\ UNCHANGED <<force, inside, lost>>
      /\ job' = [j \in Jobs |-> Tidy([job[j] EXCEPT !.beat = "none"])]
  BY DEF Close, At
<1>3. \A k \in Jobs : Eases(job[k], job'[k]) /\ job'[k].track = job[k].track /\ job'[k].run = job[k].run
  BY <1>1, <1>2, ClosedEases DEF AllSound
<1>4. job' \in [Jobs -> Job] /\ AllSound' /\ Bounded'
  BY <1>2, <1>3, EasedJobs
<1>5. Shaped(<<"stopped">>) /\ Head(<<"stopped">>) = "stopped"
  BY ShapedLast DEF Lasts
<1>6. Tracked = {} /\ Transfers = {} /\ inside' = FALSE
  BY <1>1, <1>2 DEF StageOK, RemuxDrains
<1>7. \A k \in Jobs : /\ job'[k].track = job[k].track
                      /\ job[k].track = "none" /\ Exec(job'[k]) => Exec(job[k])
  BY <1>3 DEF Exec
<1>8. /\ StageOK' /\ Shaped(agenda)' /\ todo' \subseteq Jobs /\ rows' \in 0..MaxRows
      /\ agenda' \in Seq(Stages) /\ agenda' # <<>> /\ inside' \in BOOLEAN
  BY <1>2, <1>5, <1>6, <1>7, EnterKeeps DEF ForcedStages
<1>9. phase' \in Phases /\ force' \in BOOLEAN /\ lost' \subseteq Jobs
  BY <1>1, <1>2 DEF Phases
<1>. QED  BY <1>4, <1>8, <1>9 DEF WorkInv, TypeOK

(* Steps that leave every attempt alone.                                    *)
LEMMA QuietKeeps ==
    ASSUME WorkInv,
           \/ TakeControllerLock \/ SkipRow \/ StopAdmitting \/ StopTransfers
           \/ Signal \/ SignalInside \/ GraceExpires \/ UNCHANGED vars
    PROVE  WorkInv'
<1>. DEFINE h == Head(agenda)
<1>1. /\ job \in [Jobs -> Job] /\ lost \subseteq Jobs /\ AllSound /\ StageOK /\ rows \in 0..MaxRows /\ inside \in BOOLEAN
      /\ todo \subseteq Jobs /\ Shaped(agenda) /\ agenda \in Seq(Stages) /\ agenda # <<>> /\ Bounded
      /\ phase \in Phases /\ force \in BOOLEAN /\ h \in Stages
  BY DEF WorkInv, TypeOK, Shaped
<1>2. UNCHANGED <<job, lost>>
  BY DEF TakeControllerLock, SkipRow, StopAdmitting, StopTransfers, Signal, SignalInside, GraceExpires, vars
<1>3. AllSound' /\ Bounded' /\ job' \in [Jobs -> Job] /\ lost' \subseteq Jobs /\ Transfers' = Transfers
      /\ Tracked' = Tracked /\ (\A k \in Jobs : Executing(k)' = Executing(k))
  BY <1>1, <1>2, EasedBounded DEF AllSound, Transfers, Tracked, Executing
<1>4. CASE TakeControllerLock
  <2>1. UNCHANGED <<agenda, todo, rows, phase, force>> /\ inside' = TRUE /\ h \in {"snapshot", "forceCheck"}
    BY <1>4 DEF TakeControllerLock, At
  <2>2. StageOK'
    BY <1>1, <1>2, <1>3, <2>1 DEF StageOK
  <2>. QED  BY <1>1, <1>3, <2>1, <2>2 DEF WorkInv, TypeOK
<1>5. CASE SkipRow \/ StopAdmitting
  <2>1. UNCHANGED <<agenda, todo, phase, force, inside, lost>> /\ rows > 0 /\ rows' \in 0..MaxRows
    BY <1>1, <1>5, LimitsAssumption DEF SkipRow, StopAdmitting
  <2>2. StageOK'
    BY <1>1, <1>2, <1>3, <2>1 DEF StageOK
  <2>. QED  BY <1>1, <1>3, <2>1, <2>2 DEF WorkInv, TypeOK
<1>6. CASE StopTransfers
  <2>1. /\ UNCHANGED <<rows, phase, force, inside>> /\ todo' = {} /\ h = "handoff"
        /\ agenda' = agenda \/ agenda' = <<"handoff", "converge", "snapshot", "sleep">>
    BY <1>6 DEF StopTransfers, At
  <2>2. Shaped(agenda)' /\ Head(agenda') = "handoff"
    BY <1>1, <2>1, FixedShaped
  <2>3. agenda' \in Seq(Stages) /\ agenda' # <<>>
    BY <2>2 DEF Shaped
  <2>4. "handoff" \notin DOMAIN Drains \cup DOMAIN Admits
    BY StageTables
  <2>5. StageOK'
    BY <1>1, <1>2, <1>3, <2>1, <2>2, <2>4 DEF StageOK, ForcedStages
  <2>. QED  BY <1>1, <1>3, <2>1, <2>2, <2>3, <2>5 DEF WorkInv, TypeOK
<1>7. CASE Signal \/ GraceExpires
  <2>1. UNCHANGED <<agenda, todo, rows, inside>> /\ phase' \in Phases
    BY <1>7 DEF Signal, GraceExpires, Phases
  <2>2. force' \in BOOLEAN
    <3>1. force' = force \/ force' = TRUE
      BY <1>7 DEF Signal, GraceExpires
    <3>. QED  BY <1>1, <3>1
  <2>3. StageOK' /\ Shaped(agenda)'
    BY <1>1, <1>2, <2>1, RestingStage
  <2>. QED  BY <1>1, <1>3, <2>1, <2>2, <2>3 DEF WorkInv, TypeOK
<1>8. CASE SignalInside
  <2>1. /\ agenda' = <<"blocked">> /\ todo' = {} /\ inside = TRUE /\ UNCHANGED <<rows, phase, force, inside>>
    BY <1>1, <1>8 DEF SignalInside
  <2>2. h \in {"snapshot", "forceCheck", "blocked"}
    BY <1>1, <2>1 DEF StageOK
  <2>3. h \notin DOMAIN Admits \cup ForcedStages \cup RemuxDrains \cup {"handoff", "converge"}
    BY <2>2, StageTables DEF ForcedStages, RemuxDrains
  <2>4. rows' = 0 /\ Transfers' = {}
    BY <1>1, <1>3, <2>1, <2>3, LimitsAssumption DEF StageOK
  <2>5. \A k \in Jobs : job'[k].track = "none" => ~ Executing(k)'
    BY <1>1, <1>2, <1>3, <2>3 DEF StageOK
  <2>6. Shaped(<<"blocked">>) /\ Head(<<"blocked">>) = "blocked"
    BY ShapedLast DEF Lasts
  <2>7. /\ StageOK' /\ Shaped(agenda)' /\ todo' \subseteq Jobs /\ rows' \in 0..MaxRows
        /\ agenda' \in Seq(Stages) /\ agenda' # <<>>
    BY <2>1, <2>4, <2>5, <2>6, LeaveStage
  <2>. QED  BY <1>1, <1>3, <2>1, <2>7 DEF WorkInv, TypeOK
<1>9. CASE UNCHANGED vars
  <2>1. UNCHANGED <<agenda, todo, rows, phase, force, inside, lost>>
    BY <1>9 DEF vars
  <2>2. StageOK' /\ Shaped(agenda)'
    BY <1>1, <1>2, <2>1, RestingStage
  <2>. QED  BY <1>1, <1>3, <2>1, <2>2 DEF WorkInv, TypeOK
<1>. QED  BY <1>4, <1>5, <1>6, <1>7, <1>8, <1>9

-----------------------------------------------------------------------------
(* Theorems                                                                 *)

(* The process starts with no attempt and asleep.                           *)
LEMMA WorkInvInit == Init => WorkInv
<1>1. SUFFICES ASSUME Init PROVE WorkInv
  OBVIOUS
<1>2. Shaped(<<"sleep">>) /\ Head(<<"sleep">>) = "sleep"
  BY ShapedLast DEF Lasts
<1>3. /\ agenda = <<"sleep">> /\ todo = {} /\ rows = 0 /\ phase = "running" /\ force = FALSE /\ inside = FALSE
      /\ lost = {} /\ job \in [Jobs -> Job] /\ \A j \in Jobs : job[j] = Idle
  BY <1>1, IdleEases DEF Init
<1>4. Transfers = {} /\ Tracked = {} /\ \A j \in Jobs : ~ Executing(j)
  BY <1>3, IdleEases DEF Transfers, Tracked, Executing, Exec, Lanes
<1>5. AllSound
  BY <1>3, IdleEases DEF AllSound
<1>6. Bounded
  <2>1. Loaded = {} /\ ImageLoaded = {} /\ \A s \in Sources : SourceLoaded(s) = {}
    BY <1>3, <1>4 DEF Loaded, ImageLoaded, SourceLoaded, Idle
  <2>2. Cardinality({}) = 0
    BY FS_EmptySet
  <2>3. 0 <= MaxActive /\ 0 <= MaxActive - Reserve /\ 0 <= SourceLimit
    BY LimitFacts
  <2>4. Cardinality(Loaded) <= MaxActive /\ Cardinality(ImageLoaded) <= MaxActive - Reserve
    BY <2>1, <2>2, <2>3
  <2>5. \A s \in Sources : Cardinality(SourceLoaded(s)) <= SourceLimit
    BY <2>1, <2>2, <2>3
  <2>. QED  BY <2>4, <2>5 DEF Bounded
<1>7. StageOK
  <2>1. "sleep" \notin DOMAIN Drains \cup DOMAIN Admits
    BY StageTables
  <2>. QED  BY <1>2, <1>3, <1>4, <2>1 DEF StageOK
<1>8. TypeOK
  <2>1. agenda \in Seq(Stages) /\ agenda # <<>>
    BY <1>2, <1>3 DEF Shaped
  <2>2. rows \in 0..MaxRows /\ phase \in Phases
    BY <1>3, LimitsAssumption DEF Phases
  <2>. QED  BY <1>3, <2>1, <2>2 DEF TypeOK
<1>. QED  BY <1>2, <1>3, <1>5, <1>6, <1>7, <1>8 DEF WorkInv

(* Every step keeps the invariant.                                          *)
LEMMA WorkInvStep ==
    ASSUME WorkInv, [Next]_vars
    PROVE  WorkInv'
<1>1. CASE UNCHANGED vars
  BY <1>1, QuietKeeps
<1>2. CASE Scheduler
  <2>1. CASE Advance \/ Wake \/ EndSnapshot \/ AbandonTick \/ StopCheck \/ ForceCheck
    BY <2>1, EntersKeep
  <2>2. CASE TakeControllerLock \/ SkipRow \/ StopAdmitting \/ StopTransfers
    BY <2>2, QuietKeeps
  <2>3. CASE Close
    BY <2>3, CloseKeeps
  <2>4. CASE \E lane \in Lanes : Submit(lane)
    BY <2>4, SubmitKeeps
  <2>5. ASSUME NEW j \in Jobs, \/ NotDone(j) \/ DrainLane(j) \/ SettleRemux(j) \/ PersistRemux(j)
                               \/ LeaveTransfer(j) \/ Converge(j) \/ ForceStop(j)
        PROVE  WorkInv'
    BY <2>5, VisitsKeep
  <2>6. ASSUME NEW j \in Jobs, DrainFinalizerFault(j) \/ SettleRemuxFault(j) PROVE WorkInv'
    BY <2>6, FaultsKeep
  <2>7. ASSUME NEW j \in Jobs, AdmitTransfer(j) PROVE WorkInv'
    BY <2>7, AdmitTransferKeeps
  <2>. QED  BY <1>2, <2>1, <2>2, <2>3, <2>4, <2>5, <2>6, <2>7 DEF Scheduler
<1>3. ASSUME NEW j \in Jobs, Start(j) \/ FinalizerClaims(j) \/ Finish(j) \/ HeartbeatLost(j) PROVE WorkInv'
  BY <1>3, ThreadsKeep
<1>4. CASE Signal \/ SignalInside \/ GraceExpires
  BY <1>4, QuietKeeps
<1>. QED  BY <1>1, <1>2, <1>3, <1>4 DEF Next

(* WorkInv is an inductive invariant of the media-worker process.           *)
LEMMA WorkInvariant == Spec => []WorkInv
<1>1. WorkInv /\ [Next]_vars => WorkInv'
  BY WorkInvStep
<1>. QED  BY <1>1, WorkInvInit, PTL DEF Spec

(* Attempts, stages and the shutdown state keep their types; in particular  *)
(* the scheduler thread never runs out of stages.                           *)
THEOREM TypeCorrect == Spec => []TypeOK
<1>1. WorkInv => TypeOK
  BY DEF WorkInv
<1>. QED  BY <1>1, WorkInvariant, PTL

(* The limits of MaterializationResources bound the work itself, also when  *)
(* completion statements fail and signals interrupt the controller.         *)
THEOREM WithinLimitsHolds == Spec => []WithinLimits
<1>1. WorkInv => WithinLimits
  <2>1. SUFFICES ASSUME WorkInv PROVE WithinLimits
    OBVIOUS
  <2>2. Bounded
    BY <2>1 DEF WorkInv
  <2>3. Cardinality({j \in Jobs : Executing(j) /\ TRUE}) <= MaxActive
    <3>1. {j \in Jobs : Executing(j) /\ TRUE} \subseteq Loaded /\ Loaded \subseteq Jobs
      BY DEF Loaded
    <3>. QED  BY <2>2, <3>1, LimitFacts, SetShrinks DEF Bounded
  <2>4. Cardinality({j \in Jobs : Executing(j) /\ job[j].ticket = "image"}) <= MaxActive - Reserve
    <3>1. {j \in Jobs : Executing(j) /\ job[j].ticket = "image"} \subseteq ImageLoaded /\ ImageLoaded \subseteq Jobs
      BY DEF ImageLoaded
    <3>. QED  BY <2>2, <3>1, LimitFacts, SetShrinks DEF Bounded
  <2>5. ASSUME NEW s \in Sources
        PROVE  Cardinality({j \in Jobs : Executing(j) /\ job[j].source = s}) <= SourceLimit
    <3>1. {j \in Jobs : Executing(j) /\ job[j].source = s} \subseteq SourceLoaded(s) /\ SourceLoaded(s) \subseteq Jobs
      BY DEF SourceLoaded
    <3>. QED  BY <2>2, <3>1, LimitFacts, SetShrinks DEF Bounded
  <2>. QED  BY <2>3, <2>4, <2>5 DEF WithinLimits
<1>. QED  BY <1>1, WorkInvariant, PTL

(* Nothing an attempt holds is without an owner that gives it back, also    *)
(* when statements that settle an attempt fail, but for the permits of the  *)
(* handoffs such a failure has lost.                                        *)
THEOREM NoOrphanHolds == Spec => []NoOrphan
<1>1. WorkInv => NoOrphan
  <2>1. SUFFICES ASSUME WorkInv, NEW j \in Jobs
                 PROVE  /\ Holds(j) /\ ~ Owned(j) <=> j \in lost
                        /\ j \in lost => ~ job[j].slot
                        /\ job[j].ticket # "none" => Executing(j)
                        /\ job[j].track = "transfer" =>
                              \/ Head(agenda) \in RemuxDrains
                              \/ \E i \in 1..Len(agenda) : agenda[i] = "converge"
    BY DEF NoOrphan
  <2>2. job[j] \in Job /\ Sound(job[j]) /\ StageOK /\ Shaped(agenda)
    BY <2>1 DEF WorkInv, TypeOK, AllSound
  <2>3. /\ Holds(j) /\ ~ Owned(j) <=> j \in lost
        /\ j \in lost => ~ job[j].slot
    <3>1. Idle.permit = "none" /\ Idle.slot = FALSE /\ Idle.beat = "none"
      BY DEF Idle
    <3>2. CASE j \in lost
      <4>1. Leaked(job[j])
        BY <2>1, <3>2 DEF WorkInv, AllSound
      <4>. QED  BY <2>2, <3>2, <4>1 DEF Leaked, Sound, Holds, Owned
    <3>3. CASE j \notin lost
      <4>1. Kept(job[j])
        BY <2>1, <3>3 DEF WorkInv, AllSound
      <4>. QED  BY <2>2, <3>1, <3>3, <4>1 DEF Kept, Sound, Holds, Owned
    <3>. QED  BY <3>2, <3>3
  <2>4. job[j].ticket # "none" => Executing(j)
    BY <2>2 DEF Sound, Executing
  <2>5. ASSUME job[j].track = "transfer", Head(agenda) \notin RemuxDrains
        PROVE  \E i \in 1..Len(agenda) : agenda[i] = "converge"
    <3>1. Head(agenda) \in {"handoff", "converge"}
      BY <2>1, <2>2, <2>5 DEF StageOK, Transfers
    <3>2. agenda \in Seq(Stages) /\ Len(agenda) \in Nat /\ Len(agenda) > 0 /\ Head(agenda) = agenda[1]
      BY <2>2 DEF Shaped
    <3>3. CASE Head(agenda) = "converge"
      BY <3>2, <3>3
    <3>4. CASE Head(agenda) = "handoff"
      <4>1. Len(agenda) > 1
        BY <2>2, <3>2, <3>4 DEF Shaped, Lasts
      <4>2. Follows(agenda[1], agenda[2])
        BY <2>2, <3>2, <4>1 DEF Shaped
      <4>3. agenda[2] = "converge" /\ 2 \in 1..Len(agenda)
        BY <3>2, <3>4, <4>1, <4>2, SMTT(30) DEF Follows
      <4>. QED  BY <4>3
    <3>. QED  BY <3>1, <3>3, <3>4
  <2>. QED  BY <2>3, <2>4, <2>5
<1>. QED  BY <1>1, WorkInvariant, PTL

(* After a stop that was not forced no attempt is left but the lost ones.   *)
AllForgotten == At("stopped") /\ ~ force => \A j \in Jobs \ lost : job[j] = Idle

(* Only Close enters the last stage.                                        *)
LEMMA OnlyCloseStops ==
    ASSUME WorkInv, Next, Head(agenda) # "stopped", Head(agenda') = "stopped"
    PROVE  Close
<1>1. Shaped(agenda) /\ Head(agenda) \in Stages
  BY DEF WorkInv, Shaped
<1>2. CASE Advance
  <2>1. Head(Following) \in Plain \cup {"handoff", "converge", "close"} /\ agenda' = Following
    BY <1>1, <1>2, FollowingShaped DEF Advance, Enter
  <2>. QED  BY <2>1, StageTables DEF Plain
<1>3. CASE Wake
  BY <1>3, TickShaped, ShapedLast DEF Wake, Enter, Lasts
<1>4. CASE EndSnapshot
  <2>1. Head(Tail(agenda)) \in Plain /\ agenda' = Tail(agenda)
    BY <1>1, <1>4, ShapedTail DEF EndSnapshot, At, Enter, Follows, Lasts
  <2>. QED  BY <2>1, StageTables DEF Plain
<1>5. CASE AbandonTick \/ StopCheck \/ ForceCheck
  BY <1>5, FixedShaped, ShapedLast DEF AbandonTick, StopCheck, ForceCheck, Enter, Lasts
<1>6. CASE StopTransfers
  BY <1>6, FixedShaped DEF StopTransfers
<1>7. CASE \E j \in Jobs : DrainFinalizerFault(j) \/ SettleRemuxFault(j)
  BY <1>7, FixedShaped DEF DrainFinalizerFault, SettleRemuxFault
<1>8. CASE SignalInside
  BY <1>8, ShapedLast DEF SignalInside, Lasts
<1>9. CASE UNCHANGED agenda
  BY <1>9
<1>. QED  BY <1>2, <1>3, <1>4, <1>5, <1>6, <1>7, <1>8, <1>9
          DEF Next, Scheduler, TakeControllerLock, SkipRow, StopAdmitting, Submit, NotDone, DrainLane,
              SettleRemux, PersistRemux, AdmitTransfer, LeaveTransfer, Converge, ForceStop, Visit,
              Start, FinalizerClaims, Finish, HeartbeatLost, Signal, GraceExpires, vars

(* A process that has stopped by itself stays as it is.                     *)
LEMMA ForgottenStep ==
    ASSUME WorkInv, AllForgotten, [Next]_vars
    PROVE  AllForgotten'
<1>1. SUFFICES ASSUME Next, Head(agenda') = "stopped", ~ force'
               PROVE  \A j \in Jobs \ lost' : job'[j] = Idle
  BY DEF AllForgotten, At, vars
<1>2. StageOK /\ AllSound /\ job \in [Jobs -> Job] /\ force \in BOOLEAN /\ rows \in 0..MaxRows
  BY DEF WorkInv, TypeOK
<1>3. CASE Head(agenda) # "stopped"
  <2>1. Close
    BY <1>1, <1>3, OnlyCloseStops
  <2>2. /\ Head(agenda) = "close" /\ ~ force
        /\ force \/ \A j \in Jobs : job[j].run # "running"
        /\ job' = [j \in Jobs |-> Tidy([job[j] EXCEPT !.beat = "none"])] /\ lost' = lost
    BY <1>1, <2>1 DEF Close, At
  <2>3. Tracked = {} /\ Transfers = {}
    BY <1>2, <2>2 DEF StageOK, RemuxDrains
  <2>4. SUFFICES ASSUME NEW j \in Jobs \ lost PROVE job'[j] = Idle
    BY <2>2
  <2>5. Kept(job[j]) /\ job[j].track = "none" /\ job[j].run # "running"
    BY <1>2, <2>2, <2>3 DEF AllSound, Tracked, Transfers, Job
  <2>6. job[j] = Idle
    BY <2>5 DEF Kept
  <2>7. Tidy([Idle EXCEPT !.beat = "none"]) = Idle
    BY DEF Idle, Tidy
  <2>. QED  BY <2>2, <2>6, <2>7
<1>4. CASE Head(agenda) = "stopped"
  <2>1. force \/ \A j \in Jobs \ lost : job[j] = Idle
    BY <1>4 DEF AllForgotten, At
  <2>2. rows = 0 /\ inside = FALSE
    BY <1>2, <1>4, StageTables, LimitsAssumption DEF StageOK, WorkInv, TypeOK
  <2>3. "stopped" \notin DOMAIN Drains \cup DOMAIN Admits \cup RemuxDrains
    BY StageTables DEF RemuxDrains
  <2>4. ~ Scheduler
    <3>1. ~ (Advance \/ Wake \/ TakeControllerLock \/ EndSnapshot \/ AbandonTick \/ StopCheck \/ ForceCheck)
      BY <1>4, <2>3 DEF Advance, Wake, TakeControllerLock, EndSnapshot, AbandonTick, StopCheck, ForceCheck, At
    <3>2. ~ (Close \/ SkipRow \/ StopAdmitting \/ StopTransfers \/ \E lane \in Lanes : Submit(lane))
      BY <1>4, <2>2, <2>3 DEF Close, SkipRow, StopAdmitting, StopTransfers, Submit, At
    <3>3. \A j \in Jobs : ~ (NotDone(j) \/ DrainLane(j) \/ DrainFinalizerFault(j) \/ SettleRemux(j)
                             \/ PersistRemux(j) \/ SettleRemuxFault(j))
      BY <1>4, <2>3 DEF NotDone, DrainLane, DrainFinalizerFault, SettleRemux, PersistRemux,
                        SettleRemuxFault, RemuxDone, At
    <3>4. \A j \in Jobs : ~ (AdmitTransfer(j) \/ LeaveTransfer(j) \/ Converge(j) \/ ForceStop(j))
      BY <1>4 DEF AdmitTransfer, LeaveTransfer, Converge, ForceStop, At
    <3>. QED  BY <3>1, <3>2, <3>3, <3>4 DEF Scheduler
  <2>5. CASE \E j \in Jobs : Start(j) \/ FinalizerClaims(j) \/ Finish(j) \/ HeartbeatLost(j)
    <3>1. PICK j \in Jobs : Start(j) \/ FinalizerClaims(j) \/ Finish(j) \/ HeartbeatLost(j)
      BY <2>5
    <3>2. /\ job[j] # Idle /\ UNCHANGED <<force, lost>>
          /\ \A k \in Jobs \ {j} : job'[k] = job[k]
      BY <1>2, <3>1 DEF Start, FinalizerClaims, Finish, HeartbeatLost, Idle
    <3>. QED  BY <1>1, <2>1, <3>2
  <2>6. CASE Signal \/ GraceExpires
    <3>1. UNCHANGED <<job, lost>> /\ (force' = force \/ force' = TRUE)
      BY <2>6 DEF Signal, GraceExpires
    <3>. QED  BY <1>1, <2>1, <3>1
  <2>7. CASE SignalInside
    BY <2>2, <2>7 DEF SignalInside
  <2>8. CASE UNCHANGED vars
    BY <1>1, <2>1, <2>8 DEF vars
  <2>. QED  BY <1>1, <2>4, <2>5, <2>6, <2>7, <2>8 DEF Next
<1>. QED  BY <1>3, <1>4

(* A stopped process holds no permit and no slot, and has forgotten every   *)
(* attempt unless it was forced to stop (run_worker after its shutdown      *)
(* loop); the handoffs a failed completion statement has lost are excepted. *)
THEOREM StopReleasesHolds == Spec => []StopReleases
<1>1. Init => AllForgotten
  BY DEF Init, AllForgotten
<1>2. WorkInv /\ AllForgotten /\ [Next]_vars => AllForgotten'
  BY ForgottenStep
<1>3. WorkInv /\ AllForgotten => StopReleases
  <2>1. SUFFICES ASSUME WorkInv, AllForgotten, At("stopped"), NEW j \in Jobs
                 PROVE  /\ job[j].permit = "none" \/ j \in lost
                        /\ ~ job[j].slot
                        /\ force \/ job[j] = Idle \/ j \in lost
    BY DEF StopReleases
  <2>2. job[j] \in Job /\ Sound(job[j]) /\ Tracked = {} /\ Transfers = {}
    BY <2>1 DEF WorkInv, TypeOK, AllSound, StageOK, At, RemuxDrains
  <2>3. job[j].track = "none"
    BY <2>2 DEF Tracked, Transfers, Job
  <2>4. (job[j].permit = "none" \/ j \in lost) /\ ~ job[j].slot
    BY <2>1, <2>2, <2>3 DEF WorkInv, AllSound, Kept, Sound
  <2>. QED  BY <2>1, <2>4 DEF AllForgotten
<1>. QED  BY <1>1, <1>2, <1>3, WorkInvariant, PTL DEF Spec
=============================================================================
