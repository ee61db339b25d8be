---------------------------- MODULE EvidenceTask ----------------------------
(***************************************************************************)
(* What the materialization repository promises about one evidence task,   *)
(* whatever the workers, the recovery pass and the crashes do.             *)
(*                                                                         *)
(* A fence is granted to one holder at a time and numbered; the holder may *)
(* deliver one artifact, which no later grant or release takes away; only  *)
(* a holder can report success; the outcome is final; and what is          *)
(* announced to the event's readers is "active" or the outcome itself.     *)
(***************************************************************************)
EXTENDS Naturals

CONSTANT Outcomes   \* the terminal statuses; one of them is "materialized"

VARIABLES
    stage,      \* waiting, held, released (artifact kept, nobody holds it), done
    issued,     \* fences granted so far
    artifact,   \* number of the fence that delivered the artifact, 0 for none
    outcome,    \* final status, "none" before
    announced   \* what events.media_status shows, "active" before

absvars == <<stage, issued, artifact, outcome, announced>>

Init ==
    /\ stage = "waiting"
    /\ issued = 0
    /\ artifact = 0
    /\ outcome = "none"
    /\ announced = "active"

Grant ==
    /\ stage \in {"waiting", "released"}
    /\ stage' = "held"
    /\ issued' = issued + 1
    /\ UNCHANGED <<artifact, outcome, announced>>

Deliver ==
    /\ stage = "held"
    /\ artifact = 0
    /\ artifact' = issued
    /\ UNCHANGED <<stage, issued, outcome, announced>>

Release ==
    /\ stage = "held"
    /\ stage' = IF artifact = 0 THEN "waiting" ELSE "released"
    /\ UNCHANGED <<issued, artifact, outcome, announced>>

Finish ==
    /\ stage # "done"
    /\ stage' = "done"
    /\ outcome' \in Outcomes
    /\ outcome' = "materialized" => stage = "held"
    /\ artifact' = 0
    /\ announced' \in {announced, outcome'}
    /\ UNCHANGED issued

Announce ==
    /\ announced' \in {"active"} \cup IF stage = "done" THEN {outcome} ELSE {}
    /\ UNCHANGED <<stage, issued, artifact, outcome>>

Next == Grant \/ Deliver \/ Release \/ Finish \/ Announce

Spec == Init /\ [][Next]_absvars
=============================================================================
