------------------------- MODULE MCReplayAdmission -------------------------
(* Instances of ReplayAdmission for TLC. *)
EXTENDS ReplayAdmission, TLC

(* All events come from one camera. *)
MCSourceOf == [e \in Events |-> "cam"]
=============================================================================
