-------------------------- MODULE MCEventIngestion --------------------------
(* Instances of EventIngestion for TLC.                                     *)
EXTENDS EventIngestion, TLC

(* An event the database rejects, then two of one key with one timestamp. *)
MCStream == <<"bad", "a", "b">>
MCTsOf == [s \in Sids |-> IF s = "bad" THEN 1 ELSE 2]

(* Four events of one camera and two of another. *)
MCBurst == <<"a", "b", "c", "d", "e", "f">>
MCSameTs == [s \in Sids |-> 1]

MCSourceOf == [s \in Sids |-> IF s \in {"e", "f"} THEN "cam2" ELSE "cam1"]
MCKeyOf == [s \in Sids |-> "k"]
=============================================================================
