-------------------------- MODULE MCWorkAdmission --------------------------
(* Instances of WorkAdmission for TLC. *)
EXTENDS WorkAdmission, TLC

MCWorkers == [l \in Lanes |-> IF l = "finalizer" THEN 1 ELSE 2]
MCQueue == [l \in Lanes |-> IF l = "finalizer" THEN 1 ELSE 0]

MCSymmetry == Permutations(Jobs) \cup Permutations(Sources)
=============================================================================
