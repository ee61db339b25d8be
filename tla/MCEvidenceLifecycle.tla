------------------------- MODULE MCEvidenceLifecycle -------------------------
(* Instances of EvidenceLifecycle for TLC: two job slots are two lane       *)
(* threads of one process as well as two media-worker processes.            *)
EXTENDS EvidenceLifecycle

CONSTANTS w1, w2

MCWorkers == {w1, w2}
=============================================================================
