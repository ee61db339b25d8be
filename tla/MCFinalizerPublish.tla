------------------------ MODULE MCFinalizerPublish ------------------------
(* Instances of FinalizerPublish for TLC. *)
EXTENDS FinalizerPublish
=============================================================================
