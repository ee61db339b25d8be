-------------------------- MODULE MCSourceRotation --------------------------
(* Instances of SourceRotation for TLC. *)
EXTENDS SourceRotation

CONSTANTS a, b

(* Camera a has a backlog, whose first task is urgent; b is quiet. *)
MCSource == <<a, a, a, a, b>>
MCPriority == <<1, 0, 0, 0, 0>>
=============================================================================
