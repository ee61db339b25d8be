--------------------------- MODULE MCRollingCache ---------------------------
(* Instances of RollingCache for TLC. *)
EXTENDS RollingCache, TLC

(* One segment, with a guard beside it, or all. *)
MCWindows == {{N}, 1..N}
=============================================================================
