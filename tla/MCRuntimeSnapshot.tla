-------------------------- MODULE MCRuntimeSnapshot --------------------------
(* Instances of RuntimeSnapshot for TLC.                                   *)
EXTENDS RuntimeSnapshot

=============================================================================
