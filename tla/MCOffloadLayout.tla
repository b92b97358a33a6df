--------------------------- MODULE MCOffloadLayout ---------------------------
(* An instance of OffloadLayout for TLC.                                   *)
EXTENDS OffloadLayout

=============================================================================
