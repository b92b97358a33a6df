----------------------------- MODULE MCBenchmarks -----------------------------
(* Instance of Benchmarks for TLC: pools that are smaller, as large and     *)
(* larger than the rounds, sessions long enough for an observation, and a   *)
(* server that dies once.                                                   *)
EXTENDS Benchmarks

=============================================================================
