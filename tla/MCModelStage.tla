----------------------------- MODULE MCModelStage -----------------------------
(* Instances of ModelStage for TLC.                                        *)
EXTENDS ModelStage, TLC

\* Stagers are interchangeable, and so are shards.
Symmetry == Permutations(Stagers) \cup Permutations(Shards)

=============================================================================
