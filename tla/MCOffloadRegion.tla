--------------------------- MODULE MCOffloadRegion ---------------------------
(* Instances of OffloadRegion for TLC.                                     *)
EXTENDS OffloadRegion, FiniteSets

\* vLLM draws a new engine id for every server it starts.
FreshIds == \A l, m \in Launches : l # m => engine[l] # engine[m]

FreshIdsSpec == Init /\ FreshIds /\ [][Next]_vars

\* The larger region comes first or last: a file left behind would be too short
\* for the next server, or long enough to be taken for its own.
TwoSizesInit ==
    /\ Init
    /\ \A l, m \in Launches : l # m => total[l] # total[m]

\* Bound: the processes of a server that are killed or meet an error.
MaxFaults == 1
Faulty == {p \in Procs : pc[p] = "killed" \/ refused[p] \/ kept[p]}

FewFaults == \A l \in Launches : Cardinality(Faulty' \cap MembersOf(l)) <= MaxFaults

\* No statement of a constructor or of cleanup is a fault, so that the bound
\* takes nothing from what fairness requires.
TwoSizesSpec == TwoSizesInit /\ [][Next /\ FewFaults]_vars /\ Fairness

=============================================================================
