---------------------------- MODULE AtomicArchive ----------------------------
(***************************************************************************)
(* What the restart snapshots promise to the machine that restores them:   *)
(* under each archive's name there is nothing, or one whole archive, and   *)
(* one step replaces it.  If nobody snapshots concurrently (Ordered), the  *)
(* newcomer is never older than the archive it replaces.                   *)
(***************************************************************************)
EXTENDS Naturals

CONSTANTS
    Archives,      \* the archive names
    Generations,   \* the states of the archived directories, in their order
    NoArchive,     \* nothing under the name
    Ordered        \* snapshots are taken one at a time

VARIABLE out       \* the generation of the whole archive under each name

Init == out \in [Archives -> {NoArchive}]

Publish(a, g) ==
    /\ Ordered /\ out[a] # NoArchive => out[a] <= g
    /\ out' = [out EXCEPT ![a] = g]

Next == \E a \in Archives, g \in Generations : Publish(a, g)

Spec == Init /\ [][Next]_out

-----------------------------------------------------------------------------

TypeOK == out \in [Archives -> Generations \cup {NoArchive}]

\* What a machine could restore yesterday it can restore today: an archive never
\* vanishes, and never goes back if snapshots are taken one at a time.
NeverWorse ==
    [][\A a \in Archives : out[a] # NoArchive =>
         out'[a] # NoArchive /\ (Ordered => out[a] <= out'[a])]_out

=============================================================================
