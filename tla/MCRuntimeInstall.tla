-------------------------- MODULE MCRuntimeInstall --------------------------
(***************************************************************************)
(* Instances of RuntimeInstall for TLC.  In a behaviour either the         *)
(* checkout changes, or snapshots are taken of venvs that nobody has       *)
(* validated, from the pinned checkout and with few faults.                *)
(***************************************************************************)
EXTENDS RuntimeInstall, Naturals

CONSTANT MaxFaults   \* bound: installers cut short and snapshots not validated

VARIABLES
    careless,        \* whether snapshots are taken of any venv
    faults           \* how many faults such a behaviour has had

Fault ==
    \/ step \in Installing /\ step' = "stopped"
    \/ unaudited' /\ <<archive, unaudited>>' # <<archive, unaudited>>

MCInit ==
    /\ Init
    /\ careless \in BOOLEAN
    /\ careless => head = Rev
    /\ faults = 0

MCNext ==
    /\ careless' = careless
    /\ \/ ~careless /\ Checkouts
       \/ Host
       \/ Validated /\ SnapshotByHand
       \/ careless /\ faults < MaxFaults /\ SnapshotByHand
    /\ faults' = IF careless /\ Fault THEN faults + 1 ELSE faults
    /\ faults' <= MaxFaults

MCSpec == MCInit /\ [][MCNext]_<<vars, careless, faults>>

=============================================================================
