SPECIFICATION Spec
CONSTANTS
    Stagers = {s1, s2}
    Launchers = {l1}
    Shards = {m1}
    Serial = FALSE
SYMMETRY Symmetry
CHECK_DEADLOCK FALSE
INVARIANTS
    HotIsWhole
