SPECIFICATION Spec
CONSTANTS
    Stagers = {s1, s2}
    Launchers = {l1}
    Shards = {m1}
    Serial = TRUE
INVARIANTS
    TypeOK
    TestIsSound
    HotIsWhole
    StagingSparesHotLaunch
    DoneIsWhole
PROPERTIES
    WholeStays
SYMMETRY Symmetry
CHECK_DEADLOCK FALSE
