SPECIFICATION TwoSizesSpec
CONSTANTS
    MaxLaunches = 2
    Ranks = {r0, r1}
    EngineIds = {e0}
    Sizes = {1, 2}
    MaxPolls = 1
    NoInode = NoInode
    Overlap = FALSE
    Orderly = TRUE
INVARIANTS
    TypeOK
    FullyBacked
    OneRegion
    OrphansHaveACause
    WaitsOnTheCreator
    FailsForAReason
PROPERTIES
    UnlinksOwnFile
    RefinesBuffer
    CallsResolve
CHECK_DEADLOCK FALSE
