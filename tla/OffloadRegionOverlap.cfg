SPECIFICATION FreshIdsSpec
CONSTANTS
    MaxLaunches = 2
    Ranks = {r0, r1}
    EngineIds = {e0, e1}
    Sizes = {1}
    MaxPolls = 1
    NoInode = NoInode
    Overlap = TRUE
    Orderly = TRUE
INVARIANTS
    OneRegion
CHECK_DEADLOCK FALSE
