SPECIFICATION Spec
\* Cells of three bytes in pages of two: every second cell begins inside a
\* page, and the row ends with a byte of padding.
CONSTANTS
    PageSize = 2
    NumBlocks = 2
    NumRanks = 3
    CpuPageSize = 3
    RowStride = 10
    TensorSizes = {1, 2, 3}
INVARIANTS
    TypeOK
    ViewsDisjoint
    RowsHoldBlocks
    DemandPagingHasACause
CHECK_DEADLOCK FALSE
