SPECIFICATION MCSpec
CONSTANTS
    Rev = Rev
    Others = {moved}
    Quiet = TRUE
    Upstream = {u1}
    Own = {own}
    MaxFaults = 2
INVARIANTS
    TypeOK
    DoneIsDeclared
    ArchiveIsDeclared
    NothingUnpinned
    EditedPassIsDeclared
PROPERTIES
    EditsAreKept
