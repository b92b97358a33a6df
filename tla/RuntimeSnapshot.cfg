SPECIFICATION Spec
CONSTANTS
    Runs = {r1, r2}
    NumCaches = 1
    MaxGen = 2
    NoFile = NoFile
    Exclusive = TRUE
INVARIANTS
    TypeOK
    PrefixIsFresh
PROPERTIES
    RefinesArchive
CHECK_DEADLOCK FALSE
