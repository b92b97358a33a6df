SPECIFICATION Spec
CONSTANTS
    Runs = {r1, r2}
    NumCaches = 1
    MaxGen = 1
    NoFile = NoFile
    Exclusive = TRUE
INVARIANTS
    NoLeftovers
CHECK_DEADLOCK FALSE
