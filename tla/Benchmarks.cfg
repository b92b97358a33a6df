SPECIFICATION BenchFairSpec
CONSTANTS
    MaxRounds = 3
    MaxCalls = 2
    WaitSeconds = 2
    MaxRequests = 6
    Streamed = {{"reasoning"}, {"content", "reasoning"}}
    Widths = {1, 2}
    MaxPools = 2
    MaxDrafts = 3
    MaxLives = 2
    MaxTargets = 2
    MaxSamples = 2
    MaxIsolation = 2
    MaxCases = 2
    MaxNeedles = 2
    MaxMeasures = 2
    MaxNotes = 4
    MaxArrays = 2
CHECK_DEADLOCK FALSE
INVARIANTS
    BenchTypeOK
    OneWholeCall
    PoolKeepsBound
    ExitIsHonest
    SavedAfterRoundTrip
    OwnHistory
    RoundsInStep
    MetersOwnPool
    ColdSamples
    RecallIsMeasured
    ExitCodesTell
PROPERTIES
    BenchmarksEnd
