SPECIFICATION MCSpec
CONSTANTS
    Rev = Rev
    Others = {moved}
    Quiet = TRUE
    Upstream = {u1}
    Own = {own}
    MaxFaults = 1
PROPERTIES
    RefusesOnlyChanges
