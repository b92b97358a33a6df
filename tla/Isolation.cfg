SPECIFICATION IsolationSpec
CONSTANT MaxIsolation = 2
CHECK_DEADLOCK FALSE
INVARIANT LateMeetsPrefill
