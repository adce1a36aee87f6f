SPECIFICATION Spec
CONSTANTS
    w1 = w1  w2 = w2
    Writers <- MCWriters
    BatchSize = 2
    Rescan = FALSE
    MaxId = 3
INVARIANT NothingLeftBehind
CHECK_DEADLOCK FALSE
