SPECIFICATION FairSpec
CONSTANTS
    w1 = w1  w2 = w2
    Writers <- MCWriters
    BatchSize = 2
    Rescan = TRUE
    MaxId = 5
INVARIANTS TypeOK PassCoversItsStart
PROPERTIES EachRowOncePerPass PassEnds
CHECK_DEADLOCK FALSE
