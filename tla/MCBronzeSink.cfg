SPECIFICATION FairSpec
CONSTANTS
    a = a  a2 = a2  b = b  bad = bad  nul = nul
    c1 = c1  c2 = c2
    NoOne = NoOne
    Messages <- MCMessages
    EventIds <- MCEventIds
    IdOf <- MCIdOf
    Accepted <- MCAccepted
    Storable <- MCStorable
    Consumers <- MCConsumers
    MaxAttempts = 2
    MaxTopic = 3
    MaxFaults = 2
    MaxDbErrors = 2
INVARIANTS TypeOK OneRowPerEvent RowsFollowTopic StoredWhileFailuresAreFew NothingSkippedSilently
PROPERTIES NeverRewinds LedgerSpec EveryRecordIsPassed
CHECK_DEADLOCK FALSE
