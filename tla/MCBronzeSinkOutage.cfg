SPECIFICATION Spec
CONSTANTS
    a = a  a2 = a2  b = b  bad = bad  nul = nul
    c1 = c1  c2 = c2
    NoOne = NoOne
    Messages <- MCMessages
    EventIds <- MCEventIds
    IdOf <- MCIdOf
    Accepted <- MCAccepted
    Storable <- MCStorable
    Consumers <- MCConsumers
    MaxAttempts = 2
    MaxTopic = 2
    MaxFaults = 0
    MaxDbErrors = 2
INVARIANT AtLeastOnce
CHECK_DEADLOCK FALSE
