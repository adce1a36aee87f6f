SPECIFICATION Spec
CONSTANTS
    NumEvents = 3
    BatchSize = 2
    OwnId <- MCOwnId
    Contract <- MCContract
    MaxFaults = 2
INVARIANTS SentIsHandedOver DuplicatesComeFromRetries FirstCopiesInOrder RowsPerEvent
PROPERTIES EverySentEventArrives
CHECK_DEADLOCK FALSE
