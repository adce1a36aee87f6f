SPECIFICATION IntakeSpec
CONSTANTS
    complete = complete  partial = partial
    FullKeys <- MCFullKeys
    PartialKeys <- MCPartialKeys
    Amounts <- MCAmounts
    Sent <- MCWireEvents
    Written <- MCWireEvents
    OrdinalsAreTypes = TRUE
    TakesHour24 = FALSE
    Window = 1
    MaxTs = 3
    MaxEvents = 4
    Arriving <- MCArriving
    MaxFollowed = 1
INVARIANTS CreditFollowsImpression NoSignalDropped ArrivalOrderOnlySettlesTies ContractMirrored
PROPERTIES LateEventsOnlyMoveTheAnchor
CHECK_DEADLOCK FALSE
