SPECIFICATION Spec
CONSTANTS
    FlushMax = 2
    Users <- MCUsers
    FirstUser = "u1"
    GridItems <- MCGridItems
    RailItems <- MCRailItems
    EffectRuns = 2
    MaxEvents = 2
    MaxSessions = 2
    MaxExposures = 2
    MaxUpsets = 0
INVARIANT OutcomesJoinImpressions
CHECK_DEADLOCK FALSE
