SPECIFICATION Spec
CONSTANTS
    FlushMax = 2
    Users <- MCUsers
    FirstUser = "u1"
    GridItems <- MCGridItems
    RailItems <- MCRailItems
    EffectRuns = 1
    MaxEvents = 3
    MaxSessions = 2
    MaxExposures = 2
    MaxUpsets = 1
INVARIANTS RailIsOfUser QueueIsServed OncePerExposure OutcomesFollowClicks NothingOvertakes OneUserPerSession
PROPERTIES ConsentRespected
CHECK_DEADLOCK FALSE
