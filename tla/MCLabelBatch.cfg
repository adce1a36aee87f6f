SPECIFICATION MCFairSpec
CONSTANTS
    r1 = r1  r2 = r2
    Runs <- MCRuns
    Payloads <- MCKinds
    BatchSize = 2
    ChunkSize = 2
    MaxId = 3
    MaxErrors = 1
    MaxCrashes = 1
INVARIANTS ReportCountsEveryLoss PoisonRowIsolated NoSilentLoss
PROPERTIES RunEnds LabelsKeepEvidence
CHECK_DEADLOCK FALSE
