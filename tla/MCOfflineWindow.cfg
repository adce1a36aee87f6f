SPECIFICATION OfflineSpec
CONSTANTS
    none = none
    NoValue <- MCNoValue
    Items <- MCItems
    Configs <- MCConfigs
    DrawSizes <- MCDrawSizes
    ApiLists <- MCPlainLists
    WindowEnd <- MCWindowEnd
    HeldBack <- MCHeldBack
    StartOffsets <- MCStartOffsets
    ImpressionGaps <- MCImpressionGaps
    ClickGaps <- MCClickGaps
    CartGaps <- MCCartGaps
    PurchaseGaps <- MCPurchaseGaps
    PurchaseWindow <- MCPurchaseWindow
    Gain <- MCGain
    RankedItems <- MCRankedItems
    Genres <- MCGenres
    Histories <- MCHistories
    MaxScore = 1
    MaxCandidates = 3
    MaxK = 3
INVARIANTS InWindow
CHECK_DEADLOCK FALSE
