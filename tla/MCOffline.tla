----------------------------- MODULE MCOffline -----------------------------
(* Times in milliseconds, with the extremes of the code's draws: two full  *)
(* funnels in one session take longer than the hour held back.             *)
(* MCOfflineWindow.cfg asks what that means for the end of the window,     *)
(* with a list of two items, MCOfflineTopK.cfg whether k is a bound.       *)
EXTENDS Offline

CONSTANT none

MCNoValue == none
MCItems == {1, 2}
MCRankedItems == {1, 2, 3}
MCConfigs ==
    {[source |-> "catalog", n_events |-> 0],
     [source |-> "catalog", n_events |-> 4],
     [source |-> "api", n_events |-> 8]}
MCDrawSizes == {2}
MCApiLists == {<<>>, <<1, 1>>}
MCPlainLists == {<<1, 2>>}
Minute == 60 * 1000
MCWindowEnd == 120 * Minute
MCHeldBack == 60 * Minute
MCStartOffsets == {0, MCWindowEnd - MCHeldBack}
MCImpressionGaps == {40}
MCClickGaps == {90 * 1000}
MCCartGaps == {300 * 1000}
MCPurchaseGaps == {30 * Minute}
MCPurchaseWindow == 24 * 60 * Minute
MCGain == <<1000, 631, 500, 431, 387>>
MCGenres == {"a", "b"}
MCHistories ==
    UNION {[genres -> 0..2] : genres \in SUBSET MCGenres}
=============================================================================
