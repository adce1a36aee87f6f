------------------------------ MODULE Offline ------------------------------
(***************************************************************************)
(* The offline side of the pipelines package: traffic is simulated, items  *)
(* are ranked by popularity and the list is cut, and the list is measured  *)
(* against what is relevant.  The candidates recommend is called with grow *)
(* one at a time; they are tried next to the empty traffic only, so that   *)
(* the two do not multiply.                                                *)
(***************************************************************************)
EXTENDS Simulator, Recommender, Metrics

CONSTANTS
    RankedItems,    \* ids of the candidates
    Genres,
    Histories,      \* genre -> count, empty ones and zeros included
    MaxScore, MaxCandidates, MaxK    \* bounds of the inputs tried

ASSUME OfflineAssumption ==
    /\ Items \cup RankedItems \subseteq Nat \ {EmptyId}
    /\ IsFiniteSet(RankedItems)
    /\ \A history \in Histories : \A genre \in DOMAIN history : history[genre] \in Nat
    /\ MaxScore \in Nat /\ MaxCandidates \in Nat /\ MaxK \in Nat
    /\ MaxCandidates < Len(Gain) /\ Cardinality(RankedItems) < Len(Gain)

VARIABLE scored     \* the candidates, with their scores and genres

Candidate == [item : RankedItems, score : 0..MaxScore, genre : Genres]

OfflineInit == Init /\ scored = <<>>

Offer(c) ==
    /\ Done /\ result = <<>>
    /\ Len(scored) < MaxCandidates
    /\ scored' = Append(scored, c)
    /\ UNCHANGED vars

OfflineNext ==
    \/ Next /\ UNCHANGED scored
    \/ \E c \in Candidate : Offer(c)

OfflineSpec ==
    /\ OfflineInit /\ [][OfflineNext]_<<vars, scored>>
    /\ WF_<<vars, scored>>(Next /\ UNCHANGED scored)

-----------------------------------------------------------------------------
(* generate_events writes the names of the wire; the recommender reads the *)
(* names of the Python model too, and an empty one gives way.              *)
Wire(e) == [item_id |-> NoValue, itemId |-> e.key[2],
            event_type |-> "", eventType |-> e.type]
Snake(e) == [item_id |-> e.key[2], itemId |-> NoValue,
             event_type |-> e.type, eventType |-> ""]
Mixed(e) == [Wire(e) EXCEPT !.item_id = EmptyId]
Log(Form(_), list) == [n \in DOMAIN list |-> Form(list[n])]

(* rank_by_popularity: every item of the log is ranked once, those nobody  *)
(* clicked included; the score is the weighted count of its events; ids    *)
(* break ties.                                                             *)
IsPopularity(ranked, log) ==
    LET count(x, type) ==
            Cardinality({n \in DOMAIN log : ItemOf(log[n]) = x
                                               /\ TypeOf(log[n]) = type})
    IN  /\ IsInjective([n \in DOMAIN ranked |-> ranked[n].item])
        /\ {r.item : r \in ToSet(ranked)}
              = {ItemOf(e) : e \in ToSet(log)} \ {NoValue}
        /\ \A r \in ToSet(ranked) :
              r.score = count(r.item, "click") + 3 * count(r.item, "cart")
                            + 5 * count(r.item, "purchase")
        /\ \A i, j \in DOMAIN ranked : i < j =>
              \/ ranked[i].score > ranked[j].score
              \/ /\ ranked[i].score = ranked[j].score
                 /\ ranked[i].item < ranked[j].item

(* The popularity of simulated traffic is that sum, whatever the order of  *)
(* the events and under whichever names they carry their fields.           *)
PopularityIsASum ==
    Done =>
        LET ranked == RankByPopularity(Log(Wire, result))
        IN  /\ IsPopularity(ranked, Log(Wire, result))
            /\ ranked = RankByPopularity(Log(Snake, Reverse(result)))
            /\ ranked = RankByPopularity(Log(Mixed, FirstEvents(events)))

-----------------------------------------------------------------------------
(* recommend and recommend_for_user keep the top-k contract for every k    *)
(* but those AtMostK is about, with repeated candidates too; with a        *)
(* history, the candidates come in the order of their best genre, without  *)
(* one the fallback is used.                                               *)
TopKContract ==
    scored # <<>> => \A k \in 1..MaxK, seen \in SUBSET RankedItems :
        /\ IsTopK(Recommend(scored, k, seen), scored, k, seen)
        /\ \A history \in Histories :
              LET out == RecommendForUser(history, scored, k, seen, scored)
                  liking(c) == IF c.genre \in DOMAIN history
                               THEN history[c.genre] ELSE 0
                  offered == {c.item : c \in ToSet(scored)} \ seen
                  best == [x \in offered |->
                             Max({liking(c) : c \in
                                    {c \in ToSet(scored) : c.item = x}})]
              IN  IF DOMAIN history = {}
                  THEN out = Recommend(scored, k, seen)
                  ELSE LET Likelier == {p \in offered \X offered :
                                \/ best[p[1]] > best[p[2]]
                                \/ best[p[1]] = best[p[2]] /\ p[1] < p[2]}
                       IN  out = [n \in 1..Min({Cardinality(offered), k})
                                     |-> Place(offered, Likelier, n)]

(* recommend says of itself that it returns at most k items, a test of it  *)
(* asserts so for a k of 1, 2, 3 and 10, and 0 is a k as well.             *)
AtMostK ==
    scored # <<>> => \A k \in 0..MaxK, seen \in SUBSET RankedItems :
        Len(Recommend(scored, k, seen)) <= k

(* What recommend returns is measured soundly, because it has no           *)
(* duplicates.                                                             *)
MetricsBounded ==
    scored # <<>> => \A relevant \in SUBSET RankedItems, k \in -1..MaxK :
        SoundFor(Recommend(scored, MaxK, {}), relevant, k)
=============================================================================
