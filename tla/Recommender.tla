---------------------------- MODULE Recommender ----------------------------
(***************************************************************************)
(* apps/pipelines/recommender.py: the baseline recommender, as operators.  *)
(* Item ids are natural numbers, for their order; 0 is the empty string,   *)
(* which comes before every other.  Scores are numbers of weight, which    *)
(* the floats of the code hold exactly.                                    *)
(***************************************************************************)
EXTENDS Integers, SequencesExt, Sorting

CONSTANT NoValue     \* a key the event does not have, or null

ASSUME RecommenderAssumption == NoValue \notin Nat

EmptyId == 0

(* EVENT_WEIGHTS.get(type, 0.0)                                            *)
Weight(type) ==
    CASE type = "click" -> 1
      [] type = "cart" -> 3
      [] type = "purchase" -> 5
      [] OTHER -> 0

(* event.get("item_id") or event.get("itemId"): an empty id gives way to   *)
(* the other, but is an id if it is the other.  No type is the type "".    *)
ItemOf(e) == IF e.item_id \in {NoValue, EmptyId} THEN e.itemId ELSE e.item_id
TypeOf(e) == IF e.event_type = "" THEN e.eventType ELSE e.event_type

(* sorted(scored, key=(-score, id)), stable.                               *)
Ahead(scored) ==
    LET Before(i, j) ==
            \/ scored[i].score > scored[j].score
            \/ /\ scored[i].score = scored[j].score
               /\ \/ scored[i].item < scored[j].item
                  \/ scored[i].item = scored[j].item /\ i < j
    IN  {p \in (DOMAIN scored) \X (DOMAIN scored) : Before(p[1], p[2])}

SortedByScore(scored) == SortedBy(scored, Ahead(scored))

-----------------------------------------------------------------------------
(* Wrong on purpose: the last event of an item decides.                    *)
ScoreLast(scores, e) ==
    IF ItemOf(e) = NoValue THEN scores
    ELSE [x \in DOMAIN scores \cup {ItemOf(e)} |->
             IF x = ItemOf(e) THEN Weight(TypeOf(e)) ELSE scores[x]]

(* scores[item] = scores.get(item, 0.0) + weight                           *)
Score(scores, e) ==
    IF ItemOf(e) = NoValue THEN scores
    ELSE [x \in DOMAIN scores \cup {ItemOf(e)} |->
             (IF x \in DOMAIN scores THEN scores[x] ELSE 0)
             + (IF x = ItemOf(e) THEN Weight(TypeOf(e)) ELSE 0)]

(* The loop of rank_by_popularity after n events.                          *)
ScoresAfter(log) ==
    LET scores[n \in 0..Len(log)] ==
            IF n = 0 THEN [x \in {} |-> 0] ELSE Score(scores[n - 1], log[n])
    IN  scores

Scores(log) == ScoresAfter(log)[Len(log)]

(* sorted(scores.items(), key=(-score, id)).                               *)
AheadInScore(scores) ==
    {p \in (DOMAIN scores) \X (DOMAIN scores) :
        \/ scores[p[1]] > scores[p[2]]
        \/ scores[p[1]] = scores[p[2]] /\ p[1] < p[2]}

RankByPopularity(log) ==
    LET scores == Scores(log)
        item(n) == Place(DOMAIN scores, AheadInScore(scores), n)
    IN  [n \in 1..Cardinality(DOMAIN scores) |->
            [item |-> item(n), score |-> scores[item(n)]]]

(* Wrong on purpose: only neighbours are compared.                         *)
TakeUnlessLast(acc, item, k, seen) ==
    IF acc.full \/ item \in seen \/ (acc.out # <<>> /\ Last(acc.out) = item)
    THEN acc
    ELSE [out |-> Append(acc.out, item), full |-> Len(acc.out) + 1 >= k]

(* One turn of the loop of recommend; k is looked at after an item was     *)
(* taken.                                                                  *)
Take(acc, item, k, seen) ==
    IF acc.full \/ item \in seen \/ Contains(acc.out, item)
    THEN acc
    ELSE [out |-> Append(acc.out, item), full |-> Len(acc.out) + 1 >= k]

(* The loop of recommend after n candidates.                               *)
TakenAfter(scored, k, seen) ==
    LET acc[n \in 0..Len(scored)] ==
            IF n = 0 THEN [out |-> <<>>, full |-> FALSE]
                     ELSE Take(acc[n - 1], scored[n].item, k, seen)
    IN  acc

Recommend(scored, k, seen) == TakenAfter(scored, k, seen)[Len(scored)].out

(* The share of a genre in the history has the same order as its count;    *)
(* history: genre -> count, catalog: (item, genre) pairs.                  *)
ScoreByGenreAffinity(history, catalog) ==
    SortedByScore([n \in DOMAIN catalog |->
        [item |-> catalog[n].item,
         score |-> IF catalog[n].genre \in DOMAIN history
                   THEN history[catalog[n].genre] ELSE 0]])

(* Any entry in the history, even a zero, counts as a history.             *)
RecommendForUser(history, catalog, k, seen, fallback) ==
    Recommend(IF DOMAIN history # {} THEN ScoreByGenreAffinity(history, catalog)
                                     ELSE fallback,
              k, seen)

-----------------------------------------------------------------------------
(* The contract of test_recommend_contract.py, as a definition of the      *)
(* result: no item twice, none that was seen, none that is not a           *)
(* candidate; candidates in the order of their first mention; k of them,   *)
(* or all if there are fewer.                                              *)
IsTopK(out, scored, k, seen) ==
    LET offered == {s.item : s \in ToSet(scored)} \ seen
        First(x) == CHOOSE i \in DOMAIN scored :
                        /\ scored[i].item = x
                        /\ \A j \in 1..(i - 1) : scored[j].item # x
    IN  /\ IsInjective(out)
        /\ ToSet(out) \subseteq offered
        /\ Len(out) = Min({Cardinality(offered), k})
        /\ \A n \in DOMAIN out : \A x \in offered :
              First(x) < First(out[n]) => \E m \in 1..(n - 1) : out[m] = x
=============================================================================
