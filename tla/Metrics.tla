------------------------------ MODULE Metrics ------------------------------
(***************************************************************************)
(* py_common/metrics.py: precision, recall and nDCG at k with binary       *)
(* relevance.  A quotient is a pair of numbers, and 1 / log2(place + 1) is *)
(* the integer Gain[place], which like it is positive and falls strictly.  *)
(***************************************************************************)
EXTENDS Integers, SequencesExt

CONSTANT Gain     \* the gain of a hit in place 1, 2, ...

ASSUME GainAssumption ==
    /\ Gain \in Seq(Nat \ {0})
    /\ \A m, n \in 1..Len(Gain) : m < n => Gain[m] > Gain[n]

(* recommended[:k]; a negative k drops items from the end.                 *)
TopK(recommended, k) ==
    SubSeq(recommended, 1,
           IF k >= 0 THEN Min({k, Len(recommended)}) ELSE Len(recommended) + k)

HitPlaces(recommended, relevant, k) ==
    {n \in DOMAIN TopK(recommended, k) : TopK(recommended, k)[n] \in relevant}

Hits(recommended, relevant, k) == Cardinality(HitPlaces(recommended, relevant, k))

(* sum(... for idx in ...), place by place.                                *)
GainsUpTo(places) ==
    LET sum[n \in 0..Len(Gain)] ==
            IF n = 0 THEN 0 ELSE sum[n - 1] + (IF n \in places THEN Gain[n] ELSE 0)
    IN  sum

SumOfGains(places) == GainsUpTo(places)[Len(Gain)]

PrecisionAtK(recommended, relevant, k) ==
    IF k <= 0 THEN <<0, 1>> ELSE <<Hits(recommended, relevant, k), k>>

RecallAtK(recommended, relevant, k) ==
    IF relevant = {} THEN <<0, 1>>
    ELSE <<Hits(recommended, relevant, k), Cardinality(relevant)>>

DcgAtK(recommended, relevant, k) ==
    SumOfGains(HitPlaces(recommended, relevant, k))

(* Wrong on purpose: the ideal ranking is as long as the relevant set.     *)
IdealHitsUncut(relevant, k) == 1..Cardinality(relevant)

(* range(min(len(rel), k)), empty for a negative k.                        *)
IdealHits(relevant, k) == 1..Min({Cardinality(relevant), k})

NdcgAtK(recommended, relevant, k) ==
    LET idcg == SumOfGains(IdealHits(relevant, k))
    IN  IF idcg > 0 THEN <<DcgAtK(recommended, relevant, k), idcg>> ELSE <<0, 1>>

-----------------------------------------------------------------------------
Leq(x, y) == x[1] * y[2] <= y[1] * x[2]
Less(x, y) == x[1] * y[2] < y[1] * x[2]
IsShare(x) == x[1] >= 0 /\ Leq(x, <<1, 1>>)

Exchanged(list, n) ==
    [list EXCEPT ![n] = list[n + 1], ![n + 1] = list[n]]

(* What metrics.py promises ("0~1", "if the metric is wrong, so is every   *)
(* evaluation of a model") for a list without duplicates: all three are    *)
(* shares; nDCG is 1 just for the lists that begin with as many relevant   *)
(* items as there is room for; to move a relevant item up past an          *)
(* irrelevant one raises nDCG if the upper place counts and changes        *)
(* neither share of hits unless it crosses the cut; and more room never    *)
(* lowers recall.  k <= 0 leaves no room for nDCG and precision, but a     *)
(* negative k still lets recall see a part of the list.                    *)
SoundFor(list, relevant, k) ==
    LET ndcg == NdcgAtK(list, relevant, k)
        recall == RecallAtK(list, relevant, k)
        precision == PrecisionAtK(list, relevant, k)
        room == Min({Cardinality(relevant), k})
    IN  /\ IsShare(precision) /\ IsShare(recall) /\ IsShare(ndcg)
        /\ (ndcg[1] = ndcg[2]) <=>
              /\ room > 0
              /\ Len(list) >= room
              /\ \A n \in 1..room : list[n] \in relevant
        /\ \A n \in 1..(Len(list) - 1) :
              list[n] \notin relevant /\ list[n + 1] \in relevant =>
                LET better == Exchanged(list, n)
                IN  /\ n <= k =>
                          Less(ndcg, NdcgAtK(better, relevant, k))
                    /\ k > 0 /\ n # k =>
                          /\ recall = RecallAtK(better, relevant, k)
                          /\ precision = PrecisionAtK(better, relevant, k)
        /\ k >= 0 => Leq(recall, RecallAtK(list, relevant, k + 1))
        /\ k <= 0 => ndcg = <<0, 1>> /\ precision = <<0, 1>>
=============================================================================
