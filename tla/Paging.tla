------------------------------- MODULE Paging -------------------------------
(* The query of apps/pipelines/bronze.py, as an operator on sets of ids.   *)
EXTENDS Integers, FiniteSets

(* Wrong on purpose: OFFSET-like paging by arithmetic on the id.           *)
PageByRange(S, a, n) == {i \in S : a < i /\ i < a + n}

(* WHERE id > after_id ORDER BY id LIMIT batch_size; also how label.py     *)
(* takes the next chunk of rows.                                           *)
Page(S, a, n) ==
    {i \in S : a < i /\ Cardinality({j \in S : a < j /\ j < i}) < n}
=============================================================================
