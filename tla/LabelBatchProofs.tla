-------------------------- MODULE LabelBatchProofs --------------------------
(***************************************************************************)
(* What the runs of the label batch leave in impression_label, for any     *)
(* number of runs, any bronze table, page and chunk sizes, and any         *)
(* interleaving with the sink, with database errors and with crashes.      *)
(***************************************************************************)
EXTENDS LabelBatch, CommonLemmas

USE LabelAssumption

RunType ==
    [pc : {"idle", "reading", "writing", "done", "dead"},
     after : 0..MaxId, events : SUBSET Ids,
     skippedBronze : Nat, skippedImpression : Nat,
     todo : SUBSET Ids, retry : SUBSET Ids,
     labeled : Nat, failed : Nat, errors : 0..MaxErrors]

Written(r) == run[r].pc \in {"writing", "done"}

-----------------------------------------------------------------------------
(* The inductive invariant.                                                *)

(* A run has read every row that was there when it began and that its      *)
(* cursor has passed, or has counted it as skipped.                        *)
Kept == {"impression", "oversized", "outcome", "costly"}
Passed(r) == {i \in atStart[r] : i <= run[r].after}

ReadsInOrder(r) ==
    /\ atStart[r] \subseteq Visible
    /\ run[r].events \subseteq Of(Visible, Kept)
    /\ Of(Passed(r), Kept) \subseteq run[r].events
    /\ Cardinality(Of(Passed(r), {"broken"})) <= run[r].skippedBronze
    /\ Cardinality(Of(Passed(r), {"partial"})) <= run[r].skippedImpression
    /\ Written(r) => Passed(r) = atStart[r]

(* What is still to be written is a part of what was built.                *)
WorkLeft(r) ==
    /\ run[r].todo \subseteq Joinable(run[r].events)
    /\ run[r].retry \subseteq Joinable(run[r].events)
    /\ run[r].todo \cap run[r].retry = {}
    /\ run[r].errors <= errors
    /\ run[r].pc = "reading" => run[r] = [Fresh("reading") EXCEPT
          !.after = run[r].after, !.events = run[r].events,
          !.skippedBronze = run[r].skippedBronze,
          !.skippedImpression = run[r].skippedImpression]
    /\ run[r].pc = "done" => run[r].todo = {} /\ run[r].retry = {}

(* The rows that are through are those the run gave up, all that do not    *)
(* fit among them, and those it has labelled.                              *)
Settled(r) == Joinable(run[r].events) \ (run[r].todo \cup run[r].retry)

Unfit(r, S) == {i \in S : ~Fits(i, r)}

GaveUp(r, F) ==
    /\ F \in SUBSET Settled(r)
    /\ Cardinality(F) = run[r].failed
    /\ Cardinality(Settled(r) \ F) = run[r].labeled
    /\ Unfit(r, Settled(r)) \subseteq F
    /\ run[r].errors = 0 => F \subseteq Unfit(r, Settled(r))
    /\ \A i \in Settled(r) \ F :
          /\ labels[i] # Unlabelled
          /\ ~overlapped[r] => Evidence(atStart[r]) \subseteq labels[i]

Accounted(r) == Written(r) => \E F : GaveUp(r, F)

(* A run that overlaps no other starts where the runs before it ended, and *)
(* knows of every outcome a label was computed from.                       *)
RunsInTurn ==
    /\ \A p, q \in Runs : p # q /\ Active(p) /\ Active(q) => overlapped[p]
    /\ \A p, q \in Runs : Done(p) /\ ~overlapped[p] /\ Active(q) =>
          atStart[p] \subseteq atStart[q]
    /\ \A r \in Runs : Active(r) /\ ~overlapped[r] =>
          \A i \in Ids : labels[i] # Unlabelled =>
              labels[i] \subseteq atStart[r] \cup run[r].events

RunInv(r) == ReadsInOrder(r) /\ WorkLeft(r) /\ Accounted(r)
IInv == TypeOK /\ RunsInTurn /\ \A r \in Runs : RunInv(r)

-----------------------------------------------------------------------------
(* Sets of rows are finite, and a row's kind is fixed once it is stored.   *)
LEMMA RowsAreFinite ==
  ASSUME NEW S \in SUBSET Ids
  PROVE  /\ IsFiniteSet(S)
         /\ Cardinality(S) \in Nat
         /\ \A T \in SUBSET S : Cardinality(T) <= Cardinality(S)
<1>1. IsFiniteSet(Ids)
  BY FS_Interval DEF Ids
<1>2. IsFiniteSet(S)
  BY <1>1, FS_Subset
<1> QED
  BY <1>2, FS_Subset, FS_CardinalityType

LEMMA JoinedCardinality ==
  ASSUME NEW S \in SUBSET Ids, NEW T \in SUBSET Ids
  PROVE  /\ Cardinality(S \cup T) <= Cardinality(S) + Cardinality(T)
         /\ S \cap T = {} =>
               Cardinality(S \cup T) = Cardinality(S) + Cardinality(T)
<1>1. /\ IsFiniteSet(S) /\ IsFiniteSet(T) /\ S \cap T \in SUBSET Ids
      /\ Cardinality(S) \in Nat /\ Cardinality(T) \in Nat
      /\ Cardinality(S \cap T) \in Nat
  BY RowsAreFinite
<1>2. Cardinality(S \cup T)
        = Cardinality(S) + Cardinality(T) - Cardinality(S \cap T)
  BY <1>1, FS_Union
<1>3. S \cap T = {} => Cardinality(S \cap T) = 0
  BY FS_EmptySet
<1> QED
  BY <1>1, <1>2, <1>3

LEMMA ChunkIsWork ==
  ASSUME NEW r \in Runs
  PROVE  NextChunk(r) \subseteq run[r].todo
BY DEF NextChunk, Page

LEMMA RowIsWork ==
  ASSUME TypeOK, NEW r \in Runs, run[r].retry # {}
  PROVE  \E x \in run[r].retry : NextRow(r) = {x}
<1>1. run[r].retry \in SUBSET (1..MaxId) /\ MaxId \in Nat
  BY DEF TypeOK, Ids
<1> QED
  BY <1>1, PageOfOne DEF NextRow

(* What RunInv says of a run that does nothing: rows that arrive and the   *)
(* labels that others write do not take it away.                           *)
LEMMA OthersKeepTheirs ==
  ASSUME TypeOK, NEW q \in Runs, RunInv(q),
         \A i \in Visible : row'[i] = row[i],
         run'[q] = run[q], atStart'[q] = atStart[q], errors <= errors',
         errors' \in Nat,
         overlapped[q] => overlapped'[q],
         \A i \in Ids : labels[i] # Unlabelled => labels'[i] # Unlabelled,
         ~overlapped[q] /\ Written(q) =>
            \A i \in Ids : /\ labels[i] # Unlabelled
                           /\ Evidence(atStart[q]) \subseteq labels[i]
                           => Evidence(atStart[q]) \subseteq labels'[i]
  PROVE  RunInv(q)'
<1>1. /\ Visible \subseteq Visible'
      /\ \A S \in SUBSET Visible : \A kinds : {i \in S : row'[i] \in kinds} = Of(S, kinds)
  BY DEF Visible, Of
<1>2. /\ atStart[q] \in SUBSET Visible /\ Passed(q) \in SUBSET Visible
      /\ run[q].events \in SUBSET Visible
      /\ Passed(q)' = Passed(q) /\ Written(q)' = Written(q)
  BY DEF RunInv, ReadsInOrder, Passed, Written, Of
<1>3. /\ Of(Passed(q), Kept)' = Of(Passed(q), Kept)
      /\ Of(Passed(q), {"broken"})' = Of(Passed(q), {"broken"})
      /\ Of(Passed(q), {"partial"})' = Of(Passed(q), {"partial"})
  BY <1>1, <1>2 DEF Of, Kept
<1>4. Of(Visible, Kept) \subseteq Of(Visible, Kept)'
  BY <1>1 DEF Of, Kept
<1>5. ReadsInOrder(q)'
  BY <1>1, <1>2, <1>3, <1>4 DEF RunInv, ReadsInOrder
<1>6. /\ Joinable(run[q].events)' = Joinable(run[q].events)
      /\ Settled(q)' = Settled(q)
  BY <1>1, <1>2 DEF Joinable, Of, Settled
<1>7. WorkLeft(q)'
  <2>1. run[q].errors \in Nat /\ errors \in Nat
    BY DEF TypeOK
  <2> QED
    BY <1>6, <2>1 DEF RunInv, WorkLeft, Fresh
<1>8. Accounted(q)'
  <2> SUFFICES ASSUME Written(q), NEW F, GaveUp(q, F)
               PROVE  GaveUp(q, F)'
    BY <1>2 DEF RunInv, Accounted
  <2>1. Settled(q) \in SUBSET Visible /\ Visible \subseteq Ids
    BY <1>2 DEF Settled, Joinable, Of, Visible
  <2>2. /\ Unfit(q, Settled(q))' = Unfit(q, Settled(q))
        /\ Evidence(atStart[q])' = Evidence(atStart[q])
    <3>1. /\ Of(run[q].events, {"costly"})' = Of(run[q].events, {"costly"})
          /\ Evidence(atStart[q])' = Evidence(atStart[q])
      BY <1>1, <1>2 DEF Of, Evidence
    <3>2. \A i \in Settled(q) : Fits(i, q)' <=> Fits(i, q)
      BY <2>1, <3>1 DEF Fits
    <3> QED
      BY <1>6, <3>1, <3>2 DEF Unfit
  <2>3. ASSUME NEW i \in Settled(q) \ F
        PROVE  /\ labels'[i] # Unlabelled
               /\ ~overlapped'[q] => Evidence(atStart[q]) \subseteq labels'[i]
    BY <2>1 DEF GaveUp
  <2> QED
    BY <1>6, <2>2, <2>3 DEF GaveUp, Unlabelled
<1> QED
  BY <1>5, <1>7, <1>8 DEF RunInv

-----------------------------------------------------------------------------
(* A run of the batch changes its own state and, while it writes, labels   *)
(* impressions with all it has read.                                       *)
LabelStep(r) ==
    \/ labels' = labels
    \/ /\ run[r].pc = "writing"
       /\ run'[r].events = run[r].events
       /\ \E S \in SUBSET Of(run[r].events, {"impression"}) : Upsert(S, r)

(* It is then enough to look at the run that takes the step.               *)
LEMMA StepKeeps ==
  ASSUME IInv, NEW r \in Runs, Active(r), LabelStep(r),
         UNCHANGED <<row, historyVars>>,
         errors' \in 0..MaxErrors, errors <= errors',
         crashes' \in 0..MaxCrashes,
         run' = [run EXCEPT ![r] = run'[r]], run'[r] \in RunType,
         Active(r)' => run[r].events \subseteq run'[r].events,
         RunInv(r)'
  PROVE  IInv'
<1> USE DEF historyVars
<1>1. TypeOK /\ RunsInTurn /\ \A q \in Runs : RunInv(q)
  BY DEF IInv
<1>2. run \in [Runs -> RunType] /\ run' \in [Runs -> RunType]
      /\ \A q \in Runs \ {r} : run'[q] = run[q]
  BY <1>1 DEF TypeOK, RunType
<1> DEFINE LabelsStand ==
             /\ labels' \in [Ids -> (SUBSET Ids) \cup {Unlabelled}]
             /\ \A i \in Ids : labels[i] # Unlabelled => labels'[i] # Unlabelled
             /\ \A i \in Ids : labels'[i] # Unlabelled =>
                   row[i] = "impression" /\ labels'[i] \subseteq Evidence(Visible)
<1>3. LabelsStand
  <2>1. CASE labels' = labels
    BY <1>1, <2>1 DEF TypeOK
  <2>2. ASSUME NEW S \in SUBSET Of(run[r].events, {"impression"}), Upsert(S, r)
        PROVE  LabelsStand
    <3>1. run[r].events \subseteq Visible
      BY <1>1 DEF RunInv, ReadsInOrder, Of
    <3>2. Evidence(run[r].events) \in SUBSET Ids
          /\ Evidence(run[r].events) # Unlabelled
          /\ Evidence(run[r].events) \subseteq Evidence(Visible)
      <4>1. 0 \notin Ids
        BY DEF Ids
      <4> QED
        BY <3>1, <4>1 DEF Evidence, Of, Visible, Unlabelled
    <3>3. \A i \in S : row[i] = "impression"
      BY DEF Of
    <3> QED
      BY <1>1, <2>2, <3>2, <3>3 DEF Upsert, TypeOK
  <2> QED
    BY <2>1, <2>2 DEF LabelStep
<1>4. TypeOK'
  <2>1. Evidence(Visible)' = Evidence(Visible)
    BY DEF Evidence, Of, Visible
  <2> QED
    BY <1>1, <1>2, <1>3, <2>1 DEF TypeOK, RunType, Unlabelled
<1>5. ASSUME NEW q \in Runs \ {r}
      PROVE  RunInv(q)'
  <2>1. ASSUME ~overlapped[q], Written(q), NEW i \in Ids,
               labels[i] # Unlabelled, Evidence(atStart[q]) \subseteq labels[i]
        PROVE  Evidence(atStart[q]) \subseteq labels'[i]
    <3>1. CASE labels' = labels
      BY <2>1, <3>1
    <3>2. ASSUME NEW S, Upsert(S, r), run[r].pc = "writing"
          PROVE  Evidence(atStart[q]) \subseteq labels'[i]
      <4>1. Done(q)
        BY <1>1, <2>1 DEF RunsInTurn, Active, Written, Done
      <4>2. atStart[q] \subseteq atStart[r]
        BY <1>1, <2>1, <4>1 DEF RunsInTurn
      <4>3. Evidence(atStart[r]) \subseteq Evidence(run[r].events)
        <5>1. Of(atStart[r], Kept) \subseteq run[r].events
          BY <1>1, <3>2 DEF RunInv, ReadsInOrder, Written
        <5> QED
          BY <5>1 DEF Evidence, Of, Kept
      <4>4. Evidence(atStart[q]) \subseteq Evidence(atStart[r])
        BY <4>2 DEF Evidence, Of
      <4> QED
        BY <2>1, <3>2, <4>3, <4>4 DEF Upsert
    <3> QED
      BY <3>1, <3>2 DEF LabelStep
  <2> QED
    BY <1>1, <1>2, <1>3, <2>1, OthersKeepTheirs
<1>6. RunsInTurn'
  <2>0. \A q \in Runs : Active(q)' => Active(q)
    BY <1>2 DEF Active
  <2>1. \A p, q \in Runs : p # q /\ Active(p)' /\ Active(q)' => overlapped'[p]
    BY <1>1, <2>0 DEF RunsInTurn
  <2>2. ASSUME NEW p \in Runs, NEW q \in Runs,
               Done(p)', ~overlapped'[p], Active(q)'
        PROVE  atStart'[p] \subseteq atStart'[q]
    <3>1. CASE Done(p)
      BY <1>1, <2>0, <2>2, <3>1 DEF RunsInTurn
    <3>2. CASE ~Done(p)
      <4>1. p = r
        BY <1>2, <2>2, <3>2 DEF Done
      <4>2. p # q
        BY <2>2 DEF Done, Active
      <4> QED
        BY <1>1, <2>0, <2>2, <4>1, <4>2 DEF RunsInTurn
    <3> QED
      BY <3>1, <3>2
  <2>3. ASSUME NEW p \in Runs, Active(p)', ~overlapped'[p], NEW i \in Ids,
               labels'[i] # Unlabelled
        PROVE  labels'[i] \subseteq atStart'[p] \cup run'[p].events
    <3>1. p = r
      BY <1>1, <2>0, <2>3 DEF RunsInTurn
    <3>2. labels[i] # Unlabelled => labels[i] \subseteq atStart[r] \cup run[r].events
      BY <1>1, <2>3, <3>1 DEF RunsInTurn
    <3>3. Evidence(run[r].events) \subseteq run[r].events
      BY DEF Evidence, Of
    <3>4. labels'[i] = labels[i] \/ labels'[i] = Evidence(run[r].events)
      BY DEF LabelStep, Upsert
    <3> QED
      BY <2>3, <3>1, <3>2, <3>3, <3>4
  <2> QED
    BY <2>1, <2>2, <2>3 DEF RunsInTurn
<1> QED
  BY <1>4, <1>5, <1>6 DEF IInv

-----------------------------------------------------------------------------
(* Reading.                                                                *)

LEMMA ReadPageKeeps ==
  ASSUME IInv, NEW r \in Runs, ReadPage(r)
  PROVE  IInv'
<1> DEFINE page == NextPage(r)
<1>0. TypeOK /\ RunInv(r)
  BY DEF IInv
<1>1. PICK last \in page :
        /\ \A i \in page : i <= last
        /\ run' = [run EXCEPT
              ![r].after = last,
              ![r].events = @ \cup Joinable(page) \cup Evidence(page),
              ![r].skippedBronze = @ + Cardinality(Of(page, {"broken"})),
              ![r].skippedImpression =
                  @ + Cardinality(Of(page, {"partial"}))]
  BY DEF ReadPage
<1>2. run[r].pc = "reading" /\ UNCHANGED <<row, labels, historyVars, errors, crashes>>
  BY DEF ReadPage
<1>3. run \in [Runs -> RunType] /\ run[r] \in RunType
  BY <1>0 DEF TypeOK, RunType
<1>4. /\ run'[r] = [run[r] EXCEPT
              !.after = last,
              !.events = @ \cup Joinable(page) \cup Evidence(page),
              !.skippedBronze = @ + Cardinality(Of(page, {"broken"})),
              !.skippedImpression = @ + Cardinality(Of(page, {"partial"}))]
      /\ run' = [run EXCEPT ![r] = run'[r]]
  BY <1>1, <1>3
<1>5. /\ page \subseteq {i \in Visible : run[r].after < i}
      /\ \A i \in page, j \in Visible :
            run[r].after < j /\ j < i => j \in page
  <2>1. Visible \in SUBSET (1..MaxId) /\ MaxId \in Nat /\ run[r].after \in Nat
    BY <1>3 DEF Visible, Ids, RunType
  <2> DEFINE after == run[r].after
             next == Page(Visible, after, BatchSize)
  <2>2. page = next /\ BatchSize \in Nat \ {0}
    BY DEF NextPage
  <2>3. after \in Nat
    BY <2>1
  <2> HIDE DEF page, after
  <2>4. /\ next \subseteq {i \in Visible : after < i}
        /\ \A i \in next, j \in Visible : after < j /\ j < i => j \in next
    BY <2>1, <2>2, <2>3, PageIs
  <2> QED
    BY <2>2, <2>4 DEF after
<1>6. page \in SUBSET Ids /\ last \in 1..MaxId
  BY <1>1, <1>5 DEF Visible, Ids
<1> HIDE DEF page
<1>7. run'[r] \in RunType
  <2>1. /\ Joinable(page) \in SUBSET Ids /\ Evidence(page) \in SUBSET Ids
        /\ Of(page, {"broken"}) \in SUBSET Ids
        /\ Of(page, {"partial"}) \in SUBSET Ids
    BY <1>6 DEF Joinable, Evidence, Of
  <2>2. /\ Cardinality(Of(page, {"broken"})) \in Nat
        /\ Cardinality(Of(page, {"partial"})) \in Nat
    BY <2>1, RowsAreFinite
  <2>3. last \in 0..MaxId
    BY <1>6
  <2>4. /\ run[r].events \cup Joinable(page) \cup Evidence(page) \in SUBSET Ids
        /\ run[r].skippedBronze + Cardinality(Of(page, {"broken"})) \in Nat
        /\ run[r].skippedImpression + Cardinality(Of(page, {"partial"})) \in Nat
    BY <1>3, <2>1, <2>2 DEF RunType
  <2> QED
    BY <1>3, <1>4, <2>3, <2>4 DEF RunType
<1>8. Passed(r)' \subseteq Passed(r) \cup page
  <2> SUFFICES ASSUME NEW i \in atStart[r], i <= last, ~(i <= run[r].after)
               PROVE  i \in page
    BY <1>2, <1>3, <1>4 DEF Passed, historyVars, RunType
  <2>1. i \in Visible
    BY <1>0 DEF RunInv, ReadsInOrder
  <2>2. i \in Int /\ last \in Int /\ run[r].after \in Int
    BY <1>3, <1>6, <2>1 DEF Visible, Ids, RunType
  <2>3. i = last \/ (run[r].after < i /\ i < last)
    BY <2>2
  <2> QED
    BY <1>1, <1>5, <2>1, <2>3
<1>9. ReadsInOrder(r)'
  <2>1. atStart'[r] \subseteq Visible'
    BY <1>0, <1>2 DEF RunInv, ReadsInOrder, Visible, historyVars
  <2>2. run'[r].events \subseteq Of(Visible, Kept)'
    <3>1. Joinable(page) \cup Evidence(page) \subseteq Of(Visible, Kept)
      BY <1>5 DEF Joinable, Evidence, Of, Kept
    <3> QED
      BY <1>0, <1>2, <1>3, <1>4, <3>1
      DEF RunInv, ReadsInOrder, Of, Visible, RunType
  <2>3. Of(Passed(r), Kept)' \subseteq run'[r].events
    <3>1. Of(Passed(r), Kept)' \subseteq Of(Passed(r), Kept) \cup Of(page, Kept)
      BY <1>2, <1>8 DEF Of, Kept
    <3>2. Of(page, Kept) = Joinable(page) \cup Evidence(page)
      BY DEF Of, Kept, Joinable, Evidence
    <3> QED
      BY <1>0, <1>3, <1>4, <3>1, <3>2 DEF RunInv, ReadsInOrder, RunType
  <2>4. ASSUME NEW kind \in Kinds
        PROVE  Cardinality(Of(Passed(r), {kind})')
                  <= Cardinality(Of(Passed(r), {kind}))
                       + Cardinality(Of(page, {kind}))
    <3>1. Of(Passed(r), {kind})' \subseteq Of(Passed(r), {kind}) \cup Of(page, {kind})
      BY <1>2, <1>8 DEF Of
    <3>2. Of(Passed(r), {kind}) \in SUBSET Ids /\ Of(page, {kind}) \in SUBSET Ids
      BY <1>0, <1>6 DEF Passed, Of, TypeOK
    <3>3. Cardinality(Of(Passed(r), {kind})')
            <= Cardinality(Of(Passed(r), {kind}) \cup Of(page, {kind}))
      BY <3>1, <3>2, RowsAreFinite
    <3>4. Cardinality(Of(Passed(r), {kind}) \cup Of(page, {kind}))
            <= Cardinality(Of(Passed(r), {kind})) + Cardinality(Of(page, {kind}))
      BY <3>2, JoinedCardinality
    <3>5. /\ Of(Passed(r), {kind})' \in SUBSET Ids
          /\ Of(Passed(r), {kind}) \cup Of(page, {kind}) \in SUBSET Ids
      BY <3>1, <3>2
    <3>6. /\ Cardinality(Of(Passed(r), {kind})') \in Nat
          /\ Cardinality(Of(Passed(r), {kind}) \cup Of(page, {kind})) \in Nat
          /\ Cardinality(Of(Passed(r), {kind})) \in Nat
          /\ Cardinality(Of(page, {kind})) \in Nat
      BY <3>2, <3>5, RowsAreFinite
    <3> QED
      BY <3>3, <3>4, <3>6
  <2>5. /\ Cardinality(Of(Passed(r), {"broken"})') <= run'[r].skippedBronze
        /\ Cardinality(Of(Passed(r), {"partial"})') <= run'[r].skippedImpression
    <3>1. ASSUME NEW kind \in Kinds
          PROVE  /\ Cardinality(Of(Passed(r), {kind})) \in Nat
                 /\ Cardinality(Of(page, {kind})) \in Nat
                 /\ Cardinality(Of(Passed(r), {kind})') \in Nat
      <4>1. /\ Of(Passed(r), {kind}) \in SUBSET Ids
            /\ Of(page, {kind}) \in SUBSET Ids
            /\ Of(Passed(r), {kind})' \in SUBSET Ids
        BY <1>0, <1>2, <1>6 DEF Passed, Of, TypeOK, historyVars
      <4> QED
        BY <4>1, RowsAreFinite
    <3>2. /\ run'[r].skippedBronze = run[r].skippedBronze + Cardinality(Of(page, {"broken"}))
          /\ run'[r].skippedImpression
                = run[r].skippedImpression + Cardinality(Of(page, {"partial"}))
          /\ run[r].skippedBronze \in Nat /\ run[r].skippedImpression \in Nat
      BY <1>3, <1>4 DEF RunType
    <3>3. /\ Cardinality(Of(Passed(r), {"broken"})) <= run[r].skippedBronze
          /\ Cardinality(Of(Passed(r), {"partial"})) <= run[r].skippedImpression
      BY <1>0 DEF RunInv, ReadsInOrder
    <3>0. "broken" \in Kinds /\ "partial" \in Kinds
      BY DEF Kinds
    <3>4. /\ Cardinality(Of(Passed(r), {"broken"})')
               <= Cardinality(Of(Passed(r), {"broken"}))
                    + Cardinality(Of(page, {"broken"}))
          /\ Cardinality(Of(Passed(r), {"partial"})')
               <= Cardinality(Of(Passed(r), {"partial"}))
                    + Cardinality(Of(page, {"partial"}))
      BY <2>4, <3>0
    <3>5. \A a, b, c, d, e \in Nat : a <= b + c /\ b <= d /\ e = d + c => a <= e
      OBVIOUS
    <3>6. /\ run'[r].skippedBronze \in Nat
          /\ run'[r].skippedImpression \in Nat
      BY <3>0, <3>1, <3>2
    <3>7. Cardinality(Of(Passed(r), {"broken"})') <= run'[r].skippedBronze
      BY <3>0, <3>1, <3>2, <3>3, <3>4, <3>5, <3>6
    <3>8. Cardinality(Of(Passed(r), {"partial"})') <= run'[r].skippedImpression
      BY <3>0, <3>1, <3>2, <3>3, <3>4, <3>5, <3>6
    <3> QED
      BY <3>7, <3>8
  <2>6. ~Written(r)'
    BY <1>2, <1>3, <1>4 DEF Written, RunType
  <2> QED
    BY <2>1, <2>2, <2>3, <2>5, <2>6 DEF ReadsInOrder
<1>10. WorkLeft(r)' /\ Accounted(r)'
  <2>1. run[r].todo = {} /\ run[r].retry = {}
    BY <1>0, <1>2 DEF RunInv, WorkLeft, Fresh
  <2> QED
    BY ZenonT(30), <1>0, <1>2, <1>3, <1>4, <2>1
    DEF RunInv, WorkLeft, Accounted, Written, Fresh, RunType
<1>11. Active(r) /\ run[r].events \subseteq run'[r].events
  BY <1>2, <1>3, <1>4 DEF Active, RunType
<1>12. /\ RunInv(r)' /\ LabelStep(r) /\ errors' = errors /\ crashes' = crashes
       /\ errors \in 0..MaxErrors /\ crashes \in 0..MaxCrashes
       /\ UNCHANGED <<row, historyVars>>
  BY <1>0, <1>2, <1>9, <1>10 DEF RunInv, LabelStep, TypeOK
<1>13. run' = [run EXCEPT ![r] = run'[r]] /\ Active(r)
       /\ (Active(r)' => run[r].events \subseteq run'[r].events)
       /\ errors <= errors'
  BY <1>4, <1>11, <1>12
<1> QED
  BY <1>7, <1>12, <1>13, StepKeeps

(* A run that dies leaves what it has committed and nothing else.          *)
LEMMA StopKeeps ==
  ASSUME IInv, NEW r \in Runs, DieReading(r) \/ Crash(r)
  PROVE  IInv'
<1>0. TypeOK /\ RunInv(r)
  BY DEF IInv
<1>1. PICK state \in {"idle", "dead"} : run' = [run EXCEPT ![r] = Fresh(state)]
  BY DEF DieReading, Crash
<1>2. /\ Active(r) /\ UNCHANGED <<row, labels, historyVars, errors>>
      /\ crashes' \in 0..MaxCrashes
  BY <1>0 DEF DieReading, Crash, Active, TypeOK
<1>3. run'[r] = Fresh(state)
  BY <1>0, <1>1 DEF TypeOK
<1>4. run'[r] \in RunType
  BY <1>3 DEF Fresh, RunType
<1>5. ~Active(r)' /\ ~Written(r)'
  BY <1>3 DEF Fresh, Active, Written
<1>6. RunInv(r)'
  <2>1. Passed(r)' = {}
    <3>1. atStart'[r] \subseteq 1..MaxId
      BY <1>0, <1>2 DEF TypeOK, historyVars, Ids
    <3> QED
      BY <1>3, <3>1 DEF Passed, Fresh
  <2>2. /\ Of(Passed(r), Kept)' = {}
        /\ Of(Passed(r), {"broken"})' = {}
        /\ Of(Passed(r), {"partial"})' = {}
    BY <2>1 DEF Of
  <2>3. ReadsInOrder(r)'
    <3>1. /\ atStart'[r] \subseteq Visible'
          /\ run'[r].events = {}
          /\ run'[r].skippedBronze = 0 /\ run'[r].skippedImpression = 0
      BY <1>0, <1>2, <1>3
      DEF RunInv, ReadsInOrder, Visible, historyVars, Fresh
    <3>2. /\ Cardinality(Of(Passed(r), {"broken"})') = 0
          /\ Cardinality(Of(Passed(r), {"partial"})') = 0
      BY <2>2, FS_EmptySet
    <3> QED
      BY <1>5, <2>2, <3>1, <3>2 DEF ReadsInOrder
  <2>4. WorkLeft(r)'
    BY <1>0, <1>2, <1>3 DEF RunInv, WorkLeft, Fresh, TypeOK
  <2> QED
    BY <1>5, <2>3, <2>4 DEF RunInv, Accounted
<1>7. /\ LabelStep(r) /\ errors' = errors /\ errors \in 0..MaxErrors
      /\ UNCHANGED <<row, historyVars>>
      /\ run' = [run EXCEPT ![r] = run'[r]]
  BY <1>0, <1>1, <1>2, <1>3 DEF LabelStep, TypeOK
<1> QED
  BY <1>2, <1>4, <1>5, <1>6, <1>7, StepKeeps

(* Bronze is exhausted only when the cursor has passed all there was.      *)
LEMMA BuildKeeps ==
  ASSUME IInv, NEW r \in Runs, Build(r)
  PROVE  IInv'
<1>0. TypeOK /\ RunInv(r)
  BY DEF IInv
<1>1. /\ run[r].pc = "reading" /\ NextPage(r) = {}
      /\ run' = [run EXCEPT ![r].pc = "writing",
                            ![r].todo = Joinable(run[r].events)]
      /\ UNCHANGED <<row, labels, historyVars, errors, crashes>>
  BY DEF Build
<1>2. run \in [Runs -> RunType] /\ run[r] \in RunType
  BY <1>0 DEF TypeOK, RunType
<1>3. run'[r] = [run[r] EXCEPT !.pc = "writing",
                               !.todo = Joinable(run[r].events)]
      /\ run' = [run EXCEPT ![r] = run'[r]]
  BY <1>1, <1>2
<1>4. run'[r] \in RunType
  BY <1>2, <1>3 DEF RunType, Joinable, Of
<1>5. /\ run'[r].events = run[r].events /\ run'[r].after = run[r].after
      /\ run'[r].skippedBronze = run[r].skippedBronze
      /\ run'[r].skippedImpression = run[r].skippedImpression
      /\ run'[r].todo = Joinable(run[r].events) /\ run'[r].retry = {}
      /\ run'[r].labeled = 0 /\ run'[r].failed = 0 /\ run'[r].errors = 0
      /\ run'[r].pc = "writing"
  BY <1>0, <1>1, <1>2, <1>3 DEF RunInv, WorkLeft, Fresh, RunType
<1>6. Passed(r) = atStart[r]
  <2> DEFINE after == run[r].after
             next == Page(Visible, after, BatchSize)
  <2>1. /\ Visible \in SUBSET (1..MaxId) /\ MaxId \in Nat
        /\ after \in Nat /\ BatchSize \in Nat \ {0}
    BY <1>2 DEF Visible, Ids, RunType
  <2>2. next = {}
    BY <1>1 DEF NextPage
  <2> HIDE DEF after
  <2>3. \A i \in Visible : i <= after
    BY <2>1, <2>2, PageIs
  <2> QED
    BY <1>0, <2>3 DEF after, Passed, RunInv, ReadsInOrder
<1>7. ReadsInOrder(r)'
  <2>1. /\ Passed(r)' = Passed(r) /\ atStart'[r] = atStart[r]
        /\ Visible' = Visible
        /\ \A S, kinds : {i \in S : row'[i] \in kinds} = Of(S, kinds)
    BY <1>1, <1>5 DEF Passed, historyVars, Visible, Of
  <2>2. /\ Of(Passed(r), Kept)' = Of(Passed(r), Kept)
        /\ Of(Passed(r), {"broken"})' = Of(Passed(r), {"broken"})
        /\ Of(Passed(r), {"partial"})' = Of(Passed(r), {"partial"})
        /\ Of(Visible, Kept)' = Of(Visible, Kept)
    BY <1>1, <2>1 DEF Of, Kept
  <2> QED
    BY <1>0, <1>5, <1>6, <2>1, <2>2 DEF RunInv, ReadsInOrder
<1>8. Joinable(run[r].events)' = Joinable(run[r].events)
  BY <1>1, <1>5 DEF Joinable, Of
<1>9. WorkLeft(r)'
  BY <1>0, <1>1, <1>5, <1>8 DEF RunInv, WorkLeft, TypeOK
<1>10. Accounted(r)'
  <2>1. Settled(r)' = {}
    BY <1>5, <1>8 DEF Settled
  <2>2. Cardinality({}) = 0
    BY FS_EmptySet
  <2>3. GaveUp(r, {})'
    BY <1>5, <2>1, <2>2 DEF GaveUp, Unfit
  <2> QED
    BY <2>3 DEF Accounted
<1>11. /\ RunInv(r)' /\ LabelStep(r) /\ errors' = errors /\ crashes' = crashes
       /\ errors \in 0..MaxErrors /\ crashes \in 0..MaxCrashes
       /\ UNCHANGED <<row, historyVars>> /\ Active(r)
  BY <1>0, <1>1, <1>7, <1>9, <1>10 DEF RunInv, LabelStep, TypeOK, Active
<1>12. run' = [run EXCEPT ![r] = run'[r]] /\ errors <= errors'
       /\ run[r].events \subseteq run'[r].events
  BY <1>3, <1>5, <1>11
<1> QED
  BY <1>4, <1>11, <1>12, StepKeeps

-----------------------------------------------------------------------------
(* Writing.                                                                *)

(* A run that writes has done its reading.                                 *)
ReadingDone(r) ==
    /\ run[r].pc = "writing"
    /\ UNCHANGED <<row, historyVars, crashes>>
    /\ run' = [run EXCEPT ![r] = run'[r]]
    /\ run'[r] \in RunType
    /\ run'[r].pc \in {"writing", "done"}
    /\ run'[r].events = run[r].events
    /\ run'[r].after = run[r].after
    /\ run'[r].skippedBronze = run[r].skippedBronze
    /\ run'[r].skippedImpression = run[r].skippedImpression

LEMMA WriteKeeps ==
  ASSUME IInv, NEW r \in Runs, ReadingDone(r), LabelStep(r),
         errors' \in 0..MaxErrors, errors <= errors',
         WorkLeft(r)', Accounted(r)'
  PROVE  IInv'
<1>0. TypeOK /\ RunInv(r)
  BY DEF IInv
<1>1. /\ Passed(r)' = Passed(r) /\ atStart'[r] = atStart[r]
      /\ Visible' = Visible /\ row' = row
  BY DEF ReadingDone, Passed, historyVars, Visible
<1>2. /\ Of(Passed(r), Kept)' = Of(Passed(r), Kept)
      /\ Of(Passed(r), {"broken"})' = Of(Passed(r), {"broken"})
      /\ Of(Passed(r), {"partial"})' = Of(Passed(r), {"partial"})
      /\ Of(Visible, Kept)' = Of(Visible, Kept)
  BY <1>1 DEF Of, Kept
<1>3. Written(r) /\ Written(r)'
  BY DEF ReadingDone, Written
<1>4. ReadsInOrder(r)'
  BY <1>0, <1>1, <1>2, <1>3 DEF ReadingDone, RunInv, ReadsInOrder
<1>5. /\ RunInv(r)' /\ crashes' \in 0..MaxCrashes
      /\ UNCHANGED <<row, historyVars>> /\ Active(r)
      /\ run' = [run EXCEPT ![r] = run'[r]] /\ run'[r] \in RunType
      /\ run[r].events \subseteq run'[r].events
  BY <1>0, <1>4 DEF ReadingDone, RunInv, Active, TypeOK
<1> QED
  BY <1>5, StepKeeps

(* What fits a run's chunk does not change while it writes.                *)
LEMMA FitsStay ==
  ASSUME NEW r \in Runs, ReadingDone(r)
  PROVE  \A i : Fits(i, r)' <=> Fits(i, r)
<1>1. Of(run[r].events, {"costly"})' = Of(run[r].events, {"costly"})
  BY DEF ReadingDone, Of
<1> QED
  BY <1>1 DEF Fits, ReadingDone

(* Rows that are upserted are through, and the run has not given them up.  *)
LEMMA UpsertAccounts ==
  ASSUME IInv, NEW r \in Runs, ReadingDone(r),
         NEW S \in SUBSET (run[r].todo \cup run[r].retry),
         \A i \in S : Fits(i, r), Upsert(S, r),
         run'[r].todo \cup run'[r].retry = (run[r].todo \cup run[r].retry) \ S,
         run'[r].labeled = run[r].labeled + Cardinality(S),
         run'[r].failed = run[r].failed, run'[r].errors = run[r].errors
  PROVE  Accounted(r)' /\ LabelStep(r)
<1>0. TypeOK /\ RunInv(r)
  BY DEF IInv
<1>1. /\ S \subseteq Joinable(run[r].events) /\ S \cap Settled(r) = {}
      /\ Joinable(run[r].events)' = Joinable(run[r].events)
      /\ Settled(r)' = Settled(r) \cup S
  <2>1. S \subseteq Joinable(run[r].events)
    BY <1>0 DEF RunInv, WorkLeft
  <2>2. Joinable(run[r].events)' = Joinable(run[r].events)
    BY DEF ReadingDone, Joinable, Of
  <2> QED
    BY <2>1, <2>2 DEF Settled
<1>2. S \subseteq Of(run[r].events, {"impression"})
  BY <1>1 DEF Joinable, Of, Fits
<1>3. LabelStep(r)
  BY <1>2 DEF LabelStep, ReadingDone
<1>4. PICK F : GaveUp(r, F)
  BY <1>0 DEF RunInv, Accounted, Written, ReadingDone
<1>5. /\ Settled(r) \in SUBSET Ids /\ S \in SUBSET Ids
      /\ Settled(r) \ F \in SUBSET Ids
  BY <1>0, <1>1 DEF Settled, Joinable, Of, RunInv, ReadsInOrder, Visible
<1>6. Cardinality(Settled(r)' \ F) = run'[r].labeled
  <2>1. Settled(r)' \ F = (Settled(r) \ F) \cup S
    BY <1>1, <1>4 DEF GaveUp
  <2>2. (Settled(r) \ F) \cap S = {}
    BY <1>1
  <2>3. Cardinality((Settled(r) \ F) \cup S)
           = Cardinality(Settled(r) \ F) + Cardinality(S)
    BY <1>5, <2>2, JoinedCardinality
  <2> QED
    BY <1>4, <2>1, <2>3 DEF GaveUp
<1>7. Unfit(r, Settled(r))' = Unfit(r, Settled(r))
  <2>1. \A i : Fits(i, r)' <=> Fits(i, r)
    BY FitsStay
  <2> QED
    BY <1>1, <2>1 DEF Unfit
<1>8. ASSUME NEW i \in Settled(r)' \ F
      PROVE  /\ labels'[i] # Unlabelled
             /\ ~overlapped'[r] => Evidence(atStart[r])' \subseteq labels'[i]
  <2>0. Evidence(atStart[r])' = Evidence(atStart[r]) /\ overlapped' = overlapped
        /\ i \in Ids
    BY <1>1, <1>5 DEF Evidence, Of, ReadingDone, historyVars
  <2>1. CASE i \in S
    <3>1. labels'[i] = Evidence(run[r].events)
      BY <2>0, <2>1 DEF Upsert
    <3>2. 0 \notin Evidence(run[r].events)
      BY <1>0 DEF TypeOK, Evidence, Of, Ids
    <3>3. Evidence(atStart[r]) \subseteq Evidence(run[r].events)
      <4>1. Of(atStart[r], Kept) \subseteq run[r].events
        BY <1>0 DEF RunInv, ReadsInOrder, Written, ReadingDone
      <4> QED
        BY <4>1 DEF Evidence, Of, Kept
    <3> QED
      BY <2>0, <3>1, <3>2, <3>3 DEF Unlabelled
  <2>2. CASE i \notin S
    <3>1. i \in Settled(r) \ F /\ labels'[i] = labels[i]
      BY <1>1, <2>0, <2>2 DEF Upsert
    <3> QED
      BY <1>4, <2>0, <3>1 DEF GaveUp, Unlabelled
  <2> QED
    BY <2>1, <2>2
<1>9. GaveUp(r, F)'
  BY <1>1, <1>4, <1>6, <1>7, <1>8 DEF GaveUp
<1> QED
  BY <1>3, <1>9 DEF Accounted

LEMMA UpsertChunkKeeps ==
  ASSUME IInv, NEW r \in Runs, UpsertChunk(r)
  PROVE  IInv'
<1> DEFINE S == NextChunk(r)
<1>0. TypeOK /\ RunInv(r) /\ S \subseteq run[r].todo
  BY ChunkIsWork DEF IInv
<1>1. /\ run[r].pc = "writing" /\ run[r].retry = {}
      /\ \A i \in S : Fits(i, r)
      /\ Upsert(S, r)
      /\ run' = [run EXCEPT ![r].todo = @ \ S,
                            ![r].labeled = @ + Cardinality(S)]
      /\ UNCHANGED <<row, historyVars, errors, crashes>>
  BY DEF UpsertChunk
<1>2. run \in [Runs -> RunType] /\ run[r] \in RunType
  BY <1>0 DEF TypeOK, RunType
<1> HIDE DEF S
<1>3. S \in SUBSET Ids /\ Cardinality(S) \in Nat
  BY <1>0, <1>2, RowsAreFinite DEF RunType
<1>4. run'[r] = [run[r] EXCEPT !.todo = @ \ S, !.labeled = @ + Cardinality(S)]
      /\ run' = [run EXCEPT ![r] = run'[r]]
  BY <1>1, <1>2
<1>5. run'[r] \in RunType
  <2>1. run[r].todo \ S \in SUBSET Ids /\ run[r].labeled + Cardinality(S) \in Nat
    BY <1>2, <1>3 DEF RunType
  <2> QED
    BY <1>2, <1>4, <2>1 DEF RunType
<1>6. ReadingDone(r)
  BY <1>1, <1>2, <1>4, <1>5 DEF ReadingDone, RunType
<1>7. /\ run'[r].todo = run[r].todo \ S /\ run'[r].retry = {}
      /\ run'[r].labeled = run[r].labeled + Cardinality(S)
      /\ run'[r].failed = run[r].failed /\ run'[r].errors = run[r].errors
      /\ run'[r].pc = "writing"
  BY <1>1, <1>2, <1>4 DEF RunType
<1>8. Accounted(r)' /\ LabelStep(r)
  <2>1. run'[r].todo \cup run'[r].retry = (run[r].todo \cup run[r].retry) \ S
    BY <1>1, <1>7
  <2>2. S \in SUBSET (run[r].todo \cup run[r].retry)
    BY <1>0
  <2> QED
    BY <1>1, <1>6, <1>7, <2>1, <2>2, UpsertAccounts
<1>9. WorkLeft(r)'
  <2>1. Joinable(run[r].events)' = Joinable(run[r].events)
    BY <1>6 DEF ReadingDone, Joinable, Of
  <2> QED
    BY <1>0, <1>1, <1>7, <2>1 DEF RunInv, WorkLeft
<1>10. errors' \in 0..MaxErrors /\ errors <= errors'
  BY <1>0, <1>1 DEF TypeOK
<1> QED
  BY <1>6, <1>8, <1>9, <1>10, WriteKeeps

LEMMA UpsertRowKeeps ==
  ASSUME IInv, NEW r \in Runs, UpsertRow(r)
  PROVE  IInv'
<1>0. TypeOK /\ RunInv(r) /\ run[r].retry # {}
  BY DEF IInv, UpsertRow
<1>1. PICK x \in run[r].retry : NextRow(r) = {x}
  BY <1>0, RowIsWork
<1>2. /\ run[r].pc = "writing" /\ \A i \in {x} : Fits(i, r)
      /\ Upsert({x}, r)
      /\ run' = [run EXCEPT ![r].retry = @ \ {x}, ![r].labeled = @ + 1]
      /\ UNCHANGED <<row, historyVars, errors, crashes>>
  BY <1>1 DEF UpsertRow
<1>3. run \in [Runs -> RunType] /\ run[r] \in RunType
  BY <1>0 DEF TypeOK, RunType
<1>4. run'[r] = [run[r] EXCEPT !.retry = @ \ {x}, !.labeled = @ + 1]
      /\ run' = [run EXCEPT ![r] = run'[r]]
  BY <1>2, <1>3
<1>5. run'[r] \in RunType
  <2>1. run[r].retry \ {x} \in SUBSET Ids /\ run[r].labeled + 1 \in Nat
    BY <1>3 DEF RunType
  <2> QED
    BY <1>3, <1>4, <2>1 DEF RunType
<1>6. ReadingDone(r)
  BY <1>2, <1>3, <1>4, <1>5 DEF ReadingDone, RunType
<1>7. /\ run'[r].todo = run[r].todo /\ run'[r].retry = run[r].retry \ {x}
      /\ run'[r].labeled = run[r].labeled + 1
      /\ run'[r].failed = run[r].failed /\ run'[r].errors = run[r].errors
      /\ run'[r].pc = "writing"
  BY <1>2, <1>3, <1>4 DEF RunType
<1>8. Accounted(r)' /\ LabelStep(r)
  <2>1. x \notin run[r].todo
    BY <1>0 DEF RunInv, WorkLeft
  <2>2. run'[r].todo \cup run'[r].retry = (run[r].todo \cup run[r].retry) \ {x}
    BY <1>7, <2>1
  <2>3. Cardinality({x}) = 1
    BY FS_Singleton
  <2>4. {x} \in SUBSET (run[r].todo \cup run[r].retry)
    OBVIOUS
  <2> QED
    BY <1>2, <1>6, <1>7, <2>2, <2>3, <2>4, UpsertAccounts
<1>9. WorkLeft(r)'
  <2>1. Joinable(run[r].events)' = Joinable(run[r].events)
    BY <1>6 DEF ReadingDone, Joinable, Of
  <2> QED
    BY <1>0, <1>2, <1>7, <2>1 DEF RunInv, WorkLeft
<1>10. errors' \in 0..MaxErrors /\ errors <= errors'
  BY <1>0, <1>2 DEF TypeOK
<1> QED
  BY <1>6, <1>8, <1>9, <1>10, WriteKeeps

(* A failure is the fault of a row that does not fit, or is counted.       *)
LEMMA FailsCounts ==
  ASSUME TypeOK, NEW r \in Runs, NEW S, Fails(S, r)
  PROVE  LET count == run[r].errors + errors' - errors
         IN  /\ errors' \in 0..MaxErrors /\ errors <= errors'
             /\ run[r].errors <= errors =>
                   count \in 0..MaxErrors /\ count <= errors'
             /\ count = 0 => run[r].errors = 0 /\ \E i \in S : ~Fits(i, r)
<1>1. run[r].errors \in 0..MaxErrors /\ errors \in 0..MaxErrors
  BY DEF TypeOK
<1>2. CASE (\E i \in S : ~Fits(i, r)) /\ errors' = errors
  BY <1>1, <1>2
<1>3. CASE errors < MaxErrors /\ errors' = errors + 1
  BY <1>1, <1>3
<1> QED
  BY <1>2, <1>3 DEF Fails

LEMMA ChunkFailsKeeps ==
  ASSUME IInv, NEW r \in Runs, ChunkFails(r)
  PROVE  IInv'
<1> DEFINE S == NextChunk(r)
           count == run[r].errors + errors' - errors
<1>0. TypeOK /\ RunInv(r) /\ S \subseteq run[r].todo
  BY ChunkIsWork DEF IInv
<1>1. /\ run[r].pc = "writing" /\ run[r].retry = {}
      /\ Fails(S, r)
      /\ run' = [run EXCEPT ![r].todo = @ \ S, ![r].retry = S,
                            ![r].errors = @ + errors' - errors]
      /\ UNCHANGED <<row, labels, historyVars, crashes>>
  BY DEF ChunkFails
<1>2. run \in [Runs -> RunType] /\ run[r] \in RunType
  BY <1>0 DEF TypeOK, RunType
<1>3. run'[r] = [run[r] EXCEPT !.todo = @ \ S, !.retry = S, !.errors = count]
      /\ run' = [run EXCEPT ![r] = run'[r]]
  BY <1>1, <1>2
<1>4. /\ errors' \in 0..MaxErrors /\ errors <= errors'
      /\ count \in 0..MaxErrors /\ count <= errors'
      /\ count = 0 => run[r].errors = 0
  BY <1>0, <1>1, FailsCounts DEF RunInv, WorkLeft
<1> HIDE DEF S, count
<1>5. S \in SUBSET Ids
  BY <1>0, <1>2 DEF RunType
<1>6. run'[r] \in RunType
  BY <1>2, <1>3, <1>4, <1>5 DEF RunType
<1>7. ReadingDone(r)
  BY <1>1, <1>2, <1>3, <1>6 DEF ReadingDone, RunType
<1>8. /\ run'[r].todo = run[r].todo \ S /\ run'[r].retry = S
      /\ run'[r].labeled = run[r].labeled /\ run'[r].failed = run[r].failed
      /\ run'[r].errors = count /\ run'[r].pc = "writing"
  BY <1>1, <1>2, <1>3 DEF RunType
<1>9. Joinable(run[r].events)' = Joinable(run[r].events)
  BY <1>7 DEF ReadingDone, Joinable, Of
<1>10. WorkLeft(r)'
  <2>1. /\ run'[r].todo \subseteq Joinable(run[r].events)
        /\ S \subseteq Joinable(run[r].events)
        /\ run'[r].todo \cap S = {}
    BY <1>0, <1>8 DEF RunInv, WorkLeft
  <2> QED
    BY <1>4, <1>7, <1>8, <1>9, <2>1 DEF WorkLeft, ReadingDone
<1>11. Accounted(r)'
  <2>1. PICK F : GaveUp(r, F)
    BY <1>0, <1>1 DEF RunInv, Accounted, Written
  <2>2. Settled(r)' = Settled(r)
    BY <1>0, <1>1, <1>7, <1>8, <1>9 DEF Settled, ReadingDone
  <2>3. /\ Unfit(r, Settled(r))' = Unfit(r, Settled(r))
        /\ Evidence(atStart[r])' = Evidence(atStart[r])
        /\ overlapped' = overlapped
    <3>1. \A i : Fits(i, r)' <=> Fits(i, r)
      BY <1>7, FitsStay
    <3> QED
      BY <1>1, <2>2, <3>1 DEF Unfit, Of, Evidence, historyVars
  <2>4. GaveUp(r, F)'
    BY <1>1, <1>4, <1>8, <2>1, <2>2, <2>3 DEF GaveUp, Unlabelled
  <2> QED
    BY <2>4 DEF Accounted
<1>12. LabelStep(r)
  BY <1>1 DEF LabelStep
<1> QED
  BY <1>4, <1>7, <1>10, <1>11, <1>12, WriteKeeps

LEMMA RowFailsKeeps ==
  ASSUME IInv, NEW r \in Runs, RowFails(r)
  PROVE  IInv'
<1> DEFINE count == run[r].errors + errors' - errors
<1>0. TypeOK /\ RunInv(r) /\ run[r].retry # {}
  BY DEF IInv, RowFails
<1>1. PICK x \in run[r].retry : NextRow(r) = {x}
  BY <1>0, RowIsWork
<1>2. /\ run[r].pc = "writing" /\ Fails({x}, r)
      /\ run' = [run EXCEPT ![r].retry = @ \ {x}, ![r].failed = @ + 1,
                            ![r].errors = @ + errors' - errors]
      /\ UNCHANGED <<row, labels, historyVars, crashes>>
  BY <1>1 DEF RowFails
<1>3. run \in [Runs -> RunType] /\ run[r] \in RunType
  BY <1>0 DEF TypeOK, RunType
<1>4. run'[r] = [run[r] EXCEPT !.retry = @ \ {x}, !.failed = @ + 1,
                               !.errors = count]
      /\ run' = [run EXCEPT ![r] = run'[r]]
  BY <1>2, <1>3
<1>5. /\ errors' \in 0..MaxErrors /\ errors <= errors'
      /\ count \in 0..MaxErrors /\ count <= errors'
      /\ count = 0 => run[r].errors = 0 /\ ~Fits(x, r)
  BY <1>0, <1>2, FailsCounts DEF RunInv, WorkLeft
<1> HIDE DEF count
<1>6. run'[r] \in RunType
  <2>1. run[r].retry \ {x} \in SUBSET Ids /\ run[r].failed + 1 \in Nat
    BY <1>3 DEF RunType
  <2> QED
    BY <1>3, <1>4, <1>5, <2>1 DEF RunType
<1>7. ReadingDone(r)
  BY <1>2, <1>3, <1>4, <1>6 DEF ReadingDone, RunType
<1>8. /\ run'[r].todo = run[r].todo /\ run'[r].retry = run[r].retry \ {x}
      /\ run'[r].labeled = run[r].labeled /\ run'[r].failed = run[r].failed + 1
      /\ run'[r].errors = count /\ run'[r].pc = "writing"
  BY <1>2, <1>3, <1>4 DEF RunType
<1>9. Joinable(run[r].events)' = Joinable(run[r].events)
  BY <1>7 DEF ReadingDone, Joinable, Of
<1>10. WorkLeft(r)'
  BY <1>0, <1>5, <1>7, <1>8, <1>9 DEF RunInv, WorkLeft, ReadingDone
<1>11. Accounted(r)'
  <2>1. PICK F : GaveUp(r, F)
    BY <1>0, <1>2 DEF RunInv, Accounted, Written
  <2>2. x \in Joinable(run[r].events) /\ x \notin run[r].todo /\ x \notin F
        /\ x \notin Settled(r)
    BY <1>0, <2>1 DEF RunInv, WorkLeft, GaveUp, Settled
  <2>3. Settled(r)' = Settled(r) \cup {x}
    BY <1>7, <1>8, <1>9, <2>2 DEF Settled, ReadingDone
  <2>4. /\ Unfit(r, Settled(r))' = Unfit(r, Settled(r)) \cup Unfit(r, {x})
        /\ Evidence(atStart[r])' = Evidence(atStart[r])
        /\ overlapped' = overlapped /\ labels' = labels
    <3>1. \A i : Fits(i, r)' <=> Fits(i, r)
      BY <1>7, FitsStay
    <3> QED
      BY <1>2, <2>3, <3>1 DEF Unfit, Of, Evidence, historyVars
  <2>5. F \in SUBSET Ids /\ {x} \in SUBSET Ids
    BY <1>0, <1>3, <2>1
    DEF GaveUp, Settled, Joinable, Of, RunInv, ReadsInOrder, Visible, RunType
  <2>6. Cardinality(F \cup {x}) = Cardinality(F) + 1
    <3>1. F \cap {x} = {} /\ Cardinality({x}) = 1
      BY <2>2, FS_Singleton
    <3> QED
      BY <2>5, <3>1, JoinedCardinality
  <2>7. Settled(r)' \ (F \cup {x}) = Settled(r) \ F
    BY <2>2, <2>3
  <2>8. count = 0 => Unfit(r, {x}) = {x}
    BY <1>5 DEF Unfit
  <2>9. Unfit(r, {x}) \subseteq {x}
    BY DEF Unfit
  <2>10. /\ F \cup {x} \in SUBSET Settled(r)'
         /\ Cardinality(F \cup {x}) = run'[r].failed
         /\ Cardinality(Settled(r)' \ (F \cup {x})) = run'[r].labeled
         /\ Unfit(r, Settled(r))' \subseteq F \cup {x}
    BY <1>8, <2>1, <2>3, <2>4, <2>6, <2>7, <2>9 DEF GaveUp
  <2>11. run'[r].errors = 0 => F \cup {x} \subseteq Unfit(r, Settled(r))'
    BY <1>5, <1>8, <2>1, <2>4, <2>8 DEF GaveUp
  <2>12. \A i \in Settled(r)' \ (F \cup {x}) :
            /\ labels'[i] # Unlabelled
            /\ ~overlapped'[r] => Evidence(atStart[r])' \subseteq labels'[i]
    BY <2>1, <2>4, <2>7 DEF GaveUp
  <2>13. GaveUp(r, F \cup {x})'
    BY <2>10, <2>11, <2>12 DEF GaveUp, Unlabelled
  <2> QED
    BY <2>13 DEF Accounted
<1>12. LabelStep(r)
  BY <1>2 DEF LabelStep
<1> QED
  BY <1>5, <1>7, <1>10, <1>11, <1>12, WriteKeeps

LEMMA ReportKeeps ==
  ASSUME IInv, NEW r \in Runs, Report(r)
  PROVE  IInv'
<1>0. TypeOK /\ RunInv(r)
  BY DEF IInv
<1>1. /\ run[r].pc = "writing" /\ run[r].retry = {} /\ run[r].todo = {}
      /\ run' = [run EXCEPT ![r].pc = "done"]
      /\ UNCHANGED <<row, labels, historyVars, errors, crashes>>
  BY DEF Report
<1>2. run \in [Runs -> RunType] /\ run[r] \in RunType
  BY <1>0 DEF TypeOK, RunType
<1>3. run'[r] = [run[r] EXCEPT !.pc = "done"]
      /\ run' = [run EXCEPT ![r] = run'[r]]
  BY <1>1, <1>2
<1>4. run'[r] \in RunType
  BY <1>2, <1>3 DEF RunType
<1>5. ReadingDone(r)
  BY <1>1, <1>2, <1>3, <1>4 DEF ReadingDone, RunType
<1>6. /\ run'[r].todo = {} /\ run'[r].retry = {}
      /\ run'[r].labeled = run[r].labeled /\ run'[r].failed = run[r].failed
      /\ run'[r].errors = run[r].errors /\ run'[r].pc = "done"
  BY <1>1, <1>2, <1>3 DEF RunType
<1>7. Joinable(run[r].events)' = Joinable(run[r].events)
  BY <1>5 DEF ReadingDone, Joinable, Of
<1>8. WorkLeft(r)'
  BY <1>0, <1>1, <1>6 DEF RunInv, WorkLeft
<1>9. Accounted(r)'
  <2>1. PICK F : GaveUp(r, F)
    BY <1>0, <1>1 DEF RunInv, Accounted, Written
  <2>2. Settled(r)' = Settled(r)
    BY <1>1, <1>5, <1>6, <1>7 DEF Settled, ReadingDone
  <2>3. /\ Unfit(r, Settled(r))' = Unfit(r, Settled(r))
        /\ Evidence(atStart[r])' = Evidence(atStart[r])
        /\ overlapped' = overlapped
    <3>1. \A i : Fits(i, r)' <=> Fits(i, r)
      BY <1>5, FitsStay
    <3> QED
      BY <1>1, <2>2, <3>1 DEF Unfit, Of, Evidence, historyVars
  <2>4. GaveUp(r, F)'
    BY <1>1, <1>6, <2>1, <2>2, <2>3 DEF GaveUp, Unlabelled
  <2> QED
    BY <2>4 DEF Accounted
<1>10. LabelStep(r) /\ errors' \in 0..MaxErrors /\ errors <= errors'
  BY <1>0, <1>1 DEF LabelStep, TypeOK
<1> QED
  BY <1>5, <1>8, <1>9, <1>10, WriteKeeps

-----------------------------------------------------------------------------
(* The sink and the scheduler.                                             *)

LEMMA StoreKeeps ==
  ASSUME IInv, NEW i \in Ids, NEW kind \in Payloads, Store(i, kind)
  PROVE  IInv'
<1>0. TypeOK /\ RunsInTurn /\ \A r \in Runs : RunInv(r)
  BY DEF IInv
<1>1. /\ row' = [row EXCEPT ![i] = kind] /\ row[i] = NoRow
      /\ UNCHANGED <<labels, run, atStart, overlapped, errors, crashes>>
  BY DEF Store, historyVars
<1>2. /\ row' \in [Ids -> Payloads \cup {NoRow}]
      /\ \A j \in Visible : row'[j] = row[j]
      /\ Visible \subseteq Visible'
  <2>1. kind # NoRow
    BY DEF Kinds, NoRow
  <2> QED
    BY <1>0, <1>1, <2>1 DEF TypeOK, Visible
<1>3. TypeOK'
  <2>1. Evidence(Visible) \subseteq Evidence(Visible)'
    BY <1>2 DEF Evidence, Of
  <2>2. ASSUME NEW j \in Ids, labels'[j] # Unlabelled
        PROVE  row'[j] = "impression" /\ labels'[j] \subseteq Evidence(Visible)'
    <3>1. row[j] = "impression" /\ labels[j] \subseteq Evidence(Visible)
      BY <1>0, <1>1, <2>2 DEF TypeOK
    <3>2. j \in Visible
      BY <3>1 DEF Visible, NoRow
    <3> QED
      BY <1>1, <1>2, <2>1, <3>1, <3>2
  <2> QED
    BY <1>0, <1>1, <1>2, <2>2 DEF TypeOK, Unlabelled
<1>4. \A r \in Runs : RunInv(r)'
  <2>1. errors' \in Nat /\ errors <= errors'
    BY <1>0, <1>1 DEF TypeOK
  <2> QED
    BY <1>0, <1>1, <1>2, <2>1, OthersKeepTheirs
<1>5. RunsInTurn'
  BY <1>0, <1>1 DEF RunsInTurn, Active, Done, Unlabelled
<1> QED
  BY <1>3, <1>4, <1>5 DEF IInv

LEMMA StartKeeps ==
  ASSUME IInv, NEW r \in Runs, Start(r)
  PROVE  IInv'
<1>0. TypeOK /\ RunsInTurn /\ \A q \in Runs : RunInv(q)
  BY DEF IInv
<1>1. /\ ~Active(r)
      /\ run' = [run EXCEPT ![r] = Fresh("reading")]
      /\ atStart' = [atStart EXCEPT ![r] = Visible]
      /\ overlapped' = [q \in Runs |->
            IF q = r THEN \E p \in Runs \ {r} : Active(p)
                     ELSE overlapped[q] \/ Active(q)]
      /\ UNCHANGED <<row, labels, errors, crashes>>
  BY DEF Start
<1>2. /\ run'[r] = Fresh("reading") /\ atStart'[r] = Visible
      /\ \A q \in Runs \ {r} : run'[q] = run[q] /\ atStart'[q] = atStart[q]
      /\ \A q \in Runs \ {r} :
            overlapped'[q] <=> overlapped[q] \/ Active(q)
      /\ overlapped'[r] <=> \E p \in Runs \ {r} : Active(p)
  <2>1. overlapped \in [Runs -> BOOLEAN]
    BY <1>0 DEF TypeOK
  <2>2. \A q \in Runs \ {r} : overlapped'[q] = (overlapped[q] \/ Active(q))
    BY <1>1
  <2>3. overlapped'[r] = (\E p \in Runs \ {r} : Active(p))
    BY <1>1
  <2> QED
    BY <1>0, <1>1, <2>2, <2>3 DEF TypeOK
<1>3. TypeOK'
  <2>1. Fresh("reading") \in RunType
    BY DEF Fresh, RunType
  <2>2. run' \in [Runs -> RunType]
    BY <1>0, <1>1, <2>1 DEF TypeOK, RunType
  <2>3. atStart' \in [Runs -> SUBSET Ids]
    BY <1>0, <1>1 DEF TypeOK, Visible
  <2>4. overlapped' \in [Runs -> BOOLEAN]
    <3>1. \A q \in Runs : (IF q = r THEN \E p \in Runs \ {r} : Active(p)
                                    ELSE overlapped[q] \/ Active(q)) \in BOOLEAN
      OBVIOUS
    <3> QED
      BY <1>1, <3>1
  <2>5. Evidence(Visible)' = Evidence(Visible)
    BY <1>1 DEF Evidence, Of, Visible
  <2>6. \A i \in Ids : labels'[i] # Unlabelled' =>
           row'[i] = "impression" /\ labels'[i] \subseteq Evidence(Visible)'
    BY <1>0, <1>1, <2>5 DEF TypeOK, Unlabelled
  <2>7. /\ row' \in [Ids -> Payloads \cup {NoRow}]
        /\ labels' \in [Ids -> (SUBSET Ids) \cup {Unlabelled}]
        /\ errors' \in 0..MaxErrors /\ crashes' \in 0..MaxCrashes
    BY <1>0, <1>1 DEF TypeOK
  <2> QED
    BY <2>2, <2>3, <2>4, <2>6, <2>7 DEF TypeOK, RunType, Unlabelled
<1>4. ASSUME NEW q \in Runs \ {r}
      PROVE  RunInv(q)'
  <2>1. errors' \in Nat /\ errors <= errors'
    BY <1>0, <1>1 DEF TypeOK
  <2> QED
    BY <1>0, <1>1, <1>2, <2>1, OthersKeepTheirs
<1>5. RunInv(r)'
  <2>1. Passed(r)' = {}
    <3>1. \A i \in Visible : ~(i <= 0)
      BY DEF Visible, Ids
    <3> QED
      BY <1>2, <3>1 DEF Passed, Fresh
  <2>2. /\ Of(Passed(r), Kept)' = {}
        /\ Of(Passed(r), {"broken"})' = {}
        /\ Of(Passed(r), {"partial"})' = {}
    BY <2>1 DEF Of
  <2>3. ReadsInOrder(r)' /\ ~Written(r)'
    <3>1. /\ atStart'[r] \subseteq Visible'
          /\ run'[r].events = {} /\ run'[r].pc = "reading"
          /\ run'[r].skippedBronze = 0 /\ run'[r].skippedImpression = 0
      BY <1>1, <1>2 DEF Visible, Fresh
    <3>2. /\ Cardinality(Of(Passed(r), {"broken"})') = 0
          /\ Cardinality(Of(Passed(r), {"partial"})') = 0
      BY <2>2, FS_EmptySet
    <3> QED
      BY <2>2, <3>1, <3>2 DEF ReadsInOrder, Written
  <2>4. WorkLeft(r)'
    <3>1. run'[r] = [Fresh("reading") EXCEPT
             !.after = run'[r].after, !.events = run'[r].events,
             !.skippedBronze = run'[r].skippedBronze,
             !.skippedImpression = run'[r].skippedImpression]
      BY <1>2 DEF Fresh
    <3>2. /\ run'[r].pc = "reading" /\ run'[r].todo = {}
          /\ run'[r].retry = {} /\ run'[r].errors = 0 /\ errors' \in Nat
      BY <1>0, <1>1, <1>2 DEF Fresh, TypeOK
    <3>3. Fresh("reading")' = Fresh("reading")
      BY DEF Fresh
    <3> QED
      BY <3>1, <3>2, <3>3 DEF WorkLeft
  <2> QED
    BY <2>3, <2>4 DEF RunInv, Accounted
<1>6. RunsInTurn'
  <2>0. \A q \in Runs \ {r} : (Active(q)' <=> Active(q)) /\ (Done(q)' <=> Done(q))
    BY <1>2 DEF Active, Done
  <2>1. ~Done(r)'
    BY <1>2 DEF Done, Fresh
  <2>2. ASSUME NEW p \in Runs, NEW q \in Runs, p # q, Active(p)', Active(q)'
        PROVE  overlapped'[p]
    <3>1. CASE p = r
      BY <1>2, <2>0, <2>2, <3>1
    <3>2. CASE p # r
      BY <1>2, <2>0, <2>2, <3>2
    <3> QED
      BY <3>1, <3>2
  <2>3. ASSUME NEW p \in Runs, NEW q \in Runs,
               Done(p)', ~overlapped'[p], Active(q)'
        PROVE  atStart'[p] \subseteq atStart'[q]
    <3>1. p # r /\ Done(p) /\ ~overlapped[p] /\ atStart'[p] = atStart[p]
      BY <1>2, <2>0, <2>1, <2>3
    <3>2. CASE q = r
      BY <1>0, <1>2, <3>1, <3>2 DEF RunInv, ReadsInOrder
    <3>3. CASE q # r
      BY <1>0, <1>2, <2>0, <2>3, <3>1, <3>3 DEF RunsInTurn
    <3> QED
      BY <3>2, <3>3
  <2>4. ASSUME NEW p \in Runs, Active(p)', ~overlapped'[p], NEW i \in Ids,
               labels'[i] # Unlabelled
        PROVE  labels'[i] \subseteq atStart'[p] \cup run'[p].events
    <3>1. CASE p = r
      <4>1. labels'[i] \subseteq Evidence(Visible)
        BY <1>0, <1>1, <2>4 DEF TypeOK
      <4> QED
        BY <1>2, <3>1, <4>1 DEF Evidence, Of
    <3>2. CASE p # r
      BY <1>0, <1>1, <1>2, <2>0, <2>4, <3>2 DEF RunsInTurn
    <3> QED
      BY <3>1, <3>2
  <2> QED
    BY <2>2, <2>3, <2>4 DEF RunsInTurn
<1> QED
  BY <1>3, <1>4, <1>5, <1>6 DEF IInv

-----------------------------------------------------------------------------
LEMMA InitHolds == Init => IInv
<1> SUFFICES ASSUME Init
             PROVE  IInv
  OBVIOUS
<1>1. TypeOK
  <2>1. Fresh("idle") \in RunType
    BY DEF Fresh, RunType
  <2>2. run \in [Runs -> RunType]
    BY <2>1 DEF Init
  <2>3. /\ row \in [Ids -> Payloads \cup {NoRow}]
        /\ labels \in [Ids -> (SUBSET Ids) \cup {Unlabelled}]
        /\ atStart \in [Runs -> SUBSET Ids]
        /\ overlapped \in [Runs -> BOOLEAN]
        /\ errors \in 0..MaxErrors /\ crashes \in 0..MaxCrashes
        /\ \A i \in Ids : labels[i] = Unlabelled
    BY DEF Init
  <2> QED
    BY <2>2, <2>3 DEF TypeOK, RunType
<1>2. ASSUME NEW r \in Runs
      PROVE  RunInv(r)
  <2>1. run[r] = Fresh("idle") /\ atStart[r] = {} /\ errors = 0
    BY DEF Init
  <2>2. Passed(r) = {}
    BY <2>1 DEF Passed
  <2>3. ReadsInOrder(r)
    BY <2>1, <2>2, FS_EmptySet DEF ReadsInOrder, Of, Fresh, Written
  <2>4. WorkLeft(r) /\ Accounted(r)
    BY <2>1 DEF WorkLeft, Accounted, Written, Fresh
  <2> QED
    BY <2>3, <2>4 DEF RunInv
<1>3. RunsInTurn
  BY DEF Init, RunsInTurn, Active, Done, Fresh
<1> QED
  BY <1>1, <1>2, <1>3 DEF IInv

(* No action of the batch, nor of the sink beside it, breaks the invariant.*)
LEMMA NextKeeps == IInv /\ [Next]_vars => IInv'
<1> SUFFICES ASSUME IInv, [Next]_vars
             PROVE  IInv'
  OBVIOUS
<1>1. CASE UNCHANGED vars
  <2>1. TypeOK /\ RunsInTurn /\ \A r \in Runs : RunInv(r)
    BY DEF IInv
  <2>2. UNCHANGED <<row, labels, run, atStart, overlapped, errors, crashes>>
    BY <1>1 DEF vars, historyVars
  <2>3. TypeOK'
    <3>1. Evidence(Visible)' = Evidence(Visible)
      BY <2>2 DEF Evidence, Of, Visible
    <3> QED
      BY <2>1, <2>2, <3>1 DEF TypeOK, Unlabelled
  <2>4. RunsInTurn'
    BY <2>1, <2>2 DEF RunsInTurn, Active, Done, Unlabelled
  <2>5. \A r \in Runs : RunInv(r)'
    <3>1. errors' \in Nat /\ errors <= errors'
      BY <2>1, <2>2 DEF TypeOK
    <3> QED
      BY <2>1, <2>2, <3>1, OthersKeepTheirs
  <2> QED
    BY <2>3, <2>4, <2>5 DEF IInv
<1>2. ASSUME NEW i \in Ids, NEW kind \in Payloads, Store(i, kind)
      PROVE  IInv'
  BY <1>2, StoreKeeps
<1>3. ASSUME NEW r \in Runs, Start(r) \/ Step(r) \/ Crash(r)
      PROVE  IInv'
  <2>1. CASE Start(r)
    BY <2>1, StartKeeps
  <2>2. CASE Crash(r) \/ DieReading(r)
    BY <2>2, StopKeeps
  <2>3. CASE ReadPage(r)
    BY <2>3, ReadPageKeeps
  <2>4. CASE Build(r)
    BY <2>4, BuildKeeps
  <2>5. CASE UpsertChunk(r)
    BY <2>5, UpsertChunkKeeps
  <2>6. CASE ChunkFails(r)
    BY <2>6, ChunkFailsKeeps
  <2>7. CASE UpsertRow(r)
    BY <2>7, UpsertRowKeeps
  <2>8. CASE RowFails(r)
    BY <2>8, RowFailsKeeps
  <2>9. CASE Report(r)
    BY <2>9, ReportKeeps
  <2> QED
    BY <1>3, <2>1, <2>2, <2>3, <2>4, <2>5, <2>6, <2>7, <2>8, <2>9 DEF Step
<1> QED
  BY <1>1, <1>2, <1>3 DEF Next

LEMMA Invariance == Spec => []IInv
BY InitHolds, NextKeeps, PTL DEF Spec

-----------------------------------------------------------------------------
(* Only impressions that fit are labelled, with outcomes that are in       *)
(* bronze, and the numbers of a run are numbers.                           *)
THEOREM TypeCorrect == Spec => []TypeOK
<1>1. IInv => TypeOK
  BY DEF IInv
<1> QED
  BY <1>1, Invariance, PTL

(* What a run reports adds up, whatever the table, the page and chunk      *)
(* sizes, and the failures it met.                                         *)
THEOREM ReportAddsUp == Spec => []ReportCountsEveryLoss
<1>1. IInv => ReportCountsEveryLoss
  <2> SUFFICES ASSUME IInv, NEW r \in Runs, Done(r)
               PROVE  /\ atStart[r] \subseteq 1..run[r].after
                      /\ run[r].labeled + run[r].failed
                            = Cardinality(Joinable(run[r].events))
                      /\ Cardinality(Of(atStart[r], {"broken"}))
                            <= run[r].skippedBronze
                      /\ Cardinality(Of(atStart[r], {"partial"}))
                            <= run[r].skippedImpression
                      /\ Cardinality(Of(atStart[r], {"oversized"}))
                            <= run[r].failed
    BY DEF ReportCountsEveryLoss
  <2>1. TypeOK /\ RunInv(r) /\ Written(r)
    BY DEF IInv, Done, Written
  <2>2. PICK F : GaveUp(r, F)
    BY <2>1 DEF RunInv, Accounted
  <2>3. Settled(r) = Joinable(run[r].events) /\ Passed(r) = atStart[r]
    BY <2>1 DEF RunInv, WorkLeft, ReadsInOrder, Settled, Done
  <2>4. atStart[r] \subseteq 1..run[r].after
    <3>1. \A i \in atStart[r] : i \in 1..MaxId
      BY <2>1 DEF TypeOK, Ids
    <3>2. run[r].after \in Nat
      BY <2>1 DEF TypeOK
    <3>3. \A i \in atStart[r] : i <= run[r].after
      BY <2>3 DEF Passed
    <3> QED
      BY <3>1, <3>2, <3>3
  <2>5. /\ F \in SUBSET Settled(r) /\ Settled(r) \in SUBSET Ids
        /\ F \in SUBSET Ids /\ Settled(r) \ F \in SUBSET Ids
    BY <2>1, <2>2 DEF GaveUp, Settled, Joinable, Of, TypeOK
  <2>6. run[r].labeled + run[r].failed = Cardinality(Joinable(run[r].events))
    <3>1. /\ (Settled(r) \ F) \cup F = Settled(r)
          /\ (Settled(r) \ F) \cap F = {}
      BY <2>5
    <3>2. Cardinality((Settled(r) \ F) \cup F)
             = Cardinality(Settled(r) \ F) + Cardinality(F)
      BY <2>5, <3>1, JoinedCardinality
    <3> QED
      BY <2>2, <2>3, <3>1, <3>2 DEF GaveUp
  <2>7. Cardinality(Of(atStart[r], {"oversized"})) <= run[r].failed
    <3>1. Of(atStart[r], {"oversized"}) \subseteq Unfit(r, Settled(r))
      <4>1. Of(atStart[r], Kept) \subseteq run[r].events
        BY <2>1, <2>3 DEF RunInv, ReadsInOrder
      <4> QED
        BY <2>3, <4>1 DEF Of, Kept, Joinable, Unfit, Fits
    <3>2. Of(atStart[r], {"oversized"}) \in SUBSET F
      BY <2>2, <3>1 DEF GaveUp
    <3> QED
      BY <2>2, <2>5, <3>2, RowsAreFinite DEF GaveUp
  <2>8. /\ Cardinality(Of(atStart[r], {"broken"})) <= run[r].skippedBronze
        /\ Cardinality(Of(atStart[r], {"partial"})) <= run[r].skippedImpression
    BY <2>1, <2>3 DEF RunInv, ReadsInOrder
  <2> QED
    BY <2>4, <2>6, <2>7, <2>8
<1> QED
  BY <1>1, Invariance, PTL

(* A chunk that fails costs the rows that do not fit, and no other.        *)
THEOREM OnlyPoisonFails == Spec => []PoisonRowIsolated
<1>1. IInv => PoisonRowIsolated
  <2> SUFFICES ASSUME IInv, NEW r \in Runs, Done(r), run[r].errors = 0
               PROVE  LET rows == Joinable(run[r].events)
                      IN  /\ run[r].failed = Cardinality({i \in rows : ~Fits(i, r)})
                          /\ \A i \in rows : Fits(i, r) => labels[i] # Unlabelled
    BY DEF PoisonRowIsolated
  <2>1. RunInv(r) /\ Written(r)
    BY DEF IInv, Done, Written
  <2>2. PICK F : GaveUp(r, F)
    BY <2>1 DEF RunInv, Accounted
  <2>3. Settled(r) = Joinable(run[r].events)
    BY <2>1 DEF RunInv, WorkLeft, Settled, Done
  <2>4. F = {i \in Joinable(run[r].events) : ~Fits(i, r)}
    BY <2>2, <2>3 DEF GaveUp, Unfit
  <2> QED
    BY <2>2, <2>3, <2>4 DEF GaveUp
<1> QED
  BY <1>1, Invariance, PTL

(* Labels do not go missing in silence: after a run that had the table to  *)
(* itself and reports no failure, every impression it began with has a     *)
(* label, computed from all that was known when it began.                  *)
THEOREM LabelsAreComplete == Spec => []NoSilentLoss
<1>1. IInv => NoSilentLoss
  <2> SUFFICES ASSUME IInv, NEW r \in Runs, Done(r), ~overlapped[r],
                      run[r].failed = 0, NEW i \in Joinable(atStart[r])
               PROVE  /\ labels[i] # Unlabelled
                      /\ Evidence(atStart[r]) \subseteq labels[i]
    BY DEF NoSilentLoss
  <2>1. TypeOK /\ RunInv(r) /\ Written(r)
    BY DEF IInv, Done, Written
  <2>2. PICK F : GaveUp(r, F)
    BY <2>1 DEF RunInv, Accounted
  <2>3. Settled(r) = Joinable(run[r].events) /\ Passed(r) = atStart[r]
    BY <2>1 DEF RunInv, WorkLeft, ReadsInOrder, Settled, Done
  <2>4. F = {}
    <3>1. F \in SUBSET Ids /\ Cardinality(F) = 0
      BY <2>1, <2>2 DEF GaveUp, Settled, Joinable, Of, TypeOK
    <3> QED
      BY <3>1, RowsAreFinite, FS_EmptySet
  <2>5. i \in Settled(r) \ F
    <3>1. Of(atStart[r], Kept) \subseteq run[r].events
      BY <2>1, <2>3 DEF RunInv, ReadsInOrder
    <3> QED
      BY <2>3, <2>4, <3>1 DEF Joinable, Of, Kept
  <2> QED
    BY <2>2, <2>5 DEF GaveUp
<1> QED
  BY <1>1, Invariance, PTL

(* As long as runs do not overlap, a step only adds to what a label was    *)
(* computed from.                                                          *)
THEOREM LabelsGrow == Spec => LabelsKeepEvidence
<1> DEFINE Keeps == (\A r \in Runs : Active(r) => ~overlapped[r]) =>
              \A i \in Ids : labels[i] # Unlabelled =>
                  labels'[i] # Unlabelled /\ labels[i] \subseteq labels'[i]
<1>1. IInv /\ [Next]_vars => [Keeps]_vars
  <2> SUFFICES ASSUME IInv, Next, \A r \in Runs : Active(r) => ~overlapped[r],
                      NEW i \in Ids, labels[i] # Unlabelled
               PROVE  labels'[i] # Unlabelled /\ labels[i] \subseteq labels'[i]
    OBVIOUS
  <2>1. CASE labels' = labels
    BY <2>1 DEF Unlabelled
  <2>2. ASSUME NEW r \in Runs, NEW S, Upsert(S, r), run[r].pc = "writing"
        PROVE  labels'[i] # Unlabelled /\ labels[i] \subseteq labels'[i]
    <3>1. TypeOK /\ RunInv(r) /\ Active(r) /\ Written(r) /\ ~overlapped[r]
      BY <2>2 DEF IInv, Active, Written
    <3>2. labels[i] \subseteq atStart[r] \cup run[r].events
      BY <3>1 DEF IInv, RunsInTurn
    <3>3. labels[i] \subseteq Evidence(Visible)
      BY <3>1 DEF TypeOK
    <3>4. Of(atStart[r], Kept) \subseteq run[r].events
      BY <3>1 DEF RunInv, ReadsInOrder
    <3>5. labels[i] \subseteq Evidence(run[r].events)
      BY <3>2, <3>3, <3>4 DEF Evidence, Of, Kept
    <3>6. 0 \notin Evidence(run[r].events)
      BY <3>1 DEF TypeOK, Evidence, Of, Ids
    <3>7. labels'[i] = labels[i] \/ labels'[i] = Evidence(run[r].events)
      BY <2>2 DEF Upsert
    <3> QED
      BY <3>5, <3>6, <3>7 DEF Unlabelled
  <2>3. \/ labels' = labels
        \/ \E r \in Runs : /\ run[r].pc = "writing"
                           /\ \E S : Upsert(S, r)
    BY DEF Next, Step, Store, Start, ReadPage, DieReading, Build, UpsertChunk,
           ChunkFails, UpsertRow, RowFails, Report, Crash
  <2> QED
    BY <2>1, <2>2, <2>3
<1> QED
  BY <1>1, Invariance, PTL DEF Spec, LabelsKeepEvidence
=============================================================================
