------------------------- MODULE BronzeReaderProofs -------------------------
(***************************************************************************)
(* What a pass over events_raw reads, for any number of writers, any page  *)
(* size and any interleaving.                                              *)
(***************************************************************************)
EXTENDS BronzeReader, CommonLemmas

USE ReaderAssumption

-----------------------------------------------------------------------------
(* The ids, rows and cursors keep their types; in particular only          *)
(* committed rows are handed over, and only broken ones are reported.      *)
THEOREM TypeCorrect == Spec => []TypeOK
<1>1. Init => TypeOK
  BY DEF Init, TypeOK
<1>2. TypeOK /\ [Next]_vars => TypeOK'
  <2> SUFFICES ASSUME TypeOK, [Next]_vars
               PROVE  TypeOK'
    OBVIOUS
  <2> USE DEF TypeOK, writerVars, readerVars
  <2>1. CASE UNCHANGED vars
    BY <2>1 DEF vars
  <2>2. ASSUME NEW w \in Writers, BeginInsert(w)
        PROVE  TypeOK'
    <3>1. lastId' = lastId + 1 /\ lastId' \in 0..MaxId
      BY <2>2 DEF BeginInsert
    <3>2. 0..lastId \subseteq 0..lastId' /\ 1..lastId \subseteq 1..lastId'
      BY <3>1
    <3>3. open' \in [Writers -> 0..lastId']
      BY <2>2, <3>1, <3>2 DEF BeginInsert
    <3>4. broken' \subseteq 1..lastId'
      BY <2>2, <3>1, <3>2 DEF BeginInsert
    <3>5. visible' = visible /\ lastId + 1 \notin visible
      BY <2>2 DEF BeginInsert
    <3>6. visible \ broken' = visible \ broken
          /\ visible \cap broken' = visible \cap broken
      BY <2>2, <3>5 DEF BeginInsert
    <3>7. after' \in 0..lastId' /\ visible' \subseteq 1..lastId'
      BY <2>2, <3>1, <3>2, <3>5 DEF BeginInsert
    <3>8. /\ yielded' \subseteq visible' \ broken'
          /\ skipped' \subseteq visible' \cap broken'
      BY <2>2, <3>5, <3>6 DEF BeginInsert
    <3>9. pc' \in {"idle", "reading"} /\ atStart' \subseteq visible'
      BY <2>2, <3>5 DEF BeginInsert
    <3> QED
      BY <3>1, <3>3, <3>4, <3>5, <3>7, <3>8, <3>9
  <2>3. ASSUME NEW w \in Writers, Commit(w)
        PROVE  TypeOK'
    <3>1. open[w] \in 1..lastId
      BY <2>3 DEF Commit
    <3>2. open' \in [Writers -> 0..lastId]
      BY <2>3 DEF Commit
    <3>3. visible \subseteq visible' /\ visible' \subseteq 1..lastId
      BY <2>3, <3>1 DEF Commit
    <3>4. lastId' = lastId /\ broken' = broken /\ pc' = pc /\ after' = after
          /\ yielded' = yielded /\ skipped' = skipped /\ atStart' = atStart
      BY <2>3 DEF Commit
    <3> QED
      BY <3>2, <3>3, <3>4
  <2>4. ASSUME NEW w \in Writers, NoRow(w)
        PROVE  TypeOK'
    BY <2>4 DEF NoRow
  <2>5. CASE StartPass
    BY <2>5 DEF StartPass
  <2>6. CASE ReadPage
    <3>1. Page(visible, after, BatchSize) \subseteq visible
      BY DEF Page
    <3>2. after' \in visible
      BY <2>6, <3>1 DEF ReadPage
    <3>3. after' \in 0..lastId
      BY <3>2
    <3> QED
      BY <2>6, <3>1, <3>3 DEF ReadPage
  <2>7. CASE EndPass
    BY <2>7 DEF EndPass
  <2> QED
    BY <2>1, <2>2, <2>3, <2>4, <2>5, <2>6, <2>7 DEF Next, Write, Read
<1> QED
  BY <1>1, <1>2, PTL DEF Spec

-----------------------------------------------------------------------------
(* What one page does to the cursor: it moves on, and every row that was   *)
(* there and that it moved past is handed over or reported.                *)
LEMMA ReadPageMovesOn ==
  ASSUME TypeOK, ReadPage
  PROVE  /\ after' > after
         /\ after' \in visible
         /\ \A i \in visible : i > after /\ i <= after' => i \in Handled'
         /\ Handled \subseteq Handled'
<1> DEFINE page == Page(visible, after, BatchSize)
<1>1. lastId \in Nat /\ visible \in SUBSET (1..lastId) /\ after \in Nat
  BY DEF TypeOK
<1>2. /\ page \subseteq {i \in visible : after < i}
      /\ \A i \in page, j \in visible : after < j /\ j < i => j \in page
  BY <1>1, PageIs
<1>3. /\ after' \in page
      /\ yielded' = yielded \cup (page \ broken)
      /\ skipped' = skipped \cup (page \cap broken)
  BY DEF ReadPage
<1> HIDE DEF page
<1>4. page \subseteq Handled' /\ Handled \subseteq Handled'
  BY <1>3 DEF Handled
<1>5. after' \in visible /\ after < after'
  BY <1>2, <1>3
<1>6. ASSUME NEW i \in visible, i > after, i <= after'
      PROVE  i \in Handled'
  <2>1. i \in Int /\ after' \in Int /\ after \in Int
    BY <1>1, <1>5
  <2>2. i = after' \/ (after < i /\ i < after')
    BY <1>6, <2>1
  <2>3. i \in page
    BY <1>2, <1>3, <2>2
  <2> QED
    BY <1>4, <2>3
<1> QED
  BY <1>1, <1>4, <1>5, <1>6

(* A pass that ends has seen the last of what is there.                    *)
LEMMA EndPassSeesAll ==
  ASSUME TypeOK, EndPass
  PROVE  \A i \in visible : i <= after
<1>1. lastId \in Nat /\ visible \in SUBSET (1..lastId) /\ after \in Nat
  BY DEF TypeOK
<1>2. Page(visible, after, BatchSize) = {}
  BY DEF EndPass
<1> QED
  BY <1>1, <1>2, PageIs

(* iter_events never goes back within a pass: no row is handed over twice. *)
THEOREM NoRowTwice == Spec => EachRowOncePerPass
<1>1. TypeOK /\ [Next]_vars =>
         [ \/ after' > after
           \/ after' = after /\ yielded' = yielded /\ skipped' = skipped
           \/ pc = "idle" /\ pc' = "reading" ]_vars
  <2> SUFFICES ASSUME TypeOK, [Next]_vars
               PROVE  \/ after' > after
                      \/ after' = after /\ yielded' = yielded
                         /\ skipped' = skipped
                      \/ pc = "idle" /\ pc' = "reading"
                      \/ UNCHANGED vars
    OBVIOUS
  <2>1. ASSUME NEW w \in Writers, Write(w)
        PROVE  after' = after /\ yielded' = yielded /\ skipped' = skipped
    BY <2>1 DEF Write, BeginInsert, Commit, NoRow, readerVars
  <2>2. CASE StartPass
    BY <2>2 DEF StartPass
  <2>3. CASE ReadPage
    BY <2>3, ReadPageMovesOn
  <2>4. CASE EndPass
    BY <2>4 DEF EndPass
  <2> QED
    BY <2>1, <2>2, <2>3, <2>4 DEF Next, Read, vars
<1> QED
  BY <1>1, TypeCorrect, PTL DEF Spec, EachRowOncePerPass

-----------------------------------------------------------------------------
(* A pass from id 0, the way run_label calls iter_events, covers what was  *)
(* there when it began, however many writers commit in whatever order.     *)
THEOREM FullPassCovers ==
  ASSUME Rescan = TRUE
  PROVE  Spec => []PassCoversItsStart
<1>1. Init => PassCoversItsStart
  BY DEF Init, PassCoversItsStart, Handled
<1>2. TypeOK /\ PassCoversItsStart /\ [Next]_vars => PassCoversItsStart'
  <2> SUFFICES ASSUME TypeOK, PassCoversItsStart, [Next]_vars
               PROVE  PassCoversItsStart'
    OBVIOUS
  <2>1. CASE UNCHANGED vars
    BY <2>1 DEF vars, readerVars, PassCoversItsStart, Handled
  <2>2. ASSUME NEW w \in Writers, Write(w)
        PROVE  PassCoversItsStart'
    BY <2>2 DEF Write, BeginInsert, Commit, NoRow, readerVars,
                PassCoversItsStart, Handled
  <2>3. CASE StartPass
    <3>1. pc' = "reading" /\ after' = 0 /\ atStart' = visible
      BY <2>3 DEF StartPass
    <3>2. {i \in visible : i <= 0} = {}
      <4>1. \A i \in visible : i \in Int /\ i >= 1
        BY DEF TypeOK
      <4> QED
        BY <4>1
    <3> QED
      BY <3>1, <3>2 DEF PassCoversItsStart
  <2>4. CASE ReadPage
    <3>1. pc' = pc /\ pc = "reading" /\ atStart' = atStart
      BY <2>4 DEF ReadPage
    <3>2. {i \in atStart : i <= after} \subseteq Handled
      BY <3>1 DEF PassCoversItsStart
    <3>3. ASSUME NEW i \in atStart, i <= after'
          PROVE  i \in Handled'
      <4>1. i \in visible /\ i \in Int /\ after \in Int
        BY DEF TypeOK
      <4>2. CASE i <= after
        BY <2>4, <3>2, <4>2, ReadPageMovesOn
      <4>3. CASE i > after
        BY <2>4, <3>3, <4>1, <4>3, ReadPageMovesOn
      <4> QED
        BY <4>1, <4>2, <4>3
    <3> QED
      BY <3>1, <3>3 DEF PassCoversItsStart
  <2>5. CASE EndPass
    <3>1. pc = "reading" /\ pc' = "idle" /\ atStart' = atStart
          /\ Handled' = Handled
      BY <2>5 DEF EndPass, Handled
    <3>2. \A i \in atStart : i <= after
      BY <2>5, EndPassSeesAll DEF TypeOK
    <3>3. atStart \subseteq Handled
      BY <3>1, <3>2 DEF PassCoversItsStart
    <3> QED
      BY <3>1, <3>3 DEF PassCoversItsStart
  <2> QED
    BY <2>1, <2>2, <2>3, <2>4, <2>5 DEF Next, Read
<1> QED
  BY <1>1, <1>2, TypeCorrect, PTL DEF Spec

-----------------------------------------------------------------------------
(* With one inserting session ids become visible in order: the row being   *)
(* inserted is the newest, and the cursor is still short of it.            *)
InOrder ==
    \A w \in Writers : open[w] # 0 =>
        open[w] = lastId /\ after < lastId /\ lastId \notin visible

(* The promise of bronze.py, that a pass may resume after the last id of   *)
(* the pass before, holds when at most one session inserts at a time.  The *)
(* run MCBronzeReaderResume shows that two are enough to break it.         *)
THEOREM OneWriterMayResume ==
  ASSUME \A v, w \in Writers : v = w
  PROVE  Spec => []NothingLeftBehind
<1> DEFINE IInv == InOrder /\ NothingLeftBehind
<1>1. Init => IInv
  BY DEF Init, InOrder, NothingLeftBehind, Handled
<1>2. TypeOK /\ IInv /\ [Next]_vars => IInv'
  <2> SUFFICES ASSUME TypeOK, InOrder, NothingLeftBehind, [Next]_vars
               PROVE  InOrder' /\ NothingLeftBehind'
    OBVIOUS
  <2>1. CASE UNCHANGED vars
    BY <2>1 DEF vars, writerVars, readerVars, InOrder, NothingLeftBehind,
                Handled
  <2>2. ASSUME NEW w \in Writers, BeginInsert(w)
        PROVE  InOrder' /\ NothingLeftBehind'
    <3>1. lastId' = lastId + 1 /\ after' = after /\ visible' = visible
          /\ Handled' = Handled
      BY <2>2 DEF BeginInsert, readerVars, Handled
    <3>2. \A v \in Writers : open'[v] = lastId'
      <4>1. w \in Writers /\ \A v \in Writers : v = w
        OBVIOUS
      <4>2. open'[w] = lastId + 1
        BY <2>2 DEF BeginInsert, TypeOK
      <4> QED
        BY <3>1, <4>1, <4>2
    <3>3. after' < lastId' /\ lastId' \notin visible'
      BY <3>1 DEF TypeOK
    <3>4. InOrder'
      BY <3>2, <3>3 DEF InOrder
    <3>5. NothingLeftBehind'
      BY <3>1 DEF NothingLeftBehind
    <3> QED
      BY <3>4, <3>5
  <2>3. ASSUME NEW w \in Writers, Commit(w) \/ NoRow(w)
        PROVE  InOrder' /\ NothingLeftBehind'
    <3>1. \A v \in Writers : open'[v] = 0
      <4>1. open'[w] = 0
        BY <2>3 DEF Commit, NoRow, TypeOK
      <4>2. \A v \in Writers : v = w
        OBVIOUS
      <4> QED
        BY <4>1, <4>2
    <3>2. after' = after /\ Handled' = Handled
          /\ visible' \subseteq visible \cup {open[w]}
      BY <2>3 DEF Commit, NoRow, readerVars, Handled
    <3>3. open[w] # 0 /\ open[w] = lastId /\ after < lastId
      BY <2>3 DEF Commit, NoRow, InOrder
    <3>4. ~(open[w] <= after)
      BY <3>3 DEF TypeOK
    <3>5. NothingLeftBehind'
      BY <3>2, <3>4 DEF NothingLeftBehind
    <3> QED
      BY <3>1, <3>5 DEF InOrder
  <2>4. CASE StartPass
    <3>1. /\ UNCHANGED <<lastId, open, visible>>
          /\ Handled' = Handled
          /\ after' = 0 \/ after' = after
      BY <2>4 DEF StartPass, writerVars, Handled
    <3>2. \A i \in visible : i \in Int /\ i >= 1
      BY DEF TypeOK
    <3>3. NothingLeftBehind'
      BY <3>1, <3>2 DEF NothingLeftBehind
    <3>4. ASSUME NEW w \in Writers, open[w] # 0
          PROVE  0 < lastId
      BY <3>4 DEF TypeOK, InOrder
    <3> QED
      BY <3>1, <3>3, <3>4 DEF InOrder
  <2>5. CASE ReadPage
    <3>1. UNCHANGED <<lastId, open, visible>>
      BY <2>5 DEF ReadPage, writerVars
    <3>2. after' \in visible
      BY <2>5, ReadPageMovesOn
    <3>3. ASSUME NEW i \in visible, i <= after'
          PROVE  i \in Handled'
      <4>1. i \in Int /\ after \in Int
        BY DEF TypeOK
      <4>2. CASE i <= after
        BY <2>5, <4>2, ReadPageMovesOn DEF NothingLeftBehind
      <4>3. CASE i > after
        BY <2>5, <3>3, <4>3, ReadPageMovesOn
      <4> QED
        BY <4>1, <4>2, <4>3
    <3>4. NothingLeftBehind'
      BY <3>1, <3>3 DEF NothingLeftBehind
    <3>5. ASSUME NEW w \in Writers, open[w] # 0
          PROVE  after' < lastId
      <4>1. lastId \notin visible
        BY <3>5 DEF InOrder
      <4> QED
        BY <3>2, <4>1 DEF TypeOK
    <3> QED
      BY <3>1, <3>4, <3>5 DEF InOrder
  <2>6. CASE EndPass
    BY <2>6 DEF EndPass, writerVars, InOrder, NothingLeftBehind, Handled
  <2> QED
    BY <2>1, <2>2, <2>3, <2>4, <2>5, <2>6 DEF Next, Write, Read
<1> QED
  BY <1>1, <1>2, TypeCorrect, PTL DEF Spec
=============================================================================
