-------------------------- MODULE BronzeSinkProofs --------------------------
(***************************************************************************)
(* Safety of BronzeSink for any set of messages, any number of consumers   *)
(* and any bounds.                                                         *)
(***************************************************************************)
EXTENDS BronzeSink, CommonLemmas, SequenceTheorems

USE SinkAssumption

-----------------------------------------------------------------------------
(* What a publish and an insert do to the records and rows already there.  *)

(* Publishing never changes the record at an offset that exists.           *)
LEMMA PublishKeepsRecords ==
  ASSUME TypeOK, NEW m \in Messages, topic' = Append(topic, m)
  PROVE  /\ topic' \in Seq(Messages)
         /\ Len(topic') = Len(topic) + 1
         /\ \A o \in 0..(Len(topic) - 1) : Record(o)' = Record(o)
  BY AppendProperties DEF TypeOK, Record

(* An insert of a storable message keeps every row and leaves its event    *)
(* stored.                                                                 *)
LEMMA InsertKeepsRows ==
  ASSUME TypeOK, NEW m \in Storable, rows' = RowsAfterInsert(m)
  PROVE  /\ rows' \in Seq(Storable)
         /\ Len(rows') >= Len(rows)
         /\ \A i \in 1..Len(rows) : rows'[i] = rows[i]
         /\ Stored(IdOf[m])'
         /\ \A id : Stored(id) => Stored(id)'
<1>1. CASE Stored(IdOf[m])
  BY <1>1 DEF RowsAfterInsert, TypeOK, Stored
<1>2. CASE ~Stored(IdOf[m])
  <2>1. rows' = Append(rows, m)
    BY <1>2 DEF RowsAfterInsert
  <2>2. /\ rows' \in Seq(Storable)
        /\ Len(rows') = Len(rows) + 1
        /\ \A i \in 1..Len(rows) : rows'[i] = rows[i]
        /\ rows'[Len(rows) + 1] = m
    BY <2>1, AppendProperties DEF TypeOK
  <2>3. Stored(IdOf[m])'
    <3>1. Len(rows) + 1 \in 1..Len(rows') /\ IdOf[rows'[Len(rows) + 1]] = IdOf[m]
      BY <2>2 DEF TypeOK
    <3> QED
      BY <3>1 DEF Stored
  <2>4. ASSUME NEW id, Stored(id)
        PROVE  Stored(id)'
    BY <2>2, <2>4 DEF Stored, TypeOK
  <2> QED
    BY <2>2, <2>3, <2>4 DEF TypeOK
<1> QED
  BY <1>1, <1>2

(* The error handler keeps the types of what it changes.                   *)
LEMMA HandleErrorTypes ==
  ASSUME TypeOK, NEW c \in Consumers, HandleError(c)
  PROVE  /\ pc' \in [Consumers -> {"idle", "handling", "acking"}]
         /\ attempts' \in [Consumers -> Nat]
         /\ gaveUp' \subseteq Nat
<1>1. attempts[c] \in Nat /\ pos[c] \in Nat
  BY DEF TypeOK
<1>2. pc' \in [Consumers -> {"idle", "handling", "acking"}]
  BY DEF HandleError, TypeOK
<1>3. attempts' \in [Consumers -> Nat]
  <2>1. attempts \in [Consumers -> Nat]
    BY DEF TypeOK
  <2>2. \/ attempts' = attempts
        \/ attempts' = [attempts EXCEPT ![c] = attempts[c] + 1]
    BY DEF HandleError
  <2> QED
    BY <1>1, <2>1, <2>2
<1>4. gaveUp' \subseteq Nat
  BY <1>1 DEF HandleError, TypeOK
<1> QED
  BY <1>2, <1>3, <1>4

(* Every step leaves rows alone or inserts a storable message: the two     *)
(* facts about events_raw that the other proofs need.                      *)
LEMMA StepOnRows ==
  ASSUME TypeOK, [Next]_vars
  PROVE  \/ rows' = rows
         \/ \E m \in Storable : rows' = RowsAfterInsert(m)
<1>1. CASE UNCHANGED vars
  BY <1>1 DEF vars
<1>2. CASE \E m \in Messages : Publish(m)
  BY <1>2 DEF Publish
<1>3. ASSUME NEW c \in Consumers, Assign(c) \/ Evict(c) \/ Crash(c) \/ Step(c)
      PROVE  \/ rows' = rows
             \/ \E m \in Storable : rows' = RowsAfterInsert(m)
  BY <1>3 DEF Assign, Evict, Crash, Step, Poll, SkipBad, Insert, InsertFails,
              InsertReplyLost, Ack
<1> QED
  BY <1>1, <1>2, <1>3 DEF Next

-----------------------------------------------------------------------------
(* The state of every component stays in its type.                         *)
THEOREM TypeCorrect == Spec => []TypeOK
<1>1. Init => TypeOK
  BY EmptySeq DEF Init, TypeOK
<1>2. TypeOK /\ [Next]_vars => TypeOK'
  <2> SUFFICES ASSUME TypeOK, [Next]_vars
               PROVE  TypeOK'
    OBVIOUS
  <2> USE DEF TypeOK, consumerVars, faultVars
  <2>1. CASE UNCHANGED vars
    BY <2>1 DEF vars
  <2>2. ASSUME NEW m \in Messages, Publish(m)
        PROVE  TypeOK'
    BY <2>2, PublishKeepsRecords DEF Publish
  <2>3. ASSUME NEW c \in Consumers, Assign(c)
        PROVE  TypeOK'
    BY <2>3 DEF Assign
  <2>4. ASSUME NEW c \in Consumers, Evict(c)
        PROVE  TypeOK'
    BY <2>4 DEF Evict
  <2>5. ASSUME NEW c \in Consumers, Crash(c)
        PROVE  TypeOK'
    BY <2>5 DEF Crash
  <2>6. ASSUME NEW c \in Consumers, Poll(c)
        PROVE  TypeOK'
    BY <2>6 DEF Poll
  <2>7. ASSUME NEW c \in Consumers, SkipBad(c)
        PROVE  TypeOK'
    BY <2>7 DEF SkipBad
  <2>8. ASSUME NEW c \in Consumers, Insert(c)
        PROVE  TypeOK'
    <3>1. rows' \in Seq(Storable)
      BY <2>8, InsertKeepsRows DEF Insert
    <3> QED
      BY <2>8, <3>1 DEF Insert
  <2>9. ASSUME NEW c \in Consumers, InsertFails(c)
        PROVE  TypeOK'
    <3>1. dbErrors' \in 0..MaxDbErrors
      BY <2>9 DEF InsertFails
    <3> QED
      BY <2>9, <3>1, HandleErrorTypes DEF InsertFails
  <2>10. ASSUME NEW c \in Consumers, InsertReplyLost(c)
         PROVE  TypeOK'
    <3>1. rows' \in Seq(Storable)
      BY <2>10, InsertKeepsRows DEF InsertReplyLost
    <3>2. dbErrors' \in 0..MaxDbErrors
      BY <2>10 DEF InsertReplyLost
    <3> QED
      BY <2>10, <3>1, <3>2, HandleErrorTypes DEF InsertReplyLost
  <2>11. ASSUME NEW c \in Consumers, Ack(c)
         PROVE  TypeOK'
    <3>1. pos[c] \in Nat
      OBVIOUS
    <3>2. CASE owner = c
      BY <2>11, <3>1, <3>2 DEF Ack
    <3>3. CASE owner # c
      BY <2>11, <3>3 DEF Ack
    <3> QED
      BY <3>2, <3>3
  <2> QED
    BY <2>1, <2>2, <2>3, <2>4, <2>5, <2>6, <2>7, <2>8, <2>9, <2>10, <2>11
       DEF Next, Step
<1> QED
  BY <1>1, <1>2, PTL DEF Spec

-----------------------------------------------------------------------------
(* The unique index: a step that inserts an event finds no row of it.      *)
THEOREM NoDuplicateRows == Spec => []OneRowPerEvent
<1>1. Init => OneRowPerEvent
  BY DEF Init, OneRowPerEvent
<1>2. TypeOK /\ OneRowPerEvent /\ [Next]_vars => OneRowPerEvent'
  <2> SUFFICES ASSUME TypeOK, OneRowPerEvent, [Next]_vars
               PROVE  OneRowPerEvent'
    OBVIOUS
  <2>1. CASE rows' = rows
    BY <2>1 DEF OneRowPerEvent
  <2>2. ASSUME NEW m \in Storable, rows' = RowsAfterInsert(m)
        PROVE  OneRowPerEvent'
    <3>1. CASE Stored(IdOf[m])
      BY <2>2, <3>1 DEF RowsAfterInsert, OneRowPerEvent
    <3>2. CASE ~Stored(IdOf[m])
      <4>1. /\ Len(rows') = Len(rows) + 1
            /\ \A i \in 1..Len(rows) : rows'[i] = rows[i]
            /\ rows'[Len(rows) + 1] = m
        BY <2>2, <3>2, AppendProperties DEF RowsAfterInsert, TypeOK
      <4>2. \A i \in 1..Len(rows) : IdOf[rows[i]] # IdOf[m]
        BY <3>2 DEF Stored
      <4>3. Len(rows) \in Nat
        BY DEF TypeOK
      <4>4. SUFFICES ASSUME NEW i \in 1..Len(rows'), NEW j \in 1..Len(rows'),
                            IdOf[rows'[i]] = IdOf[rows'[j]]
                     PROVE  i = j
        BY DEF OneRowPerEvent
      <4>5. CASE i \in 1..Len(rows) /\ j \in 1..Len(rows)
        BY <4>1, <4>4, <4>5 DEF OneRowPerEvent
      <4>6. CASE i = Len(rows) + 1 \/ j = Len(rows) + 1
        BY <4>1, <4>2, <4>3, <4>4, <4>6
      <4> QED
        BY <4>1, <4>3, <4>5, <4>6
    <3> QED
      BY <3>1, <3>2
  <2> QED
    BY <2>1, <2>2, StepOnRows
<1> QED
  BY <1>1, <1>2, TypeCorrect, PTL DEF Spec

-----------------------------------------------------------------------------
(* A record, once resolved, is resolved for good.                          *)
LEMMA ResolvedStays ==
  ASSUME TypeOK, [Next]_vars, NEW o \in 0..(Len(topic) - 1)
  PROVE  /\ Record(o)' = Record(o)
         /\ Resolved(o) => Resolved(o)'
<1>1. Record(o)' = Record(o)
  <2>1. CASE topic' = topic
    BY <2>1 DEF Record
  <2>2. ASSUME NEW m \in Messages, Publish(m)
        PROVE  Record(o)' = Record(o)
    BY <2>2, PublishKeepsRecords DEF Publish
  <2> QED
    BY <2>1, <2>2 DEF Next, vars, Assign, Evict, Crash, Step, Poll, SkipBad,
                      Insert, InsertFails, InsertReplyLost, Ack
<1>2. \A id : Stored(id) => Stored(id)'
  <2>1. CASE rows' = rows
    BY <2>1 DEF Stored
  <2>2. ASSUME NEW m \in Storable, rows' = RowsAfterInsert(m)
        PROVE  \A id : Stored(id) => Stored(id)'
    BY <2>2, InsertKeepsRows
  <2> QED
    BY <2>1, <2>2, StepOnRows
<1>3. gaveUp \subseteq gaveUp'
  BY DEF Next, vars, Publish, Assign, Evict, Crash, Step, Poll, SkipBad,
         Insert, InsertFails, InsertReplyLost, HandleError, Ack
<1> QED
  BY <1>1, <1>2, <1>3 DEF Resolved

-----------------------------------------------------------------------------
(* A record that onMessage skips, that is stored, or that the error        *)
(* handler gives up is resolved when it is let go of.                      *)
LEMMA LetGoResolves ==
  ASSUME TypeOK, NEW c \in Consumers, NEW o, o = pos[c],
         SkipBad(c) \/ Insert(c) \/ InsertFails(c) \/ InsertReplyLost(c),
         pc'[c] = "acking"
  PROVE  Resolved(o)'
<1>1. CASE SkipBad(c)
  BY <1>1 DEF SkipBad, Resolved, Record
<1>2. ASSUME Record(o) \in Storable, rows' = RowsAfterInsert(Record(o)),
             topic' = topic
      PROVE  Resolved(o)'
  <2>1. Stored(IdOf[Record(o)])'
    <3>1. PICK m \in Storable : m = Record(o)
      BY <1>2
    <3>2. Stored(IdOf[m])' /\ Record(o)' = m
      BY <1>2, <3>1, InsertKeepsRows DEF Record
    <3> QED
      BY <3>2 DEF Stored
  <2> QED
    BY <2>1 DEF Resolved
<1>3. CASE Insert(c)
  BY <1>2, <1>3 DEF Insert
<1>4. CASE InsertReplyLost(c)
  BY <1>2, <1>4 DEF InsertReplyLost
<1>5. CASE InsertFails(c)
  <2>1. o \in gaveUp'
    BY <1>5 DEF InsertFails, HandleError, TypeOK
  <2> QED
    BY <2>1 DEF Resolved
<1> QED
  BY <1>1, <1>3, <1>4, <1>5

(* A consumer that the step leaves alone keeps what HandsInv says of it.   *)
LEMMA OthersKeepHandOK ==
  ASSUME TypeOK, HandsInv, [Next]_vars, NEW d \in Consumers,
         pc'[d] = pc[d], pos'[d] = pos[d],
         Len(topic') \in Nat, Len(topic') >= Len(topic),
         committed' \in Nat, committed' >= committed,
         owner' = d => owner = d /\ committed' = committed
  PROVE  HandOK(d)'
<1>1. HandOK(d) /\ pos[d] \in Nat /\ committed \in Nat /\ Len(topic) \in Nat
  BY DEF HandsInv, TypeOK
<1>2. pc'[d] = "acking" => Resolved(pos[d])'
  <2> SUFFICES ASSUME pc[d] = "acking"
               PROVE  Resolved(pos[d])'
    OBVIOUS
  <2>1. PICK o \in 0..(Len(topic) - 1) : o = pos[d]
    BY <1>1 DEF HandOK
  <2>2. Resolved(o)
    BY <1>1, <2>1 DEF HandOK
  <2>3. Resolved(o)'
    BY <2>2, ResolvedStays
  <2>4. pos'[d] = o
    BY <2>1
  <2> QED
    BY <2>3, <2>4 DEF Resolved, Record
<1> QED
  BY <1>1, <1>2 DEF HandOK

SafeInv == TypeOK /\ HandsInv /\ NothingSkippedSilently

(* The inductive step: one case per action, and in it the consumer that    *)
(* acts, the others, and the offsets behind the committed one.             *)
LEMMA SafeInvStep ==
  ASSUME SafeInv, TypeOK', [Next]_vars
  PROVE  HandsInv' /\ NothingSkippedSilently'
<1> USE DEF SafeInv
<1>1. /\ Len(topic) \in Nat /\ committed \in Nat /\ committed <= Len(topic)
      /\ Len(topic') \in Nat /\ committed' \in Nat
      /\ \A d \in Consumers : HandOK(d) /\ pos[d] \in Nat
  BY DEF TypeOK, HandsInv
<1>2. ASSUME committed' = committed
      PROVE  NothingSkippedSilently'
  BY <1>1, <1>2, ResolvedStays DEF NothingSkippedSilently
<1>gave. ASSUME gaveUp' = gaveUp, Len(topic') >= Len(topic)
         PROVE  \A o \in gaveUp' : o < Len(topic')
  BY <1>1, <1>gave DEF HandsInv, TypeOK
<1>3. CASE UNCHANGED vars
  <2>1. \A d \in Consumers : HandOK(d)'
    BY <1>1, <1>3 DEF vars, consumerVars, HandOK, Resolved, Record, Stored
  <2> QED
    BY <1>1, <1>2, <1>gave, <1>3, <2>1 DEF vars, HandsInv
<1>4. ASSUME NEW m \in Messages, Publish(m)
      PROVE  HandsInv' /\ NothingSkippedSilently'
  <2>1. Len(topic') = Len(topic) + 1 /\ committed' = committed
    BY <1>4, PublishKeepsRecords DEF Publish
  <2>2. \A d \in Consumers : HandOK(d)'
    BY <1>1, <1>4, <2>1, OthersKeepHandOK DEF Publish, consumerVars
  <2> QED
    BY <1>1, <1>2, <1>gave, <1>4, <2>1, <2>2 DEF HandsInv, Publish
<1>5. ASSUME NEW c \in Consumers, Assign(c)
      PROVE  HandsInv' /\ NothingSkippedSilently'
  <2>1. HandOK(c)'
    BY <1>1, <1>5 DEF Assign, HandOK, TypeOK
  <2>2. ASSUME NEW d \in Consumers \ {c} PROVE HandOK(d)'
    BY <1>1, <1>5, OthersKeepHandOK DEF Assign, TypeOK
  <2> QED
    BY <1>1, <1>2, <1>gave, <1>5, <2>1, <2>2 DEF HandsInv, Assign
<1>6. ASSUME NEW c \in Consumers, Evict(c)
      PROVE  HandsInv' /\ NothingSkippedSilently'
  <2>1. ASSUME NEW d \in Consumers PROVE HandOK(d)'
    BY <1>1, <1>6, OthersKeepHandOK DEF Evict, consumerVars
  <2> QED
    BY <1>1, <1>2, <1>gave, <1>6, <2>1 DEF HandsInv, Evict
<1>7. ASSUME NEW c \in Consumers, Crash(c)
      PROVE  HandsInv' /\ NothingSkippedSilently'
  <2>1. HandOK(c)'
    BY <1>1, <1>7 DEF Crash, HandOK, TypeOK
  <2>2. ASSUME NEW d \in Consumers \ {c} PROVE HandOK(d)'
    BY <1>1, <1>7, OthersKeepHandOK DEF Crash, TypeOK
  <2> QED
    BY <1>1, <1>2, <1>gave, <1>7, <2>1, <2>2 DEF HandsInv, Crash
<1>8. ASSUME NEW c \in Consumers, Poll(c)
      PROVE  HandsInv' /\ NothingSkippedSilently'
  <2>1. HandOK(c)'
    BY <1>1, <1>8 DEF Poll, HandOK, TypeOK
  <2>2. ASSUME NEW d \in Consumers \ {c} PROVE HandOK(d)'
    BY <1>1, <1>8, OthersKeepHandOK DEF Poll, TypeOK
  <2> QED
    BY <1>1, <1>2, <1>gave, <1>8, <2>1, <2>2 DEF HandsInv, Poll
<1>9. ASSUME NEW c \in Consumers,
             SkipBad(c) \/ Insert(c) \/ InsertFails(c) \/ InsertReplyLost(c)
      PROVE  HandsInv' /\ NothingSkippedSilently'
  <2>1. /\ pc[c] = "handling" /\ owner' = owner /\ pos' = pos
        /\ committed' = committed /\ topic' = topic
        /\ \A d \in Consumers \ {c} : pc'[d] = pc[d]
    BY <1>9 DEF SkipBad, Insert, InsertFails, InsertReplyLost, HandleError,
                TypeOK
  <2>2. pc'[c] = "acking" => Resolved(pos[c])'
    <3>1. PICK o : o = pos[c]
      OBVIOUS
    <3>2. pc'[c] = "acking" => Resolved(o)'
      BY <1>9, <3>1, LetGoResolves
    <3>3. pos'[c] = o
      BY <2>1, <3>1
    <3> QED
      BY <3>2, <3>3 DEF Resolved, Record
  <2>3. HandOK(c)'
    BY <1>1, <2>1, <2>2 DEF HandOK
  <2>4. ASSUME NEW d \in Consumers \ {c} PROVE HandOK(d)'
    BY <1>1, <2>1, OthersKeepHandOK
  <2>5. \A o \in gaveUp' : o < Len(topic')
    <3>1. gaveUp' \subseteq gaveUp \cup {pos[c]}
      BY <1>9 DEF SkipBad, Insert, InsertFails, InsertReplyLost, HandleError
    <3>2. pos[c] < Len(topic)
      BY <1>1, <2>1 DEF HandOK
    <3> QED
      BY <2>1, <3>1, <3>2 DEF HandsInv
  <2> QED
    BY <1>1, <1>2, <2>1, <2>3, <2>4, <2>5 DEF HandsInv
<1>10. ASSUME NEW c \in Consumers, Ack(c)
       PROVE  HandsInv' /\ NothingSkippedSilently'
  <2>1. /\ topic' = topic /\ owner' = owner /\ pc'[c] = "idle"
        /\ gaveUp' = gaveUp /\ Len(topic') >= Len(topic)
        /\ \A d \in Consumers \ {c} : pc'[d] = pc[d]
    BY <1>1, <1>10 DEF Ack, TypeOK
  <2>2. CASE owner # c
    <3>1. committed' = committed /\ pos' = pos
      BY <1>10, <2>2 DEF Ack
    <3>2. HandOK(c)'
      BY <1>1, <2>1, <2>2, <3>1 DEF HandOK
    <3>3. ASSUME NEW d \in Consumers \ {c} PROVE HandOK(d)'
      BY <1>1, <2>1, <3>1, OthersKeepHandOK
    <3> QED
      BY <1>1, <1>2, <1>gave, <2>1, <3>1, <3>2, <3>3 DEF HandsInv
  <2>3. CASE owner = c
    <3>1. /\ pc[c] = "acking" /\ pos[c] = committed
          /\ committed < Len(topic) /\ Resolved(committed)
      BY <1>1, <1>10, <2>3 DEF Ack, HandOK
    <3>2. /\ committed' = committed + 1 /\ pos'[c] = committed + 1
          /\ \A d \in Consumers \ {c} : pos'[d] = pos[d]
      BY <1>10, <2>3, <3>1 DEF Ack, TypeOK
    <3>3. HandOK(c)'
      BY <2>1, <3>2 DEF HandOK
    <3>4. ASSUME NEW d \in Consumers \ {c} PROVE HandOK(d)'
      BY <1>1, <2>1, <2>3, <3>2, OthersKeepHandOK
    <3>5. NothingSkippedSilently'
      <4> SUFFICES ASSUME NEW o \in 0..committed
                   PROVE  Resolved(o)'
        BY <1>1, <3>2 DEF NothingSkippedSilently
      <4>1. o \in 0..(Len(topic) - 1) /\ Resolved(o)
        BY <1>1, <3>1 DEF NothingSkippedSilently
      <4> QED
        BY <4>1, ResolvedStays
    <3> QED
      BY <1>1, <1>gave, <2>1, <3>1, <3>2, <3>3, <3>4, <3>5 DEF HandsInv
  <2> QED
    BY <2>2, <2>3
<1> QED
  BY <1>3, <1>4, <1>5, <1>6, <1>7, <1>8, <1>9, <1>10 DEF Next, Step

(* The inductive invariant holds.                                          *)
THEOREM SafeInvHolds == Spec => []SafeInv
<1>1. Init => HandsInv /\ NothingSkippedSilently
  BY EmptySeq DEF Init, HandsInv, HandOK, NothingSkippedSilently
<1>2. SafeInv /\ TypeOK' /\ [Next]_vars => HandsInv' /\ NothingSkippedSilently'
  BY SafeInvStep
<1> QED
  BY <1>1, <1>2, TypeCorrect, PTL DEF Spec, SafeInv

(* No crash, eviction, retry or failure lets the group commit past a good  *)
(* record that is neither in events_raw nor in the error handler's log.    *)
THEOREM NoSilentSkip == Spec => []NothingSkippedSilently
  BY SafeInvHolds, PTL DEF SafeInv

-----------------------------------------------------------------------------
(* Commits never rewind the group, however late, and bronze only grows at  *)
(* its end: the commit of the owner is the next offset, that of a consumer *)
(* that lost the partition is refused.                                     *)
THEOREM CommitsNeverRewind == Spec => NeverRewinds
<1>1. SafeInv /\ [Next]_vars => /\ committed' >= committed
                               /\ Len(rows') >= Len(rows)
                               /\ \A i \in 1..Len(rows) : rows'[i] = rows[i]
  <2> SUFFICES ASSUME SafeInv, [Next]_vars
               PROVE  /\ committed' >= committed
                      /\ Len(rows') >= Len(rows)
                      /\ \A i \in 1..Len(rows) : rows'[i] = rows[i]
    OBVIOUS
  <2> TypeOK /\ HandsInv
    BY DEF SafeInv
  <2>1. Len(rows') >= Len(rows) /\ \A i \in 1..Len(rows) : rows'[i] = rows[i]
    <3>1. CASE rows' = rows
      BY <3>1 DEF TypeOK
    <3>2. ASSUME NEW m \in Storable, rows' = RowsAfterInsert(m)
          PROVE  /\ Len(rows') >= Len(rows)
                 /\ \A i \in 1..Len(rows) : rows'[i] = rows[i]
      BY <3>2, InsertKeepsRows
    <3> QED
      BY <3>1, <3>2, StepOnRows
  <2>2. committed' >= committed
    <3>1. committed \in Nat
      BY DEF TypeOK
    <3>2. CASE committed' = committed
      BY <3>1, <3>2
    <3>3. ASSUME NEW c \in Consumers, Ack(c), owner = c
          PROVE  committed' >= committed
      BY <3>1, <3>3 DEF Ack, HandsInv, HandOK
    <3> QED
      BY <3>2, <3>3 DEF Next, vars, Publish, Assign, Evict, Crash, Step, Poll,
                        SkipBad, Insert, InsertFails, InsertReplyLost, Ack
  <2> QED
    BY <2>1, <2>2
<1> QED
  BY <1>1, SafeInvHolds, PTL DEF Spec, NeverRewinds

-----------------------------------------------------------------------------
(* A step keeps AttemptsInv: while there were fewer database failures than *)
(* the error handler has attempts, only an unstorable record is given up.  *)
LEMMA AttemptsInvStep ==
  ASSUME SafeInv, TypeOK', AttemptsInv, [Next]_vars
  PROVE  AttemptsInv'
<1> DEFINE Charged(c) == \/ attempts[c] <= dbErrors
                         \/ pos[c] < Len(topic) /\ Record(pos[c]) \notin Storable
           OnlyBad(o) == o < Len(topic) /\ Record(o) \notin Storable
<1> USE DEF SafeInv
<1>1. /\ Len(topic) \in Nat /\ Len(topic') \in Nat /\ dbErrors \in Nat
      /\ dbErrors' \in Nat
      /\ \A d \in Consumers : pos[d] \in Nat /\ attempts[d] \in Nat
      /\ gaveUp \subseteq Nat /\ \A o \in gaveUp : o < Len(topic)
  BY DEF TypeOK, HandsInv
<1>2. Len(topic') >= Len(topic) /\ dbErrors' >= dbErrors
  <2>1. CASE topic' = topic
    BY <1>1, <2>1 DEF Next, vars, faultVars, Publish, Assign, Evict, Crash, Step,
       Poll, SkipBad, Insert, InsertFails, InsertReplyLost, Ack
  <2>2. ASSUME NEW m \in Messages, Publish(m)
        PROVE  Len(topic') >= Len(topic) /\ dbErrors' >= dbErrors
    BY <1>1, <2>2, PublishKeepsRecords DEF Publish, faultVars
  <2> QED
    BY <2>1, <2>2 DEF Next, vars, Assign, Evict, Crash, Step, Poll, SkipBad,
                      Insert, InsertFails, InsertReplyLost, Ack
<1>3. \A o \in Nat : OnlyBad(o) => OnlyBad(o)'
  BY <1>1, <1>2, ResolvedStays
<1>4. ASSUME NEW d \in Consumers, pos'[d] = pos[d], attempts'[d] = attempts[d]
      PROVE  Charged(d)'
  <2>1. CASE attempts[d] <= dbErrors
    BY <1>1, <1>2, <1>4, <2>1
  <2>2. CASE OnlyBad(pos[d])
    <3>1. PICK o \in Nat : o = pos[d]
      BY <1>1
    <3>2. OnlyBad(o)' /\ pos'[d] = o
      BY <1>3, <1>4, <2>2, <3>1
    <3> QED
      BY <3>2 DEF Record
  <2> QED
    BY <2>1, <2>2 DEF AttemptsInv
<1>5. ASSUME NEW d \in Consumers, attempts'[d] = 0
      PROVE  Charged(d)'
  BY <1>1, <1>5
<1>6. ASSUME gaveUp' = gaveUp
      PROVE  dbErrors' < MaxAttempts => \A o \in gaveUp' : OnlyBad(o)'
  <2>1. dbErrors' < MaxAttempts => dbErrors < MaxAttempts
    BY <1>1, <1>2, SinkAssumption
  <2> QED
    BY <1>1, <1>3, <1>6, <2>1 DEF AttemptsInv
<1>7. CASE UNCHANGED vars
  BY <1>4, <1>6, <1>7 DEF vars, consumerVars, AttemptsInv
<1>8. ASSUME NEW m \in Messages, Publish(m)
      PROVE  AttemptsInv'
  BY <1>4, <1>6, <1>8 DEF Publish, consumerVars, AttemptsInv
<1>9. ASSUME NEW c \in Consumers, Assign(c) \/ Crash(c) \/ Ack(c)
      PROVE  AttemptsInv'
  <2>1. attempts'[c] = 0 /\ gaveUp' = gaveUp
    BY <1>9 DEF Assign, Crash, Ack, TypeOK
  <2>2. \A d \in Consumers \ {c} : pos'[d] = pos[d] /\ attempts'[d] = attempts[d]
    BY <1>9 DEF Assign, Crash, Ack, TypeOK
  <2> QED
    BY <1>4, <1>5, <1>6, <2>1, <2>2 DEF AttemptsInv
<1>10. ASSUME NEW c \in Consumers, Evict(c) \/ Poll(c) \/ SkipBad(c) \/ Insert(c)
       PROVE  AttemptsInv'
  BY <1>4, <1>6, <1>10 DEF Evict, Poll, SkipBad, Insert, consumerVars,
                            AttemptsInv
<1>11. ASSUME NEW c \in Consumers, InsertFails(c) \/ InsertReplyLost(c)
       PROVE  AttemptsInv'
  <2>1. /\ pos' = pos /\ topic' = topic /\ HandleError(c)
        /\ pos[c] \in Nat /\ pos[c] < Len(topic)
    BY <1>1, <1>11 DEF InsertFails, InsertReplyLost, HandsInv, HandOK
  <2>2. CASE OnlyBad(pos[c])
    <3>1. PICK o \in Nat : o = pos[c]
      BY <1>1
    <3>2. OnlyBad(o)' /\ pos'[c] = o
      BY <1>3, <2>1, <2>2, <3>1
    <3>3. Charged(c)'
      BY <3>2 DEF Record
    <3>4. \A d \in Consumers \ {c} : attempts'[d] = attempts[d]
      BY <2>1 DEF HandleError, TypeOK
    <3>5. gaveUp' \subseteq gaveUp \cup {o}
      BY <2>1, <3>1 DEF HandleError
    <3>6. dbErrors' < MaxAttempts => dbErrors < MaxAttempts
      BY <1>1, <1>2, SinkAssumption
    <3> QED
      BY <1>1, <1>3, <1>4, <2>1, <3>2, <3>3, <3>4, <3>5, <3>6 DEF AttemptsInv
  <2>3. CASE ~OnlyBad(pos[c])
    <3>1. attempts[c] <= dbErrors /\ dbErrors' = dbErrors + 1
      BY <1>11, <2>1, <2>3 DEF InsertFails, InsertReplyLost, AttemptsInv
    <3>2. attempts[c] + 1 <= dbErrors'
      BY <1>1, <3>1
    <3>3. \A d \in Consumers \ {c} : attempts'[d] = attempts[d]
      BY <2>1 DEF HandleError, TypeOK
    <3>4. Charged(c)'
      <4>1. attempts'[c] = attempts[c] \/ attempts'[c] = attempts[c] + 1
        BY <2>1 DEF HandleError, TypeOK
      <4> QED
        BY <1>1, <3>2, <4>1
    <3>5. dbErrors' < MaxAttempts => gaveUp' = gaveUp
      BY <1>1, <2>1, <3>2, SinkAssumption DEF HandleError
    <3>6. dbErrors' < MaxAttempts => \A o \in gaveUp' : OnlyBad(o)'
      BY <1>6, <3>5
    <3> QED
      BY <1>4, <2>1, <3>3, <3>4, <3>6 DEF AttemptsInv
  <2> QED
    BY <2>2, <2>3
<1> QED
  BY <1>7, <1>8, <1>9, <1>10, <1>11 DEF Next, Step

(* As long as there were fewer database failures than the error handler    *)
(* has attempts, every storable record the group has committed past is in  *)
(* events_raw: BronzeSinkApplication.kt's claim, under that condition.     *)
THEOREM StoredWhenFailuresAreFew == Spec => []StoredWhileFailuresAreFew
<1>1. Init => AttemptsInv
  BY DEF Init, AttemptsInv
<1>2. SafeInv /\ TypeOK' /\ AttemptsInv /\ [Next]_vars => AttemptsInv'
  BY AttemptsInvStep
<1>3. SafeInv /\ AttemptsInv => StoredWhileFailuresAreFew
  BY DEF SafeInv, TypeOK, NothingSkippedSilently, Resolved, AttemptsInv,
         AtLeastOnce, StoredWhileFailuresAreFew
<1>4. SafeInv => TypeOK
  BY DEF SafeInv
<1> QED
  BY <1>1, <1>2, <1>3, <1>4, SafeInvHolds, PTL DEF Spec

-----------------------------------------------------------------------------
(* What is lost after an insert: what was, without the stored event.       *)
LEMMA LostAfterInsert ==
  ASSUME TypeOK, NEW m \in Storable, rows' = Append(rows, m), topic' = topic,
         NEW o, m = Record(o), gaveUp \subseteq gaveUp',
         gaveUp' \subseteq gaveUp \cup {o}
  PROVE  Lost' = {x \in Lost : IdOf[topic[x + 1]] # IdOf[m]}
<1>1. \A id : Stored(id)' <=> Stored(id) \/ id = IdOf[m]
  <2>1. /\ Len(rows') = Len(rows) + 1 /\ Len(rows) \in Nat
        /\ \A i \in 1..Len(rows) : rows'[i] = rows[i]
        /\ rows'[Len(rows) + 1] = m
    BY AppendProperties DEF TypeOK
  <2>2. \A i : i \in 1..Len(rows') <=> i \in 1..Len(rows) \/ i = Len(rows) + 1
    BY <2>1
  <2> QED
    BY <2>1, <2>2 DEF Stored
<1>2. Lost' = {x \in gaveUp' : ~(Stored(IdOf[Record(x)]) \/ IdOf[Record(x)] = IdOf[m])}
  BY <1>1 DEF Lost, Record
<1> QED
  BY <1>2 DEF Lost, Record

(* What is lost does not change when neither rows nor the records that     *)
(* were given up do.                                                       *)
LEMMA LostStays ==
  ASSUME TypeOK, HandsInv, [Next]_vars, rows' = rows, gaveUp' = gaveUp
  PROVE  Lost' = Lost
<1>1. \A o \in gaveUp : Record(o)' = Record(o)
  <2>1. \A o \in gaveUp : o \in 0..(Len(topic) - 1)
    BY DEF TypeOK, HandsInv
  <2> QED
    BY <2>1, ResolvedStays
<1> QED
  BY <1>1 DEF Lost, Stored

(* A step of the sink is a step of the ledger, or the ledger stutters.     *)
LEMMA StepImplementsLedger ==
  ASSUME SafeInv, [Next]_vars
  PROVE  [Ledger!Next]_(Ledger!vars)
<1> TypeOK /\ HandsInv /\ NothingSkippedSilently
  BY DEF SafeInv
<1> USE DEF Ledger!vars
<1>1. CASE UNCHANGED vars
  BY <1>1, LostStays DEF vars
<1>2. ASSUME NEW m \in Messages, Publish(m)
      PROVE  Ledger!Next
  BY <1>2, LostStays DEF Publish, Ledger!Next, Ledger!Publish
<1>3. ASSUME NEW c \in Consumers,
             Assign(c) \/ Evict(c) \/ Crash(c) \/ Poll(c) \/ SkipBad(c)
      PROVE  UNCHANGED Ledger!vars
  BY <1>3, LostStays DEF Assign, Evict, Crash, Poll, SkipBad, consumerVars
<1>4. ASSUME NEW c \in Consumers, Ack(c)
      PROVE  [Ledger!Next]_(Ledger!vars)
  <2>1. Lost' = Lost /\ topic' = topic /\ rows' = rows
    BY <1>4, LostStays DEF Ack
  <2>2. CASE owner # c
    BY <1>4, <2>1, <2>2 DEF Ack
  <2>3. CASE owner = c
    <3>1. /\ pos[c] = committed /\ committed < Len(topic)
          /\ Resolved(committed) /\ committed' = committed + 1
      BY <1>4, <2>3 DEF Ack, HandsInv, HandOK
    <3>2. Ledger!Settled(committed)
      BY <3>1 DEF Resolved, Record, Stored, Lost, Ledger!Settled,
                  Ledger!Entered
    <3> QED
      BY <2>1, <3>1, <3>2 DEF Ledger!Next, Ledger!Advance
  <2> QED
    BY <2>2, <2>3
<1>5. ASSUME NEW c \in Consumers,
             Insert(c) \/ InsertFails(c) \/ InsertReplyLost(c)
      PROVE  /\ topic' = topic /\ committed' = committed
             /\ pos[c] \in Nat /\ pos[c] < Len(topic) /\ pos[c] <= committed
             /\ Record(pos[c]) \in Accepted
             /\ gaveUp \subseteq gaveUp' /\ gaveUp' \subseteq gaveUp \cup {pos[c]}
             /\ pos[c] < committed => \/ Stored(IdOf[Record(pos[c])])
                                     \/ pos[c] \in gaveUp
  <2>1. /\ topic' = topic /\ committed' = committed /\ pc[c] = "handling"
        /\ Record(pos[c]) \in Accepted
        /\ gaveUp \subseteq gaveUp' /\ gaveUp' \subseteq gaveUp \cup {pos[c]}
    BY <1>5 DEF Insert, InsertFails, InsertReplyLost, HandleError
  <2>2. /\ pos[c] \in Nat /\ committed \in Nat
        /\ pos[c] < Len(topic) /\ pos[c] <= committed
    BY <2>1 DEF TypeOK, HandsInv, HandOK
  <2>3. pos[c] < committed => Resolved(pos[c])
    BY <2>2 DEF NothingSkippedSilently
  <2> QED
    BY <2>1, <2>2, <2>3 DEF Resolved
<1>6. ASSUME NEW c \in Consumers, Insert(c) \/ InsertReplyLost(c)
      PROVE  [Ledger!Next]_(Ledger!vars)
  <2>1. PICK o \in Nat : o = pos[c]
    BY <1>5, <1>6
  <2>2. PICK m \in Storable : m = Record(o)
    BY <1>6, <2>1 DEF Insert, InsertReplyLost
  <2>3. rows' = RowsAfterInsert(m)
    BY <1>6, <2>1, <2>2 DEF Insert, InsertReplyLost
  <2>4. CASE Stored(IdOf[m])
    <3>1. rows' = rows
      BY <2>3, <2>4 DEF RowsAfterInsert
    <3>2. Lost' = Lost
      BY <1>5, <1>6, <2>1, <2>2, <2>4, <3>1 DEF Lost, Record, Stored
    <3> QED
      BY <1>5, <1>6, <3>1, <3>2
  <2>5. CASE ~Stored(IdOf[m])
    <3>1. rows' = Append(rows, m)
      BY <2>3, <2>5 DEF RowsAfterInsert
    <3>2. Lost' = {x \in Lost : IdOf[topic[x + 1]] # IdOf[m]}
      BY <1>5, <1>6, <2>1, <2>2, <3>1, LostAfterInsert
    <3>3. m = topic[o + 1]
      BY <2>2 DEF Record
    <3>4. Ledger!EnterRow(m)
      BY <1>5, <1>6, <2>1, <2>2, <2>5, <3>1, <3>2
         DEF Ledger!EnterRow, Ledger!Entered, Stored
    <3>5. CASE o = committed
      BY <1>5, <1>6, <2>1, <3>3, <3>4, <3>5 DEF Ledger!Next, Ledger!Enter
    <3>6. CASE o < committed
      <4>1. o \in Lost /\ o \in 0..(committed - 1)
        BY <1>5, <1>6, <2>1, <2>2, <2>5, <3>6 DEF Lost, TypeOK
      <4> QED
        BY <3>3, <3>4, <4>1 DEF Ledger!Next, Ledger!EnterLate
    <3> QED
      BY <1>5, <1>6, <2>1, <3>5, <3>6 DEF TypeOK
  <2> QED
    BY <2>4, <2>5
<1>7. ASSUME NEW c \in Consumers, InsertFails(c)
      PROVE  [Ledger!Next]_(Ledger!vars)
  <2>1. PICK o \in Nat : o = pos[c]
    BY <1>5, <1>7
  <2>2. rows' = rows
    BY <1>7 DEF InsertFails
  <2>3. CASE Stored(IdOf[Record(o)]) \/ o \in gaveUp \/ gaveUp' = gaveUp
    <3>1. Lost' = Lost
      BY <1>5, <1>7, <2>1, <2>2, <2>3 DEF Lost, Record, Stored
    <3> QED
      BY <1>5, <1>7, <2>2, <3>1
  <2>4. CASE ~Stored(IdOf[Record(o)]) /\ o \notin gaveUp /\ gaveUp' # gaveUp
    <3>1. gaveUp' = gaveUp \cup {o}
      BY <1>5, <1>7, <2>1, <2>4
    <3>2. Lost' = Lost \cup {o}
      BY <1>5, <1>7, <2>2, <2>4, <3>1 DEF Lost, Record, Stored
    <3>3. o = committed
      BY SMTT(30), <1>5, <1>7, <2>1, <2>4 DEF TypeOK
    <3> QED
      BY ZenonT(30), <1>5, <1>7, <2>1, <2>2, <2>4, <3>2, <3>3
         DEF Ledger!Next, Ledger!DeclareLost, Ledger!Entered, Stored, Record
  <2> QED
    BY <2>3, <2>4
<1> QED
  BY <1>1, <1>2, <1>3, <1>4, <1>6, <1>7 DEF Next, Step

(* Consumers, rebalances, retries and crashes are invisible from outside:  *)
(* the sink is the in-order, each-event-once ledger with explicit losses.  *)
THEOREM SinkImplementsLedger == Spec => LedgerSpec
<1>1. Init => Ledger!Init
  BY DEF Init, Lost, Ledger!Init
<1>2. SafeInv /\ [Next]_vars => [Ledger!Next]_(Ledger!vars)
  BY StepImplementsLedger
<1> QED
  BY <1>1, <1>2, SafeInvHolds, PTL DEF Spec, LedgerSpec, Ledger!Spec

-----------------------------------------------------------------------------
(* The offsets below n that hold the first record of their event.          *)
First(n) == {o \in 0..(n - 1) : FirstArrival(o)}

LEMMA PrefixHasRows ==
  ASSUME NEW n \in Nat
  PROVE  RowsMatchPrefix(n) <=>
           /\ \A o \in First(n) : \E i \in 1..Len(rows) : rows[i] = Record(o)
           /\ \A i \in 1..Len(rows) : \E o \in First(n) : rows[i] = Record(o)
           /\ \A o, p \in First(n), i, j \in 1..Len(rows) :
                 (rows[i] = Record(o) /\ rows[j] = Record(p) /\ i < j) => o < p
  BY DEF RowsMatchPrefix, First

(* Every accepted record repeats a first arrival or is one.                *)
LEMMA EveryEventHasAFirst ==
  ASSUME TypeOK, NEW o \in 0..(Len(topic) - 1), Record(o) \in Accepted
  PROVE  \E q \in 0..o : FirstArrival(q) /\ IdOf[Record(q)] = IdOf[Record(o)]
<1> DEFINE Same == {q \in 0..o : /\ Record(q) \in Accepted
                                 /\ IdOf[Record(q)] = IdOf[Record(o)]}
<1>1. Same \in SUBSET Nat /\ o \in Same
  BY DEF TypeOK
<1>2. PICK q \in Same : \A x \in Same : q <= x
  <2> HIDE DEF Same
  <2> QED
    BY <1>1, SmallestOfNats
<1>3. ASSUME NEW p \in 0..(q - 1), Record(p) \in Accepted,
             IdOf[Record(p)] = IdOf[Record(q)]
      PROVE  FALSE
  <2>1. p \in 0..o /\ p < q /\ q \in Nat /\ p \in Nat
    BY <1>2
  <2>2. p \in Same
    BY <1>2, <1>3, <2>1
  <2> QED
    BY <1>2, <2>1, <2>2
<1> QED
  BY <1>2, <1>3 DEF FirstArrival

(* So an event of a prefix that the table matches is in the table.         *)
LEMMA PrefixIsStored ==
  ASSUME TypeOK, NEW n \in 0..Len(topic), RowsMatchPrefix(n),
         NEW o \in 0..(n - 1), Record(o) \in Accepted
  PROVE  Stored(IdOf[Record(o)])
<1>1. n \in Nat /\ Len(topic) \in Nat /\ o \in 0..(Len(topic) - 1)
  BY DEF TypeOK
<1>2. PICK q \in 0..o :
         FirstArrival(q) /\ IdOf[Record(q)] = IdOf[Record(o)]
  BY <1>1, EveryEventHasAFirst
<1>3. q \in First(n)
  BY <1>1, <1>2 DEF First
<1> QED
  BY <1>1, <1>2, <1>3, PrefixHasRows DEF Stored

(* What the table matches stays so while rows and these records stay.      *)
LEMMA PrefixStays ==
  ASSUME TypeOK, NEW n \in 0..Len(topic), RowsMatchPrefix(n), rows' = rows,
         [Next]_vars
  PROVE  RowsMatchPrefix(n)'
<1>1. n \in Nat /\ Len(topic) \in Nat
  BY DEF TypeOK
<1>2. \A o \in 0..(n - 1) : Record(o)' = Record(o)
  BY <1>1, ResolvedStays
<1>3. \A o \in 0..(n - 1) : FirstArrival(o)' <=> FirstArrival(o)
  BY <1>1, <1>2 DEF FirstArrival
<1>4. First(n)' = First(n) /\ \A o \in First(n) : Record(o)' = Record(o)
  BY <1>2, <1>3 DEF First
<1>5. /\ \A o \in First(n) : \E i \in 1..Len(rows) : rows[i] = Record(o)
      /\ \A i \in 1..Len(rows) : \E o \in First(n) : rows[i] = Record(o)
      /\ \A o, p \in First(n), i, j \in 1..Len(rows) :
            (rows[i] = Record(o) /\ rows[j] = Record(p) /\ i < j) => o < p
  BY <1>1, PrefixHasRows
<1>6. /\ \A o \in First(n)' : \E i \in 1..Len(rows') : rows'[i] = Record(o)'
      /\ \A i \in 1..Len(rows') : \E o \in First(n)' : rows'[i] = Record(o)'
      /\ \A o, p \in First(n)', i, j \in 1..Len(rows') :
            (rows'[i] = Record(o)' /\ rows'[j] = Record(p)' /\ i < j) => o < p
  <2>1. /\ \A o \in First(n)' : \E i \in 1..Len(rows') : rows'[i] = Record(o)'
        /\ \A i \in 1..Len(rows') : \E o \in First(n)' : rows'[i] = Record(o)'
    BY SMTT(30), <1>4, <1>5
  <2>2. ASSUME NEW o \in First(n)', NEW p \in First(n)',
               NEW i \in 1..Len(rows'), NEW j \in 1..Len(rows'),
               rows'[i] = Record(o)', rows'[j] = Record(p)', i < j
        PROVE  o < p
    <3>1. o \in First(n) /\ p \in First(n) /\ i \in 1..Len(rows)
          /\ j \in 1..Len(rows) /\ rows[i] = Record(o) /\ rows[j] = Record(p)
      BY <1>4, <2>2
    <3> QED
      BY <1>5, <2>2, <3>1
  <2> QED
    BY <2>1, <2>2
<1> QED
  BY <1>6 DEF RowsMatchPrefix, First

(* A record that is in the table already, or that broke the contract,      *)
(* lengthens the prefix without a row.                                     *)
LEMMA PrefixGrowsWithoutRow ==
  ASSUME TypeOK, NEW n \in Nat, n < Len(topic), RowsMatchPrefix(n),
         Record(n) \notin Accepted \/ Stored(IdOf[Record(n)])
  PROVE  RowsMatchPrefix(n + 1)
<1>1. ~FirstArrival(n)
  <2>1. CASE Record(n) \notin Accepted
    BY <2>1 DEF FirstArrival
  <2>2. CASE Stored(IdOf[Record(n)])
    <3>1. PICK i \in 1..Len(rows) : IdOf[rows[i]] = IdOf[Record(n)]
      BY <2>2 DEF Stored
    <3>2. PICK o \in First(n) : rows[i] = Record(o)
      BY PrefixHasRows
    <3>3. o \in 0..(n - 1) /\ Record(o) \in Accepted
      BY <3>2 DEF First, FirstArrival
    <3> QED
      BY <3>1, <3>2, <3>3 DEF FirstArrival
  <2> QED
    BY <2>1, <2>2
<1>2. First(n + 1) = First(n)
  <2>1. \A o : o \in 0..(n + 1 - 1) <=> o \in 0..(n - 1) \/ o = n
    OBVIOUS
  <2>2. \A o : o \in First(n + 1) <=> o \in First(n)
    BY <1>1, <2>1 DEF First
  <2> HIDE DEF First
  <2> QED
    BY <2>2
<1> QED
  BY <1>2, PrefixHasRows

(* The record after the prefix, inserted, lengthens it by its row: the row *)
(* is the last one and its record the first of its event.                  *)
LEMMA PrefixGrowsByARow ==
  ASSUME TypeOK, NEW n \in Nat, n < Len(topic), RowsMatchPrefix(n),
         Record(n) \in Storable, ~Stored(IdOf[Record(n)]),
         rows' = Append(rows, Record(n)), topic' = topic
  PROVE  RowsMatchPrefix(n + 1)'
<1> DEFINE new == Len(rows) + 1
<1>1. /\ Len(rows) \in Nat /\ Len(rows') = new
      /\ \A i \in 1..Len(rows) : rows'[i] = rows[i]
      /\ rows'[new] = Record(n)
      /\ \A i : i \in 1..Len(rows') <=> i \in 1..Len(rows) \/ i = new
  <2>1. /\ Len(rows) \in Nat /\ Len(rows') = new
        /\ \A i \in 1..Len(rows) : rows'[i] = rows[i]
        /\ rows'[new] = Record(n)
    BY AppendProperties DEF TypeOK
  <2> QED
    BY <2>1
<1>2. \A i \in 1..Len(rows) : IdOf[rows[i]] # IdOf[Record(n)]
  BY DEF Stored
<1>3. FirstArrival(n)
  <2> SUFFICES ASSUME NEW p \in 0..(n - 1), Record(p) \in Accepted
               PROVE  IdOf[Record(p)] # IdOf[Record(n)]
    BY DEF FirstArrival
  <2>1. n \in 0..Len(topic)
    BY DEF TypeOK
  <2> QED
    BY <2>1, PrefixIsStored
<1>4. \A o : o \in First(n + 1) <=> o \in First(n) \/ o = n
  <2>1. \A o : o \in 0..(n + 1 - 1) <=> o \in 0..(n - 1) \/ o = n
    OBVIOUS
  <2> QED
    BY <1>3, <2>1 DEF First
<1>5. /\ \A o \in First(n) : \E i \in 1..Len(rows) : rows[i] = Record(o)
      /\ \A i \in 1..Len(rows) : \E o \in First(n) : rows[i] = Record(o)
      /\ \A o, p \in First(n), i, j \in 1..Len(rows) :
            (rows[i] = Record(o) /\ rows[j] = Record(p) /\ i < j) => o < p
  BY PrefixHasRows
<1>6. \A o \in First(n) : o \in Nat /\ o < n
  BY DEF First
<1>7. \A o \in First(n) : IdOf[Record(o)] # IdOf[Record(n)]
  BY <1>3, <1>6 DEF First, FirstArrival
<1> HIDE DEF First
<1>8. \A o \in First(n + 1) : \E i \in 1..Len(rows') : rows'[i] = Record(o)
  BY <1>1, <1>4, <1>5
<1>9. \A i \in 1..Len(rows') : \E o \in First(n + 1) : rows'[i] = Record(o)
  BY <1>1, <1>4, <1>5
<1>10. ASSUME NEW o \in First(n + 1), NEW p \in First(n + 1),
              NEW i \in 1..Len(rows'), NEW j \in 1..Len(rows'),
              rows'[i] = Record(o), rows'[j] = Record(p), i < j
       PROVE  o < p
  <2>1. i \in 1..Len(rows) /\ i # new
    BY <1>1, <1>10
  <2>2. rows[i] = Record(o) /\ o # n
    BY <1>1, <1>2, <1>10, <2>1
  <2>3. o \in First(n)
    BY <1>4, <2>2
  <2>4. CASE p = n
    BY <1>6, <2>3, <2>4
  <2>5. CASE p # n
    <3>1. p \in First(n)
      BY <1>4, <2>5
    <3>2. j \in 1..Len(rows) /\ rows[j] = Record(p)
      BY <1>1, <1>7, <1>10, <3>1
    <3> QED
      BY <1>5, <1>10, <2>1, <2>2, <2>3, <3>1, <3>2
  <2> QED
    BY <2>4, <2>5
<1>11. First(n + 1)' = First(n + 1) /\ \A o : Record(o)' = Record(o)
  BY DEF First, FirstArrival, Record
<1>12. /\ \A o \in First(n + 1)' : \E i \in 1..Len(rows') : rows'[i] = Record(o)'
       /\ \A i \in 1..Len(rows') : \E o \in First(n + 1)' : rows'[i] = Record(o)'
       /\ \A o, p \in First(n + 1)', i, j \in 1..Len(rows') :
             (rows'[i] = Record(o)' /\ rows'[j] = Record(p)' /\ i < j) => o < p
  BY ZenonT(30), <1>8, <1>9, <1>10, <1>11
<1> QED
  BY <1>12 DEF RowsMatchPrefix, First

(* As long as no record was given up, rows match what is committed, or     *)
(* that and the record in hand.                                            *)
LEMMA RowsFollowTopicStep ==
  ASSUME SafeInv, RowsFollowTopic, [Next]_vars, gaveUp' = {}
  PROVE  \E n \in {committed', committed' + 1} :
            n <= Len(topic') /\ RowsMatchPrefix(n)'
<1> TypeOK /\ HandsInv /\ NothingSkippedSilently
  BY DEF SafeInv
<1>1. gaveUp = {}
  BY DEF Next, vars, Publish, Assign, Evict, Crash, Step, Poll, SkipBad,
         Insert, InsertFails, InsertReplyLost, HandleError, Ack
<1>2. PICK n \in {committed, committed + 1} : n <= Len(topic) /\ RowsMatchPrefix(n)
  BY <1>1 DEF RowsFollowTopic
<1>3. /\ committed \in Nat /\ Len(topic) \in Nat /\ n \in 0..Len(topic)
      /\ n \in Nat
  BY <1>2 DEF TypeOK
<1>4. Len(topic') \in Nat /\ Len(topic') >= Len(topic)
  <2>1. CASE topic' = topic
    BY <1>3, <2>1
  <2>2. ASSUME NEW m \in Messages, Publish(m)
        PROVE  Len(topic') \in Nat /\ Len(topic') >= Len(topic)
    BY <1>3, <2>2, PublishKeepsRecords DEF Publish
  <2> QED
    BY <2>1, <2>2 DEF Next, vars, Assign, Evict, Crash, Step, Poll, SkipBad,
                      Insert, InsertFails, InsertReplyLost, Ack
<1>5. CASE rows' = rows /\ committed' = committed
  BY <1>2, <1>3, <1>4, <1>5, PrefixStays
<1>6. ASSUME NEW c \in Consumers, Ack(c), owner = c
      PROVE  \E k \in {committed', committed' + 1} :
                k <= Len(topic') /\ RowsMatchPrefix(k)'
  <2>1. /\ pos[c] = committed /\ committed < Len(topic)
        /\ Resolved(committed) /\ committed' = committed + 1
        /\ rows' = rows
    BY <1>6 DEF Ack, HandsInv, HandOK
  <2>2. RowsMatchPrefix(committed + 1)
    <3>1. Record(committed) \notin Accepted \/ Stored(IdOf[Record(committed)])
      BY <1>1, <2>1 DEF Resolved
    <3> QED
      BY <1>2, <1>3, <2>1, <3>1, PrefixGrowsWithoutRow
  <2>3. PICK k \in 0..Len(topic) : k = committed + 1
    BY <1>3, <2>1
  <2>4. RowsMatchPrefix(k)'
    BY <2>1, <2>2, <2>3, PrefixStays
  <2> QED
    BY <1>3, <1>4, <2>1, <2>3, <2>4
<1>7. ASSUME NEW c \in Consumers, Insert(c) \/ InsertReplyLost(c)
      PROVE  \E k \in {committed', committed' + 1} :
                k <= Len(topic') /\ RowsMatchPrefix(k)'
  <2>1. PICK o \in Nat : o = pos[c]
    BY DEF TypeOK
  <2>2. /\ o < Len(topic) /\ o <= committed /\ Record(o) \in Storable
        /\ rows' = RowsAfterInsert(Record(o))
        /\ committed' = committed /\ topic' = topic
    BY <1>7, <2>1 DEF Insert, InsertReplyLost, HandsInv, HandOK
  <2>3. CASE Stored(IdOf[Record(o)])
    BY <1>5, <2>2, <2>3, <1>2, <1>3, <1>4, PrefixStays DEF RowsAfterInsert
  <2>4. CASE ~Stored(IdOf[Record(o)])
    <3>1. ~(o < n)
      <4> SUFFICES ASSUME o < n
                   PROVE  FALSE
        OBVIOUS
      <4>1. o \in 0..(n - 1) /\ Record(o) \in Accepted
        BY <1>3, <2>2
      <4> QED
        BY <1>2, <1>3, <2>4, <4>1, PrefixIsStored
    <3>2. o = committed /\ n = committed
      BY <1>2, <1>3, <2>2, <3>1
    <3>3. rows' = Append(rows, Record(committed))
      BY <2>2, <2>4, <3>2 DEF RowsAfterInsert
    <3>4. RowsMatchPrefix(committed + 1)'
      BY <1>2, <1>3, <2>2, <2>4, <3>2, <3>3, PrefixGrowsByARow
    <3> QED
      BY <1>3, <1>4, <2>2, <3>2, <3>4
  <2> QED
    BY <2>3, <2>4
<1> QED
  BY <1>5, <1>6, <1>7
     DEF Next, vars, Publish, Assign, Evict, Crash, Step, Poll, SkipBad,
         InsertFails, Ack

(* However consumers crash, lose the partition or retry, events_raw is the *)
(* accepted part of the topic in the topic's order, each event in its      *)
(* first payload, as long as the error handler gave up no record.          *)
THEOREM TableFollowsTopic == Spec => []RowsFollowTopic
<1>1. Init => RowsFollowTopic
  <2> SUFFICES ASSUME Init PROVE RowsFollowTopic
    OBVIOUS
  <2>1. /\ committed = 0 /\ Len(topic) = 0 /\ 1..Len(rows) = {}
        /\ 0..(0 - 1) = {}
    BY EmptySeq DEF Init
  <2>2. RowsMatchPrefix(0)
    BY <2>1 DEF RowsMatchPrefix
  <2> QED
    BY <2>1, <2>2 DEF RowsFollowTopic
<1>2. SafeInv /\ RowsFollowTopic /\ [Next]_vars => RowsFollowTopic'
  <2> SUFFICES ASSUME SafeInv, RowsFollowTopic, [Next]_vars, gaveUp' = {}
               PROVE  \E n \in {committed', committed' + 1} :
                         n <= Len(topic') /\ RowsMatchPrefix(n)'
    BY DEF RowsFollowTopic
  <2> QED
    BY RowsFollowTopicStep
<1> QED
  BY <1>1, <1>2, SafeInvHolds, PTL DEF Spec
=============================================================================
