------------------------- MODULE EventPipelineProofs -------------------------
(***************************************************************************)
(* What the ingest client, the ingest API and the producer make of a list  *)
(* of events, and what of it ends in events_raw, for any list, any batch   *)
(* size and any number of faults.                                          *)
(***************************************************************************)
EXTENDS EventPipeline, FiniteSetTheorems, SequenceTheorems, TLAPS

USE IngestAssumption, PipelineAssumption

-----------------------------------------------------------------------------
(* Batches of a list: they follow each other and cover it.                 *)

LEMMA Quotient ==
  ASSUME NEW x \in Nat, NEW n \in Nat \ {0}
  PROVE  /\ x \div n \in Nat
         /\ (x \div n) * n <= x
         /\ x < (x \div n) * n + n
OBVIOUS

LEMMA Product ==
  ASSUME NEW a \in Int, NEW b \in Int, NEW n \in Nat, a <= b
  PROVE  a * n \in Int /\ b * n \in Int /\ a * n <= b * n
OBVIOUS

LEMMA BatchSizes ==
  /\ NumBatches \in Nat /\ Last(0) = 0 /\ Last(NumBatches) = NumEvents
  /\ \A b \in 1..NumBatches :
        /\ First(b) \in Nat /\ Last(b) \in Nat
        /\ First(b) = Last(b - 1) + 1
        /\ First(b) <= Last(b) /\ Last(b) <= NumEvents
        /\ Last(b) - First(b) < BatchSize
<1> DEFINE full == NumBatches * BatchSize
<1>1. /\ NumBatches \in Nat /\ full \in Nat
      /\ full <= NumEvents + BatchSize - 1 /\ full >= NumEvents
  <2>1. NumEvents + BatchSize - 1 \in Nat
    OBVIOUS
  <2> QED
    BY <2>1, Quotient DEF NumBatches
<1>2. Last(0) = 0
  BY DEF Last
<1>3. Last(NumBatches) = NumEvents
  BY <1>1 DEF Last
<1>4. ASSUME NEW b \in 1..NumBatches
      PROVE  /\ First(b) \in Nat /\ Last(b) \in Nat
             /\ First(b) = Last(b - 1) + 1
             /\ First(b) <= Last(b) /\ Last(b) <= NumEvents
             /\ Last(b) - First(b) < BatchSize
  <2> DEFINE before == (b - 1) * BatchSize
  <2>1. b * BatchSize = before + BatchSize /\ before \in Nat
    OBVIOUS
  <2>2. before <= (NumBatches - 1) * BatchSize
    BY <1>1, Product
  <2>3. (NumBatches - 1) * BatchSize = full - BatchSize
    BY <1>1
  <2> HIDE DEF full, before
  <2>4. before < NumEvents
    BY <1>1, <2>1, <2>2, <2>3
  <2>5. Last(b - 1) = before /\ First(b) = before + 1
    BY <2>4 DEF Last, First, before
  <2>6. Last(b) = IF before + BatchSize < NumEvents THEN before + BatchSize
                                                    ELSE NumEvents
    BY <2>1 DEF Last
  <2> QED
    BY <2>1, <2>4, <2>5, <2>6
<1> QED
  BY <1>1, <1>2, <1>3, <1>4

LEMMA BatchesInOrder ==
  ASSUME NEW b \in 1..NumBatches, NEW c \in 1..NumBatches, b < c
  PROVE  Last(b) < First(c)
<1>1. /\ NumBatches \in Nat
      /\ First(c) = (c - 1) * BatchSize + 1
      /\ Last(b) <= b * BatchSize
  BY BatchSizes DEF First, Last
<1>2. b * BatchSize <= (c - 1) * BatchSize
  BY <1>1, Product
<1>3. /\ b * BatchSize \in Nat /\ (c - 1) * BatchSize \in Nat
      /\ Last(b) \in Nat
  BY <1>1, BatchSizes
<1> QED
  BY <1>1, <1>2, <1>3

LEMMA BatchesCover ==
  ASSUME NEW e \in Events
  PROVE  \E b \in 1..NumBatches : e \in First(b)..Last(b)
<1> DEFINE q == (e - 1) \div BatchSize
           before == q * BatchSize
<1>1. e \in 1..NumEvents /\ e - 1 \in Nat /\ NumBatches \in Nat
  BY BatchSizes DEF Events
<1>2. q \in Nat /\ before \in Nat /\ before <= e - 1 /\ e - 1 < before + BatchSize
  BY <1>1, Quotient
<1>3. (q + 1) * BatchSize = before + BatchSize
  BY <1>2
<1>4. q + 1 <= NumBatches
  <2> SUFFICES ASSUME NumBatches <= q
               PROVE  FALSE
    BY <1>1, <1>2
  <2>1. NumBatches * BatchSize <= before
    BY <1>1, <1>2, Product
  <2>2. NumEvents + BatchSize - 1 < NumBatches * BatchSize + BatchSize
        /\ NumBatches * BatchSize \in Nat
    <3>1. NumEvents + BatchSize - 1 \in Nat
      OBVIOUS
    <3> QED
      BY <3>1, Quotient DEF NumBatches
  <2> HIDE DEF before
  <2> QED
    BY <1>1, <1>2, <2>1, <2>2
<1>5. First(q + 1) = before + 1
  BY <1>2 DEF First
<1>6. Last(q + 1) = IF before + BatchSize < NumEvents THEN before + BatchSize
                                                      ELSE NumEvents
  BY <1>3 DEF Last
<1> HIDE DEF q, before
<1>7. e \in First(q + 1)..Last(q + 1)
  BY <1>1, <1>2, <1>5, <1>6
<1> QED
  BY <1>1, <1>2, <1>4, <1>7

-----------------------------------------------------------------------------
(* How many records of a sequence are of one event.                        *)
Places(s, e) == {i \in DOMAIN s : s[i].event = e}
Count(s, e) == Cardinality(Places(s, e))

LEMMA CountType ==
  ASSUME NEW s \in Seq(Records), NEW e
  PROVE  IsFiniteSet(Places(s, e)) /\ Count(s, e) \in Nat
<1>1. IsFiniteSet(1..Len(s)) /\ DOMAIN s = 1..Len(s)
  BY FS_Interval
<1>2. Places(s, e) \in SUBSET (1..Len(s))
  BY <1>1 DEF Places
<1>3. IsFiniteSet(Places(s, e))
  BY <1>1, <1>2, FS_Subset
<1> QED
  BY <1>3, FS_CardinalityType DEF Count

LEMMA CountConcat ==
  ASSUME NEW s \in Seq(Records), NEW t \in Seq(Records), NEW e
  PROVE  Count(s \o t, e) = Count(s, e) + Count(t, e)
<1> DEFINE n == Len(s)
           shifted == {i + n : i \in Places(t, e)}
           shift == [i \in Places(t, e) |-> i + n]
<1>1. /\ n \in Nat /\ Len(t) \in Nat /\ DOMAIN s = 1..n /\ DOMAIN t = 1..Len(t)
      /\ s \o t \in Seq(Records) /\ Len(s \o t) = n + Len(t)
      /\ \A i \in 1..(n + Len(t)) :
            (s \o t)[i] = IF i <= n THEN s[i] ELSE t[i - n]
  OBVIOUS
<1>2. DOMAIN (s \o t) = 1..(n + Len(t))
  BY <1>1
<1> HIDE DEF n
<1>3. Places(s \o t, e) = Places(s, e) \cup shifted
  <2>1. ASSUME NEW i \in Places(s \o t, e)
        PROVE  i \in Places(s, e) \cup shifted
    <3>1. i \in 1..(n + Len(t)) /\ (s \o t)[i].event = e
      BY <1>2 DEF Places
    <3>2. CASE i <= n
      BY <1>1, <3>1, <3>2 DEF Places
    <3>3. CASE ~(i <= n)
      <4>1. i - n \in Places(t, e) /\ i = (i - n) + n
        BY <1>1, <3>1, <3>3 DEF Places
      <4> QED
        BY <4>1
    <3> QED
      BY <3>2, <3>3
  <2>2. ASSUME NEW i \in Places(s, e)
        PROVE  i \in Places(s \o t, e)
    BY <1>1, <1>2 DEF Places
  <2>3. ASSUME NEW i \in Places(t, e)
        PROVE  i + n \in Places(s \o t, e)
    <3>1. i \in 1..Len(t) /\ t[i].event = e
      BY <1>1 DEF Places
    <3>2. i + n \in 1..(n + Len(t)) /\ ~(i + n <= n) /\ (i + n) - n = i
      BY <1>1, <3>1
    <3> QED
      BY <1>1, <1>2, <3>1, <3>2 DEF Places
  <2> QED
    BY <2>1, <2>2, <2>3
<1>4. Places(s, e) \cap shifted = {}
  <2>1. \A i \in Places(s, e) : i \in 1..n
    BY <1>1 DEF Places
  <2>2. \A i \in Places(t, e) : i \in 1..Len(t)
    BY <1>1 DEF Places
  <2> QED
    BY <1>1, <2>1, <2>2
<1>5. /\ IsFiniteSet(Places(s, e)) /\ IsFiniteSet(Places(t, e))
      /\ Cardinality(Places(s, e)) \in Nat /\ Cardinality(Places(t, e)) \in Nat
  BY CountType DEF Count
<1>6. IsFiniteSet(shifted) /\ Cardinality(shifted) = Cardinality(Places(t, e))
  <2>1. shift \in Bijection(Places(t, e), shifted)
    <3>1. \A i \in Places(t, e) : i \in Int
      BY <1>1 DEF Places
    <3>2. \A i, j \in Places(t, e) : shift[i] = shift[j] => i = j
      BY <1>1, <3>1
    <3>3. shift \in [Places(t, e) -> shifted]
      OBVIOUS
    <3>4. \A y \in shifted : \E i \in Places(t, e) : shift[i] = y
      OBVIOUS
    <3> QED
      BY <3>2, <3>3, <3>4 DEF Bijection, Injection, Surjection, IsInjective
  <2>2. ExistsBijection(Places(t, e), shifted)
    BY <2>1 DEF ExistsBijection
  <2> QED
    BY <1>5, <2>2, FS_Bijection
<1>7. Cardinality(Places(s, e) \cup shifted)
         = Cardinality(Places(s, e)) + Cardinality(shifted)
              - Cardinality(Places(s, e) \cap shifted)
  BY <1>5, <1>6, FS_Union
<1>8. Cardinality(Places(s, e) \cap shifted) = 0
  BY <1>4, FS_EmptySet
<1> QED
  BY <1>3, <1>5, <1>6, <1>7, <1>8 DEF Count

LEMMA CountSmall ==
  ASSUME NEW e
  PROVE  /\ Count(<<>>, e) = 0
         /\ \A r \in Records : Count(<<r>>, e) = IF r.event = e THEN 1 ELSE 0
<1>1. Places(<<>>, e) = {}
  BY DEF Places
<1>2. ASSUME NEW r
      PROVE  Places(<<r>>, e) = IF r.event = e THEN {1} ELSE {}
  BY DEF Places
<1> QED
  BY <1>1, <1>2, FS_EmptySet, FS_Singleton DEF Count

LEMMA OneRecord ==
  ASSUME NEW S, NEW r \in S
  PROVE  <<r>> \in Seq(S) /\ Len(<<r>>) = 1 /\ <<r>>[1] = r
OBVIOUS

LEMMA HeadThenTail ==
  ASSUME NEW S, NEW s \in Seq(S), s # <<>>
  PROVE  /\ Head(s) \in S /\ Tail(s) \in Seq(S)
         /\ s = <<Head(s)>> \o Tail(s)
<1>1. /\ Head(s) \in S /\ Tail(s) \in Seq(S) /\ Head(s) = s[1]
      /\ Len(s) \in Nat \ {0} /\ Len(Tail(s)) = Len(s) - 1
      /\ \A i \in 1..Len(Tail(s)) : Tail(s)[i] = s[i + 1]
  BY HeadTailProperties, EmptySeq
<1>2. /\ <<Head(s)>> \o Tail(s) \in Seq(S)
      /\ Len(<<Head(s)>> \o Tail(s)) = Len(s)
      /\ \A i \in 1..Len(s) : (<<Head(s)>> \o Tail(s))[i]
            = IF i <= 1 THEN <<Head(s)>>[i] ELSE Tail(s)[i - 1]
  <2>1. <<Head(s)>> \in Seq(S) /\ Len(<<Head(s)>>) = 1
    BY <1>1, OneRecord
  <2>2. 1 + Len(Tail(s)) = Len(s)
    BY <1>1
  <2> QED
    BY <1>1, <2>1, <2>2, ConcatProperties
<1>3. ASSUME NEW i \in 1..Len(s)
      PROVE  s[i] = (<<Head(s)>> \o Tail(s))[i]
  <2>1. CASE i = 1
    BY <1>1, <1>2, <2>1, OneRecord
  <2>2. CASE i > 1
    <3>1. i - 1 \in 1..Len(Tail(s)) /\ (i - 1) + 1 = i /\ ~(i <= 1)
      BY <1>1, <2>2
    <3> QED
      BY <1>1, <1>2, <3>1
  <2> QED
    BY <1>1, <2>1, <2>2
<1> QED
  BY <1>1, <1>2, <1>3, SeqEqual

LEMMA CountAppend ==
  ASSUME NEW s \in Seq(Records), NEW r \in Records, NEW e
  PROVE  Count(Append(s, r), e) = Count(s, e) + IF r.event = e THEN 1 ELSE 0
<1> DEFINE t == <<r>>
<1>1. t \in Seq(Records) /\ Append(s, r) = s \o t
  BY OneRecord, AppendIsConcat
<1>2. Count(t, e) = IF r.event = e THEN 1 ELSE 0
  BY CountSmall
<1> HIDE DEF t
<1>3. Count(s \o t, e) = Count(s, e) + Count(t, e)
  BY <1>1, CountConcat
<1> QED
  BY <1>1, <1>2, <1>3

LEMMA CountHead ==
  ASSUME NEW s \in Seq(Records), s # <<>>, NEW e
  PROVE  /\ Head(s) \in Records /\ Tail(s) \in Seq(Records)
         /\ Count(s, e)
               = Count(Tail(s), e) + IF Head(s).event = e THEN 1 ELSE 0
<1> DEFINE h == <<Head(s)>>
           t == Tail(s)
<1>1. /\ Head(s) \in Records /\ t \in Seq(Records)
      /\ h \in Seq(Records) /\ s = h \o t
  BY OneRecord, HeadThenTail
<1>2. Count(h, e) = IF Head(s).event = e THEN 1 ELSE 0
  BY <1>1, CountSmall
<1>3. Count(t, e) \in Nat
  BY <1>1, CountType
<1> HIDE DEF h, t
<1>4. Count(h \o t, e) = Count(h, e) + Count(t, e)
  BY <1>1, CountConcat
<1>5. Count(s, e) = Count(t, e) + IF Head(s).event = e THEN 1 ELSE 0
  BY <1>1, <1>2, <1>3, <1>4
<1> QED
  BY <1>1, <1>5 DEF t

-----------------------------------------------------------------------------
(* The inductive invariant.                                                *)

(* The server works its way through the list of a request.                 *)
RequestsInv ==
    \A p \in Posts :
        /\ request[p].pc \in {"none", "sent"} => request[p].next = 0
        /\ request[p].next # 0 =>
              First(p[1]) <= request[p].next /\ request[p].next <= Last(p[1]) + 1
        /\ request[p].pc = "handling" => request[p].next # 0
        /\ request[p].pc = "accepted" => request[p].next = Last(p[1]) + 1

(* The client posts one batch after the other, each at most twice, and     *)
(* leaves a batch behind only when one of its requests was accepted.       *)
Unposted(p) ==
    \/ p[1] > client.batch
    \/ p[1] = client.batch /\ p[2] > client.attempt
    \/ p = Current /\ client.pc = "posting"
Repeated ==
    {b \in 1..NumBatches : \/ request[<<b, 2>>].pc # "none"
                           \/ b = client.batch /\ client.attempt = 2}

ClientInv ==
    /\ client.pc \in {"waiting", "failed"} =>
          client.batch <= NumBatches /\ request[Current].pc # "none"
    /\ client.pc = "done" => client.batch = NumBatches + 1
    /\ client.batch > NumBatches => client.attempt = 1
    /\ \A p \in Posts : Unposted(p) => request[p].pc = "none"
    /\ \A b \in 1..(client.batch - 1) :
          \E a \in Attempts : request[<<b, a>>].next = Last(b) + 1
    /\ client.sent = Last(client.batch - 1)
    /\ client.batches = client.batch - 1
    /\ client.retried = Cardinality(Repeated)

(* The producer has one record of an event for each of its requests that   *)
(* has come to it, and a record tells which one.                           *)
Handed(p, e) == IF request[p].next > e THEN 1 ELSE 0
Copied(e) == Count(topic, e) + Count(buffer, e) + Count(dropped, e)

CopiesInv ==
    \A b \in 1..NumBatches : \A e \in First(b)..Last(b) :
        Copied(e) = Handed(<<b, 1>>, e) + Handed(<<b, 2>>, e)

Came ==
    {r \in Records :
        \E p \in Posts : /\ r = Record(r.event, p)
                         /\ r.event \in First(p[1])..Last(p[1])
                         /\ request[p].next > r.event}
OriginsInv == topic \in Seq(Came) /\ buffer \in Seq(Came) /\ rows \in Seq(Came)

(* No record has a second row.                                             *)
RowsInv ==
    /\ \A i, j \in DOMAIN rows : rows[i] = rows[j] => i = j
    /\ \A i \in DOMAIN rows : rows[i].event \in Contract

IngestInv == IngestTypeOK /\ RequestsInv /\ ClientInv /\ CopiesInv
IInv == /\ TypeOK /\ RequestsInv /\ ClientInv /\ CopiesInv
        /\ OriginsInv /\ RowsInv /\ FirstCopiesInOrder

-----------------------------------------------------------------------------
(* Types that the steps below keep using.                                  *)
PostTyped(p) ==
    /\ p[1] \in 1..NumBatches /\ p[2] \in {1, 2} /\ p = <<p[1], p[2]>>
    /\ request[p].pc \in {"none", "sent", "handling", "accepted", "error"}
    /\ request[p].next \in 0..(NumEvents + 1)
    /\ First(p[1]) \in Nat /\ Last(p[1]) \in Nat
    /\ 1 <= First(p[1]) /\ First(p[1]) <= Last(p[1])
    /\ Last(p[1]) <= NumEvents

LEMMA PostTypes ==
  ASSUME IngestTypeOK, NEW p \in Posts
  PROVE  PostTyped(p)
<1>1. p[1] \in 1..NumBatches /\ p[2] \in {1, 2} /\ p = <<p[1], p[2]>>
  BY DEF Posts, Attempts
<1>2. /\ First(p[1]) \in Nat /\ Last(p[1]) \in Nat
      /\ First(p[1]) = Last(p[1] - 1) + 1
      /\ First(p[1]) <= Last(p[1]) /\ Last(p[1]) <= NumEvents
  BY <1>1, BatchSizes
<1>3. 1 <= First(p[1])
  <2>1. (p[1] - 1) * BatchSize \in Nat
    BY <1>1, BatchSizes
  <2> QED
    BY <2>1 DEF First
<1> QED
  BY <1>1, <1>2, <1>3 DEF IngestTypeOK, PostTyped

LEMMA PairsArePosts ==
  ASSUME NEW b \in 1..NumBatches, NEW a \in {1, 2}
  PROVE  <<b, a>> \in Posts
BY DEF Posts, Attempts

LEMMA ClientTypes ==
  ASSUME IngestTypeOK
  PROVE  /\ client = [pc |-> client.pc, batch |-> client.batch,
                      attempt |-> client.attempt, sent |-> client.sent,
                      batches |-> client.batches, retried |-> client.retried]
         /\ client.pc \in {"posting", "waiting", "done", "failed"}
         /\ client.batch \in 1..(NumBatches + 1) /\ client.attempt \in {1, 2}
         /\ client.sent \in 0..NumEvents /\ client.batches \in 0..NumBatches
         /\ client.retried \in 0..NumBatches /\ NumBatches \in Nat
         /\ client.batch <= NumBatches => Current \in Posts
<1>1. NumBatches \in Nat
  BY BatchSizes
<1> QED
  BY <1>1 DEF IngestTypeOK, Attempts, Posts, Current

(* Batches that were repeated are finitely many.                           *)
LEMMA RepeatedFinite ==
  /\ IsFiniteSet(Repeated) /\ Cardinality(Repeated) \in 0..NumBatches
<1>1. /\ IsFiniteSet(1..NumBatches) /\ Cardinality(1..NumBatches) = NumBatches
      /\ NumBatches \in Nat
  BY BatchSizes, FS_Interval
<1>2. Repeated \in SUBSET (1..NumBatches)
  BY DEF Repeated
<1>3. IsFiniteSet(Repeated) /\ Cardinality(Repeated) <= NumBatches
  BY <1>1, <1>2, FS_Subset
<1> QED
  BY <1>1, <1>3, FS_CardinalityType

(* Nothing that the server does to its requests concerns the client, who   *)
(* only sees whether they were posted, accepted or failed.                 *)
LEMMA ServerKeepsClient ==
  ASSUME IngestTypeOK, ClientInv, client' = client,
         \A q \in Posts :
            /\ request'[q].pc = "none" <=> request[q].pc = "none"
            /\ request[q].next = Last(q[1]) + 1
               => request'[q].next = request[q].next
  PROVE  ClientInv'
<1>1. Repeated' = Repeated
  BY PairsArePosts DEF Repeated
<1>2. \A p \in Posts : Unposted(p)' = Unposted(p)
  BY DEF Unposted, Current
<1>3. Current' = Current /\ (client.batch <= NumBatches => Current \in Posts)
  BY ClientTypes DEF Current
<1>4. ASSUME NEW b \in 1..(client.batch - 1)
      PROVE  \E a \in Attempts : request'[<<b, a>>].next = Last(b) + 1
  <2>1. PICK a \in Attempts : request[<<b, a>>].next = Last(b) + 1
    BY DEF ClientInv
  <2>2. b \in 1..NumBatches /\ a \in {1, 2}
    BY ClientTypes DEF Attempts
  <2>3. <<b, a>> \in Posts
    BY <2>2, PairsArePosts
  <2>4. <<b, a>>[1] = b
    OBVIOUS
  <2> QED
    BY <2>1, <2>3, <2>4
<1>5. \A p \in Posts : Unposted(p)' => request'[p].pc = "none"
  BY <1>2 DEF ClientInv
<1> QED
  BY <1>1, <1>3, <1>4, <1>5 DEF ClientInv

-----------------------------------------------------------------------------
(* The client.                                                             *)

LEMMA PostKeeps ==
  ASSUME IngestTypeOK, RequestsInv, ClientInv, Post
  PROVE  /\ IngestTypeOK' /\ RequestsInv' /\ ClientInv'
         /\ \A p \in Posts : request'[p].next = request[p].next
<1>1. /\ client.pc = "posting" /\ client.batch <= NumBatches
      /\ client' = [client EXCEPT !.pc = "waiting"]
      /\ request' = [request EXCEPT ![Current].pc = "sent"]
      /\ UNCHANGED <<buffer, topic, dropped, faults>>
  BY DEF Post
<1>2. Current \in Posts /\ Unposted(Current)
  BY <1>1, ClientTypes DEF Unposted
<1>3. request[Current].pc = "none" /\ request[Current].next = 0
  BY <1>2 DEF ClientInv, RequestsInv
<1>4. /\ \A p \in Posts \ {Current} : request'[p] = request[p]
      /\ request'[Current].pc = "sent" /\ request'[Current].next = 0
  BY <1>1, <1>2, <1>3 DEF IngestTypeOK
<1>5. IngestTypeOK'
  BY <1>1, <1>2 DEF IngestTypeOK
<1>6. RequestsInv'
  BY <1>4 DEF RequestsInv
<1>7. /\ client'.pc = "waiting" /\ client'.batch = client.batch
      /\ client'.attempt = client.attempt /\ client'.sent = client.sent
      /\ client'.batches = client.batches /\ client'.retried = client.retried
      /\ Current' = Current
  BY <1>1, ClientTypes DEF Current
<1>8. ASSUME NEW p \in Posts, Unposted(p)'
      PROVE  request'[p].pc = "none"
  <2>1. p # Current /\ Unposted(p)
    <3>1. Current[1] = client.batch /\ Current[2] = client.attempt
      BY DEF Current
    <3> QED
      BY <1>7, <1>8, <3>1, ClientTypes DEF Unposted
  <2> QED
    BY <1>4, <2>1 DEF ClientInv
<1>9. Repeated' = Repeated
  <2>1. ASSUME NEW b \in 1..NumBatches
        PROVE  (request'[<<b, 2>>].pc # "none" \/ (b = client.batch /\ client.attempt = 2))
               <=> (request[<<b, 2>>].pc # "none" \/ (b = client.batch /\ client.attempt = 2))
    <3>1. CASE <<b, 2>> = Current
      BY <3>1 DEF Current
    <3>2. CASE <<b, 2>> # Current
      BY <1>4, <3>2, PairsArePosts
    <3> QED
      BY <3>1, <3>2
  <2> QED
    BY <1>7, <2>1 DEF Repeated
<1>10. ASSUME NEW b \in 1..(client.batch - 1)
       PROVE  \E a \in Attempts : request'[<<b, a>>].next = Last(b) + 1
  <2>1. PICK a \in Attempts : request[<<b, a>>].next = Last(b) + 1
    BY DEF ClientInv
  <2>2. b \in 1..NumBatches /\ a \in {1, 2} /\ b # client.batch
    BY <1>1, ClientTypes DEF Attempts
  <2>3. <<b, a>> \in Posts /\ <<b, a>> # Current
    BY <2>2, PairsArePosts DEF Current
  <2> QED
    BY <1>4, <2>1, <2>3
<1>11. ClientInv'
  BY <1>1, <1>4, <1>7, <1>8, <1>9, <1>10, ClientTypes DEF ClientInv
<1> QED
  BY <1>3, <1>4, <1>5, <1>6, <1>11

LEMMA Got202Keeps ==
  ASSUME IngestTypeOK, RequestsInv, ClientInv, Got202
  PROVE  IngestTypeOK' /\ ClientInv'
<1> DEFINE b == client.batch
<1>1. /\ client.pc = "waiting" /\ request[Current].pc = "accepted"
      /\ client' = [client EXCEPT
            !.pc = "posting", !.batch = @ + 1, !.attempt = 1,
            !.sent = @ + Last(b) - First(b) + 1, !.batches = @ + 1]
      /\ UNCHANGED <<request, buffer, topic, dropped, faults>>
  BY DEF Got202, serverVars
<1>2. b \in 1..NumBatches /\ Current \in Posts /\ NumBatches \in Nat
  BY <1>1, ClientTypes DEF ClientInv
<1>3. /\ client'.pc = "posting" /\ client'.batch = b + 1
      /\ client'.attempt = 1 /\ client'.batches = b
      /\ client'.sent = Last(b) /\ client'.retried = client.retried
      /\ Last(b) \in 0..NumEvents
  <2>1. /\ client.sent = Last(b - 1) /\ client.batches = b - 1
        /\ First(b) = Last(b - 1) + 1 /\ First(b) \in Nat /\ Last(b) \in Nat
        /\ Last(b) <= NumEvents
    BY <1>2, BatchSizes DEF ClientInv
  <2>2. client'.sent = client.sent + Last(b) - First(b) + 1
    BY <1>1, ClientTypes
  <2>3. client.sent \in Nat
    BY ClientTypes
  <2>4. /\ client'.pc = "posting" /\ client'.batch = b + 1
        /\ client'.attempt = 1 /\ client'.batches = client.batches + 1
        /\ client'.retried = client.retried
    BY <1>1, ClientTypes
  <2> HIDE DEF b
  <2>5. client'.sent = Last(b) /\ Last(b) \in 0..NumEvents
    BY <2>1, <2>2, <2>3
  <2>6. client'.batches = b
    BY <1>2, <2>1, <2>4
  <2> QED
    BY <2>4, <2>5, <2>6
<1>4. IngestTypeOK'
  <2>1. client' = [pc |-> client'.pc, batch |-> client'.batch,
                   attempt |-> client'.attempt, sent |-> client'.sent,
                   batches |-> client'.batches, retried |-> client'.retried]
    <3> HIDE DEF b
    <3> QED
      BY <1>1, ClientTypes
  <2>2. /\ client'.batch \in 1..(NumBatches + 1)
        /\ client'.batches \in 0..NumBatches
        /\ client'.retried \in 0..NumBatches
    BY <1>2, <1>3, ClientTypes
  <2>3. client' \in [pc : {"posting", "waiting", "done", "failed"},
                     batch : 1..(NumBatches + 1), attempt : Attempts,
                     sent : 0..NumEvents, batches : 0..NumBatches,
                     retried : 0..NumBatches]
    BY <1>3, <2>1, <2>2 DEF Attempts
  <2> QED
    BY <1>1, <2>3 DEF IngestTypeOK
<1>5. \A p \in Posts : Unposted(p)' => Unposted(p)
  <2> SUFFICES ASSUME NEW p \in Posts, Unposted(p)'
               PROVE  p[1] > b
    BY DEF Unposted
  <2>1. Current' = <<b + 1, 1>>
    BY <1>3 DEF Current
  <2>2. p[1] > b + 1 \/ p[1] = b + 1
    BY <1>3, <2>1 DEF Unposted
  <2>3. p[1] \in Int /\ b \in Int
    BY <1>2, PostTypes DEF PostTyped
  <2> HIDE DEF b
  <2> QED
    BY <2>2, <2>3
<1>6. Repeated' = Repeated
  <2>1. b = client.batch /\ client.attempt = 2 => Current = <<b, 2>>
    BY DEF Current
  <2> QED
    BY <1>1, <1>3, <2>1 DEF Repeated
<1>7. ASSUME NEW c \in 1..b
      PROVE  \E a \in Attempts : request[<<c, a>>].next = Last(c) + 1
  <2>1. CASE c = b
    <3>1. request[Current].next = Last(Current[1]) + 1
      BY <1>1, <1>2 DEF RequestsInv
    <3>2. Current = <<b, client.attempt>> /\ Current[1] = b
          /\ client.attempt \in Attempts
      BY ClientTypes DEF Current, Attempts
    <3> QED
      BY <2>1, <3>1, <3>2
  <2>2. CASE c # b
    <3>1. c \in 1..(b - 1)
      BY <1>2, <2>2
    <3> QED
      BY <3>1 DEF ClientInv
  <2> QED
    BY <2>1, <2>2
<1>8. /\ client'.batch - 1 = b
      /\ client'.pc \notin {"waiting", "failed", "done"}
      /\ \A p \in Posts : Unposted(p)' => request'[p].pc = "none"
  BY <1>1, <1>2, <1>3, <1>5 DEF ClientInv
<1> HIDE DEF b
<1>9. ClientInv'
  BY ZenonT(30), <1>1, <1>3, <1>6, <1>7, <1>8 DEF ClientInv
<1> QED
  BY <1>4, <1>9

LEMMA GotErrorKeeps ==
  ASSUME IngestTypeOK, ClientInv, client.pc = "waiting", GotError,
         UNCHANGED serverVars, faults' \in 0..MaxFaults
  PROVE  IngestTypeOK' /\ ClientInv'
<1> DEFINE b == client.batch
<1>1. /\ b \in 1..NumBatches /\ Current \in Posts /\ NumBatches \in Nat
      /\ request[Current].pc # "none"
      /\ UNCHANGED <<request, buffer, topic, dropped>>
  BY ClientTypes DEF ClientInv, serverVars
<1>2. CASE /\ client.attempt = 1
           /\ client' = [client EXCEPT !.pc = "posting", !.attempt = 2,
                                       !.retried = @ + 1]
  <2>1. /\ client'.pc = "posting" /\ client'.batch = b
        /\ client'.attempt = 2 /\ client'.batches = client.batches
        /\ client'.sent = client.sent /\ client'.retried = client.retried + 1
        /\ client' = [pc |-> client'.pc, batch |-> client'.batch,
                      attempt |-> client'.attempt, sent |-> client'.sent,
                      batches |-> client'.batches, retried |-> client'.retried]
    BY <1>2, ClientTypes
  <2>2. Current' = <<b, 2>>
    BY <2>1 DEF Current
  <2>3. <<b, 2>> \in Posts /\ Unposted(<<b, 2>>)
    <3>1. <<b, 2>> \in Posts
      BY <1>1, PairsArePosts
    <3>2. <<b, 2>>[1] = client.batch /\ <<b, 2>>[2] > client.attempt
      BY <1>2
    <3> QED
      BY <3>1, <3>2 DEF Unposted
  <2>4. request[<<b, 2>>].pc = "none"
    BY <2>3 DEF ClientInv
  <2>5. Repeated' = Repeated \cup {b} /\ b \notin Repeated
    <3>1. b \notin Repeated
      BY <1>2, <2>4 DEF Repeated
    <3>2. Repeated' = {c \in 1..NumBatches :
                          request[<<c, 2>>].pc # "none" \/ c = b}
      BY <1>1, <2>1 DEF Repeated
    <3>3. Repeated = {c \in 1..NumBatches : request[<<c, 2>>].pc # "none"}
      BY <1>2 DEF Repeated
    <3> QED
      BY <1>1, <3>1, <3>2, <3>3
  <2>6. client'.retried = Cardinality(Repeated)'
    <3>1. Cardinality(Repeated \cup {b}) = Cardinality(Repeated) + 1
      BY <2>5, RepeatedFinite, FS_AddElement
    <3> QED
      BY <2>1, <2>5, <3>1 DEF ClientInv
  <2>7. client'.retried \in 0..NumBatches
    <3>1. /\ IsFiniteSet(1..NumBatches)
          /\ Cardinality(1..NumBatches) = NumBatches
      BY BatchSizes, FS_Interval
    <3>2. Repeated' \in SUBSET (1..NumBatches)
      BY <1>1, <2>5 DEF Repeated
    <3>3. IsFiniteSet(Repeated') /\ Cardinality(Repeated') <= NumBatches
      BY <3>1, <3>2, FS_Subset
    <3>4. Cardinality(Repeated') \in Nat
      BY <3>3, FS_CardinalityType
    <3> QED
      BY <1>1, <2>6, <3>3, <3>4
  <2>8. IngestTypeOK'
    <3>1. client' \in [pc : {"posting", "waiting", "done", "failed"},
                       batch : 1..(NumBatches + 1), attempt : Attempts,
                       sent : 0..NumEvents, batches : 0..NumBatches,
                       retried : 0..NumBatches]
      BY <2>1, <2>7, ClientTypes DEF Attempts
    <3> QED
      BY <1>1, <3>1 DEF IngestTypeOK
  <2>9. ASSUME NEW p \in Posts, Unposted(p)'
        PROVE  request'[p].pc = "none"
    <3>1. p[2] \in {1, 2}
      BY PostTypes DEF PostTyped
    <3>2. p[1] > b \/ p = <<b, 2>>
      BY <2>1, <2>2, <2>9, <3>1 DEF Unposted
    <3>3. p[1] > b => Unposted(p)
      BY DEF Unposted
    <3> QED
      BY <1>1, <2>4, <3>2, <3>3 DEF ClientInv
  <2>10. ClientInv'
    BY <1>1, <2>1, <2>6, <2>9, ClientTypes DEF ClientInv
  <2> QED
    BY <2>8, <2>10
<1>3. CASE client.attempt = 2 /\ client' = [client EXCEPT !.pc = "failed"]
  <2>1. /\ client'.pc = "failed" /\ client'.batch = b
        /\ client'.attempt = client.attempt /\ client'.batches = client.batches
        /\ client'.sent = client.sent /\ client'.retried = client.retried
        /\ Current' = Current
    BY <1>3, ClientTypes DEF Current
  <2>2. IngestTypeOK'
    BY <1>1, <1>3 DEF IngestTypeOK
  <2>3. Repeated' = Repeated
    BY <1>1, <2>1 DEF Repeated
  <2>4. \A p \in Posts : Unposted(p)' => Unposted(p)
    BY <2>1 DEF Unposted
  <2>5. ClientInv'
    BY <1>1, <2>1, <2>3, <2>4, ClientTypes DEF ClientInv
  <2> QED
    BY <2>2, <2>5
<1> QED
  BY <1>2, <1>3 DEF GotError

LEMMA ReturnKeeps ==
  ASSUME IngestTypeOK, ClientInv, Return
  PROVE  IngestTypeOK' /\ ClientInv'
<1>1. /\ client.pc = "posting" /\ client.batch > NumBatches
      /\ client' = [client EXCEPT !.pc = "done"]
      /\ UNCHANGED <<request, buffer, topic, dropped, faults>>
  BY DEF Return, serverVars
<1>2. /\ client'.pc = "done" /\ client'.batch = client.batch
      /\ client'.attempt = client.attempt /\ client'.batches = client.batches
      /\ client'.sent = client.sent /\ client'.retried = client.retried
      /\ Current' = Current
  BY <1>1, ClientTypes DEF Current
<1>3. client.batch = NumBatches + 1
  BY <1>1, ClientTypes
<1>4. IngestTypeOK'
  BY <1>1 DEF IngestTypeOK
<1>5. Repeated' = Repeated /\ \A p \in Posts : Unposted(p)' => Unposted(p)
  BY <1>1, <1>2 DEF Repeated, Unposted
<1> QED
  BY <1>1, <1>2, <1>3, <1>4, <1>5 DEF ClientInv

(* The client's steps hand nothing to the producer.                        *)
LEMMA ClientStepKeeps ==
  ASSUME IngestTypeOK, RequestsInv, ClientInv, ClientStep
  PROVE  /\ IngestTypeOK' /\ RequestsInv' /\ ClientInv'
         /\ \A p \in Posts : request'[p].next = request[p].next
         /\ UNCHANGED <<buffer, topic, dropped>>
<1>1. CASE Post
  BY <1>1, PostKeeps DEF Post
<1>2. CASE Got202
  BY <1>2, Got202Keeps DEF Got202, serverVars, RequestsInv
<1>3. CASE ErrorAnswer \/ TimeOut
  <2>1. /\ client.pc = "waiting" /\ GotError /\ UNCHANGED serverVars
        /\ faults' = faults \/ (faults < MaxFaults /\ faults' = faults + 1)
    BY <1>3 DEF ErrorAnswer, TimeOut, Fault
  <2>2. faults' \in 0..MaxFaults
    BY <2>1 DEF IngestTypeOK
  <2>3. IngestTypeOK' /\ ClientInv'
    BY <2>1, <2>2, GotErrorKeeps
  <2> QED
    BY <2>1, <2>3 DEF serverVars, RequestsInv
<1>4. CASE Return
  BY <1>4, ReturnKeeps DEF Return, serverVars, RequestsInv
<1> QED
  BY <1>1, <1>2, <1>3, <1>4 DEF ClientStep

-----------------------------------------------------------------------------
(* The server.                                                             *)

LEMMA RequestStepKeeps ==
  ASSUME IngestTypeOK, RequestsInv, ClientInv, NEW p \in Posts,
         \/ Receive(p) \/ RequestLost(p) \/ SendThrows(p) \/ Accept(p)
  PROVE  /\ IngestTypeOK' /\ RequestsInv' /\ ClientInv'
         /\ \A q \in Posts \ {p} : request'[q] = request[q]
         /\ \/ request'[p].next = request[p].next
            \/ request[p].next = 0 /\ request'[p].next = First(p[1])
         /\ UNCHANGED <<buffer, topic, dropped>>
<1>0. PostTyped(p)
  BY PostTypes
<1>1. /\ UNCHANGED <<client, buffer, topic, dropped>>
      /\ faults' = faults \/ (faults < MaxFaults /\ faults' = faults + 1)
      /\ \A q \in Posts \ {p} : request'[q] = request[q]
      /\ request[p].pc \in {"sent", "handling"}
  BY DEF Receive, RequestLost, SendThrows, Accept, Fault, IngestTypeOK
<1>2. \/ /\ request[p].pc = "sent"
         /\ request' = [request EXCEPT ![p] = [pc |-> "handling",
                                               next |-> First(p[1])]]
      \/ request' = [request EXCEPT ![p].pc = "error"]
      \/ /\ request[p].pc = "handling" /\ request[p].next > Last(p[1])
         /\ request' = [request EXCEPT ![p].pc = "accepted"]
  BY DEF Receive, RequestLost, SendThrows, Accept
<1>3. \/ /\ request[p].next = 0
         /\ request'[p] = [pc |-> "handling", next |-> First(p[1])]
      \/ request'[p].pc = "error" /\ request'[p].next = request[p].next
      \/ /\ request'[p].pc = "accepted" /\ request'[p].next = request[p].next
         /\ request[p].next = Last(p[1]) + 1
  <2>1. request[p].pc = "sent" => request[p].next = 0
    BY DEF RequestsInv
  <2>2. /\ request[p].pc = "handling" => request[p].next # 0
        /\ request[p].next # 0 => request[p].next <= Last(p[1]) + 1
    BY DEF RequestsInv
  <2>3. request[p].pc = "handling" /\ request[p].next > Last(p[1])
           => request[p].next = Last(p[1]) + 1
    BY <1>0, <2>2 DEF PostTyped
  <2> QED
    BY <1>2, <2>1, <2>3 DEF IngestTypeOK
<1>4. IngestTypeOK'
  <2>1. First(p[1]) \in 0..(NumEvents + 1)
    BY <1>0 DEF PostTyped
  <2> DEFINE Requests == [pc : {"none", "sent", "handling", "accepted", "error"},
                          next : 0..(NumEvents + 1)]
  <2>2. request' \in [Posts -> Requests]
    <3>1. request[p] \in Requests /\ request \in [Posts -> Requests]
      BY DEF IngestTypeOK
    <3>2. /\ [pc |-> "handling", next |-> First(p[1])] \in Requests
          /\ [request[p] EXCEPT !.pc = "error"] \in Requests
          /\ [request[p] EXCEPT !.pc = "accepted"] \in Requests
      BY <2>1, <3>1
    <3>3. \E r \in Requests : request' = [request EXCEPT ![p] = r]
      <4> HIDE DEF Requests
      <4> QED
        BY <1>2, <3>2
    <3> HIDE DEF Requests
    <3> QED
      BY <3>1, <3>3
  <2>3. faults' \in 0..MaxFaults
    BY <1>1 DEF IngestTypeOK
  <2> QED
    BY <1>1, <2>2, <2>3 DEF IngestTypeOK
<1>5. RequestsInv'
  <2>1. First(p[1]) # 0 /\ First(p[1]) <= Last(p[1]) + 1
        /\ First(p[1]) <= First(p[1])
    BY <1>0 DEF PostTyped
  <2>2. ASSUME NEW q \in Posts
        PROVE  /\ request'[q].pc \in {"none", "sent"} => request'[q].next = 0
               /\ request'[q].next # 0 =>
                     /\ First(q[1]) <= request'[q].next
                     /\ request'[q].next <= Last(q[1]) + 1
               /\ request'[q].pc = "handling" => request'[q].next # 0
               /\ request'[q].pc = "accepted" => request'[q].next = Last(q[1]) + 1
    <3>1. CASE q # p
      BY <1>1, <3>1 DEF RequestsInv
    <3>2. CASE q = p /\ request'[p] = [pc |-> "handling", next |-> First(p[1])]
      BY <2>1, <3>2
    <3>3. CASE q = p /\ request'[p].pc = "error"
               /\ request'[p].next = request[p].next
      BY <3>3 DEF RequestsInv
    <3>4. CASE /\ q = p /\ request'[p].pc = "accepted"
               /\ request'[p].next = request[p].next
               /\ request[p].next = Last(p[1]) + 1
      BY <3>4 DEF RequestsInv
    <3> QED
      BY <1>3, <3>1, <3>2, <3>3, <3>4
  <2> QED
    BY <2>2 DEF RequestsInv
<1>6. ClientInv'
  <2>1. ASSUME NEW q \in Posts
        PROVE  /\ request'[q].pc = "none" <=> request[q].pc = "none"
               /\ request[q].next = Last(q[1]) + 1
                  => request'[q].next = request[q].next
    <3>1. Last(p[1]) + 1 # 0
      BY <1>0 DEF PostTyped
    <3> QED
      BY <1>1, <1>3, <3>1
  <2> QED
    BY <1>1, <2>1, ServerKeepsClient
<1> QED
  BY <1>1, <1>3, <1>4, <1>5, <1>6

LEMMA SendKeeps ==
  ASSUME IngestTypeOK, RequestsInv, ClientInv, NEW p \in Posts, Send(p)
  PROVE  /\ IngestTypeOK' /\ RequestsInv' /\ ClientInv'
         /\ \A q \in Posts \ {p} : request'[q] = request[q]
         /\ request[p].next \in First(p[1])..Last(p[1])
         /\ request'[p].next = request[p].next + 1
         /\ Record(request[p].next, p) \in Records
<1> DEFINE e == request[p].next
<1>0. PostTyped(p)
  BY PostTypes
<1>1. /\ request[p].pc = "handling" /\ e <= Last(p[1])
      /\ request' = [request EXCEPT ![p].next = @ + 1]
      /\ buffer' = Append(buffer, Record(e, p))
      /\ UNCHANGED <<client, topic, dropped, faults>>
  BY DEF Send
<1>2. e \in First(p[1])..Last(p[1]) /\ e \in Events
  <2>1. e # 0 /\ (e # 0 => First(p[1]) <= e)
    BY <1>1 DEF RequestsInv
  <2>2. e \in Int
    BY <1>0 DEF PostTyped
  <2> QED
    BY <1>0, <1>1, <2>1, <2>2 DEF Events, PostTyped
<1>3. /\ request'[p].pc = "handling" /\ request'[p].next = e + 1
      /\ \A q \in Posts \ {p} : request'[q] = request[q]
  BY <1>1 DEF IngestTypeOK
<1>4. Record(e, p) \in Records
  BY <1>2 DEF Records
<1>5. IngestTypeOK'
  <2>1. e + 1 \in 0..(NumEvents + 1)
    BY <1>2 DEF Events
  <2>2. request' \in [Posts ->
            [pc : {"none", "sent", "handling", "accepted", "error"},
             next : 0..(NumEvents + 1)]]
    BY <1>1, <2>1 DEF IngestTypeOK
  <2>3. buffer' \in Seq(Records)
    BY <1>1, <1>4 DEF IngestTypeOK
  <2> QED
    BY <1>1, <2>2, <2>3 DEF IngestTypeOK
<1>6. RequestsInv'
  <2>1. /\ First(p[1]) <= e + 1 /\ e + 1 <= Last(p[1]) + 1 /\ e + 1 # 0
    BY <1>0, <1>2 DEF PostTyped
  <2> QED
    BY <1>3, <2>1 DEF RequestsInv
<1>7. ClientInv'
  <2>1. ASSUME NEW q \in Posts
        PROVE  /\ request'[q].pc = "none" <=> request[q].pc = "none"
               /\ request[q].next = Last(q[1]) + 1
                  => request'[q].next = request[q].next
    <3>1. request[p].next # Last(p[1]) + 1
      BY <1>0, <1>2 DEF PostTyped
    <3> QED
      BY <1>1, <1>3, <3>1
  <2> QED
    BY <1>1, <2>1, ServerKeepsClient
<1> QED
  BY <1>2, <1>3, <1>4, <1>5, <1>6, <1>7

(* The producer delivers or loses what it has; a crash of the process ends *)
(* its requests where they are.                                            *)
LEMMA ProducerKeeps ==
  ASSUME IngestTypeOK, RequestsInv, ClientInv,
         Deliver \/ Expire \/ ServingCrash
  PROVE  /\ IngestTypeOK' /\ RequestsInv' /\ ClientInv'
         /\ \A q \in Posts : request'[q].next = request[q].next
<1>1. CASE Deliver \/ Expire
  <2>1. /\ UNCHANGED <<client, request>> /\ buffer # <<>>
        /\ buffer' = Tail(buffer)
        /\ topic' = topic \/ topic' = Append(topic, Head(buffer))
        /\ dropped' = dropped \/ dropped' = Append(dropped, Head(buffer))
        /\ faults' = faults \/ (faults < MaxFaults /\ faults' = faults + 1)
    BY <1>1 DEF Deliver, Expire, Fault
  <2>2. Head(buffer) \in Records /\ Tail(buffer) \in Seq(Records)
    BY <2>1, HeadThenTail DEF IngestTypeOK
  <2>3. {buffer', topic', dropped'} \subseteq Seq(Records)
    <3>1. topic \in Seq(Records) /\ dropped \in Seq(Records)
      BY DEF IngestTypeOK
    <3>2. /\ Append(topic, Head(buffer)) \in Seq(Records)
          /\ Append(dropped, Head(buffer)) \in Seq(Records)
      BY <2>2, <3>1
    <3> QED
      BY <2>1, <2>2, <3>1, <3>2
  <2>4. faults' \in 0..MaxFaults
    BY <2>1 DEF IngestTypeOK
  <2>5. IngestTypeOK'
    BY <2>1, <2>3, <2>4 DEF IngestTypeOK
  <2>6. RequestsInv' /\ ClientInv'
    BY <2>1, ServerKeepsClient DEF RequestsInv
  <2> QED
    BY <2>1, <2>5, <2>6
<1>2. CASE ServingCrash
  <2>1. /\ dropped' = dropped \o buffer /\ buffer' = <<>>
        /\ request' = [p \in Posts |->
              IF request[p].pc \in {"sent", "handling"}
              THEN [request[p] EXCEPT !.pc = "error"] ELSE request[p]]
        /\ UNCHANGED <<client, topic>>
        /\ faults < MaxFaults /\ faults' = faults + 1
    BY <1>2 DEF ServingCrash, Fault
  <2>2. \A q \in Posts : /\ request'[q].next = request[q].next
                         /\ \/ request'[q].pc = request[q].pc
                            \/ /\ request'[q].pc = "error"
                               /\ request[q].pc \in {"sent", "handling"}
    BY <2>1 DEF IngestTypeOK
  <2>3. IngestTypeOK'
    <3>1. faults' \in 0..MaxFaults
      BY <2>1 DEF IngestTypeOK
    <3>2. {buffer', topic', dropped'} \subseteq Seq(Records)
      BY <2>1 DEF IngestTypeOK
    <3>3. request' \in [Posts ->
              [pc : {"none", "sent", "handling", "accepted", "error"},
               next : 0..(NumEvents + 1)]]
      BY <2>1 DEF IngestTypeOK
    <3> QED
      BY <2>1, <3>1, <3>2, <3>3 DEF IngestTypeOK
  <2>4. RequestsInv'
    BY <2>2 DEF RequestsInv
  <2>5. ClientInv'
    BY <2>1, <2>2, ServerKeepsClient
  <2> QED
    BY <2>2, <2>3, <2>4, <2>5
<1> QED
  BY <1>1, <1>2

-----------------------------------------------------------------------------
(* What the producer was given.                                            *)

LEMMA SameBatch ==
  ASSUME NEW b \in 1..NumBatches, NEW c \in 1..NumBatches,
         NEW e \in First(b)..Last(b), e \in First(c)..Last(c)
  PROVE  b = c
<1>1. /\ First(b) \in Nat /\ Last(b) \in Nat
      /\ First(c) \in Nat /\ Last(c) \in Nat /\ NumBatches \in Nat
  BY BatchSizes
<1>2. CASE b < c
  BY <1>1, <1>2, BatchesInOrder
<1>3. CASE c < b
  BY <1>1, <1>3, BatchesInOrder
<1> QED
  BY <1>1, <1>2, <1>3

LEMMA CopiedType ==
  ASSUME IngestTypeOK, NEW e
  PROVE  /\ Count(topic, e) \in Nat /\ Count(buffer, e) \in Nat
         /\ Count(dropped, e) \in Nat /\ Copied(e) \in Nat
<1>1. topic \in Seq(Records) /\ buffer \in Seq(Records) /\ dropped \in Seq(Records)
  BY DEF IngestTypeOK
<1>2. Count(topic, e) \in Nat /\ Count(buffer, e) \in Nat /\ Count(dropped, e) \in Nat
  BY <1>1, CountType
<1> QED
  BY <1>2 DEF Copied

LEMMA CopiesAreCounted ==
  ASSUME IngestTypeOK, NEW e
  PROVE  /\ IsFiniteSet(Copies(e)) /\ Cardinality(Copies(e)) = Copied(e)
         /\ Copies(e) # {} <=> Copied(e) > 0
<1>1. /\ topic \in Seq(Records) /\ buffer \in Seq(Records)
      /\ dropped \in Seq(Records) /\ topic \o buffer \in Seq(Records)
      /\ Given \in Seq(Records)
  BY DEF IngestTypeOK, Given
<1>2. Count(topic \o buffer, e) = Count(topic, e) + Count(buffer, e)
  BY <1>1, CountConcat
<1> DEFINE both == topic \o buffer
<1>3. Count(both \o dropped, e) = Count(both, e) + Count(dropped, e)
  <2> HIDE DEF both
  <2> QED
    BY <1>1, CountConcat DEF both
<1>4. Count(Given, e) = Copied(e)
  BY <1>2, <1>3 DEF Given, Copied
<1>5. IsFiniteSet(Places(Given, e)) /\ Copies(e) = Places(Given, e)
  BY <1>1, CountType DEF Copies, Places
<1>6. Cardinality(Copies(e)) = Copied(e) /\ Copied(e) \in Nat
  BY <1>4, <1>5, CopiedType DEF Count
<1>7. Copies(e) = {} <=> Cardinality(Copies(e)) = 0
  BY <1>5, FS_EmptySet
<1> QED
  BY <1>5, <1>6, <1>7

LEMMA SentToStay ==
  ASSUME IngestTypeOK, CopiesInv, NEW p \in Posts,
         NEW e \in First(p[1])..Last(p[1]), request[p].next > e
  PROVE  Copied(e) > 0
<1>1. PostTyped(p)
  BY PostTypes
<1>2. Copied(e) = Handed(<<p[1], 1>>, e) + Handed(<<p[1], 2>>, e)
  BY <1>1 DEF CopiesInv, PostTyped
<1>3. Handed(p, e) = 1
  BY DEF Handed
<1>4. p = <<p[1], 1>> \/ p = <<p[1], 2>>
  BY <1>1 DEF PostTyped
<1>5. \A q : Handed(q, e) \in {0, 1}
  BY DEF Handed
<1> QED
  BY <1>2, <1>3, <1>4, <1>5

(* Whoever hands over an event finds the earlier ones handed over.         *)
LEMMA EarlierHandedOver ==
  ASSUME IngestTypeOK, RequestsInv, ClientInv, CopiesInv, NEW p \in Posts,
         request[p].next # 0, NEW e \in 1..(request[p].next - 1)
  PROVE  Copied(e) > 0
<1>1. PostTyped(p) /\ NumBatches \in Nat
  BY PostTypes, BatchSizes
<1>2. request[p].next <= Last(p[1]) + 1
  BY DEF RequestsInv
<1>3. e \in Events /\ e <= Last(p[1]) /\ e < request[p].next
  BY <1>1, <1>2 DEF Events, PostTyped
<1>4. CASE e >= First(p[1])
  BY <1>1, <1>3, <1>4, SentToStay DEF PostTyped
<1>5. CASE e < First(p[1])
  <2>1. PICK c \in 1..NumBatches : e \in First(c)..Last(c)
    BY <1>3, BatchesCover
  <2>2. First(c) \in Nat /\ Last(c) \in Nat
    BY BatchSizes
  <2>3. c < p[1]
    <3>1. c # p[1]
      BY <1>5, <2>1, <2>2
    <3>2. p[1] < c => Last(p[1]) < First(c)
      BY <1>1, BatchesInOrder DEF PostTyped
    <3> QED
      BY <1>1, <1>3, <2>1, <2>2, <3>1, <3>2 DEF PostTyped
  <2>4. p[1] <= client.batch
    <3>1. request[p].pc # "none"
      BY DEF RequestsInv
    <3>2. ~Unposted(p)
      BY <3>1 DEF ClientInv
    <3> QED
      BY <1>1, <3>2, ClientTypes DEF Unposted, PostTyped
  <2>5. c \in 1..(client.batch - 1)
    BY <1>1, <2>3, <2>4, ClientTypes DEF PostTyped
  <2>6. PICK a \in Attempts : request[<<c, a>>].next = Last(c) + 1
    BY <2>5 DEF ClientInv
  <2>7. <<c, a>> \in Posts /\ <<c, a>>[1] = c
    <3>1. a \in {1, 2}
      BY DEF Attempts
    <3> QED
      BY <3>1, PairsArePosts
  <2>8. request[<<c, a>>].next > e
    BY <2>1, <2>2, <2>6
  <2> QED
    BY <2>1, <2>7, <2>8, SentToStay
<1> QED
  BY <1>1, <1>3, <1>4, <1>5 DEF PostTyped

-----------------------------------------------------------------------------
(* Copies are conserved.                                                   *)

LEMMA CopiesKept ==
  ASSUME CopiesInv,
         \A q \in Posts : \A e \in First(q[1])..Last(q[1]) :
            (request'[q].next > e) <=> (request[q].next > e),
         \A b \in 1..NumBatches : \A e \in First(b)..Last(b) :
            Copied(e)' = Copied(e)
  PROVE  CopiesInv'
<1> SUFFICES ASSUME NEW b \in 1..NumBatches, NEW e \in First(b)..Last(b)
             PROVE  Copied(e)' = Handed(<<b, 1>>, e)' + Handed(<<b, 2>>, e)'
  BY DEF CopiesInv
<1>1. /\ <<b, 1>> \in Posts /\ <<b, 2>> \in Posts
      /\ <<b, 1>>[1] = b /\ <<b, 2>>[1] = b
  BY PairsArePosts
<1>2. /\ Handed(<<b, 1>>, e)' = Handed(<<b, 1>>, e)
      /\ Handed(<<b, 2>>, e)' = Handed(<<b, 2>>, e)
  BY <1>1 DEF Handed
<1> QED
  BY <1>2 DEF CopiesInv

LEMMA RequestsKeepCopies ==
  ASSUME IngestTypeOK, CopiesInv, NEW p \in Posts,
         \A q \in Posts \ {p} : request'[q] = request[q],
         \/ request'[p].next = request[p].next
         \/ request[p].next = 0 /\ request'[p].next = First(p[1]),
         UNCHANGED <<buffer, topic, dropped>>
  PROVE  CopiesInv'
<1>1. ASSUME NEW e \in First(p[1])..Last(p[1])
      PROVE  (request'[p].next > e) <=> (request[p].next > e)
  <2>1. PostTyped(p)
    BY PostTypes
  <2>2. CASE request[p].next = 0 /\ request'[p].next = First(p[1])
    BY <2>1, <2>2 DEF PostTyped
  <2> QED
    BY <2>2
<1>2. \A e : Copied(e)' = Copied(e)
  BY DEF Copied
<1> QED
  BY <1>1, <1>2, CopiesKept

LEMMA SendKeepsCopies ==
  ASSUME IngestTypeOK, RequestsInv, ClientInv, CopiesInv,
         NEW p \in Posts, Send(p)
  PROVE  CopiesInv'
<1> DEFINE n == request[p].next
           r == Record(n, p)
<1>1. /\ \A q \in Posts \ {p} : request'[q] = request[q]
      /\ n \in First(p[1])..Last(p[1]) /\ request'[p].next = n + 1
      /\ r \in Records /\ r.event = n
  BY SendKeeps DEF Record
<1>2. /\ buffer' = Append(buffer, r) /\ topic' = topic /\ dropped' = dropped
      /\ buffer \in Seq(Records)
  BY DEF Send, IngestTypeOK
<1>3. PostTyped(p)
  BY PostTypes
<1> HIDE DEF n, r
<1>4. ASSUME NEW e
      PROVE  Copied(e)' = Copied(e) + IF n = e THEN 1 ELSE 0
  <2>1. Count(buffer, e)' = Count(buffer, e) + IF n = e THEN 1 ELSE 0
    BY <1>1, <1>2, CountAppend
  <2>2. Count(topic, e)' = Count(topic, e) /\ Count(dropped, e)' = Count(dropped, e)
    BY <1>2
  <2> QED
    BY <2>1, <2>2, CopiedType DEF Copied
<1> SUFFICES ASSUME NEW b \in 1..NumBatches, NEW e \in First(b)..Last(b)
             PROVE  Copied(e)' = Handed(<<b, 1>>, e)' + Handed(<<b, 2>>, e)'
  BY DEF CopiesInv
<1>5. /\ <<b, 1>> \in Posts /\ <<b, 2>> \in Posts
      /\ <<b, 1>> # <<b, 2>> /\ <<b, 1>>[1] = b /\ <<b, 2>>[1] = b
  BY PairsArePosts
<1>6. Copied(e) = Handed(<<b, 1>>, e) + Handed(<<b, 2>>, e)
  BY DEF CopiesInv
<1>7. \A q \in Posts \ {p} : Handed(q, e)' = Handed(q, e)
  BY <1>1 DEF Handed
<1>8. Handed(p, e) \in {0, 1} /\ \A q : Handed(q, e) \in {0, 1}
  BY DEF Handed
<1>9. CASE b = p[1]
  <2>1. Handed(p, e)' = Handed(p, e) + IF n = e THEN 1 ELSE 0
    <3>1. n \in Int /\ e \in Int
      BY <1>1, <1>3, <1>9 DEF PostTyped
    <3> QED
      BY <1>1, <3>1 DEF Handed, n
  <2>2. p = <<b, 1>> \/ p = <<b, 2>>
    BY <1>3, <1>9 DEF PostTyped
  <2> QED
    BY <1>4, <1>5, <1>6, <1>7, <1>8, <2>1, <2>2
<1>10. CASE b # p[1]
  <2>1. n # e
    BY <1>1, <1>3, <1>10, SameBatch DEF PostTyped
  <2>2. <<b, 1>> # p /\ <<b, 2>> # p
    BY <1>5, <1>10
  <2> QED
    BY <1>4, <1>5, <1>6, <1>7, <1>8, <2>1, <2>2
<1> QED
  BY <1>9, <1>10

LEMMA ProducerKeepsCopies ==
  ASSUME IngestTypeOK, RequestsInv, ClientInv, CopiesInv,
         Deliver \/ Expire \/ ServingCrash
  PROVE  CopiesInv'
<1>1. \A q \in Posts : request'[q].next = request[q].next
  BY ProducerKeeps
<1>2. topic \in Seq(Records) /\ buffer \in Seq(Records) /\ dropped \in Seq(Records)
  BY DEF IngestTypeOK
<1>3. ASSUME NEW e
      PROVE  Copied(e)' = Copied(e)
  <2>1. CASE Deliver
    <3>1. /\ Head(buffer) \in Records /\ Tail(buffer) \in Seq(Records)
          /\ Count(buffer, e) = Count(Tail(buffer), e)
                + IF Head(buffer).event = e THEN 1 ELSE 0
      BY <1>2, <2>1, CountHead DEF Deliver
    <3>2. Count(Append(topic, Head(buffer)), e)
             = Count(topic, e) + IF Head(buffer).event = e THEN 1 ELSE 0
      BY <1>2, <3>1, CountAppend
    <3>3. /\ Count(topic, e)' = Count(Append(topic, Head(buffer)), e)
          /\ Count(buffer, e)' = Count(Tail(buffer), e)
          /\ Count(dropped, e)' = Count(dropped, e)
      BY <2>1 DEF Deliver
    <3>4. Count(Tail(buffer), e) \in Nat
      BY <3>1, CountType
    <3> QED
      BY <3>1, <3>2, <3>3, <3>4, CopiedType DEF Copied
  <2>2. CASE Expire
    <3>1. /\ Head(buffer) \in Records /\ Tail(buffer) \in Seq(Records)
          /\ Count(buffer, e) = Count(Tail(buffer), e)
                + IF Head(buffer).event = e THEN 1 ELSE 0
      BY <1>2, <2>2, CountHead DEF Expire
    <3>2. Count(Append(dropped, Head(buffer)), e)
             = Count(dropped, e) + IF Head(buffer).event = e THEN 1 ELSE 0
      BY <1>2, <3>1, CountAppend
    <3>3. /\ Count(dropped, e)' = Count(Append(dropped, Head(buffer)), e)
          /\ Count(buffer, e)' = Count(Tail(buffer), e)
          /\ Count(topic, e)' = Count(topic, e)
      BY <2>2 DEF Expire
    <3>4. Count(Tail(buffer), e) \in Nat
      BY <3>1, CountType
    <3> QED
      BY <3>1, <3>2, <3>3, <3>4, CopiedType DEF Copied
  <2>3. CASE ServingCrash
    <3>1. Count(dropped \o buffer, e) = Count(dropped, e) + Count(buffer, e)
      BY <1>2, CountConcat
    <3>2. /\ Count(dropped, e)' = Count(dropped \o buffer, e)
          /\ Count(buffer, e)' = Count(<<>>, e)
          /\ Count(topic, e)' = Count(topic, e)
      BY <2>3 DEF ServingCrash
    <3>3. Count(<<>>, e) = 0
      BY CountSmall
    <3> QED
      BY <3>1, <3>2, <3>3, CopiedType DEF Copied
  <2> QED
    BY <2>1, <2>2, <2>3
<1> QED
  BY <1>1, <1>3, CopiesKept

-----------------------------------------------------------------------------
(* The order of first copies.                                              *)

LEMMA SendInOrder ==
  ASSUME IngestTypeOK, RequestsInv, ClientInv, CopiesInv, FirstCopiesInOrder,
         NEW p \in Posts, Send(p)
  PROVE  FirstCopiesInOrder'
<1> DEFINE n == request[p].next
           r == Record(n, p)
<1> SUFFICES ASSUME dropped' = <<>>
             PROVE  \A i \in DOMAIN Given' : \A e \in 1..(Given'[i].event - 1) :
                       \E j \in 1..(i - 1) : Given'[j].event = e
  BY DEF FirstCopiesInOrder
<1>1. /\ r \in Records /\ r.event = n /\ n # 0
      /\ topic \in Seq(Records) /\ buffer \in Seq(Records)
      /\ topic \o buffer \in Seq(Records)
  <2>1. PostTyped(p)
    BY PostTypes
  <2>2. r \in Records /\ n \in First(p[1])..Last(p[1])
    BY SendKeeps
  <2> QED
    BY <2>1, <2>2 DEF Record, IngestTypeOK, PostTyped
<1>2. buffer' = Append(buffer, r) /\ topic' = topic /\ dropped = <<>>
  BY DEF Send
<1> HIDE DEF n, r
<1> DEFINE G == topic \o buffer
           t == <<r>>
<1>3. Given = G
  BY <1>1, <1>2, ConcatEmptySeq DEF Given
<1>4. t \in Seq(Records) /\ Append(buffer, r) = buffer \o t
  BY <1>1, OneRecord, AppendIsConcat
<1>5. Append(G, r) = G \o t
  BY <1>1, AppendIsConcat
<1>6. Given' = Append(G, r)
  <2> HIDE DEF t
  <2>1. topic \o (buffer \o t) = (topic \o buffer) \o t
    BY <1>1, <1>4, ConcatAssociative
  <2>2. topic \o Append(buffer, r) \in Seq(Records)
    BY <1>1
  <2>3. Given' = topic \o Append(buffer, r)
    BY <1>2, <2>2, ConcatEmptySeq DEF Given
  <2> QED
    BY <1>4, <1>5, <2>1, <2>3
<1> HIDE DEF G
<1>7. /\ G \in Seq(Records) /\ Len(G) \in Nat
      /\ DOMAIN Append(G, r) = 1..(Len(G) + 1)
      /\ \A i \in 1..Len(G) : Append(G, r)[i] = G[i]
      /\ Append(G, r)[Len(G) + 1] = r /\ DOMAIN G = 1..Len(G)
  BY <1>1 DEF G
<1>8. ASSUME NEW i \in 1..(Len(G) + 1), NEW e \in 1..(Append(G, r)[i].event - 1)
      PROVE  \E j \in 1..(i - 1) : Append(G, r)[j].event = e
  <2>1. CASE i \in 1..Len(G)
    <3>1. PICK j \in 1..(i - 1) : G[j].event = e
      BY <1>2, <1>3, <1>7, <2>1 DEF FirstCopiesInOrder
    <3>2. j \in 1..Len(G)
      BY <1>7, <2>1
    <3> QED
      BY <1>7, <3>1, <3>2
  <2>2. CASE i = Len(G) + 1
    <3>1. e \in 1..(request[p].next - 1)
      BY <1>1, <1>7, <2>2 DEF n
    <3>2. Copied(e) > 0
      BY <1>1, <3>1, EarlierHandedOver DEF n
    <3>3. PICK j \in DOMAIN G : G[j].event = e
      BY <1>3, <3>2, CopiesAreCounted DEF Copies
    <3>4. j \in 1..Len(G) /\ j \in 1..(i - 1)
      BY <1>7, <2>2
    <3> QED
      BY <1>7, <3>3, <3>4
  <2> QED
    BY <1>7, <2>1, <2>2
<1> QED
  BY <1>6, <1>7, <1>8

LEMMA ProducerInOrder ==
  ASSUME IngestTypeOK, FirstCopiesInOrder, Deliver \/ Expire \/ ServingCrash
  PROVE  FirstCopiesInOrder'
<1> SUFFICES ASSUME dropped' = <<>>
             PROVE  dropped = <<>> /\ Given' = Given
  BY DEF FirstCopiesInOrder
<1>1. topic \in Seq(Records) /\ buffer \in Seq(Records) /\ dropped \in Seq(Records)
  BY DEF IngestTypeOK
<1>2. CASE Deliver
  <2> DEFINE h == <<Head(buffer)>>
             t == Tail(buffer)
  <2>1. /\ buffer # <<>> /\ topic' = Append(topic, Head(buffer))
        /\ buffer' = t /\ dropped = <<>>
    BY <1>2 DEF Deliver
  <2>2. /\ Head(buffer) \in Records /\ t \in Seq(Records) /\ buffer = h \o t
        /\ h \in Seq(Records)
    BY <1>1, <2>1, HeadThenTail, OneRecord
  <2>3. topic' = topic \o h
    BY <1>1, <2>1, <2>2, AppendIsConcat
  <2> HIDE DEF h, t
  <2>4. (topic \o h) \o t = topic \o (h \o t)
    BY SMTT(30), <1>1, <2>2, ConcatAssociative
  <2> QED
    BY <2>1, <2>2, <2>3, <2>4 DEF Given
<1>3. CASE Expire
  <2>1. Head(buffer) \in Records /\ dropped' = Append(dropped, Head(buffer))
    BY <1>1, <1>3, HeadThenTail DEF Expire
  <2> QED
    BY <1>1, <2>1, AppendProperties
<1>4. CASE ServingCrash
  <2>1. dropped \o buffer = <<>> /\ buffer' = <<>> /\ topic' = topic
    BY <1>4 DEF ServingCrash
  <2>2. dropped = <<>> /\ buffer = <<>>
    BY <1>1, <2>1, ConcatEqualIffEmpty
  <2> QED
    BY <2>1, <2>2 DEF Given
<1> QED
  BY <1>2, <1>3, <1>4

-----------------------------------------------------------------------------
(* Where records come from.                                                *)

(* Requests only go forward.                                               *)
LEMMA OriginStays ==
  ASSUME IngestTypeOK, IngestTypeOK',
         \A q \in Posts : request[q].next <= request'[q].next
  PROVE  Came \subseteq Came'
<1> SUFFICES ASSUME NEW r \in Came
             PROVE  r \in Came'
  OBVIOUS
<1>1. PICK p \in Posts : /\ r = Record(r.event, p)
                         /\ r.event \in First(p[1])..Last(p[1])
                         /\ request[p].next > r.event
  BY DEF Came
<1>2. r.event \in Int
  BY <1>1, PostTypes DEF PostTyped
<1>3. request[p].next \in Nat /\ request'[p].next \in Nat
  BY DEF IngestTypeOK
<1>4. request'[p].next > r.event
  BY <1>1, <1>2, <1>3
<1> QED
  BY <1>1, <1>4 DEF Came

LEMMA IngestKeepsOrigins ==
  ASSUME IngestTypeOK, OriginsInv, IngestTypeOK',
         \A q \in Posts : request[q].next <= request'[q].next,
         rows' = rows,
         \/ topic' = topic
         \/ buffer # <<>> /\ topic' = Append(topic, Head(buffer)),
         \/ buffer' = buffer
         \/ buffer' = <<>>
         \/ buffer # <<>> /\ buffer' = Tail(buffer)
         \/ \E r \in Came' : buffer' = Append(buffer, r)
  PROVE  OriginsInv'
<1>1. Came \subseteq Came'
  BY OriginStays
<1>2. /\ topic \in Seq(Came') /\ buffer \in Seq(Came') /\ rows \in Seq(Came')
  BY <1>1, SeqMonotonic DEF OriginsInv
<1>3. buffer # <<>> => Head(buffer) \in Came' /\ Tail(buffer) \in Seq(Came')
  BY <1>2, HeadTailProperties
<1>4. \A s \in Seq(Came'), r \in Came' : Append(s, r) \in Seq(Came')
  OBVIOUS
<1>5. <<>> \in Seq(Came')
  OBVIOUS
<1> QED
  BY <1>2, <1>3, <1>4, <1>5 DEF OriginsInv


-----------------------------------------------------------------------------
(* The steps, and the inductive invariant through them.                    *)

LEMMA IngestKeeps ==
  ASSUME IInv, Ingest
  PROVE  IInv'
<1>1. /\ IngestTypeOK /\ RequestsInv /\ ClientInv /\ CopiesInv /\ OriginsInv
      /\ FirstCopiesInOrder /\ TypeOK /\ RowsInv
      /\ UNCHANGED <<rows, cursor, lost>>
  BY DEF IInv, TypeOK, Ingest, sinkVars
<1>2. \A q \in Posts : request[q].next \in Nat
  BY <1>1 DEF IngestTypeOK
<1>3. CASE ClientStep
  <2>1. /\ IngestTypeOK' /\ RequestsInv' /\ ClientInv'
        /\ \A p \in Posts : request'[p].next = request[p].next
        /\ UNCHANGED <<buffer, topic, dropped>>
    BY <1>1, <1>3, ClientStepKeeps
  <2>2. CopiesInv'
    <3>1. \A e : Copied(e)' = Copied(e)
      BY <2>1 DEF Copied
    <3> QED
      BY <1>1, <2>1, <3>1, CopiesKept
  <2>3. OriginsInv'
    BY <1>1, <1>2, <2>1, IngestKeepsOrigins
  <2>4. TypeOK' /\ RowsInv' /\ FirstCopiesInOrder'
    BY <1>1, <2>1 DEF TypeOK, RowsInv, FirstCopiesInOrder, Given
  <2> QED
    BY <2>1, <2>2, <2>3, <2>4 DEF IInv
<1>4. ASSUME NEW p \in Posts,
             Receive(p) \/ RequestLost(p) \/ SendThrows(p) \/ Accept(p)
      PROVE  IInv'
  <2>1. /\ IngestTypeOK' /\ RequestsInv' /\ ClientInv'
        /\ \A q \in Posts \ {p} : request'[q] = request[q]
        /\ \/ request'[p].next = request[p].next
           \/ request[p].next = 0 /\ request'[p].next = First(p[1])
        /\ UNCHANGED <<buffer, topic, dropped>>
    BY <1>1, <1>4, RequestStepKeeps
  <2>2. CopiesInv'
    BY <1>1, <2>1, RequestsKeepCopies
  <2>3. \A q \in Posts : request[q].next <= request'[q].next
    <3>1. PostTyped(p)
      BY <1>1, PostTypes
    <3>2. request[p].next <= request'[p].next
      BY <2>1, <3>1 DEF PostTyped
    <3> QED
      BY <1>2, <2>1, <3>2
  <2>4. OriginsInv'
    BY <1>1, <2>1, <2>3, IngestKeepsOrigins
  <2>5. TypeOK' /\ RowsInv' /\ FirstCopiesInOrder'
    BY <1>1, <2>1 DEF TypeOK, RowsInv, FirstCopiesInOrder, Given
  <2> QED
    BY <2>1, <2>2, <2>4, <2>5 DEF IInv
<1>5. ASSUME NEW p \in Posts, Send(p)
      PROVE  IInv'
  <2> DEFINE r == Record(request[p].next, p)
  <2>1. /\ IngestTypeOK' /\ RequestsInv' /\ ClientInv'
        /\ \A q \in Posts \ {p} : request'[q] = request[q]
        /\ request[p].next \in First(p[1])..Last(p[1])
        /\ request'[p].next = request[p].next + 1
        /\ r \in Records
    BY <1>1, <1>5, SendKeeps
  <2>2. /\ buffer' = Append(buffer, r) /\ topic' = topic
    BY <1>5 DEF Send
  <2>3. CopiesInv' /\ FirstCopiesInOrder'
    BY <1>1, <1>5, SendKeepsCopies, SendInOrder
  <2>4. \A q \in Posts : request[q].next <= request'[q].next
    BY <1>2, <2>1
  <2>5. r \in Came'
    <3>1. r.event = request[p].next
      BY DEF Record
    <3>2. request'[p].next > r.event
      BY <1>2, <2>1, <3>1
    <3> QED
      BY <2>1, <3>1, <3>2 DEF Came
  <2> HIDE DEF r
  <2>6. OriginsInv'
    BY <1>1, <2>1, <2>2, <2>4, <2>5, IngestKeepsOrigins
  <2>7. TypeOK' /\ RowsInv'
    BY <1>1, <2>1, <2>2 DEF TypeOK, RowsInv
  <2> QED
    BY <2>1, <2>3, <2>6, <2>7 DEF IInv
<1>6. CASE Deliver \/ Expire \/ ServingCrash
  <2>1. /\ IngestTypeOK' /\ RequestsInv' /\ ClientInv' /\ CopiesInv'
        /\ FirstCopiesInOrder'
        /\ \A q \in Posts : request'[q].next = request[q].next
    BY <1>1, <1>6, ProducerKeeps, ProducerKeepsCopies, ProducerInOrder
  <2>2. /\ \/ topic' = topic
           \/ buffer # <<>> /\ topic' = Append(topic, Head(buffer))
        /\ \/ buffer' = <<>>
           \/ buffer # <<>> /\ buffer' = Tail(buffer)
    BY <1>6 DEF Deliver, Expire, ServingCrash
  <2>3. OriginsInv'
    BY <1>1, <1>2, <2>1, <2>2, IngestKeepsOrigins
  <2>4. topic \in Seq(Records) /\ topic' \in Seq(Records) /\ Len(topic) <= Len(topic')
    <3>1. topic \in Seq(Records) /\ topic' \in Seq(Records) /\ buffer \in Seq(Records)
      BY <1>1, <2>1 DEF IngestTypeOK
    <3>2. buffer # <<>> => Head(buffer) \in Records
      BY <3>1, HeadTailProperties
    <3> QED
      BY <2>2, <3>1, <3>2
  <2>5. TypeOK' /\ RowsInv'
    <3>1. cursor' \in 0..Len(topic') /\ lost' \subseteq 0..(Len(topic') - 1)
      BY <1>1, <2>4 DEF TypeOK
    <3> QED
      BY <1>1, <2>1, <3>1 DEF TypeOK, RowsInv
  <2> QED
    BY <2>1, <2>3, <2>5 DEF IInv
<1> QED
  BY <1>3, <1>4, <1>5, <1>6 DEF Ingest, IngestNext, ServerStep

(* What the sink does is none of the client's and the server's business.   *)
LEMMA SinkLeavesIngest ==
  ASSUME RequestsInv, ClientInv, CopiesInv, FirstCopiesInOrder,
         UNCHANGED <<client, request, buffer, topic, dropped>>
  PROVE  RequestsInv' /\ ClientInv' /\ CopiesInv' /\ FirstCopiesInOrder'
<1>1. RequestsInv'
  BY DEF RequestsInv
<1>2. ClientInv'
  BY DEF ClientInv, Unposted, Current, Repeated
<1>3. CopiesInv'
  BY DEF CopiesInv, Copied, Count, Places, Handed
<1>4. FirstCopiesInOrder'
  BY DEF FirstCopiesInOrder, Given
<1> QED
  BY <1>1, <1>2, <1>3, <1>4

(* A row enters only if none is there with its id.                         *)
LEMMA EnterRowKeeps ==
  ASSUME IInv, NEW o \in 0..(Len(topic) - 1), Bronze!EnterRow(topic[o + 1]),
         UNCHANGED <<client, request, buffer, dropped, faults>>
  PROVE  IInv'
<1> DEFINE m == topic[o + 1]
<1>1. /\ m \in {r \in Records : r.event \in Contract}
      /\ ~Bronze!Entered([r \in Records |-> r][m])
      /\ rows' = Append(rows, m) /\ lost' \subseteq lost
      /\ UNCHANGED <<topic, cursor>>
  BY DEF Bronze!EnterRow
<1>2. /\ TypeOK /\ IngestTypeOK /\ topic \in Seq(Records) /\ rows \in Seq(Records)
      /\ RowsInv /\ OriginsInv
  BY DEF IInv, TypeOK, IngestTypeOK
<1>3. m \in Records /\ m \in Came
  <2>1. o + 1 \in 1..Len(topic)
    BY <1>2
  <2>2. topic \in Seq(Came)
    BY <1>2 DEF OriginsInv
  <2>3. m \in Came
    BY <2>1, <2>2, ElementOfSeq
  <2> QED
    BY <1>1, <2>3
<1> HIDE DEF m
<1>4. \A i \in DOMAIN rows : rows[i] # m
  <2> SUFFICES ASSUME NEW i \in DOMAIN rows, rows[i] = m
               PROVE  FALSE
    OBVIOUS
  <2>1. [r \in Records |-> r][m] = m /\ [r \in Records |-> r][rows[i]] = m
    BY <1>3
  <2>2. i \in 1..Len(rows)
    BY <1>2
  <2> QED
    BY <1>1, <2>1, <2>2 DEF Bronze!Entered
<1>5. /\ DOMAIN rows = 1..Len(rows) /\ DOMAIN rows' = 1..(Len(rows) + 1)
      /\ Len(rows) \in Nat /\ rows' \in Seq(Records)
      /\ \A i \in DOMAIN rows : rows'[i] = rows[i]
      /\ rows'[Len(rows) + 1] = m
  BY <1>1, <1>2, <1>3
<1>6. \A i \in DOMAIN rows' : i \in DOMAIN rows \/ i = Len(rows) + 1
  BY <1>5
<1>7. RowsInv'
  <2>1. ASSUME NEW i \in DOMAIN rows', NEW j \in DOMAIN rows', rows'[i] = rows'[j]
        PROVE  i = j
    BY <1>2, <1>4, <1>5, <1>6, <2>1 DEF RowsInv
  <2>2. ASSUME NEW i \in DOMAIN rows'
        PROVE  rows'[i].event \in Contract
    BY <1>1, <1>2, <1>5, <1>6 DEF RowsInv
  <2> QED
    BY <2>1, <2>2 DEF RowsInv
<1>8. OriginsInv'
  <2>1. Came' = Came
    BY DEF Came
  <2>2. rows' \in Seq(Came)
    BY <1>1, <1>2, <1>3 DEF OriginsInv
  <2> QED
    BY <1>1, <1>2, <2>1, <2>2 DEF OriginsInv
<1>9. TypeOK'
  BY <1>1, <1>2, <1>5 DEF TypeOK, IngestTypeOK
<1>10. RequestsInv' /\ ClientInv' /\ CopiesInv' /\ FirstCopiesInOrder'
  BY <1>1, SinkLeavesIngest DEF IInv
<1> QED
  BY <1>7, <1>8, <1>9, <1>10 DEF IInv

LEMMA SinkKeeps ==
  ASSUME IInv, SinkStep \/ SinkGivesUp \/ SinkStoresLate
  PROVE  IInv'
<1>1. /\ TypeOK /\ IngestTypeOK /\ topic \in Seq(Records)
      /\ RowsInv /\ OriginsInv
  BY DEF IInv, TypeOK, IngestTypeOK
<1>2. CASE SinkStep /\ Bronze!Enter
  <2>1. cursor < Len(topic) /\ Bronze!EnterRow(topic[cursor + 1])
    BY <1>2 DEF Bronze!Enter
  <2>2. cursor \in 0..(Len(topic) - 1)
    BY <1>1, <2>1 DEF TypeOK
  <2> QED
    BY <1>2, <2>1, <2>2, EnterRowKeeps DEF SinkStep
<1>3. CASE SinkStoresLate
  <2>1. PICK o \in 0..(cursor - 1) : Bronze!EnterLate(o)
    BY <1>3 DEF SinkStoresLate
  <2>2. o \in lost /\ Bronze!EnterRow(topic[o + 1])
    BY <2>1 DEF Bronze!EnterLate
  <2>3. o \in 0..(Len(topic) - 1)
    BY <1>1, <2>2 DEF TypeOK
  <2> QED
    BY <1>3, <2>2, <2>3, EnterRowKeeps DEF SinkStoresLate
<1>4. CASE (SinkStep /\ Bronze!Advance) \/ SinkGivesUp
  <2>1. /\ UNCHANGED <<topic, rows, client, request, buffer, dropped>>
        /\ \/ cursor' = cursor + 1 /\ lost' = lost /\ faults' = faults
           \/ /\ cursor' = cursor /\ lost' = lost \cup {cursor}
              /\ faults < MaxFaults /\ faults' = faults + 1
        /\ cursor < Len(topic)
    BY <1>4 DEF SinkStep, SinkGivesUp, Fault, Bronze!Advance, Bronze!DeclareLost
  <2>2. /\ faults' \in 0..MaxFaults
        /\ cursor' \in 0..Len(topic) /\ lost' \subseteq 0..(Len(topic) - 1)
    <3>1. cursor \in 0..(Len(topic) - 1) /\ Len(topic) \in Nat
      BY <1>1, <2>1 DEF TypeOK
    <3>2. faults \in 0..MaxFaults /\ lost \subseteq 0..(Len(topic) - 1)
      BY <1>1 DEF TypeOK, IngestTypeOK
    <3>3. faults' \in 0..MaxFaults
      BY <2>1, <3>2
    <3>4. cursor' \in 0..Len(topic)
      BY <2>1, <3>1
    <3>5. lost' \subseteq 0..(Len(topic) - 1)
      BY <2>1, <3>1, <3>2
    <3> QED
      BY <3>3, <3>4, <3>5
  <2>3. TypeOK'
    BY <1>1, <2>1, <2>2 DEF TypeOK, IngestTypeOK
  <2>4. RequestsInv' /\ ClientInv' /\ CopiesInv' /\ FirstCopiesInOrder'
    BY <2>1, SinkLeavesIngest DEF IInv
  <2>5. RowsInv' /\ OriginsInv'
    BY <1>1, <2>1 DEF RowsInv, OriginsInv, Came
  <2> QED
    BY <2>3, <2>4, <2>5 DEF IInv
<1> QED
  BY <1>2, <1>3, <1>4 DEF SinkStep

LEMMA InitHolds ==
  ASSUME Init
  PROVE  IInv
<1>1. /\ client = [pc |-> "posting", batch |-> 1, attempt |-> 1,
                   sent |-> 0, batches |-> 0, retried |-> 0]
      /\ request = [p \in Posts |-> [pc |-> "none", next |-> 0]]
      /\ buffer = <<>> /\ topic = <<>> /\ dropped = <<>> /\ faults = 0
      /\ rows = <<>> /\ cursor = 0 /\ lost = {}
  BY DEF Init, InitIngest
<1>2. NumBatches \in Nat /\ Last(0) = 0
  BY BatchSizes
<1>3. /\ client.pc = "posting" /\ client.batch = 1 /\ client.attempt = 1
      /\ client.sent = 0 /\ client.batches = 0 /\ client.retried = 0
  BY <1>1
<1>4. \A p \in Posts : request[p].pc = "none" /\ request[p].next = 0
  BY <1>1
<1>5. TypeOK
  <2>1. IngestTypeOK
    BY <1>1, <1>2 DEF IngestTypeOK, Attempts
  <2> QED
    BY <1>1, <2>1 DEF TypeOK
<1>6. RequestsInv
  BY <1>4 DEF RequestsInv
<1>7. ClientInv
  <2>1. Repeated = {} /\ Cardinality(Repeated) = 0
    <3>1. \A b \in 1..NumBatches : <<b, 2>> \in Posts
      BY PairsArePosts
    <3>2. Repeated = {}
      BY <1>3, <1>4, <3>1 DEF Repeated
    <3> QED
      BY <3>2, FS_EmptySet
  <2>2. client.batch > NumBatches => client.attempt = 1
    BY <1>3
  <2>3. /\ \A p \in Posts : Unposted(p) => request[p].pc = "none"
        /\ \A b \in 1..(client.batch - 1) :
              \E a \in Attempts : request[<<b, a>>].next = Last(b) + 1
    BY <1>3, <1>4
  <2> QED
    BY <1>2, <1>3, <2>1, <2>2, <2>3 DEF ClientInv
<1>8. CopiesInv
  <2> SUFFICES ASSUME NEW b \in 1..NumBatches, NEW e \in First(b)..Last(b)
               PROVE  Copied(e) = Handed(<<b, 1>>, e) + Handed(<<b, 2>>, e)
    BY DEF CopiesInv
  <2>1. Copied(e) = 0
    BY <1>1, CountSmall DEF Copied
  <2>2. PostTyped(<<b, 1>>) /\ <<b, 1>> \in Posts /\ <<b, 2>> \in Posts
    BY <1>5, PostTypes, PairsArePosts DEF TypeOK
  <2>3. e \in Nat
    BY <2>2 DEF PostTyped
  <2>4. Handed(<<b, 1>>, e) = 0 /\ Handed(<<b, 2>>, e) = 0
    BY <1>4, <2>2, <2>3 DEF Handed
  <2> QED
    BY <2>1, <2>4
<1>9. OriginsInv /\ RowsInv /\ FirstCopiesInOrder
  BY <1>1 DEF OriginsInv, RowsInv, FirstCopiesInOrder, Given
<1> QED
  BY <1>5, <1>6, <1>7, <1>8, <1>9 DEF IInv

LEMMA Inductive ==
  ASSUME IInv, [Next]_vars
  PROVE  IInv'
<1>1. CASE Next
  BY <1>1, IngestKeeps, SinkKeeps DEF Next
<1>2. CASE UNCHANGED vars
  <2>1. UNCHANGED <<client, request, buffer, topic, dropped, faults, rows, cursor, lost>>
    BY <1>2 DEF vars, ingestVars, serverVars, sinkVars
  <2>2. RequestsInv' /\ ClientInv' /\ CopiesInv' /\ FirstCopiesInOrder'
    BY <2>1, SinkLeavesIngest DEF IInv
  <2>3. TypeOK'
    BY <2>1 DEF IInv, TypeOK, IngestTypeOK
  <2>4. RowsInv' /\ OriginsInv'
    BY <2>1 DEF IInv, RowsInv, OriginsInv, Came
  <2> QED
    BY <2>2, <2>3, <2>4 DEF IInv
<1> QED
  BY <1>1, <1>2

LEMMA Invariance == Spec => []IInv
<1>1. Init => IInv
  BY InitHolds
<1>2. IInv /\ [Next]_vars => IInv'
  BY Inductive
<1> QED
  BY <1>1, <1>2, PTL DEF Spec

-----------------------------------------------------------------------------
(* The theorems.                                                           *)

LEMMA IInvParts ==
  ASSUME IInv
  PROVE  /\ IngestTypeOK /\ RequestsInv /\ ClientInv /\ CopiesInv /\ OriginsInv
         /\ RowsInv /\ rows \in Seq(Came)
BY DEF IInv, TypeOK, OriginsInv

(* Two attempts at a batch that both came to an event: the batch was       *)
(* posted again.                                                           *)
LEMMA SecondAttempt ==
  ASSUME IInv, NEW b \in 1..NumBatches, NEW e \in First(b)..Last(b),
         request[<<b, 2>>].next > e
  PROVE  b \in Repeated
<1>1. <<b, 2>> \in Posts /\ <<b, 2>>[1] = b
  BY PairsArePosts
<1>2. PostTyped(<<b, 2>>)
  BY <1>1, IInvParts, PostTypes
<1>3. request[<<b, 2>>].next # 0
  BY <1>2 DEF PostTyped
<1>4. request[<<b, 2>>].pc # "none"
  BY <1>1, <1>3, IInvParts DEF RequestsInv
<1> QED
  BY <1>4 DEF Repeated

LEMMA HandedOver ==
  ASSUME IInv
  PROVE  SentIsHandedOver
<1>1. /\ IngestTypeOK /\ RequestsInv /\ ClientInv /\ CopiesInv
  BY IInvParts
<1>2. ASSUME NEW p \in Posts, request[p].next # 0,
             NEW e \in 1..(request[p].next - 1)
      PROVE  Copies(e) # {}
  BY <1>1, <1>2, EarlierHandedOver, CopiesAreCounted
<1>3. ASSUME NEW e \in 2..NumEvents, Copies(e) # {}
      PROVE  Copies(e - 1) # {}
  <2>1. e \in Events /\ e \in Int
    BY DEF Events
  <2>2. PICK b \in 1..NumBatches : e \in First(b)..Last(b)
    BY <2>1, BatchesCover
  <2>3. Copied(e) > 0 /\ Copied(e) = Handed(<<b, 1>>, e) + Handed(<<b, 2>>, e)
    BY <1>1, <1>3, <2>2, CopiesAreCounted DEF CopiesInv
  <2>4. PICK a \in {1, 2} : request[<<b, a>>].next > e
    BY <2>3 DEF Handed
  <2>5. <<b, a>> \in Posts
    BY PairsArePosts
  <2>6. request[<<b, a>>].next \in Nat
    BY <1>1, <2>5, PostTypes DEF PostTyped
  <2>7. request[<<b, a>>].next # 0 /\ e - 1 \in 1..(request[<<b, a>>].next - 1)
    BY <2>4, <2>6
  <2> QED
    BY <1>2, <2>5, <2>7
<1>4. ASSUME NEW e \in 1..client.sent
      PROVE  Copies(e) # {}
  <2> DEFINE c == client.batch - 1
  <2>1. client.sent = Last(c) /\ c \in 0..NumBatches /\ NumBatches \in Nat
    BY <1>1, ClientTypes DEF ClientInv
  <2>2. c # 0
    BY <2>1, BatchSizes
  <2>3. c \in 1..c /\ c \in 1..NumBatches
    <3> HIDE DEF c
    <3> QED
      BY <2>1, <2>2
  <2>4. PICK a \in Attempts : request[<<c, a>>].next = Last(c) + 1
    BY <1>1, <2>3 DEF ClientInv
  <2>5. a \in {1, 2}
    BY DEF Attempts
  <2> HIDE DEF c
  <2>6. <<c, a>> \in Posts
    BY <2>3, <2>5, PairsArePosts
  <2>7. Last(c) \in Nat
    BY <2>3, BatchSizes
  <2>8. request[<<c, a>>].next # 0 /\ e \in 1..(request[<<c, a>>].next - 1)
    BY <2>1, <2>4, <2>7
  <2> QED
    BY <1>2, <2>6, <2>8
<1>5. client.pc = "done" => client.sent = NumEvents
  <2>1. NumBatches + 1 - 1 = NumBatches
    BY BatchSizes
  <2> QED
    BY <1>1, <2>1, BatchSizes DEF ClientInv
<1> QED
  BY <1>3, <1>4, <1>5 DEF SentIsHandedOver

LEMMA Duplicates ==
  ASSUME IInv
  PROVE  DuplicatesComeFromRetries
<1> DEFINE Twice == {e \in Events : Cardinality(Copies(e)) = 2}
           Places2 == Repeated \X (1..BatchSize)
           At(x) == First(x[1]) + x[2] - 1
           Reached == {At(x) : x \in Places2}
<1>1. /\ IngestTypeOK /\ RequestsInv /\ ClientInv /\ CopiesInv
  BY IInvParts
<1>2. ASSUME NEW e \in Events
      PROVE  \E b \in 1..NumBatches :
                /\ e \in First(b)..Last(b)
                /\ Cardinality(Copies(e)) = Handed(<<b, 1>>, e) + Handed(<<b, 2>>, e)
  <2>1. PICK b \in 1..NumBatches : e \in First(b)..Last(b)
    BY BatchesCover
  <2> QED
    BY <1>1, <2>1, CopiesAreCounted DEF CopiesInv
<1>3. \A q, e : Handed(q, e) \in {0, 1}
  BY DEF Handed
<1>4. ASSUME NEW e \in Events
      PROVE  Cardinality(Copies(e)) <= 2
  <2>1. PICK b \in 1..NumBatches :
           Cardinality(Copies(e)) = Handed(<<b, 1>>, e) + Handed(<<b, 2>>, e)
    BY <1>2
  <2>2. Handed(<<b, 1>>, e) \in {0, 1} /\ Handed(<<b, 2>>, e) \in {0, 1}
    BY <1>3
  <2> QED
    BY <2>1, <2>2
<1>5. Twice \subseteq Reached
  <2> SUFFICES ASSUME NEW e \in Twice
               PROVE  e \in Reached
    OBVIOUS
  <2>1. PICK b \in 1..NumBatches :
           /\ e \in First(b)..Last(b)
           /\ Cardinality(Copies(e)) = Handed(<<b, 1>>, e) + Handed(<<b, 2>>, e)
    BY <1>2
  <2>2. Handed(<<b, 2>>, e) = 1
    BY <1>3, <2>1
  <2>3. b \in Repeated
    BY <2>1, <2>2, SecondAttempt DEF Handed
  <2>4. /\ First(b) \in Nat /\ Last(b) \in Nat /\ Last(b) - First(b) < BatchSize
    BY BatchSizes
  <2>5. e - First(b) + 1 \in 1..BatchSize /\ First(b) + (e - First(b) + 1) - 1 = e
    BY <2>1, <2>4
  <2>6. <<b, e - First(b) + 1>> \in Places2 /\ At(<<b, e - First(b) + 1>>) = e
    BY <2>3, <2>5
  <2> QED
    BY <2>6
<1>6. /\ IsFiniteSet(Places2)
      /\ Cardinality(Places2) = client.retried * BatchSize
  <2>1. IsFiniteSet(1..BatchSize) /\ Cardinality(1..BatchSize) = BatchSize
    BY FS_Interval
  <2>2. /\ IsFiniteSet(Places2)
        /\ Cardinality(Places2) = Cardinality(Repeated) * Cardinality(1..BatchSize)
    BY <2>1, RepeatedFinite, FS_Product
  <2>3. client.retried = Cardinality(Repeated)
    BY <1>1 DEF ClientInv
  <2> QED
    BY <2>1, <2>2, <2>3
<1>7. IsFiniteSet(Reached) /\ Cardinality(Reached) <= Cardinality(Places2)
  <2> DEFINE f == [x \in Places2 |-> At(x)]
  <2>1. f \in Surjection(Places2, Reached)
    BY DEF Surjection
  <2> HIDE DEF f, Places2, Reached
  <2> QED
    BY <1>6, <2>1, FS_Surjection
<1>8. /\ IsFiniteSet(Twice) /\ Cardinality(Twice) <= Cardinality(Reached)
  <2> HIDE DEF Twice, Reached
  <2> QED
    BY <1>5, <1>7, FS_Subset
<1>9. /\ Cardinality(Twice) \in Nat /\ Cardinality(Reached) \in Nat
      /\ Cardinality(Places2) \in Nat
  <2> HIDE DEF Twice, Reached, Places2
  <2> QED
    BY <1>6, <1>7, <1>8, FS_CardinalityType
<1>10. Cardinality(Twice) <= Cardinality(Places2)
  <2> HIDE DEF Twice, Reached, Places2
  <2> QED
    BY <1>7, <1>8, <1>9
<1>11. Cardinality(Twice) <= client.retried * BatchSize
  BY <1>6, <1>10
<1> QED
  BY <1>4, <1>11 DEF DuplicatesComeFromRetries

LEMMA RowsOfAnEvent ==
  ASSUME IInv
  PROVE  RowsPerEvent
<1>1. /\ IngestTypeOK /\ ClientInv /\ RowsInv /\ rows \in Seq(Came)
      /\ DOMAIN rows = 1..Len(rows)
  BY IInvParts
<1>2. \A i \in DOMAIN rows : rows[i] \in Came
  BY <1>1
<1> SUFFICES ASSUME NEW e \in Events
             PROVE  /\ e \in OwnId => Cardinality(RowsOf(e)) <= 1
                    /\ Cardinality(RowsOf(e)) > 1 => client.retried > 0
                    /\ RowsOf(e) # {} => e \in Contract
  BY DEF RowsPerEvent
<1>3. RowsOf(e) # {} => e \in Contract
  BY <1>1 DEF RowsOf, RowsInv
<1>4. IsFiniteSet(RowsOf(e)) /\ Cardinality(RowsOf(e)) \in Nat
  <2>1. IsFiniteSet(1..Len(rows)) /\ RowsOf(e) \subseteq 1..Len(rows)
    BY <1>1, FS_Interval DEF RowsOf
  <2> QED
    BY <2>1, FS_Subset, FS_CardinalityType
<1>5. ASSUME \A i, j \in RowsOf(e) : i = j
      PROVE  Cardinality(RowsOf(e)) <= 1
  <2>1. CASE RowsOf(e) = {}
    BY <2>1, FS_EmptySet
  <2>2. ASSUME NEW i \in RowsOf(e)
        PROVE  Cardinality(RowsOf(e)) <= 1
    <3>1. \A j : j \in RowsOf(e) <=> j = i
      BY <1>5, <2>2
    <3>2. RowsOf(e) = {i}
      BY <3>1
    <3>3. Cardinality({i}) = 1
      BY FS_Singleton
    <3>4. Cardinality(RowsOf(e)) = 1
      BY <3>2, <3>3
    <3> QED
      BY <3>4
  <2> QED
    BY <2>1, <2>2
<1>6. ASSUME e \in OwnId
      PROVE  Cardinality(RowsOf(e)) <= 1
  <2>1. ASSUME NEW i \in RowsOf(e)
        PROVE  rows[i] = [event |-> e, idFrom |-> NoPost]
    BY <1>2, <1>6 DEF RowsOf, Came, Record
  <2>2. \A i, j \in RowsOf(e) : i = j
    BY <1>1, <2>1 DEF RowsOf, RowsInv
  <2> QED
    BY <1>5, <2>2
<1>7. ASSUME Cardinality(RowsOf(e)) > 1
      PROVE  client.retried > 0
  <2>1. PICK i \in RowsOf(e), j \in RowsOf(e) : i # j
    BY <1>4, <1>5, <1>7
  <2>2. rows[i].event = e /\ rows[j].event = e /\ rows[i] # rows[j]
    BY <1>1, <2>1 DEF RowsOf, RowsInv
  <2>3. PICK p \in Posts : /\ rows[i] = Record(e, p) /\ request[p].next > e
                           /\ e \in First(p[1])..Last(p[1])
    BY <1>2, <2>1, <2>2 DEF RowsOf, Came
  <2>4. PICK q \in Posts : /\ rows[j] = Record(e, q) /\ request[q].next > e
                           /\ e \in First(q[1])..Last(q[1])
    BY <1>2, <2>1, <2>2 DEF RowsOf, Came
  <2>5. PostTyped(p) /\ PostTyped(q)
    BY <1>1, PostTypes
  <2>6. p[1] = q[1]
    BY <2>3, <2>4, <2>5, SameBatch DEF PostTyped
  <2>7. p # q
    BY <2>2, <2>3, <2>4
  <2>8. p = <<p[1], 2>> \/ q = <<p[1], 2>>
    BY <2>5, <2>6, <2>7 DEF PostTyped
  <2>9. p[1] \in Repeated
    BY <2>3, <2>4, <2>5, <2>8, SecondAttempt DEF PostTyped
  <2>10. Cardinality(Repeated) # 0 /\ Cardinality(Repeated) \in Nat
    BY <2>9, RepeatedFinite, FS_EmptySet
  <2> QED
    BY <1>1, <2>10 DEF ClientInv
<1> QED
  BY <1>3, <1>6, <1>7

(* The variables of the pipeline keep their types: the server never goes   *)
(* past the end of a list, and the sink's cursor never past the topic.     *)
THEOREM TypeCorrect == Spec => []TypeOK
<1>1. IInv => TypeOK
  BY DEF IInv
<1> QED
  BY <1>1, Invariance, PTL

(* What IngestReport.sent counts was handed to the producer, and what was  *)
(* handed over is a prefix of the list, whatever post_events saw time out, *)
(* fail or be refused on the way.                                          *)
THEOREM SentWasHandedOver == Spec => []SentIsHandedOver
<1>1. IInv => SentIsHandedOver
  BY HandedOver
<1> QED
  BY <1>1, Invariance, PTL

(* No event goes to the producer more than twice, and the retries that     *)
(* post_events reports bound how many go twice.                            *)
THEOREM RetriesExplainDuplicates == Spec => []DuplicatesComeFromRetries
<1>1. IInv => DuplicatesComeFromRetries
  BY Duplicates
<1> QED
  BY <1>1, Invariance, PTL

(* Abandoned requests, their repetitions and later batches share the       *)
(* producer, and first copies still come in the client's order.            *)
THEOREM OrderSurvivesRetries == Spec => []FirstCopiesInOrder
<1>1. IInv => FirstCopiesInOrder
  BY DEF IInv
<1> QED
  BY <1>1, Invariance, PTL

(* An eventId of the client's own makes resending safe: one row.  Without  *)
(* it, a second row tells of a repeated batch.                             *)
THEOREM OwnIdsMakeResendsSafe == Spec => []RowsPerEvent
<1>1. IInv => RowsPerEvent
  BY RowsOfAnEvent
<1> QED
  BY <1>1, Invariance, PTL

(* The pipeline's topic and table are a ledger of BronzeLedger.tla: the    *)
(* producer publishes, the sink enters, and nothing else touches them.     *)
(* What BronzeSinkProofs shows of the sink applies to it.                  *)
THEOREM PipelineKeepsALedger == Spec => Bronze!Spec
<1>1. Init => Bronze!Init
  BY DEF Init, InitIngest, Bronze!Init
<1>2. IInv /\ [Next]_vars => [Bronze!Next]_Bronze!vars
  <2> SUFFICES ASSUME IInv, [Next]_vars
               PROVE  Bronze!Next \/ UNCHANGED <<topic, rows, cursor, lost>>
    BY DEF Bronze!vars
  <2>1. CASE Ingest
    <3>1. CASE Deliver
      <4>1. Head(buffer) \in Records
        BY <3>1, HeadThenTail DEF IInv, TypeOK, IngestTypeOK, Deliver
      <4>2. Bronze!Publish(Head(buffer))
        BY <2>1, <3>1 DEF Ingest, Deliver, sinkVars, Bronze!Publish
      <4> QED
        BY <4>1, <4>2 DEF Bronze!Next
    <3>2. CASE ClientStep \/ Expire \/ ServingCrash
      BY <2>1, <3>2 DEF Ingest, sinkVars, serverVars, ClientStep, Post, Got202,
         ErrorAnswer, TimeOut, Return, Expire, ServingCrash
    <3>3. CASE \E p \in Posts : ServerStep(p) \/ RequestLost(p)
      BY <2>1, <3>3 DEF Ingest, sinkVars, ServerStep, Receive, Send,
         SendThrows, Accept, RequestLost
    <3> QED
      BY <2>1, <3>1, <3>2, <3>3 DEF Ingest, IngestNext
  <2>2. CASE SinkStep \/ SinkGivesUp \/ SinkStoresLate
    BY <2>2 DEF SinkStep, SinkGivesUp, SinkStoresLate, Bronze!Next
  <2>3. CASE UNCHANGED vars
    BY <2>3 DEF vars, ingestVars, serverVars, sinkVars
  <2> QED
    BY <2>1, <2>2, <2>3 DEF Next
<1> QED
  BY <1>1, <1>2, Invariance, PTL DEF Spec, Bronze!Spec
=============================================================================
