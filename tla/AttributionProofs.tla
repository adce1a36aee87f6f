------------------------- MODULE AttributionProofs -------------------------
(***************************************************************************)
(* The attribution rules hold for any bronze table, window and keys, in    *)
(* whatever order the table was filled; and the four versions of the event *)
(* contract, through which it is filled, agree as far as Reconciled says.  *)
(***************************************************************************)
EXTENDS Intake, CommonLemmas, SequenceTheorems

-----------------------------------------------------------------------------
(* Every event of a bronze table has a row id and a time.                  *)
LEMMA EventsHaveTimes ==
  ASSUME NEW b \in Seq(Event)
  PROVE  \A i \in Ids(b) : i \in Nat /\ i # None /\ b[i] \in Event /\ b[i].ts \in Nat
<1> SUFFICES ASSUME NEW i \in Ids(b)
             PROVE  i \in Nat /\ i # None /\ b[i] \in Event /\ b[i].ts \in Nat
  OBVIOUS
<1>1. i \in Nat /\ i # None /\ i \in 1..Len(b)
  BY DEF Ids, None
<1>2. b[i] \in Event
  BY <1>1
<1>3. b[i].ts \in 0..MaxTs
  BY <1>2 DEF Event
<1> QED
  BY <1>1, <1>2, <1>3, AttributionAssumption

(* The order min uses has a first element in every set that is not empty,  *)
(* so Earliest is a member of the set that precedes all the others.        *)
LEMMA EarliestIsFirst ==
  ASSUME NEW b \in Seq(Event), NEW S \in SUBSET Ids(b), S # {}
  PROVE  Earliest(b, S) \in S /\ \A j \in S : Precedes(b, Earliest(b, S), j)
<1>1. \A i \in S : i \in Nat /\ b[i] \in Event /\ b[i].ts \in Nat
  BY EventsHaveTimes
<1>2. PICK t \in {b[i].ts : i \in S} : \A u \in {b[i].ts : i \in S} : t <= u
  <2>1. {b[i].ts : i \in S} \in SUBSET Nat /\ {b[i].ts : i \in S} # {}
    BY <1>1
  <2> QED
    BY <2>1, SmallestOfNats
<1>3. PICK i \in {j \in S : b[j].ts = t} : \A k \in {j \in S : b[j].ts = t} : i <= k
  <2>1. {j \in S : b[j].ts = t} \in SUBSET Nat /\ {j \in S : b[j].ts = t} # {}
    BY <1>1, <1>2
  <2> QED
    BY <2>1, SmallestOfNats
<1>4. ASSUME NEW j \in S
      PROVE  Precedes(b, i, j)
  <2>1. t <= b[j].ts /\ b[i].ts = t /\ t \in Nat /\ b[j].ts \in Nat
    BY <1>1, <1>2, <1>3
  <2>2. b[j].ts = t => i <= j
    BY <1>3
  <2> QED
    BY <2>1, <2>2 DEF Precedes
<1>5. \E x \in S : \A j \in S : Precedes(b, x, j)
  BY <1>3, <1>4
<1> QED
  BY <1>5 DEF Earliest

(* What _earliest_after returns: None exactly when nothing is later,       *)
(* otherwise a later event that no other later event precedes.             *)
LEMMA EarliestAfterIs ==
  ASSUME NEW b \in Seq(Event), NEW S \in SUBSET Ids(b), NEW t \in Nat
  PROVE  LET o == EarliestAfter(b, S, t)
         IN  /\ o = None <=> \A j \in S : ~(b[j].ts > t)
             /\ o # None => /\ o \in S /\ b[o].ts > t
                            /\ \A j \in S : b[j].ts > t => b[o].ts <= b[j].ts
<1> DEFINE C == {j \in S : b[j].ts > t}
<1>1. None \notin S
  BY DEF Ids, None
<1>2. CASE C = {}
  BY <1>2 DEF EarliestAfter
<1>3. CASE C # {}
  <2>1. EarliestAfter(b, S, t) = Earliest(b, C)
    BY <1>3 DEF EarliestAfter
  <2>2. Earliest(b, C) \in C /\ \A j \in C : Precedes(b, Earliest(b, C), j)
    <3>1. C \in SUBSET Ids(b)
      OBVIOUS
    <3> HIDE DEF C
    <3> QED
      BY <1>3, <3>1, EarliestIsFirst
  <2>3. \A j \in S : b[j].ts \in Nat
    BY EventsHaveTimes
  <2>4. PICK o : o = EarliestAfter(b, S, t)
    OBVIOUS
  <2>5. o \in S /\ b[o].ts > t /\ o # None
    BY <1>1, <2>1, <2>2, <2>4
  <2>6. ASSUME NEW j \in S, b[j].ts > t
        PROVE  b[o].ts <= b[j].ts
    <3>1. Precedes(b, o, j)
      BY <2>1, <2>2, <2>4, <2>6
    <3> QED
      BY <2>3, <2>5, <3>1 DEF Precedes
  <2> QED
    BY <2>4, <2>5, <2>6
<1> QED
  BY <1>2, <1>3

(* What _earliest_in_window returns: among ties, the first in bronze.      *)
LEMMA EarliestInWindowIs ==
  ASSUME NEW b \in Seq(Event), NEW S \in SUBSET Ids(b), NEW a \in Nat
  PROVE  LET o == EarliestInWindow(b, S, a)
             In(j) == a <= b[j].ts /\ b[j].ts <= a + Window
         IN  /\ o # None => o \in S /\ In(o)
             /\ \A j \in S : In(j) => /\ o # None /\ b[o].ts <= b[j].ts
                                     /\ Precedes(b, o, j)
<1> DEFINE C == {j \in S : a <= b[j].ts /\ b[j].ts <= a + Window}
<1>1. None \notin S
  BY DEF Ids, None
<1>2. CASE C = {}
  BY <1>2 DEF EarliestInWindow
<1>3. CASE C # {}
  <2>1. EarliestInWindow(b, S, a) = Earliest(b, C)
    BY <1>3 DEF EarliestInWindow
  <2>2. Earliest(b, C) \in C /\ \A j \in C : Precedes(b, Earliest(b, C), j)
    <3>1. C \in SUBSET Ids(b)
      OBVIOUS
    <3> HIDE DEF C
    <3> QED
      BY <1>3, <3>1, EarliestIsFirst
  <2>3. PICK o : o = EarliestInWindow(b, S, a)
    OBVIOUS
  <2>4. o \in C /\ o # None
    BY <1>1, <2>1, <2>2, <2>3
  <2>5. ASSUME NEW j \in C
        PROVE  Precedes(b, o, j) /\ b[o].ts <= b[j].ts
    <3>1. Precedes(b, o, j)
      BY <2>1, <2>2, <2>3
    <3>2. b[o].ts \in Nat /\ b[j].ts \in Nat
      BY <2>4, EventsHaveTimes
    <3> QED
      BY <3>1, <3>2 DEF Precedes
  <2> QED
    BY <2>3, <2>4, <2>5
<1> QED
  BY <1>2, <1>3

-----------------------------------------------------------------------------
(* What the row of an impression credits, in any bronze table.             *)
LEMMA RowCredits ==
  ASSUME NEW b \in Seq(Event), NEW i \in Impressions(b)
  PROVE  LET Later(o, type) == /\ o \in Ids(b)
                               /\ b[o].type = type
                               /\ b[o].key = b[i].key
                               /\ b[o].ts > b[i].ts
             In(p, a) == b[a].ts <= b[p].ts /\ b[p].ts <= b[a].ts + Window
             click == Click(b, i)
             cart == Cart(b, i)
             purchase == Purchase(b, i)
             anchor == AnchorEvent(b, i)
         IN  /\ click # None => Later(click, "click")
             /\ \A o : Later(o, "click") =>
                          click # None /\ b[click].ts <= b[o].ts
             /\ cart # None => Later(cart, "cart")
             /\ \A o : Later(o, "cart") => cart # None /\ b[cart].ts <= b[o].ts
             /\ purchase # None => /\ Later(purchase, "purchase")
                                   /\ anchor # None /\ In(purchase, anchor)
             /\ \A o : (/\ Later(o, "purchase") /\ anchor # None
                        /\ In(o, anchor)) =>
                          /\ purchase # None /\ b[purchase].ts <= b[o].ts
                          /\ Precedes(b, purchase, o)
<1> DEFINE Clicks == Bucket(b, b[i].key, "click")
           Carts == Bucket(b, b[i].key, "cart")
           Purchases == Bucket(b, b[i].key, "purchase")
<1>1. i \in Ids(b) /\ b[i].ts \in Nat
  <2>1. i \in Ids(b)
    BY DEF Impressions
  <2> QED
    BY <2>1, EventsHaveTimes
<1>2. /\ Clicks \in SUBSET Ids(b) /\ Carts \in SUBSET Ids(b)
      /\ Purchases \in SUBSET Ids(b)
      /\ \A o : o \in Clicks <=>
             o \in Ids(b) /\ b[o].type = "click" /\ b[o].key = b[i].key
      /\ \A o : o \in Carts <=>
             o \in Ids(b) /\ b[o].type = "cart" /\ b[o].key = b[i].key
      /\ \A o : o \in Purchases <=>
             o \in Ids(b) /\ b[o].type = "purchase" /\ b[o].key = b[i].key
  BY DEF Bucket
<1>3. /\ Click(b, i) # None =>
            /\ Click(b, i) \in Clicks /\ b[Click(b, i)].ts > b[i].ts
      /\ \A j \in Clicks : b[j].ts > b[i].ts =>
            Click(b, i) # None /\ b[Click(b, i)].ts <= b[j].ts
  BY <1>1, <1>2, EarliestAfterIs DEF Click
<1>4. /\ Cart(b, i) # None =>
            /\ Cart(b, i) \in Carts /\ b[Cart(b, i)].ts > b[i].ts
      /\ \A j \in Carts : b[j].ts > b[i].ts =>
            Cart(b, i) # None /\ b[Cart(b, i)].ts <= b[j].ts
  BY <1>1, <1>2, EarliestAfterIs DEF Cart
<1>5. CASE AnchorEvent(b, i) = None
  <2>1. Purchase(b, i) = None
    BY <1>5 DEF Purchase
  <2> QED
    BY <1>2, <1>3, <1>4, <1>5, <2>1
<1>6. CASE AnchorEvent(b, i) # None
  <2> DEFINE a == AnchorEvent(b, i)
  <2>1. a \in Ids(b) /\ b[a].ts \in Nat /\ b[a].ts > b[i].ts
    <3>1. a \in Ids(b) /\ b[a].ts > b[i].ts
      BY <1>2, <1>3, <1>4, <1>6 DEF AnchorEvent
    <3> QED
      BY <3>1, EventsHaveTimes
  <2>2. /\ Purchase(b, i) # None =>
              /\ Purchase(b, i) \in Purchases
              /\ b[a].ts <= b[Purchase(b, i)].ts
              /\ b[Purchase(b, i)].ts <= b[a].ts + Window
        /\ \A j \in Purchases :
              (b[a].ts <= b[j].ts /\ b[j].ts <= b[a].ts + Window) =>
                 /\ Purchase(b, i) # None /\ b[Purchase(b, i)].ts <= b[j].ts
                 /\ Precedes(b, Purchase(b, i), j)
    <3>1. Purchase(b, i) = EarliestInWindow(b, Purchases, b[a].ts)
      BY <1>6 DEF Purchase
    <3>2. /\ Purchases \in SUBSET Ids(b) /\ b[a].ts \in Nat
      BY <1>2, <2>1
    <3>3. PICK o : o = EarliestInWindow(b, Purchases, b[a].ts)
      OBVIOUS
    <3> HIDE DEF Purchases, a
    <3>4. /\ o # None => /\ o \in Purchases
                         /\ b[a].ts <= b[o].ts /\ b[o].ts <= b[a].ts + Window
          /\ \A j \in Purchases :
                b[a].ts <= b[j].ts /\ b[j].ts <= b[a].ts + Window =>
                   /\ o # None /\ b[o].ts <= b[j].ts
                   /\ Precedes(b, o, j)
      BY <3>2, <3>3, EarliestInWindowIs
    <3> QED
      BY <3>1, <3>3, <3>4
  <2>3. Purchase(b, i) # None => b[Purchase(b, i)].ts > b[i].ts
    <3>1. \A j \in Ids(b) : b[j].ts \in Nat
      BY EventsHaveTimes
    <3> QED
      BY <1>1, <1>2, <2>1, <2>2, <3>1
  <2> QED
    BY <1>2, <1>3, <1>4, <1>6, <2>2, <2>3
<1> QED
  BY <1>5, <1>6

-----------------------------------------------------------------------------
(* bronze is a sequence of events and rows refer to events of it.          *)
THEOREM TypeCorrect == Spec => []TypeOK
<1>1. bronze \in Seq(Event) => TypeOK
  <2> SUFFICES ASSUME bronze \in Seq(Event), NEW i \in Impressions(bronze)
               PROVE  {Click(bronze, i), Cart(bronze, i), Purchase(bronze, i)}
                        \subseteq Ids(bronze) \cup {None}
    BY DEF TypeOK
  <2>1. Click(bronze, i) \in Ids(bronze) \cup {None}
    BY RowCredits
  <2>2. Cart(bronze, i) \in Ids(bronze) \cup {None}
    BY RowCredits
  <2>3. Purchase(bronze, i) \in Ids(bronze) \cup {None}
    BY RowCredits
  <2> QED
    BY <2>1, <2>2, <2>3
<1>2. Init => bronze \in Seq(Event)
  BY EmptySeq DEF Init
<1>3. bronze \in Seq(Event) /\ [Next]_bronze => (bronze \in Seq(Event))'
  BY AppendProperties, AttributionAssumption DEF Next, Arrive
<1> QED
  BY <1>1, <1>2, <1>3, PTL DEF Spec

(* Whatever arrives in bronze, a row credits an impression only with later *)
(* events of its key, and with a purchase only in the window of a click or *)
(* cart.                                                                   *)
THEOREM CreditCorrect == Spec => []CreditFollowsImpression
<1>1. TypeOK => CreditFollowsImpression
  <2> SUFFICES ASSUME bronze \in Seq(Event), NEW i \in Impressions(bronze)
               PROVE  CreditFollowsImpression!(i)
    BY DEF TypeOK, CreditFollowsImpression
  <2> QED
    BY RowCredits DEF AnchorEvent
<1> QED
  BY <1>1, TypeCorrect, PTL

(* No arrival order, tie or window makes a row understate what bronze      *)
(* shows of its key, save a purchase outside the window of the earliest    *)
(* click, or where there is no click, of the earliest cart.                *)
THEOREM SignalsKept == Spec => []NoSignalDropped
<1>1. TypeOK => NoSignalDropped
  <2> SUFFICES ASSUME bronze \in Seq(Event), NEW i \in Impressions(bronze),
                      NEW o \in Ids(bronze)
               PROVE  NoSignalDropped!(i, o)
    BY DEF TypeOK, NoSignalDropped
  <2> DEFINE Later(x, type) == /\ bronze[x].type = type
                               /\ bronze[x].key = bronze[i].key
                               /\ bronze[x].ts > bronze[i].ts
  <2>1. Later(o, "click") => Label(bronze, i) >= 1
    BY RowCredits DEF Label
  <2>2. Later(o, "cart") => Label(bronze, i) >= 2
    BY RowCredits DEF Label
  <2>3. ASSUME NEW p \in Ids(bronze), Later(o, "click"), Later(p, "purchase"),
               \A x \in Ids(bronze) :
                  Later(x, "click") => bronze[o].ts <= bronze[x].ts,
               bronze[o].ts <= bronze[p].ts,
               bronze[p].ts <= bronze[o].ts + Window
        PROVE  Label(bronze, i) = 3
    <3>1. PICK c : c = Click(bronze, i)
      OBVIOUS
    <3>2. c # None /\ c \in Ids(bronze) /\ Later(c, "click")
          /\ bronze[c].ts <= bronze[o].ts
      BY <2>3, <3>1, RowCredits
    <3>3. bronze[c].ts = bronze[o].ts
      BY <2>3, <3>2, EventsHaveTimes
    <3>4. AnchorEvent(bronze, i) = c
      BY <3>1, <3>2 DEF AnchorEvent
    <3>5. Purchase(bronze, i) # None
      BY <2>3, <3>2, <3>3, <3>4, RowCredits
    <3> QED
      BY <3>5 DEF Label
  <2>4. ASSUME NEW p \in Ids(bronze), Later(o, "cart"), Later(p, "purchase"),
               \A x \in Ids(bronze) : ~Later(x, "click"),
               \A x \in Ids(bronze) :
                  Later(x, "cart") => bronze[o].ts <= bronze[x].ts,
               bronze[o].ts <= bronze[p].ts,
               bronze[p].ts <= bronze[o].ts + Window
        PROVE  Label(bronze, i) = 3
    <3>1. PICK c : c = Cart(bronze, i)
      OBVIOUS
    <3>2. c # None /\ c \in Ids(bronze) /\ Later(c, "cart")
          /\ bronze[c].ts <= bronze[o].ts
      BY <2>4, <3>1, RowCredits
    <3>3. bronze[c].ts = bronze[o].ts
      BY <2>4, <3>2, EventsHaveTimes
    <3>4. Click(bronze, i) = None
      BY <2>4, RowCredits
    <3>5. AnchorEvent(bronze, i) = c
      BY <3>1, <3>4 DEF AnchorEvent
    <3>6. Purchase(bronze, i) # None
      BY <2>4, <3>2, <3>3, <3>5, RowCredits
    <3> QED
      BY <3>6 DEF Label
  <2> QED
    BY <2>1, <2>2, <2>3, <2>4
<1> QED
  BY <1>1, TypeCorrect, PTL

-----------------------------------------------------------------------------
(* An event that arrives late can only raise a label, except that a new    *)
(* click or cart may move the purchase window away from a purchase; events *)
(* of other keys change nothing.                                           *)
LEMMA LateEvent ==
  ASSUME NEW b \in Seq(Event), NEW e \in Event, NEW d, d = Append(b, e),
         NEW i \in Impressions(b)
  PROVE  /\ Click(b, i) # None => /\ Click(d, i) # None
                                 /\ d[Click(d, i)].ts <= b[Click(b, i)].ts
         /\ Cart(b, i) # None => /\ Cart(d, i) # None
                                /\ d[Cart(d, i)].ts <= b[Cart(b, i)].ts
         /\ Label(d, i) < Label(b, i) =>
               Label(b, i) = 3 /\ AnchorEvent(d, i) = Len(d)
         /\ LabelRow(d, i) # LabelRow(b, i) => d[Len(d)].key = b[i].key
<1> DEFINE new == Len(d)
           LaterB(o, type) == /\ o \in Ids(b) /\ b[o].type = type
                              /\ b[o].key = b[i].key /\ b[o].ts > b[i].ts
           LaterD(o, type) == /\ o \in Ids(d) /\ d[o].type = type
                              /\ d[o].key = d[i].key /\ d[o].ts > d[i].ts
<1>1. /\ d \in Seq(Event) /\ new = Len(b) + 1 /\ Len(b) \in Nat
      /\ \A o \in Ids(b) : d[o] = b[o]
      /\ \A o : o \in Ids(d) <=> o \in Ids(b) \/ o = new
      /\ new \notin Ids(b) /\ new # None
  BY AppendProperties DEF Ids, None
<1>2. i \in Ids(b) /\ i \in Impressions(d) /\ d[i] = b[i]
  BY <1>1 DEF Impressions, Skipped, IsImpression
<1>3. /\ \A o, type : LaterB(o, type) => LaterD(o, type) /\ d[o].ts = b[o].ts
      /\ \A o, type : LaterD(o, type) /\ o # new =>
            LaterB(o, type) /\ d[o].ts = b[o].ts
      /\ d[new].key # b[i].key => \A type : ~LaterD(new, type)
  BY <1>1, <1>2
<1>4. /\ \A o \in Ids(b) : b[o].ts \in Nat
      /\ \A o \in Ids(d) : d[o].ts \in Nat
  BY <1>1, EventsHaveTimes
<1> DEFINE In(x, p, a) == x[a].ts <= x[p].ts /\ x[p].ts <= x[a].ts + Window
<1>b. /\ Click(b, i) # None => LaterB(Click(b, i), "click")
      /\ \A o : LaterB(o, "click") =>
             Click(b, i) # None /\ b[Click(b, i)].ts <= b[o].ts
      /\ Cart(b, i) # None => LaterB(Cart(b, i), "cart")
      /\ \A o : LaterB(o, "cart") =>
             Cart(b, i) # None /\ b[Cart(b, i)].ts <= b[o].ts
      /\ Purchase(b, i) # None =>
             /\ LaterB(Purchase(b, i), "purchase") /\ AnchorEvent(b, i) # None
             /\ In(b, Purchase(b, i), AnchorEvent(b, i))
      /\ \A o : (/\ LaterB(o, "purchase") /\ AnchorEvent(b, i) # None
                 /\ In(b, o, AnchorEvent(b, i))) =>
             /\ Purchase(b, i) # None /\ b[Purchase(b, i)].ts <= b[o].ts
             /\ Precedes(b, Purchase(b, i), o)
  BY RowCredits
<1>d. /\ Click(d, i) # None => LaterD(Click(d, i), "click")
      /\ \A o : LaterD(o, "click") =>
             Click(d, i) # None /\ d[Click(d, i)].ts <= d[o].ts
      /\ Cart(d, i) # None => LaterD(Cart(d, i), "cart")
      /\ \A o : LaterD(o, "cart") =>
             Cart(d, i) # None /\ d[Cart(d, i)].ts <= d[o].ts
      /\ Purchase(d, i) # None =>
             /\ LaterD(Purchase(d, i), "purchase") /\ AnchorEvent(d, i) # None
             /\ In(d, Purchase(d, i), AnchorEvent(d, i))
      /\ \A o : (/\ LaterD(o, "purchase") /\ AnchorEvent(d, i) # None
                 /\ In(d, o, AnchorEvent(d, i))) =>
             /\ Purchase(d, i) # None /\ d[Purchase(d, i)].ts <= d[o].ts
             /\ Precedes(d, Purchase(d, i), o)
  <2>1. d \in Seq(Event)
    BY <1>1
  <2>2. i \in Impressions(d)
    BY <1>2
  <2> QED
    BY ONLY <2>1, <2>2, RowCredits
<1>ids. /\ \A o, type : LaterB(o, type) => o \in Ids(b)
        /\ \A o, type : LaterD(o, type) => o \in Ids(d)
  OBVIOUS
<1> HIDE DEF LaterB, LaterD
<1>5. Click(b, i) # None => /\ Click(d, i) # None
                            /\ d[Click(d, i)].ts <= b[Click(b, i)].ts
  BY <1>3, <1>b, <1>d
<1>6. Cart(b, i) # None => /\ Cart(d, i) # None
                           /\ d[Cart(d, i)].ts <= b[Cart(b, i)].ts
  BY <1>3, <1>b, <1>d
(* A credited click or cart that is not the new event was credited before. *)
<1>7. Click(d, i) # None /\ Click(d, i) # new =>
        Click(b, i) # None /\ d[Click(d, i)].ts = b[Click(b, i)].ts
  <2> SUFFICES ASSUME Click(d, i) # None, Click(d, i) # new
               PROVE  Click(b, i) # None /\ d[Click(d, i)].ts = b[Click(b, i)].ts
    OBVIOUS
  <2>1. LaterB(Click(d, i), "click") /\ d[Click(d, i)].ts = b[Click(d, i)].ts
    BY <1>3, <1>d
  <2>2. Click(b, i) # None /\ b[Click(b, i)].ts <= d[Click(d, i)].ts
    BY <1>b, <2>1
  <2>3. b[Click(b, i)].ts \in Nat /\ d[Click(d, i)].ts \in Nat
    BY <1>4, <1>ids, <1>b, <1>d, <2>1, <2>2
  <2>4. d[Click(d, i)].ts <= b[Click(b, i)].ts
    BY <1>5, <2>2
  <2>5. \A x, y \in Nat : x <= y /\ y <= x => x = y
    OBVIOUS
  <2> QED
    BY ONLY <2>2, <2>3, <2>4, <2>5
<1>8. Cart(d, i) # None /\ Cart(d, i) # new =>
        Cart(b, i) # None /\ d[Cart(d, i)].ts = b[Cart(b, i)].ts
  <2> SUFFICES ASSUME Cart(d, i) # None, Cart(d, i) # new
               PROVE  Cart(b, i) # None /\ d[Cart(d, i)].ts = b[Cart(b, i)].ts
    OBVIOUS
  <2>1. LaterB(Cart(d, i), "cart") /\ d[Cart(d, i)].ts = b[Cart(d, i)].ts
    BY <1>3, <1>d
  <2>2. Cart(b, i) # None /\ b[Cart(b, i)].ts <= d[Cart(d, i)].ts
    BY <1>b, <2>1
  <2>3. b[Cart(b, i)].ts \in Nat /\ d[Cart(d, i)].ts \in Nat
    BY <1>4, <1>ids, <1>b, <1>d, <2>1, <2>2
  <2>4. d[Cart(d, i)].ts <= b[Cart(b, i)].ts
    BY <1>6, <2>2
  <2>5. \A x, y \in Nat : x <= y /\ y <= x => x = y
    OBVIOUS
  <2> QED
    BY ONLY <2>2, <2>3, <2>4, <2>5
<1>9. AnchorEvent(b, i) # None =>
        /\ AnchorEvent(d, i) # None
        /\ AnchorEvent(d, i) # new =>
              d[AnchorEvent(d, i)].ts = b[AnchorEvent(b, i)].ts
  BY <1>5, <1>6, <1>7, <1>8 DEF AnchorEvent
<1>10. Purchase(b, i) # None /\ AnchorEvent(d, i) # new =>
         /\ Purchase(d, i) # None
         /\ d[Purchase(d, i)].ts <= b[Purchase(b, i)].ts
  BY <1>3, <1>9, <1>b, <1>d
<1>11. Label(d, i) < Label(b, i) => Label(b, i) = 3 /\ AnchorEvent(d, i) = new
  BY <1>5, <1>6, <1>10 DEF Label
<1>12. ASSUME d[new].key # b[i].key
       PROVE  LabelRow(d, i) = LabelRow(b, i)
  <2>1. Click(d, i) # new /\ Cart(d, i) # new /\ Purchase(d, i) # new
    BY <1>1, <1>3, <1>12, <1>d
  <2>2. AnchorEvent(d, i) # new
    BY <2>1 DEF AnchorEvent
  <2>3. /\ Date(d, Click(d, i)) = Date(b, Click(b, i))
        /\ Click(d, i) = None <=> Click(b, i) = None
    BY <1>5, <1>7, <2>1 DEF Date
  <2>4. /\ Date(d, Cart(d, i)) = Date(b, Cart(b, i))
        /\ Cart(d, i) = None <=> Cart(b, i) = None
    BY <1>6, <1>8, <2>1 DEF Date
  <2>5. ASSUME Purchase(d, i) # None
        PROVE  /\ Purchase(b, i) # None
               /\ Precedes(b, Purchase(b, i), Purchase(d, i))
               /\ Purchase(d, i) \in Ids(b)
    <3>1. /\ LaterB(Purchase(d, i), "purchase")
          /\ b[Purchase(d, i)].ts = d[Purchase(d, i)].ts
      BY <1>3, <1>d, <2>1, <2>5
    <3>2. AnchorEvent(d, i) # None /\ In(d, Purchase(d, i), AnchorEvent(d, i))
      BY <1>d, <2>5
    <3>3. AnchorEvent(b, i) # None
      BY <2>3, <2>4, <3>2 DEF AnchorEvent
    <3>4. In(b, Purchase(d, i), AnchorEvent(b, i))
      BY <1>9, <2>2, <3>1, <3>2, <3>3
    <3> QED
      BY <1>b, <1>ids, <3>1, <3>3, <3>4
  <2>6. ASSUME Purchase(b, i) # None
        PROVE  /\ Purchase(d, i) # None
               /\ Precedes(d, Purchase(d, i), Purchase(b, i))
               /\ Purchase(b, i) \in Ids(b)
    <3>1. /\ LaterB(Purchase(b, i), "purchase")
          /\ LaterD(Purchase(b, i), "purchase")
          /\ b[Purchase(b, i)].ts = d[Purchase(b, i)].ts
      BY <1>3, <1>b, <2>6
    <3>2. AnchorEvent(b, i) # None /\ In(b, Purchase(b, i), AnchorEvent(b, i))
      BY <1>b, <2>6
    <3>3. /\ AnchorEvent(d, i) # None
          /\ In(d, Purchase(b, i), AnchorEvent(d, i))
      BY <1>9, <2>2, <3>1, <3>2
    <3> QED
      BY <1>d, <1>ids, <3>1, <3>3
  <2>7. Purchase(d, i) = Purchase(b, i)
    <3>1. CASE Purchase(b, i) = None
      BY <2>5, <3>1
    <3>2. CASE Purchase(b, i) # None
      <4> DEFINE p == Purchase(b, i)
                 q == Purchase(d, i)
      <4>1. /\ p \in Ids(b) /\ q \in Ids(b)
            /\ Precedes(b, p, q) /\ Precedes(d, q, p)
        BY <2>5, <2>6, <3>2
      <4>2. d[p] = b[p] /\ d[q] = b[q] /\ p \in Nat /\ q \in Nat
            /\ b[p].ts \in Nat /\ b[q].ts \in Nat
        BY <1>1, <1>4, <4>1, EventsHaveTimes
      <4> HIDE DEF p, q
      <4>3. p = q
        BY <4>1, <4>2 DEF Precedes
      <4> QED
        BY <4>3 DEF p, q
    <3> QED
      BY <3>1, <3>2
  <2>8. /\ Date(d, Purchase(d, i)) = Date(b, Purchase(b, i))
        /\ Amount(d, Purchase(d, i)) = Amount(b, Purchase(b, i))
    BY <1>1, <2>6, <2>7 DEF Date, Amount
  <2> QED
    BY <2>3, <2>4, <2>7, <2>8 DEF LabelRow, Label
<1> QED
  BY <1>5, <1>6, <1>11, <1>12

(* The same, for every step that brings an event into bronze.              *)
THEOREM LateEventsHarmless == Spec => LateEventsOnlyMoveTheAnchor
<1>1. TypeOK /\ [Next]_bronze =>
        \/ UNCHANGED bronze
        \/ \A i \in Impressions(bronze) : LateEventEffect(i, Len(bronze'))
  <2> SUFFICES ASSUME bronze \in Seq(Event), NEW e \in Event,
                      bronze' = Append(bronze, e),
                      NEW i \in Impressions(bronze)
               PROVE  LateEventEffect(i, Len(bronze'))
    BY AttributionAssumption DEF Next, Arrive, TypeOK
  <2> QED
    BY LateEvent DEF LateEventEffect
<1> QED
  BY <1>1, TypeCorrect, PTL DEF Spec, LateEventsOnlyMoveTheAnchor

-----------------------------------------------------------------------------
(* What a row says of its outcomes only depends on which events there are: *)
(* if every event of b is in d, then d credits no later click or cart than *)
(* b, and, in the same window, no later purchase.                          *)
LEMMA MoreEventsCreditNoLater ==
  ASSUME NEW b \in Seq(Event), NEW i \in Impressions(b),
         NEW d \in Seq(Event), NEW k \in Impressions(d), d[k] = b[i],
         \A o \in Ids(b) : \E p \in Ids(d) : d[p] = b[o]
  PROVE  /\ Click(b, i) # None => /\ Click(d, k) # None
                                 /\ d[Click(d, k)].ts <= b[Click(b, i)].ts
         /\ Cart(b, i) # None => /\ Cart(d, k) # None
                                /\ d[Cart(d, k)].ts <= b[Cart(b, i)].ts
         /\ /\ Purchase(b, i) # None /\ AnchorEvent(d, k) # None
            /\ d[AnchorEvent(d, k)].ts = b[AnchorEvent(b, i)].ts
            => /\ Purchase(d, k) # None
               /\ d[Purchase(d, k)].ts <= b[Purchase(b, i)].ts
<1> DEFINE Later(x, m, o, type) == /\ o \in Ids(x) /\ x[o].type = type
                                   /\ x[o].key = x[m].key
                                   /\ x[o].ts > x[m].ts
           In(x, p, a) == x[a].ts <= x[p].ts /\ x[p].ts <= x[a].ts + Window
<1>b. /\ Click(b, i) # None => Later(b, i, Click(b, i), "click")
      /\ Cart(b, i) # None => Later(b, i, Cart(b, i), "cart")
      /\ Purchase(b, i) # None => /\ Later(b, i, Purchase(b, i), "purchase")
                                 /\ AnchorEvent(b, i) # None
                                 /\ In(b, Purchase(b, i), AnchorEvent(b, i))
  BY RowCredits
<1>d. /\ \A p : Later(d, k, p, "click") =>
                   Click(d, k) # None /\ d[Click(d, k)].ts <= d[p].ts
      /\ \A p : Later(d, k, p, "cart") =>
                   Cart(d, k) # None /\ d[Cart(d, k)].ts <= d[p].ts
      /\ \A p : /\ Later(d, k, p, "purchase") /\ AnchorEvent(d, k) # None
                /\ In(d, p, AnchorEvent(d, k))
                => Purchase(d, k) # None /\ d[Purchase(d, k)].ts <= d[p].ts
  BY RowCredits
<1>1. \A o, type : Later(b, i, o, type) =>
         \E p : Later(d, k, p, type) /\ d[p] = b[o]
  OBVIOUS
<1> HIDE DEF Later
<1>2. Click(b, i) # None => /\ Click(d, k) # None
                            /\ d[Click(d, k)].ts <= b[Click(b, i)].ts
  BY <1>1, <1>b, <1>d
<1>3. Cart(b, i) # None => /\ Cart(d, k) # None
                           /\ d[Cart(d, k)].ts <= b[Cart(b, i)].ts
  BY <1>1, <1>b, <1>d
<1>4. ASSUME Purchase(b, i) # None, AnchorEvent(d, k) # None,
             d[AnchorEvent(d, k)].ts = b[AnchorEvent(b, i)].ts
      PROVE  /\ Purchase(d, k) # None
             /\ d[Purchase(d, k)].ts <= b[Purchase(b, i)].ts
  <2>1. PICK p : Later(d, k, p, "purchase") /\ d[p] = b[Purchase(b, i)]
    BY <1>1, <1>4, <1>b
  <2>2. In(d, p, AnchorEvent(d, k))
    BY <1>4, <1>b, <2>1
  <2> QED
    BY <1>4, <1>d, <2>1, <2>2
<1> QED
  BY <1>2, <1>3, <1>4

(* Hence two tables of the same events, in whatever order and however      *)
(* often each is in them, give an impression the same dates and the same   *)
(* label.                                                                  *)
LEMMA DatesDependOnEvents ==
  ASSUME NEW b \in Seq(Event), NEW i \in Impressions(b),
         NEW d \in Seq(Event), NEW k \in Impressions(d), d[k] = b[i],
         \A o \in Ids(b) : \E p \in Ids(d) : d[p] = b[o],
         \A p \in Ids(d) : \E o \in Ids(b) : b[o] = d[p]
  PROVE  /\ Date(d, Click(d, k)) = Date(b, Click(b, i))
         /\ Date(d, Cart(d, k)) = Date(b, Cart(b, i))
         /\ Date(d, Purchase(d, k)) = Date(b, Purchase(b, i))
         /\ Label(d, k) = Label(b, i)
         /\ AnchorEvent(b, i) = None <=> AnchorEvent(d, k) = None
         /\ AnchorEvent(b, i) # None =>
               b[AnchorEvent(b, i)].ts = d[AnchorEvent(d, k)].ts
         /\ Purchase(b, i) = None <=> Purchase(d, k) = None
         /\ Purchase(b, i) # None =>
               b[Purchase(b, i)].ts = d[Purchase(d, k)].ts
<1> DEFINE Same(o, p) == /\ o = None <=> p = None
                         /\ o # None => b[o].ts = d[p].ts
<1>1. /\ Click(b, i) # None => /\ Click(d, k) # None
                              /\ d[Click(d, k)].ts <= b[Click(b, i)].ts
      /\ Cart(b, i) # None => /\ Cart(d, k) # None
                             /\ d[Cart(d, k)].ts <= b[Cart(b, i)].ts
      /\ /\ Purchase(b, i) # None /\ AnchorEvent(d, k) # None
         /\ d[AnchorEvent(d, k)].ts = b[AnchorEvent(b, i)].ts
         => /\ Purchase(d, k) # None
            /\ d[Purchase(d, k)].ts <= b[Purchase(b, i)].ts
  BY MoreEventsCreditNoLater
<1>2. /\ Click(d, k) # None => /\ Click(b, i) # None
                              /\ b[Click(b, i)].ts <= d[Click(d, k)].ts
      /\ Cart(d, k) # None => /\ Cart(b, i) # None
                             /\ b[Cart(b, i)].ts <= d[Cart(d, k)].ts
      /\ /\ Purchase(d, k) # None /\ AnchorEvent(b, i) # None
         /\ b[AnchorEvent(b, i)].ts = d[AnchorEvent(d, k)].ts
         => /\ Purchase(b, i) # None
            /\ b[Purchase(b, i)].ts <= d[Purchase(d, k)].ts
  BY MoreEventsCreditNoLater
<1>3. /\ \A x \in {Click(b, i), Cart(b, i), Purchase(b, i)} :
            x # None => b[x].ts \in Nat
      /\ \A x \in {Click(d, k), Cart(d, k), Purchase(d, k)} :
            x # None => d[x].ts \in Nat
  <2>1. \A x \in {Click(b, i), Cart(b, i), Purchase(b, i)} :
           x # None => x \in Ids(b)
    BY RowCredits
  <2>2. \A x \in {Click(d, k), Cart(d, k), Purchase(d, k)} :
           x # None => x \in Ids(d)
    BY RowCredits
  <2> QED
    BY <2>1, <2>2, EventsHaveTimes
<1>4. Same(Click(b, i), Click(d, k))
  BY <1>1, <1>2, <1>3
<1>5. Same(Cart(b, i), Cart(d, k))
  BY <1>1, <1>2, <1>3
<1>6. Same(AnchorEvent(b, i), AnchorEvent(d, k))
  BY <1>4, <1>5 DEF AnchorEvent
<1>7. Same(Purchase(b, i), Purchase(d, k))
  <2>1. CASE AnchorEvent(b, i) = None
    BY <1>6, <2>1 DEF Purchase
  <2>2. CASE AnchorEvent(b, i) # None
    <3>1. /\ AnchorEvent(d, k) # None
          /\ d[AnchorEvent(d, k)].ts = b[AnchorEvent(b, i)].ts
      BY <1>6, <2>2
    <3> QED
      BY <1>1, <1>2, <1>3, <2>2, <3>1
  <2> QED
    BY <2>1, <2>2
<1>8. \A o, p : Same(o, p) => Date(b, o) = Date(d, p)
  BY DEF Date
<1>9. Label(b, i) = Label(d, k)
  BY <1>4, <1>5, <1>7 DEF Label
<1> QED
  BY <1>4, <1>5, <1>6, <1>7, <1>8, <1>9

(* Where an event is after the neighbours j and j + 1 have changed places. *)
Swap(j, o) == CASE o = j -> j + 1 [] o = j + 1 -> j [] OTHER -> o

(* If two neighbours of a table change places, so does the credited        *)
(* purchase, unless the two are tied and it is the first of them: then the *)
(* other one, which is first now, is credited instead.                     *)
LEMMA SwapMovesPurchase ==
  ASSUME NEW b \in Seq(Event), NEW j \in 1..(Len(b) - 1),
         NEW i \in Impressions(b),
         NEW d \in Seq(Event), NEW k \in Impressions(d),
         Ids(d) = Ids(b), d[k] = b[i],
         \A o \in Ids(b) : /\ Swap(j, o) \in Ids(b)
                          /\ d[Swap(j, o)] = b[o] /\ b[Swap(j, o)] = d[o],
         Purchase(b, i) # None, Purchase(d, k) # None,
         b[Purchase(b, i)].ts = d[Purchase(d, k)].ts,
         AnchorEvent(b, i) = None <=> AnchorEvent(d, k) = None,
         AnchorEvent(b, i) # None =>
            b[AnchorEvent(b, i)].ts = d[AnchorEvent(d, k)].ts
  PROVE  d[Purchase(d, k)].amount =
            IF Tied(b, j) /\ Purchase(b, i) = j
            THEN b[j + 1].amount ELSE b[Purchase(b, i)].amount
<1> DEFINE p == Purchase(b, i)
           q == Purchase(d, k)
           Cand(x, m, o) ==
              /\ o \in Ids(x) /\ x[o].type = "purchase"
              /\ x[o].key = x[m].key /\ x[o].ts > x[m].ts
              /\ x[AnchorEvent(x, m)].ts <= x[o].ts
              /\ x[o].ts <= x[AnchorEvent(x, m)].ts + Window
<1>1. /\ AnchorEvent(b, i) # None /\ Cand(b, i, p)
      /\ \A o : Cand(b, i, o) => Precedes(b, p, o)
  BY RowCredits
<1>2. /\ AnchorEvent(d, k) # None /\ Cand(d, k, q)
      /\ \A o : Cand(d, k, o) => Precedes(d, q, o)
  BY RowCredits
<1>3. /\ p \in Ids(b) /\ q \in Ids(b) /\ j \in Ids(b) /\ j + 1 \in Ids(b)
      /\ Len(b) \in Nat
  <2>1. Len(b) \in Nat /\ j \in Ids(b) /\ j + 1 \in Ids(b)
    BY DEF Ids
  <2> QED
    BY <1>1, <1>2, <2>1
<1>4. \A o \in Ids(b) : Cand(b, i, o) => Cand(d, k, Swap(j, o))
  BY <1>1, <1>2
<1>5. \A o \in Ids(b) : Cand(d, k, o) => Cand(b, i, Swap(j, o))
  BY <1>1, <1>2
<1>6. /\ d[q].type = "purchase" /\ d[q].key = b[i].key /\ b[p].key = b[i].key
      /\ b[p].type = "purchase" /\ d[q].ts = b[p].ts
  BY <1>1, <1>2
<1>7. ASSUME NEW o \in Ids(b), b[o].type = "purchase", b[o].key = b[p].key,
             b[o].ts = b[p].ts
      PROVE  Cand(b, i, o)
  <2>1. /\ b[p].key = b[i].key /\ b[p].ts > b[i].ts
        /\ b[AnchorEvent(b, i)].ts <= b[p].ts
        /\ b[p].ts <= b[AnchorEvent(b, i)].ts + Window
    BY <1>1
  <2> QED
    BY <1>7, <2>1
<1>8. \A o \in Ids(b) : o \in Nat /\ b[o].ts \in Nat /\ d[o].ts \in Nat
  BY EventsHaveTimes
<1>0. \A o : Swap(j, o) = IF o = j THEN j + 1 ELSE IF o = j + 1 THEN j ELSE o
  BY <1>3, <1>8 DEF Swap
<1> HIDE DEF Cand, p, q
<1>9. Precedes(b, p, Swap(j, q)) /\ Precedes(d, q, Swap(j, p))
  BY <1>1, <1>2, <1>3, <1>4, <1>5
<1>10. p <= Swap(j, q) /\ q <= Swap(j, p)
  BY <1>3, <1>6, <1>8, <1>9 DEF Precedes
<1>11. CASE Tied(b, j) /\ p = j
  <2>1. Cand(b, i, j + 1) /\ Swap(j, j + 1) = j
    BY <1>0, <1>3, <1>7, <1>8, <1>11 DEF Tied
  <2>2. Precedes(d, q, j) /\ d[j].ts = b[p].ts
    <3>1. Cand(d, k, j)
      BY <1>3, <1>4, <2>1
    <3>2. d[j] = b[j + 1]
      BY <1>3, <2>1
    <3> QED
      BY <1>2, <1>11, <3>1, <3>2 DEF Tied
  <2>3. q <= j
    BY <1>3, <1>6, <1>8, <2>2 DEF Precedes
  <2>4. q = j
    <3>1. /\ q \in Int /\ j \in Int
          /\ Swap(j, q) = (IF q = j THEN j + 1 ELSE IF q = j + 1 THEN j ELSE q)
      <4>1. Swap(j, q) = (IF q = j THEN j + 1 ELSE IF q = j + 1 THEN j ELSE q)
        BY ONLY <1>0
      <4> QED
        BY <1>3, <1>8, <4>1
    <3> QED
      BY ONLY <1>10, <1>11, <2>3, <3>1
  <2>5. d[q] = b[j + 1]
    BY <1>3, <2>1, <2>4
  <2> QED
    BY <1>11, <2>5 DEF p, q
<1>12. CASE ~(Tied(b, j) /\ p = j)
  <2>1. ~(p = j /\ q = j)
    <3> SUFFICES ASSUME p = j, q = j
                 PROVE  FALSE
      OBVIOUS
    <3>1. d[q] = b[j + 1]
      BY <1>0, <1>3
    <3>2. Tied(b, j)
      BY <1>6, <3>1 DEF Tied
    <3> QED
      BY <1>12, <3>2
  <2>2. /\ p \in Int /\ q \in Int /\ j \in Int
        /\ Swap(j, p) = (IF p = j THEN j + 1 ELSE IF p = j + 1 THEN j ELSE p)
        /\ Swap(j, q) = (IF q = j THEN j + 1 ELSE IF q = j + 1 THEN j ELSE q)
    BY <1>0, <1>3, <1>8
  <2>3. q = Swap(j, p)
    BY ONLY <1>10, <2>1, <2>2
  <2>4. d[q] = b[p]
    BY <1>3, <2>3
  <2> QED
    BY <1>12, <2>4 DEF p, q
<1> QED
  BY <1>11, <1>12

(* The order in which the sink's rows reached bronze matters to            *)
(* build_label_rows in nothing but the amount of two purchases of one key  *)
(* and time: neighbours may change places, and every other order is        *)
(* reached by such changes.                                                *)
THEOREM ArrivalOrderSettlesTies == Spec => []ArrivalOrderOnlySettlesTies
<1>1. TypeOK => ArrivalOrderOnlySettlesTies
  <2> DEFINE place(j, i) == CASE i = j -> j + 1
                              [] i = j + 1 -> j
                              [] OTHER -> i
  <2> SUFFICES ASSUME bronze \in Seq(Event), NEW j \in 1..(Len(bronze) - 1),
                      NEW i \in Impressions(bronze)
               PROVE  LabelRow(Swapped(bronze, j), place(j, i))
                        = [LabelRow(bronze, i) EXCEPT !.amount =
                              IF Tied(bronze, j) /\ Purchase(bronze, i) = j
                              THEN bronze[j + 1].amount ELSE @]
    BY DEF TypeOK, ArrivalOrderOnlySettlesTies
  <2> DEFINE d == Swapped(bronze, j)
             k == place(j, i)
  <2>1. /\ Len(bronze) \in Nat /\ j \in Ids(bronze) /\ j + 1 \in Ids(bronze)
        /\ j # j + 1 /\ Ids(bronze) = 1..Len(bronze)
        /\ \A o \in Ids(bronze) : bronze[o] \in Event
    BY EventsHaveTimes DEF Ids
  <2>2. \A o \in Ids(bronze) : place(j, o) \in Ids(bronze)
                               /\ d[place(j, o)] = bronze[o]
                               /\ bronze[place(j, o)] = d[o]
    BY <2>1 DEF Swapped
  <2>3. d \in Seq(Event) /\ Ids(d) = Ids(bronze)
    <3>1. d \in [1..Len(bronze) -> Event]
      BY <2>1 DEF Swapped
    <3>2. d \in Seq(Event)
      BY <2>1, <3>1, SeqDef
    <3>3. Len(d) = Len(bronze)
      BY <2>1, <3>1, <3>2, LenProperties
    <3> QED
      BY <3>2, <3>3 DEF Ids
  <2>4. i \in Ids(bronze) /\ k \in Ids(d) /\ d[k] = bronze[i]
    BY <2>2, <2>3 DEF Impressions
  <2>5. k \in Impressions(d)
    BY <2>3, <2>4 DEF Impressions, Skipped, IsImpression
  <2>6. /\ \A o \in Ids(bronze) : \E p \in Ids(d) : d[p] = bronze[o]
        /\ \A p \in Ids(d) : \E o \in Ids(bronze) : bronze[o] = d[p]
    BY <2>2, <2>3
  <2>7. \A o : place(j, o) = Swap(j, o)
    BY DEF Swap
  <2> HIDE DEF d, k, place
  <2>8. /\ Date(d, Click(d, k)) = Date(bronze, Click(bronze, i))
        /\ Date(d, Cart(d, k)) = Date(bronze, Cart(bronze, i))
        /\ Date(d, Purchase(d, k)) = Date(bronze, Purchase(bronze, i))
        /\ Label(d, k) = Label(bronze, i)
        /\ AnchorEvent(bronze, i) = None <=> AnchorEvent(d, k) = None
        /\ AnchorEvent(bronze, i) # None =>
              bronze[AnchorEvent(bronze, i)].ts = d[AnchorEvent(d, k)].ts
        /\ Purchase(bronze, i) = None <=> Purchase(d, k) = None
        /\ Purchase(bronze, i) # None =>
              bronze[Purchase(bronze, i)].ts = d[Purchase(d, k)].ts
    BY <2>3, <2>4, <2>5, <2>6, DatesDependOnEvents
  <2>9. Amount(d, Purchase(d, k)) =
           IF Tied(bronze, j) /\ Purchase(bronze, i) = j
           THEN bronze[j + 1].amount ELSE Amount(bronze, Purchase(bronze, i))
    <3>1. CASE Purchase(bronze, i) = None
      BY <2>1, <2>8, <3>1, EventsHaveTimes DEF Amount
    <3>2. CASE Purchase(bronze, i) # None
      <4>1. \A o \in Ids(bronze) : /\ Swap(j, o) \in Ids(bronze)
                                   /\ d[Swap(j, o)] = bronze[o]
                                   /\ bronze[Swap(j, o)] = d[o]
        BY <2>2, <2>7
      <4>2. d[Purchase(d, k)].amount =
               IF Tied(bronze, j) /\ Purchase(bronze, i) = j
               THEN bronze[j + 1].amount ELSE bronze[Purchase(bronze, i)].amount
        BY <2>3, <2>4, <2>5, <2>8, <3>2, <4>1, SwapMovesPurchase
      <4> QED
        BY <2>8, <3>2, <4>2 DEF Amount
    <3> QED
      BY <3>1, <3>2
  <2>10. LabelRow(d, k) = [LabelRow(bronze, i) EXCEPT !.amount =
                              IF Tied(bronze, j) /\ Purchase(bronze, i) = j
                              THEN bronze[j + 1].amount ELSE @]
    BY <2>8, <2>9 DEF LabelRow
  <2> QED
    BY <2>10 DEF d, k
<1> QED
  BY <1>1, TypeCorrect, PTL

-----------------------------------------------------------------------------
(* What each version has established of the event when it hands it on: the *)
(* envelope dropped the snake_case name and wrote out nulls, the sink only *)
(* stored what Event.kt parses, the batch classified what is stored.       *)
Underway == {"topic", "bronze"}
Ended == {"broken", "partial", "fatal", "filed"}

WrittenByApi(e) ==
    /\ e.eventId \in {"blank", "text"}
    /\ e.session_id = "absent"
    /\ e.sessionId \in {"null", "text"}

ContractInv ==
    /\ at \in {"nowhere", "client", "refused", "skipped"} \cup Underway \cup Ended
    /\ throughApi \in BOOLEAN
    /\ at # "nowhere" => event \in WireEvent
    /\ at = "nowhere" => throughApi = FALSE
    /\ (throughApi /\ at \in Underway \cup Ended) => WrittenByApi(event)
    /\ at \in {"bronze"} \cup Ended => Parses
    /\ at \in Ended => at = Fate

-----------------------------------------------------------------------------
(* The envelope makes an event out of an event.                            *)
LEMMA EnrichedIsAnEvent ==
  ASSUME event \in WireEvent, Binds
  PROVE  Enriched \in WireEvent /\ WrittenByApi(Enriched)
<1> DEFINE Times == {"absent", "blank", "naive", "zoned", "lower", "epoch",
                     "padded", "hour24", "leapSecond", "farYear"}
           id == IF event.eventId = "blank" THEN event.eventId ELSE "text"
           ts == IF event.ts = "absent" THEN "zoned" ELSE event.ts
           s == Bound(event.sessionId)
<1>1. event.ts \in Times /\ event.sessionId \in {"absent", "null", "text", "number"}
  BY DEF WireEvent, Binds
<1>2. Bound(event.sessionId) \in {"null", "text"}
  BY <1>1 DEF Bound
<1>3. Enriched = [event EXCEPT !.eventId = id, !.ts = ts, !.sessionId = s,
                               !.session_id = "absent"]
  BY DEF Enriched, WireEvent
<1>4. id \in {"blank", "text"} /\ ts \in Times /\ s \in {"null", "text"}
  BY <1>1, <1>2
<1> HIDE DEF id, ts, s
<1>5. Enriched = [eventId |-> id, eventType |-> event.eventType, ts |-> ts,
                  sessionId |-> s, session_id |-> "absent",
                  context |-> event.context, requestId |-> event.requestId,
                  request_id |-> event.request_id]
  BY ONLY event \in WireEvent, <1>3 DEF WireEvent
<1>6. /\ event.eventType \in {"absent", "unknown", "ordinal", "impression",
                              "outcome"}
      /\ event.context \in {"null", "object", "list"}
      /\ event.requestId \in {"absent", "null", "text", "number", "list"}
      /\ event.request_id \in {"absent", "text", "list"}
  BY DEF WireEvent
<1> QED
  BY ONLY <1>4, <1>5, <1>6 DEF WireEvent, WrittenByApi

LEMMA ContractInvHolds == IntakeSpec => []ContractInv
<1>1. IntakeInit => ContractInv
  BY DEF IntakeInit, ContractInit, ContractInv, Underway, Ended
<1>2. ContractInv /\ [IntakeNext]_intakeVars => ContractInv'
  <2> SUFFICES ASSUME ContractInv, [IntakeNext]_intakeVars
               PROVE  ContractInv'
    OBVIOUS
  <2>1. CASE Post
    <3>1. event' \in WireEvent
      BY <2>1, ContractAssumption DEF Post
    <3> QED
      BY <2>1, <3>1 DEF Post, ContractInv, Underway, Ended
  <2>2. CASE WriteToTopic
    <3>1. event' \in WireEvent
      BY <2>2, ContractAssumption DEF WriteToTopic
    <3> QED
      BY <2>2, <3>1 DEF WriteToTopic, ContractInv, Underway, Ended
  <2>3. CASE Refuse
    BY <2>3 DEF Refuse, ContractInv, Underway, Ended
  <2>4. CASE Ingest
    <3>1. event \in WireEvent
      BY <2>4 DEF Ingest, ContractInv
    <3>2. event' \in WireEvent /\ WrittenByApi(event')
      BY <2>4, <3>1, EnrichedIsAnEvent DEF Ingest
    <3> QED
      BY <2>4, <3>2 DEF Ingest, ContractInv, Underway, Ended
  <2>5. CASE SinkSkips
    BY <2>5 DEF SinkSkips, ContractInv, Underway, Ended
  <2>6. CASE SinkStores
    BY <2>6 DEF SinkStores, ContractInv, Underway, Ended, Parses
  <2>7. CASE BatchReads
    <3>1. Fate \in Ended /\ event' = event
      BY <2>7 DEF Fate, Ended, BatchReads
    <3>2. Fate' = Fate /\ (Parses <=> Parses')
      BY <3>1 DEF Fate, Parses, ParseEvent, AttributionKey
    <3> QED
      BY <2>7, <3>1, <3>2 DEF BatchReads, ContractInv, Underway, Ended
  <2>8. CASE Collect \/ Lost
    BY <2>8 DEF Collect, Lost, FollowAnother, ContractInv, Underway, Ended
  <2>9. CASE UNCHANGED contractVars
    <3>1. event' = event /\ at' = at /\ throughApi' = throughApi
      BY <2>9 DEF contractVars
    <3>2. Fate' = Fate /\ (Parses <=> Parses')
      BY <3>1 DEF Fate, Parses, ParseEvent, AttributionKey
    <3> QED
      BY <3>1, <3>2 DEF ContractInv
  <2> QED
    BY <2>1, <2>2, <2>3, <2>4, <2>5, <2>6, <2>7, <2>8, <2>9
       DEF IntakeNext, intakeVars, Unfollowed, Followed, ContractNext
<1> QED
  BY <1>1, <1>2, PTL DEF IntakeSpec

-----------------------------------------------------------------------------
(* py_common's event.py mirrors Event.kt up to this: of what the sink      *)
(* stored, the batch finds broken or renames exactly the events that       *)
(* Reconciled names, and it files under another key or dies of no others.  *)
THEOREM ContractsAgree == IntakeSpec => []ContractMirrored
<1>1. ContractInv => ContractMirrored
  <2> SUFFICES ASSUME ContractInv, at \in Ended
               PROVE  Reconciled
    BY DEF ContractMirrored, Read, Ended
  <2>1. /\ event \in WireEvent /\ throughApi \in BOOLEAN /\ at = Fate /\ Parses
        /\ throughApi =>
              /\ event.eventId \in {"blank", "text"}
              /\ event.session_id = "absent"
              /\ event.sessionId \in {"null", "text"}
    BY DEF ContractInv, Ended, WrittenByApi
  <2> DEFINE plain(camel, snake) == ~TwiceNamed(camel, snake) /\ camel # "number"
             request == event.context = "object" =>
                           plain(event.requestId, event.request_id)
             session == plain(event.sessionId, event.session_id)
  <2>2. at = "broken" <=> \/ event.eventId \in {"blank", "zero", "false"}
                          \/ event.eventType = "ordinal"
                          \/ OnlyInstantTakes
    <3>1. at = "broken" <=> ~ParseEvent
      BY <2>1 DEF Fate
    <3>2. /\ event.eventId \notin {"absent", "list"}
          /\ event.eventType \in {"impression", "outcome", "ordinal"}
          /\ event.ts \in {"zoned", "lower", "epoch", "padded", "hour24",
                           "leapSecond", "farYear"}
      BY <2>1 DEF Parses, WireEvent
    <3>3. /\ ParseEvent <=>
                /\ event.eventId \notin {"blank", "zero", "false"}
                /\ event.eventType # "ordinal"
                /\ ~OnlyInstantTakes
      BY <3>2 DEF ParseEvent, OnlyInstantTakes
    <3> QED
      BY <3>1, <3>3
  <2>10. ImpressionId = event.eventId
            <=> throughApi \/ event.eventId \notin {"true", "fraction"}
    BY <2>1 DEF ImpressionId
  <2>3. /\ session => Get(event.sessionId, event.session_id)
                        = AsString(event.sessionId)
        /\ throughApi => session
    BY <2>1 DEF Get, AsString, TwiceNamed, WireEvent
  <2>4. request => AttributionKey[2] = KotlinKey[2]
    BY <2>1 DEF AttributionKey, KotlinKey, Get, AsString, TwiceNamed, WireEvent
  <2>5. request /\ (throughApi \/ session) => AttributionKey = KotlinKey
    BY <2>3, <2>4 DEF AttributionKey, KotlinKey
  <2>6. at = "fatal" => "list" \in {AttributionKey[1], AttributionKey[2]}
    BY <2>1 DEF Fate, Unhashable
  <2>7. "list" \notin {KotlinKey[1], KotlinKey[2]}
    BY <2>1 DEF KotlinKey, AsString, Parses, WireEvent
  <2>8. at = "fatal" => ~request \/ ~session
    BY <2>5, <2>6, <2>7
  <2>9. ASSUME at = "fatal", throughApi
        PROVE  event.requestId = "absent" /\ event.request_id = "list"
    <3>1. Get(event.sessionId, event.session_id) # "list"
      BY <2>1, <2>9 DEF Get
    <3>2. AttributionKey[2] = "list"
      BY <2>6, <2>9, <3>1 DEF AttributionKey
    <3>3. /\ event.context = "object" /\ event.requestId # "list"
          /\ Get(event.requestId, event.request_id) = "list"
      BY <2>1, <3>2 DEF AttributionKey, Parses
    <3> QED
      BY <2>1, <3>3 DEF Get, WireEvent
  <2> QED
    BY <2>2, <2>5, <2>8, <2>9, <2>10 DEF Reconciled
<1> QED
  BY <1>1, ContractInvHolds, PTL

(* The table the contract fills grows like that of Attribution, so what is *)
(* proved there of every table is true of this one; and the key an event   *)
(* is filed under there has the parts that the sink saw, as far as the     *)
(* event names them as the contract does.                                  *)
THEOREM IntakeFillsBronze == IntakeSpec => Spec /\ JoinableAsTheSinkSawIt
<1>1. IntakeInit => Init
  BY DEF IntakeInit
<1>2. [IntakeNext]_intakeVars => [Next]_bronze
  BY DEF IntakeNext, intakeVars, Unfollowed, Followed, Collect, Lost, Next
<1>3. IntakeSpec => Spec
  BY <1>1, <1>2, PTL DEF IntakeSpec, Spec
<1> DEFINE New == bronze'[Len(bronze')]
           Named == /\ throughApi
                    /\ event.context = "object" => event.requestId # "absent"
           Joins == /\ New.type = "impression" <=> event.eventType = "impression"
                    /\ Named => (New.key \in FullKeys <=> ~Lacks(KotlinKey))
<1>4. TypeOK /\ ContractInv /\ [IntakeNext]_intakeVars =>
         (Len(bronze) < Len(bronze') /\ at # "nowhere" => Joins)
  <2> SUFFICES ASSUME TypeOK, ContractInv, [IntakeNext]_intakeVars,
                      Len(bronze) < Len(bronze'), at # "nowhere"
               PROVE  Joins
    OBVIOUS
  <2>1. bronze \in Seq(Event) /\ Len(bronze) \in Nat /\ bronze' # bronze
    BY DEF TypeOK
  <2>2. Collect
    BY <2>1 DEF IntakeNext, intakeVars, Unfollowed, Followed, Lost
  <2>3. PICK e \in Arriving : MayBe(e) /\ bronze' = Append(bronze, e)
    BY <2>2 DEF Collect, Arrive
  <2>4. New = e
    BY <2>1, <2>3, AttributionAssumption, AppendProperties
  <2>5. /\ e.type = "impression" <=> event.eventType = "impression"
        /\ e.key \in FullKeys <=> ~Lacks(AttributionKey)
    BY <2>3, AttributionAssumption DEF MayBe
  <2>6. ASSUME Named
        PROVE  Lacks(AttributionKey) <=> Lacks(KotlinKey)
    <3>1. /\ event \in WireEvent /\ event.session_id = "absent"
          /\ event.sessionId \in {"null", "text"}
      BY <2>2, <2>6 DEF Collect, ContractInv, Ended, WrittenByApi
    <3>2. AttributionKey[1] = "none" <=> KotlinKey[1] = "none"
      BY <3>1 DEF AttributionKey, KotlinKey, Get, AsString
    <3>3. AttributionKey[2] = "none" <=> KotlinKey[2] = "none"
      BY <2>6, <3>1 DEF AttributionKey, KotlinKey, Get, AsString, WireEvent
    <3> QED
      BY <3>2, <3>3 DEF Lacks
  <2> HIDE DEF New, Named
  <2> QED
    BY <2>4, <2>5, <2>6
<1> QED
  BY <1>3, <1>4, TypeCorrect, ContractInvHolds, PTL
     DEF IntakeSpec, JoinableAsTheSinkSawIt
=============================================================================
