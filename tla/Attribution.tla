---------------------------- MODULE Attribution ----------------------------
(***************************************************************************)
(* apps/pipelines/label.py: which click, cart and purchase events of the   *)
(* bronze table are credited to which impression (attribution v1).         *)
(*                                                                         *)
(* The module is about the pure function build_label_rows: bronze grows by *)
(* one event at a time, in the order in which events happen to arrive, and *)
(* the labels are what a run over that bronze computes.  LabelBatch.tla    *)
(* has the runs, their transactions and their failures.                    *)
(***************************************************************************)
EXTENDS Integers, Sequences

CONSTANTS
    FullKeys,     \* (session, request, item) with nothing missing
    PartialKeys,  \* keys with a None in them, a missing item included
    Window,       \* _PURCHASE_WINDOW
    Amounts,      \* context.amount of purchases
    MaxTs,        \* bound: timestamps are 0..MaxTs
    MaxEvents,    \* bound: events that reach bronze
    Arriving      \* events tried

(* An event is named by its row id, its place in bronze; None is no event, *)
(* and no amount.                                                          *)
None == 0

(* The amount counts in purchases alone: elsewhere there is none.          *)
Types == {"impression", "click", "cart", "purchase"}
Event ==
    [type : Types \ {"purchase"}, key : FullKeys \cup PartialKeys,
     ts : 0..MaxTs, amount : {None}]
    \cup [type : {"purchase"}, key : FullKeys \cup PartialKeys,
          ts : 0..MaxTs, amount : Amounts \cup {None}]

ASSUME AttributionAssumption ==
    /\ FullKeys \cap PartialKeys = {}
    /\ Window \in Nat
    /\ Amounts \subseteq Nat \ {0}
    /\ MaxTs \in Nat
    /\ MaxEvents \in Nat
    /\ Arriving \subseteq Event

VARIABLE bronze   \* the events of events_raw, in row id order

Ids(b) == 1..Len(b)

-----------------------------------------------------------------------------
(* build_label_rows, first pass: impressions and buckets.                  *)

IsImpression(b, i) == b[i].type = "impression"

Skipped(b) == {i \in Ids(b) : IsImpression(b, i) /\ b[i].key \in PartialKeys}
Impressions(b) == {i \in Ids(b) : IsImpression(b, i)} \ Skipped(b)

(* Wrong on purpose: outcomes are looked up without regard to the key.     *)
BucketOfAll(b, k, type) == {i \in Ids(b) : b[i].type = type}

Bucket(b, k, type) == {i \in Ids(b) : b[i].key = k /\ b[i].type = type}

(* min(candidates, key=ts): the earliest, the first in bronze among ties.  *)
Precedes(b, i, j) == b[i].ts < b[j].ts \/ (b[i].ts = b[j].ts /\ i <= j)

(* Wrong on purpose: the first to arrive instead of the earliest.          *)
FirstArrived(b, S) == CHOOSE i \in S : \A j \in S : i <= j

Earliest(b, S) == CHOOSE i \in S : \A j \in S : Precedes(b, i, j)

(* Wrong on purpose: an event at the very time of the impression follows.  *)
EarliestFrom(b, S, t) ==
    LET candidates == {i \in S : b[i].ts >= t}
    IN  IF candidates = {} THEN None ELSE Earliest(b, candidates)

EarliestAfter(b, S, t) ==
    LET candidates == {i \in S : b[i].ts > t}
    IN  IF candidates = {} THEN None ELSE Earliest(b, candidates)

EarliestInWindow(b, S, anchor) ==
    LET candidates == {i \in S : anchor <= b[i].ts /\ b[i].ts <= anchor + Window}
    IN  IF candidates = {} THEN None ELSE Earliest(b, candidates)

-----------------------------------------------------------------------------
(* build_label_rows, second pass: one row per impression.                  *)

Click(b, i) == EarliestAfter(b, Bucket(b, b[i].key, "click"), b[i].ts)
Cart(b, i) == EarliestAfter(b, Bucket(b, b[i].key, "cart"), b[i].ts)

(* Wrong on purpose: whichever of click and cart came first.               *)
AnchorEventMin(b, i) ==
    IF Click(b, i) = None \/ Cart(b, i) = None
    THEN IF Click(b, i) # None THEN Click(b, i) ELSE Cart(b, i)
    ELSE Earliest(b, {Click(b, i), Cart(b, i)})

(* The event whose time opens the purchase window.                         *)
AnchorEvent(b, i) == IF Click(b, i) # None THEN Click(b, i) ELSE Cart(b, i)

Purchase(b, i) ==
    IF AnchorEvent(b, i) = None
    THEN None
    ELSE EarliestInWindow(b, Bucket(b, b[i].key, "purchase"),
                          b[AnchorEvent(b, i)].ts)

Label(b, i) ==
    IF Purchase(b, i) # None THEN 3
    ELSE IF Cart(b, i) # None THEN 2
    ELSE IF Click(b, i) # None THEN 1
    ELSE 0

(* What a row of impression_label says of impression i.                    *)
Date(b, i) == IF i = None THEN None ELSE b[i].ts + 1
Amount(b, i) == IF i = None THEN None ELSE b[i].amount
LabelRow(b, i) ==
    [click |-> Date(b, Click(b, i)), cart |-> Date(b, Cart(b, i)),
     purchase |-> Date(b, Purchase(b, i)), label |-> Label(b, i),
     amount |-> Amount(b, Purchase(b, i))]

-----------------------------------------------------------------------------
Init == bronze = <<>>

(* The sink stores an event; its time says nothing about when it arrives.  *)
Arrive(e) ==
    /\ Len(bronze) < MaxEvents
    /\ bronze' = Append(bronze, e)

Next == \E e \in Arriving : Arrive(e)

Spec == Init /\ [][Next]_bronze

-----------------------------------------------------------------------------
TypeOK ==
    /\ bronze \in Seq(Event)
    /\ \A i \in Impressions(bronze) :
          {Click(bronze, i), Cart(bronze, i), Purchase(bronze, i)}
              \subseteq Ids(bronze) \cup {None}

(* A row never credits an impression with what came before it, at its own  *)
(* time, or from another key; a purchase lies in the closed window that    *)
(* the credited click, or failing that the credited cart, opens; and a     *)
(* purchase is never credited without one of them, as the init block of    *)
(* serving's ImpressionLabel requires of every row it reads back.          *)
CreditFollowsImpression ==
    \A i \in Impressions(bronze) :
        LET click == Click(bronze, i)
            cart == Cart(bronze, i)
            purchase == Purchase(bronze, i)
            Later(o, type) == /\ bronze[o].type = type
                              /\ bronze[o].key = bronze[i].key
                              /\ bronze[o].ts > bronze[i].ts
            Opens(a) == /\ bronze[a].ts <= bronze[purchase].ts
                        /\ bronze[purchase].ts <= bronze[a].ts + Window
        IN  /\ click # None => Later(click, "click")
            /\ cart # None => Later(cart, "cart")
            /\ purchase # None =>
                  /\ Later(purchase, "purchase")
                  /\ \/ click # None /\ Opens(click)
                     \/ click = None /\ cart # None /\ Opens(cart)

(* docs/data-model.md says the label is the strongest signal observed: a   *)
(* row has label 0 only if bronze has no later click or cart of its key,   *)
(* at least 2 if there is a later cart, and 3 if a purchase is in the      *)
(* window of the earliest later click, or of the earliest later cart where *)
(* there is no later click, whatever else there is.                        *)
NoSignalDropped ==
    \A i \in Impressions(bronze), o \in Ids(bronze) :
        LET label == Label(bronze, i)
            Later(x, type) == /\ bronze[x].type = type
                              /\ bronze[x].key = bronze[i].key
                              /\ bronze[x].ts > bronze[i].ts
            First(x, type) == /\ Later(x, type)
                              /\ \A y \in Ids(bronze) : Later(y, type) =>
                                    bronze[x].ts <= bronze[y].ts
        IN  /\ Later(o, "click") => label >= 1
            /\ Later(o, "cart") => label >= 2
            /\ \A p \in Ids(bronze) :
                  /\ \/ First(o, "click")
                     \/ /\ First(o, "cart")
                        /\ \A x \in Ids(bronze) : ~Later(x, "click")
                  /\ Later(p, "purchase")
                  /\ bronze[o].ts <= bronze[p].ts
                  /\ bronze[p].ts <= bronze[o].ts + Window
                  => label = 3

(* The order in which events reached bronze, hence the page of iter_events *)
(* they are read in, matters to no date and no label: two neighbours may   *)
(* change places.  It does matter to purchase_amount: of two purchases of  *)
(* one key at one time min() takes the first in bronze, so the row says    *)
(* the amount of whichever of the two was stored first.                    *)
Swapped(b, j) == [i \in Ids(b) |-> CASE i = j -> b[j + 1]
                                     [] i = j + 1 -> b[j]
                                     [] OTHER -> b[i]]
Tied(b, j) ==
    /\ b[j].type = "purchase" /\ b[j + 1].type = "purchase"
    /\ b[j].key = b[j + 1].key
    /\ b[j].ts = b[j + 1].ts
ArrivalOrderOnlySettlesTies ==
    \A j \in 1..(Len(bronze) - 1), i \in Impressions(bronze) :
        LET place == CASE i = j -> j + 1
                       [] i = j + 1 -> j
                       [] OTHER -> i
        IN  LabelRow(Swapped(bronze, j), place) =
                [LabelRow(bronze, i) EXCEPT !.amount =
                    IF Tied(bronze, j) /\ Purchase(bronze, i) = j
                    THEN bronze[j + 1].amount ELSE @]

(* A late event adds to what is known of an impression: a credited click   *)
(* or cart is never taken back nor moved later.  The label still may fall, *)
(* but only from purchase, and only because the new event is the click or  *)
(* cart that now opens the window.                                         *)
LateEventEffect(i, new) ==
    /\ Click(bronze, i) # None =>
          /\ Click(bronze, i)' # None
          /\ bronze'[Click(bronze, i)'].ts <= bronze[Click(bronze, i)].ts
    /\ Cart(bronze, i) # None =>
          /\ Cart(bronze, i)' # None
          /\ bronze'[Cart(bronze, i)'].ts <= bronze[Cart(bronze, i)].ts
    /\ Label(bronze, i)' < Label(bronze, i) =>
          /\ Label(bronze, i) = 3
          /\ AnchorEvent(bronze, i)' = new
    /\ LabelRow(bronze, i)' # LabelRow(bronze, i) =>
          bronze'[new].key = bronze[i].key

LateEventsOnlyMoveTheAnchor ==
    [][ \A i \in Impressions(bronze) : LateEventEffect(i, Len(bronze')) ]_bronze
=============================================================================
