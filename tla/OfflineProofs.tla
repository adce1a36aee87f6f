-------------------------- MODULE OfflineProofs --------------------------
(***************************************************************************)
(* What the offline side promises holds whatever it is given.              *)
(*                                                                         *)
(* What the generator makes is plausible, whatever it draws and whatever   *)
(* the API answers: every exposure went down the funnel in order, no more  *)
(* than the end of the list is cut off, sessions overrun the window by no  *)
(* more than they may, and the labels tell how far the users went.         *)
(*                                                                         *)
(* The popularity of it is a weighted count, in any order of the events;   *)
(* the recommender returns the best of what is offered; and the metrics of *)
(* what it returns are shares that tell a better ranking from a worse one. *)
(***************************************************************************)
EXTENDS Offline, CommonLemmas, SequenceTheorems, FunctionTheorems

Emission == [type : Types, key : (Nat \ {0}) \X Items, slot : Nat \ {0}, ts : Nat]

InSession == pc \in {"show", "click", "cart", "purchase"}

(* How many events of the exposure at hand there are, and what they have   *)
(* cost in time at most.                                                   *)
Emitted == CASE pc = "click" -> 1
             [] pc = "cart" -> 2
             [] pc = "purchase" -> 3
             [] OTHER -> 0

Cost(n) == CASE n = 1 -> Longest(ImpressionGaps)
             [] n = 2 -> Longest(ImpressionGaps) + Longest(ClickGaps)
             [] n = 3 -> Longest(ImpressionGaps) + Longest(ClickGaps)
                             + Longest(CartGaps)
             [] n = 4 -> LongestFunnel
             [] OTHER -> 0

Slots(n) == n * LongestFunnel

SimTypeOK ==
    /\ config \in Configs
    /\ pc \in {"open", "show", "click", "cart", "purchase", "done", "failed"}
    /\ session \in Nat
    /\ shown \in Seq(Items)
    /\ slot \in Nat \ {0}
    /\ ts \in Nat
    /\ events \in Seq(Emission)

(* Two events of one session, in the order of emission.                    *)
Succeeds(e, f) ==
    /\ e.slot <= f.slot
    /\ e.ts <= f.ts
    /\ e.type = "impression" => e.ts < f.ts
    /\ f.ts <= e.ts + Slots(f.slot - e.slot + 1)
    /\ e.slot = f.slot => /\ e.key = f.key
                          /\ Stage(e.type) < Stage(f.type)
                          /\ e.ts < f.ts
    /\ config.source = "catalog" /\ e.key = f.key => e.slot = f.slot

MadeInOrder ==
    \A i, j \in 1..Len(events) :
        i < j /\ events[i].key[1] = events[j].key[1]
            => Succeeds(events[i], events[j])

NothingLeftOut ==
    \A i \in 1..Len(events) :
        /\ Stage(events[i].type) > 1 =>
              \E j \in 1..(i - 1) :
                  /\ events[j].key = events[i].key
                  /\ events[j].slot = events[i].slot
                  /\ Stage(events[j].type) = Stage(events[i].type) - 1
        /\ events[i].slot > 1 =>
              \E j \in 1..(i - 1) :
                  /\ events[j].key[1] = events[i].key[1]
                  /\ events[j].slot = events[i].slot - 1

InBounds ==
    \A i \in 1..Len(events) :
        /\ events[i].key[1] <= i
        /\ events[i].ts <= WindowEnd - HeldBack + Slots(events[i].slot)
        /\ config.source = "api" =>
              \E list \in ApiLists : events[i].slot <= Len(list)

(* What the generator knows of an event of the session at hand.            *)
Past(e) ==
    /\ e.slot <= slot
    /\ e.slot <= Len(shown)
    /\ e.key[2] = shown[e.slot]
    /\ e.ts <= ts
    /\ e.type = "impression" => e.ts < ts
    /\ ts <= e.ts + Slots(slot - e.slot) + Cost(Emitted)
    /\ e.slot = slot => Stage(e.type) <= Emitted

AtHand ==
    InSession =>
        /\ session \in 1..(Len(events) + 1)
        /\ config.source = "catalog" => IsInjective(shown)
        /\ config.source = "api" => shown \in ApiLists
        /\ ts <= WindowEnd - HeldBack + Slots(slot - 1) + Cost(Emitted)
        /\ Emitted > 0 => slot <= Len(shown)
        /\ \A i \in 1..Len(events) : events[i].key[1] = session => Past(events[i])
        /\ slot > 1 => \E j \in 1..Len(events) :
                           /\ events[j].key[1] = session
                           /\ events[j].slot = slot - 1
        /\ Emitted > 0 => \E j \in 1..Len(events) :
                           /\ events[j].key[1] = session
                           /\ events[j].slot = slot
                           /\ Stage(events[j].type) = Emitted

Returned ==
    Done => /\ Len(events) >= config.n_events
            /\ result = SortedByTs(FirstEvents(events))

IInv ==
    /\ SimTypeOK
    /\ MadeInOrder
    /\ NothingLeftOut
    /\ InBounds
    /\ AtHand
    /\ Returned
-----------------------------------------------------------------------------
(* Stages, gaps, and the arithmetic of times.                              *)
LEMMA StageIs ==
  /\ \A n \in 1..4 : Funnel[n] \in Types /\ Stage(Funnel[n]) = n
  /\ \A type \in Types : /\ Stage(type) \in 1..4
                         /\ Funnel[Stage(type)] = type
                         /\ Stage(type) = 1 <=> type = "impression"
<1>1. /\ Funnel[1] = "impression" /\ Funnel[2] = "click"
      /\ Funnel[3] = "cart" /\ Funnel[4] = "purchase"
  BY DEF Funnel
<1>2. \A n \in 1..4 : n = 1 \/ n = 2 \/ n = 3 \/ n = 4
  OBVIOUS
<1>3. \A n, m \in 1..4 : Funnel[n] = Funnel[m] => n = m
  BY <1>1, <1>2
<1>4. \A n \in 1..4 : Stage(Funnel[n]) = n
  BY <1>3 DEF Stage
<1>5. \A n \in 1..4 : Funnel[n] \in Types
  BY <1>1, <1>2 DEF Types
<1>6. \A type \in Types : \E n \in 1..4 : Funnel[n] = type
  BY <1>1 DEF Types
<1>7. \A n \in 1..4 : n = 1 <=> Funnel[n] = "impression"
  BY <1>1, <1>2
<1> QED
  BY <1>4, <1>5, <1>6, <1>7

LEMMA LongestIs ==
  ASSUME NEW gaps \in {ImpressionGaps, ClickGaps, CartGaps, PurchaseGaps}
  PROVE  /\ Longest(gaps) \in Nat
         /\ \A g \in gaps : g \in Nat /\ 0 < g /\ g <= Longest(gaps)
<1>1. gaps \subseteq Nat \ {0} /\ \E g \in gaps : \A h \in gaps : h <= g
  BY SimulatorAssumption
<1>2. Longest(gaps) \in gaps /\ \A h \in gaps : h <= Longest(gaps)
  BY <1>1 DEF Longest
<1>3. ASSUME NEW g \in gaps
      PROVE  g \in Nat /\ 0 < g
  <2>1. g \in Nat /\ g # 0
    BY <1>1
  <2> QED
    BY <2>1
<1> QED
  BY <1>2, <1>3

LEMMA Costs ==
  /\ \A n \in 0..4 : Cost(n) \in Nat /\ Cost(n) <= LongestFunnel
  /\ Cost(0) = 0 /\ Cost(1) = Longest(ImpressionGaps)
  /\ Cost(2) = Cost(1) + Longest(ClickGaps)
  /\ Cost(3) = Cost(2) + Longest(CartGaps)
  /\ Cost(4) = Cost(3) + Longest(PurchaseGaps)
  /\ LongestFunnel \in Nat
<1>1. /\ Longest(ImpressionGaps) \in Nat /\ Longest(ClickGaps) \in Nat
      /\ Longest(CartGaps) \in Nat /\ Longest(PurchaseGaps) \in Nat
  BY LongestIs
<1>2. /\ Cost(0) = 0 /\ Cost(1) = Longest(ImpressionGaps)
      /\ Cost(2) = Cost(1) + Longest(ClickGaps)
      /\ Cost(3) = Cost(2) + Longest(CartGaps)
      /\ Cost(4) = Cost(3) + Longest(PurchaseGaps)
      /\ Cost(4) = LongestFunnel
  BY DEF Cost, LongestFunnel
<1>3. \A n \in 0..4 : n = 0 \/ n = 1 \/ n = 2 \/ n = 3 \/ n = 4
  OBVIOUS
<1>4. /\ Cost(0) \in Nat /\ Cost(1) \in Nat /\ Cost(2) \in Nat
      /\ Cost(3) \in Nat /\ Cost(4) \in Nat
      /\ Cost(0) <= Cost(4) /\ Cost(1) <= Cost(4) /\ Cost(2) <= Cost(4)
      /\ Cost(3) <= Cost(4)
  BY <1>1, <1>2
<1>5. \A n \in 0..4 : Cost(n) \in Nat /\ Cost(n) <= Cost(4)
  BY <1>3, <1>4
<1> QED
  BY <1>2, <1>4, <1>5

LEMMA ClockChain ==
  ASSUME NEW t \in Int, NEW u \in Int, NEW v \in Int, NEW w \in Int,
         NEW a \in Int, NEW b \in Int, NEW c \in Int, NEW l \in Int,
         t <= u, u + b <= v + c, v <= w + a + b, c <= l
  PROVE  t <= w + (a + l)
OBVIOUS

LEMMA ClockStep ==
  ASSUME NEW u \in Int, NEW v \in Int, NEW w \in Int,
         NEW a \in Int, NEW b \in Int, NEW c \in Int,
         u + b <= v + c, v <= w + a + b
  PROVE  u <= w + a + c
OBVIOUS

LEMMA SlotsAre ==
  /\ \A a \in Int : Slots(a) \in Int /\ Slots(a + 1) = Slots(a) + LongestFunnel
  /\ \A a \in Nat : Slots(a) \in Nat
  /\ Slots(0) = 0
<1>1. LongestFunnel \in Nat
  BY Costs
<1> HIDE DEF LongestFunnel
<1> QED
  BY <1>1 DEF Slots

(* What an expression is after a step, when its variables are known.       *)
LEMMA EventsAppended ==
  ASSUME events \in Seq(Emission), NEW e \in Emission,
         events' = Append(events, e)
  PROVE  /\ events' \in Seq(Emission)
         /\ Len(events') = Len(events) + 1 /\ Len(events) \in Nat
         /\ \A i \in 1..Len(events) : events'[i] = events[i]
         /\ events'[Len(events) + 1] = e
         /\ 1..Len(events') = (1..Len(events)) \cup {Len(events) + 1}
<1>1. /\ events' \in Seq(Emission)
      /\ Len(events') = Len(events) + 1 /\ Len(events) \in Nat
      /\ \A i \in 1..Len(events) : events'[i] = events[i]
      /\ events'[Len(events) + 1] = e
  BY AppendProperties
<1> QED
  BY <1>1

-----------------------------------------------------------------------------
(* The four steps of the funnel have one shape: the event of stage n is    *)
(* emitted at time t, the clock goes on, and the exposure or the next one  *)
(* follows.                                                                *)
Emits(n, t) ==
    /\ n = Emitted + 1
    /\ slot <= Len(shown)
    /\ Emit(Funnel[n], t)
    /\ ts <= t /\ t <= ts'
    /\ n > 1 => ts < t
    /\ n = 1 => t < ts'
    /\ ts' + Cost(Emitted) <= ts + Cost(n)
    /\ \/ InSession' /\ Emitted' = n /\ slot' = slot
       \/ InSession' /\ Emitted' = 0 /\ slot' = slot + 1
    /\ UNCHANGED <<config, session, shown, result>>

LEMMA FunnelStep ==
  ASSUME SimTypeOK, AtHand, Show \/ Click \/ Cart \/ Purchase
  PROVE  /\ InSession /\ InSession' /\ ts' \in Nat
         /\ \E n \in 1..4, t \in Nat : Emits(n, t)
<1>0. ts \in Nat /\ slot \in Nat /\ Funnel[1] = "impression" /\ Funnel[2] = "click"
      /\ Funnel[3] = "cart" /\ Funnel[4] = "purchase"
  BY DEF SimTypeOK, Funnel
<1>1. CASE Show
  <2>1. PICK gap \in ImpressionGaps : ts' = ts + gap
    BY <1>1 DEF Show
  <2>2. gap \in Nat /\ 0 < gap /\ gap <= Longest(ImpressionGaps)
        /\ Longest(ImpressionGaps) \in Nat
    BY LongestIs
  <2>3. pc = "show" /\ Emitted = 0
    BY <1>1 DEF Show, Emitted
  <2>4. \/ pc' = "click" /\ slot' = slot
        \/ pc' = "show" /\ slot' = slot + 1
    BY <1>1 DEF Show, GoOn
  <2>5. \/ InSession' /\ Emitted' = 1 /\ slot' = slot
        \/ InSession' /\ Emitted' = 0 /\ slot' = slot + 1
    BY <2>4 DEF InSession, Emitted
  <2>6. Emit(Funnel[1], ts)
    BY <1>0, <1>1 DEF Show
  <2>7. ts <= ts' /\ ts < ts' /\ ts' \in Nat /\ ts' + Cost(0) <= ts + Cost(1)
    BY <1>0, <2>1, <2>2, Costs
  <2>8. slot <= Len(shown) /\ UNCHANGED <<config, session, shown, result>>
    BY <1>1 DEF Show
  <2>9. Emits(1, ts)
    BY <1>0, <2>3, <2>5, <2>6, <2>7, <2>8 DEF Emits
  <2>10. InSession
    BY <2>3 DEF InSession
  <2> QED
    BY <1>0, <2>5, <2>7, <2>9, <2>10
<1>2. CASE Click
  <2>1. PICK gap \in ClickGaps : ts' = ts + gap
    BY <1>2 DEF Click
  <2>2. gap \in Nat /\ 0 < gap /\ gap <= Longest(ClickGaps)
        /\ Longest(ClickGaps) \in Nat
    BY LongestIs
  <2>3. pc = "click" /\ Emitted = 1
    BY <1>2 DEF Click, Emitted
  <2>4. \/ pc' = "cart" /\ slot' = slot
        \/ pc' = "show" /\ slot' = slot + 1
    BY <1>2 DEF Click, GoOn
  <2>5. \/ InSession' /\ Emitted' = 2 /\ slot' = slot
        \/ InSession' /\ Emitted' = 0 /\ slot' = slot + 1
    BY <2>4 DEF InSession, Emitted
  <2>6. Emit(Funnel[2], ts')
    BY <1>0, <1>2 DEF Click
  <2>7. ts <= ts' /\ ts < ts' /\ ts' \in Nat /\ ts' + Cost(1) <= ts + Cost(2)
    BY <1>0, <2>1, <2>2, Costs
  <2>8. slot <= Len(shown) /\ UNCHANGED <<config, session, shown, result>>
    <3>1. InSession /\ Emitted > 0
      BY <2>3 DEF InSession
    <3> QED
      BY <1>2, <3>1 DEF Click, AtHand
  <2>9. Emits(2, ts')
    BY <1>0, <2>3, <2>5, <2>6, <2>7, <2>8 DEF Emits
  <2>10. InSession
    BY <2>3 DEF InSession
  <2> QED
    BY <2>5, <2>7, <2>9, <2>10
<1>3. CASE Cart
  <2>1. PICK gap \in CartGaps : ts' = ts + gap
    BY <1>3 DEF Cart
  <2>2. gap \in Nat /\ 0 < gap /\ gap <= Longest(CartGaps)
        /\ Longest(CartGaps) \in Nat
    BY LongestIs
  <2>3. pc = "cart" /\ Emitted = 2
    BY <1>3 DEF Cart, Emitted
  <2>4. \/ pc' = "purchase" /\ slot' = slot
        \/ pc' = "show" /\ slot' = slot + 1
    BY <1>3 DEF Cart, GoOn
  <2>5. \/ InSession' /\ Emitted' = 3 /\ slot' = slot
        \/ InSession' /\ Emitted' = 0 /\ slot' = slot + 1
    BY <2>4 DEF InSession, Emitted
  <2>6. Emit(Funnel[3], ts')
    BY <1>0, <1>3 DEF Cart
  <2>7. ts <= ts' /\ ts < ts' /\ ts' \in Nat /\ ts' + Cost(2) <= ts + Cost(3)
    BY <1>0, <2>1, <2>2, Costs
  <2>8. slot <= Len(shown) /\ UNCHANGED <<config, session, shown, result>>
    <3>1. InSession /\ Emitted > 0
      BY <2>3 DEF InSession
    <3> QED
      BY <1>3, <3>1 DEF Cart, AtHand
  <2>9. Emits(3, ts')
    BY <1>0, <2>3, <2>5, <2>6, <2>7, <2>8 DEF Emits
  <2>10. InSession
    BY <2>3 DEF InSession
  <2> QED
    BY <2>5, <2>7, <2>9, <2>10
<1>4. CASE Purchase
  <2>1. PICK gap \in PurchaseGaps : ts' = ts + gap
    BY <1>4 DEF Purchase
  <2>2. gap \in Nat /\ 0 < gap /\ gap <= Longest(PurchaseGaps)
        /\ Longest(PurchaseGaps) \in Nat
    BY LongestIs
  <2>3. pc = "purchase" /\ Emitted = 3
    BY <1>4 DEF Purchase, Emitted
  <2>5. InSession' /\ Emitted' = 0 /\ slot' = slot + 1
    BY <1>4 DEF Purchase, InSession, Emitted
  <2>6. Emit(Funnel[4], ts')
    BY <1>0, <1>4 DEF Purchase
  <2>7. ts <= ts' /\ ts < ts' /\ ts' \in Nat /\ ts' + Cost(3) <= ts + Cost(4)
    BY <1>0, <2>1, <2>2, Costs
  <2>8. slot <= Len(shown) /\ UNCHANGED <<config, session, shown, result>>
    <3>1. InSession /\ Emitted > 0
      BY <2>3 DEF InSession
    <3> QED
      BY <1>4, <3>1 DEF Purchase, AtHand
  <2>9. Emits(4, ts')
    BY <1>0, <2>3, <2>5, <2>6, <2>7, <2>8 DEF Emits
  <2>10. InSession
    BY <2>3 DEF InSession
  <2> QED
    BY <2>5, <2>7, <2>9, <2>10
<1> QED
  BY <1>1, <1>2, <1>3, <1>4

(* What an emission appends, and how it relates to what the session has    *)
(* emitted before.                                                         *)
LEMMA EmissionIs ==
  ASSUME SimTypeOK, AtHand, InSession, NEW n \in 1..4, NEW t \in Nat, ts' \in Nat,
         Emits(n, t)
  PROVE  LET e == EventAt(Funnel[n], t)
         IN  /\ e \in Emission
             /\ events' = Append(events, e)
             /\ e.type = Funnel[n] /\ Stage(e.type) = n /\ e.slot = slot /\ e.ts = t
             /\ e.key = <<session, shown[slot]>>
             /\ e.key[1] = session /\ e.key[2] = shown[slot]
             /\ e.type = "impression" <=> n = 1
<1> DEFINE e == EventAt(Funnel[n], t)
<1>1. /\ e.type = Funnel[n] /\ e.slot = slot /\ e.ts = t
      /\ e.key = <<session, shown[slot]>>
      /\ e = [type |-> Funnel[n], key |-> <<session, shown[slot]>>,
              slot |-> slot, ts |-> t]
  BY DEF EventAt
<1>2. session \in Nat \ {0}
  BY DEF AtHand, SimTypeOK
<1>3. shown[slot] \in Items
  <2>1. slot \in 1..Len(shown)
    BY DEF Emits, SimTypeOK
  <2> QED
    BY <2>1 DEF SimTypeOK
<1>4. Funnel[n] \in Types /\ Stage(Funnel[n]) = n
  BY StageIs
<1>5. e \in Emission
  BY <1>1, <1>2, <1>3, <1>4 DEF Emission, SimTypeOK
<1>6. events' = Append(events, e)
  BY DEF Emits, Emit
<1>7. e.type = "impression" <=> n = 1
  BY <1>1, <1>4, StageIs
<1> QED
  BY <1>1, <1>4, <1>5, <1>6, <1>7

LEMMA EmissionSucceeds ==
  ASSUME SimTypeOK, AtHand, InSession, NEW n \in 1..4, NEW t \in Nat, ts' \in Nat,
         Emits(n, t),
         NEW f \in Emission, f.key[1] = session, Past(f)
  PROVE  Succeeds(f, EventAt(Funnel[n], t))
<1> DEFINE e == EventAt(Funnel[n], t)
<1>1. /\ e.slot = slot /\ e.ts = t /\ Stage(e.type) = n
      /\ e.key = <<session, shown[slot]>>
  BY EmissionIs
<1>2. /\ slot \in Nat /\ ts \in Nat /\ ts' + Cost(Emitted) <= ts + Cost(n)
      /\ ts <= t /\ t <= ts' /\ slot <= Len(shown)
      /\ n = Emitted + 1 /\ (n > 1 => ts < t)
      /\ slot \in 1..Len(shown)
  BY DEF SimTypeOK, Emits
<1>3. /\ f.slot <= slot /\ f.slot <= Len(shown) /\ f.key[2] = shown[f.slot]
      /\ f.ts <= ts /\ (f.type = "impression" => f.ts < ts)
      /\ ts <= f.ts + Slots(slot - f.slot) + Cost(Emitted)
      /\ f.slot = slot => Stage(f.type) <= Emitted
  BY DEF Past
<1>4. f.slot \in Nat \ {0} /\ f.ts \in Nat /\ f.type \in Types /\ Stage(f.type) \in 1..4
      /\ f.key = <<f.key[1], f.key[2]>>
  BY StageIs DEF Emission
<1>0. Emitted \in 0..3
  BY DEF Emitted
<1>5. /\ Cost(Emitted) \in Nat /\ Cost(n) \in Nat /\ Cost(n) <= LongestFunnel
      /\ LongestFunnel \in Nat
  <2>1. Emitted \in 0..4 /\ n \in 0..4
    BY <1>0
  <2> QED
    BY <2>1, Costs
<1>6. /\ Slots(slot - f.slot) \in Nat
      /\ Slots(slot - f.slot + 1) = Slots(slot - f.slot) + LongestFunnel
  <2>1. slot - f.slot \in Nat /\ slot - f.slot \in Int
    BY <1>2, <1>3, <1>4
  <2> QED
    BY <2>1, SlotsAre
<1>7. t <= f.ts + Slots(slot - f.slot + 1)
  <2>1. PICK a \in Nat, b \in Nat, c \in Nat, L \in Nat :
           /\ a = Slots(slot - f.slot) /\ b = Cost(Emitted) /\ c = Cost(n)
           /\ L = LongestFunnel
    BY <1>5, <1>6
  <2>2. /\ t <= ts' /\ ts' + b <= ts + c /\ ts <= f.ts + a + b /\ c <= L
        /\ ts \in Nat /\ f.ts \in Nat
    BY <1>2, <1>3, <1>4, <1>5, <2>1
  <2>3. t <= f.ts + (a + L)
    BY <2>2
  <2> QED
    BY <1>6, <2>1, <2>3
<1>8. f.slot = slot =>
        /\ f.key = e.key /\ Stage(f.type) < n /\ f.ts < t
  <2> SUFFICES ASSUME f.slot = slot
               PROVE  f.key = e.key /\ Stage(f.type) < n /\ f.ts < t
    OBVIOUS
  <2>1. f.key = e.key
    BY <1>1, <1>3, <1>4
  <2>2. Stage(f.type) <= Emitted
    BY <1>3
  <2>3. Emitted \in Int
    BY <1>0
  <2>4. Stage(f.type) < n /\ n > 1
    BY <1>2, <1>4, <2>2, <2>3
  <2>5. f.ts < t
    BY <1>2, <1>3, <1>4, <2>4
  <2> QED
    BY <2>1, <2>4, <2>5
<1>9. config.source = "catalog" /\ f.key = e.key => f.slot = slot
  <2> SUFFICES ASSUME config.source = "catalog", f.key = e.key
               PROVE  f.slot = slot
    OBVIOUS
  <2>1. IsInjective(shown)
    BY DEF AtHand
  <2>2. shown[f.slot] = shown[slot]
    BY <1>1, <1>3
  <2>3. Len(shown) \in Nat /\ DOMAIN shown = 1..Len(shown)
    BY DEF SimTypeOK
  <2>4. f.slot \in DOMAIN shown /\ slot \in DOMAIN shown
    BY <1>2, <1>3, <1>4, <2>3
  <2> QED
    BY <2>1, <2>2, <2>4 DEF IsInjective
<1>10. (f.type = "impression" => f.ts < t) /\ f.ts <= t
  BY <1>2, <1>3, <1>4
<1> QED
  BY <1>1, <1>3, <1>7, <1>8, <1>9, <1>10 DEF Succeeds

-----------------------------------------------------------------------------
LEMMA EmissionInWindow ==
  ASSUME SimTypeOK, AtHand, InSession, NEW n \in 1..4, NEW t \in Nat, ts' \in Nat,
         Emits(n, t)
  PROVE  t <= WindowEnd - HeldBack + Slots(slot)
<1>1. /\ t <= ts' /\ ts' + Cost(Emitted) <= ts + Cost(n)
      /\ ts <= WindowEnd - HeldBack + Slots(slot - 1) + Cost(Emitted)
  BY DEF Emits, AtHand
<1>2. Emitted \in 0..4 /\ n \in 0..4
  BY DEF Emitted
<1>3. slot - 1 \in Int /\ (slot - 1) + 1 = slot /\ ts \in Nat
  BY DEF SimTypeOK
<1>4. Slots(slot) = Slots(slot - 1) + LongestFunnel /\ Slots(slot - 1) \in Int
  BY <1>3, SlotsAre
<1>5. /\ Cost(Emitted) \in Nat /\ Cost(n) \in Nat /\ LongestFunnel \in Nat
      /\ Cost(n) <= LongestFunnel
  BY <1>2, Costs
<1>6. WindowEnd - HeldBack \in Int
  BY SimulatorAssumption
<1>7. t <= WindowEnd - HeldBack + (Slots(slot - 1) + LongestFunnel)
  BY <1>1, <1>3, <1>4, <1>5, <1>6, ClockChain
<1> QED
  BY <1>4, <1>7

LEMMA EmissionKeepsEvents ==
  ASSUME IInv, InSession, NEW n \in 1..4, NEW t \in Nat, ts' \in Nat, Emits(n, t)
  PROVE  MadeInOrder' /\ NothingLeftOut' /\ InBounds'
<1> DEFINE e == EventAt(Funnel[n], t)
           N == Len(events)
<1>0. SimTypeOK /\ AtHand /\ MadeInOrder /\ NothingLeftOut /\ InBounds
  BY DEF IInv
<1>1. /\ e \in Emission /\ events' = Append(events, e)
      /\ e.slot = slot /\ e.ts = t /\ Stage(e.type) = n
      /\ e.key = <<session, shown[slot]>> /\ e.key[1] = session
  BY <1>0, EmissionIs
<1>2. /\ Len(events') = N + 1 /\ N \in Nat
      /\ \A i \in 1..N : events'[i] = events[i]
      /\ events'[N + 1] = e
  <2> HIDE DEF e
  <2> QED
    BY <1>0, <1>1, EventsAppended DEF SimTypeOK
<1>3. \A i \in 1..N : events[i] \in Emission
  BY <1>0 DEF SimTypeOK
<1>4. \A i \in 1..N : events[i].key[1] = session => Past(events[i])
  BY <1>0 DEF AtHand
<1>5. config' = config
  BY DEF Emits
<1>6. \A i \in 1..Len(events') : i \in 1..N \/ i = N + 1
  BY <1>2
<1>7. MadeInOrder'
  <2> SUFFICES ASSUME NEW i \in 1..Len(events'), NEW j \in 1..Len(events'),
                      i < j, events'[i].key[1] = events'[j].key[1]
               PROVE  Succeeds(events'[i], events'[j])
    BY <1>5 DEF MadeInOrder, Succeeds
  <2>1. i \in 1..N
    BY <1>2
  <2>2. CASE j \in 1..N
    BY <1>0, <1>2, <2>1, <2>2 DEF MadeInOrder
  <2>3. CASE j = N + 1
    <3>1. events[i].key[1] = session /\ events[i] \in Emission
      BY <1>1, <1>2, <1>3, <2>1, <2>3
    <3>2. Succeeds(events[i], e)
      BY <1>0, <1>4, <2>1, <3>1, EmissionSucceeds
    <3> QED
      BY <1>2, <2>1, <2>3, <3>2
  <2> QED
    BY <1>6, <2>2, <2>3
<1>8. NothingLeftOut'
  <2> SUFFICES ASSUME NEW i \in 1..Len(events')
               PROVE  /\ Stage(events'[i].type) > 1 =>
                            \E j \in 1..(i - 1) :
                              /\ events'[j].key = events'[i].key
                              /\ events'[j].slot = events'[i].slot
                              /\ Stage(events'[j].type) = Stage(events'[i].type) - 1
                      /\ events'[i].slot > 1 =>
                            \E j \in 1..(i - 1) :
                              /\ events'[j].key[1] = events'[i].key[1]
                              /\ events'[j].slot = events'[i].slot - 1
    BY DEF NothingLeftOut
  <2>1. CASE i \in 1..N
    <3>1. \A j \in 1..(i - 1) : j \in 1..N /\ events'[j] = events[j]
      BY <1>2, <2>1
    <3>2. events'[i] = events[i]
      BY <1>2, <2>1
    <3>3. /\ Stage(events[i].type) > 1 =>
                \E j \in 1..(i - 1) :
                  /\ events[j].key = events[i].key
                  /\ events[j].slot = events[i].slot
                  /\ Stage(events[j].type) = Stage(events[i].type) - 1
          /\ events[i].slot > 1 =>
                \E j \in 1..(i - 1) :
                  /\ events[j].key[1] = events[i].key[1]
                  /\ events[j].slot = events[i].slot - 1
      BY <1>0, <2>1 DEF NothingLeftOut
    <3> HIDE DEF e, N
    <3> QED
      BY <3>1, <3>2, <3>3
  <2>2. CASE i = N + 1
    <3>1. \A j \in 1..N : j \in 1..(i - 1) /\ events'[j] = events[j]
      BY <1>2, <2>2
    <3>2. events'[i] = e
      BY <1>2, <2>2
    <3>3. n = Emitted + 1 /\ Emitted \in 0..3
      BY DEF Emits, Emitted
    <3>4. ASSUME n > 1
          PROVE  \E j \in 1..N : /\ events[j].key = e.key /\ events[j].slot = slot
                                 /\ Stage(events[j].type) = n - 1
      <4>1. Emitted > 0
        BY <3>3, <3>4
      <4>2. PICK j \in 1..N : /\ events[j].key[1] = session
                              /\ events[j].slot = slot
                              /\ Stage(events[j].type) = Emitted
        BY <1>0, <4>1 DEF AtHand
      <4>3. events[j].key[2] = shown[slot]
        BY <1>4, <4>2 DEF Past
      <4>4. events[j].key = <<events[j].key[1], events[j].key[2]>>
        BY <1>3, <4>2 DEF Emission
      <4> QED
        BY <1>1, <3>3, <4>2, <4>3, <4>4
    <3>5. slot > 1 => \E j \in 1..N : /\ events[j].key[1] = session
                                      /\ events[j].slot = slot - 1
      BY <1>0 DEF AtHand
    <3>6. e.key[1] = session
      BY <1>1
    <3> HIDE DEF e
    <3> QED
      BY <1>1, <3>1, <3>2, <3>4, <3>5, <3>6
  <2> QED
    BY <1>6, <2>1, <2>2
<1>9. InBounds'
  <2> SUFFICES ASSUME NEW i \in 1..Len(events')
               PROVE  /\ events'[i].key[1] <= i
                      /\ events'[i].ts <= WindowEnd - HeldBack
                                            + Slots(events'[i].slot)
                      /\ config.source = "api" =>
                            \E list \in ApiLists : events'[i].slot <= Len(list)
    BY <1>5 DEF InBounds
  <2>1. CASE i \in 1..N
    BY <1>0, <1>2, <2>1 DEF InBounds
  <2>2. CASE i = N + 1
    <3>1. events'[i] = e
      BY <1>2, <2>2
    <3>2. session <= i
      BY <1>0, <1>2, <2>2 DEF AtHand
    <3>3. t <= WindowEnd - HeldBack + Slots(slot)
      BY <1>0, EmissionInWindow
    <3>4. config.source = "api" => \E list \in ApiLists : slot <= Len(list)
      <4> SUFFICES ASSUME config.source = "api"
                   PROVE  \E list \in ApiLists : slot <= Len(list)
        OBVIOUS
      <4>1. shown \in ApiLists
        BY <1>0 DEF AtHand
      <4>2. slot <= Len(shown)
        BY DEF Emits
      <4> QED
        BY <4>1, <4>2
    <3> QED
      BY <1>1, <3>1, <3>2, <3>3, <3>4
  <2> QED
    BY <1>6, <2>1, <2>2
<1> QED
  BY <1>7, <1>8, <1>9

(* After an emission every event of the session lies behind the clock and  *)
(* the slot at hand.                                                       *)
LEMMA PastStaysPast ==
  ASSUME SimTypeOK, AtHand, InSession, NEW n \in 1..4, NEW t \in Nat, ts' \in Nat,
         Emits(n, t), NEW f \in Emission, f.key[1] = session,
         Past(f) \/ f = EventAt(Funnel[n], t)
  PROVE  Past(f)'
<1>1. /\ slot \in Nat \ {0} /\ ts \in Nat /\ n = Emitted + 1
      /\ ts <= t /\ t <= ts' /\ (n = 1 => t < ts') /\ slot <= Len(shown)
      /\ ts' + Cost(Emitted) <= ts + Cost(n) /\ shown' = shown
      /\ \/ Emitted' = n /\ slot' = slot
         \/ Emitted' = 0 /\ slot' = slot + 1
  BY DEF SimTypeOK, Emits
<1>2. Emitted \in 0..3 /\ Emitted' \in 0..3
  BY DEF Emitted
<1>3. /\ Cost(Emitted) \in Nat /\ Cost(n) \in Nat /\ Cost(n) <= LongestFunnel
      /\ LongestFunnel \in Nat /\ Cost(0) = 0
  BY <1>2, Costs
<1>4. f.slot \in Nat \ {0} /\ f.ts \in Nat /\ Stage(f.type) \in 1..4
  BY StageIs DEF Emission
<1>5. f = EventAt(Funnel[n], t) =>
        /\ f.slot = slot /\ f.key[2] = shown[slot] /\ f.ts = t
        /\ (f.type = "impression" => n = 1) /\ Stage(f.type) = n
  BY EmissionIs
<1>6. /\ f.slot <= slot /\ f.slot <= Len(shown) /\ f.key[2] = shown[f.slot]
      /\ f.slot = slot => Stage(f.type) <= n
  <2>1. CASE Past(f)
    <3>1. /\ f.slot <= slot /\ f.slot <= Len(shown) /\ f.key[2] = shown[f.slot]
          /\ f.slot = slot => Stage(f.type) <= Emitted
      BY <2>1 DEF Past
    <3> QED
      BY <1>1, <1>2, <1>4, <3>1
  <2>2. CASE f = EventAt(Funnel[n], t)
    BY <1>1, <1>5, <2>2
  <2> QED
    BY <2>1, <2>2
<1>7. f.ts <= ts' /\ (f.type = "impression" => f.ts < ts')
  <2>1. CASE Past(f)
    <3>1. f.ts <= ts /\ (f.type = "impression" => f.ts < ts)
      BY <2>1 DEF Past
    <3> QED
      BY <1>1, <1>4, <3>1
  <2>2. CASE f = EventAt(Funnel[n], t)
    BY <1>1, <1>5, <2>2
  <2> QED
    BY <2>1, <2>2
<1>8. /\ slot - f.slot \in Nat /\ slot + 1 - f.slot = (slot - f.slot) + 1
      /\ Slots(slot - f.slot) \in Nat
      /\ Slots(slot + 1 - f.slot) = Slots(slot - f.slot) + LongestFunnel
  <2>1. slot - f.slot \in Nat /\ slot + 1 - f.slot = (slot - f.slot) + 1
    BY <1>1, <1>4, <1>6
  <2> QED
    BY <2>1, SlotsAre
<1>9. ts' <= f.ts + Slots(slot - f.slot) + Cost(n)
  <2>1. CASE Past(f)
    <3>1. ts <= f.ts + Slots(slot - f.slot) + Cost(Emitted)
      BY <2>1 DEF Past
    <3>2. ts' + Cost(Emitted) <= ts + Cost(n)
      BY <1>1
    <3>3. PICK a \in Int, b \in Int, c \in Int :
             a = Slots(slot - f.slot) /\ b = Cost(Emitted) /\ c = Cost(n)
      BY <1>3, <1>8
    <3>4. PICK u \in Int, v \in Int, w \in Int :
             u = ts' /\ v = ts /\ w = f.ts
      BY <1>1, <1>4
    <3>5. u + b <= v + c /\ v <= w + a + b
      BY <3>1, <3>2, <3>3, <3>4
    <3>6. u <= w + a + c
      BY <3>5, ClockStep
    <3>7. ts' <= f.ts + a + c
      BY <3>4, <3>6
    <3> QED
      BY <3>3, <3>7
  <2>2. CASE f = EventAt(Funnel[n], t)
    <3>1. ts' <= t + Cost(n) /\ Cost(n) \in Nat
      BY <1>1, <1>3
    <3>2. slot - f.slot = 0 /\ f.ts = t
      BY <1>1, <1>5, <2>2
    <3>3. Slots(slot - f.slot) = 0
      BY <3>2, SlotsAre
    <3>4. f.ts + Slots(slot - f.slot) = t
      BY <3>2, <3>3
    <3> QED
      BY <3>1, <3>4
  <2> QED
    BY <2>1, <2>2
<1>10. ts' <= f.ts + Slots(slot' - f.slot) + Cost(Emitted')
  <2>1. CASE Emitted' = n /\ slot' = slot
    BY <1>9, <2>1
  <2>2. CASE Emitted' = 0 /\ slot' = slot + 1
    <3>0. PICK k \in Int : k = slot - f.slot
      BY <1>8
    <3>1. slot' - f.slot = k + 1
      <4>1. slot \in Int /\ f.slot \in Int
        BY <1>1, <1>4
      <4> QED
        BY <2>2, <3>0, <4>1
    <3>4. Slots(slot' - f.slot) = Slots(k) + LongestFunnel
      BY <3>0, <3>1, SlotsAre
    <3>2. Cost(Emitted') = 0
      BY <1>3, <2>2
    <3>3. ts' <= f.ts + (Slots(slot - f.slot) + LongestFunnel) + 0
      BY <1>3, <1>4, <1>8, <1>9
    <3> QED
      BY <3>0, <3>2, <3>3, <3>4
  <2> QED
    BY <1>1, <2>1, <2>2
<1>11. f.slot <= slot' /\ (f.slot = slot' => Stage(f.type) <= Emitted')
  BY <1>1, <1>4, <1>6
<1> QED
  BY <1>1, <1>6, <1>7, <1>10, <1>11 DEF Past

LEMMA EmissionKeepsHand ==
  ASSUME IInv, InSession, NEW n \in 1..4, NEW t \in Nat, ts' \in Nat, Emits(n, t)
  PROVE  SimTypeOK' /\ AtHand' /\ Returned'
<1> DEFINE e == EventAt(Funnel[n], t)
           N == Len(events)
<1>0. SimTypeOK /\ AtHand
  BY DEF IInv
<1>1. /\ e \in Emission /\ events' = Append(events, e)
      /\ e.slot = slot /\ Stage(e.type) = n /\ e.key[1] = session
  BY <1>0, EmissionIs
<1>2. /\ Len(events') = N + 1 /\ N \in Nat /\ events' \in Seq(Emission)
      /\ \A i \in 1..N : events'[i] = events[i] /\ events[i] \in Emission
      /\ events'[N + 1] = e
  <2> HIDE DEF e
  <2> QED
    BY <1>0, <1>1, EventsAppended DEF SimTypeOK
<1>3. \A i \in 1..Len(events') : i \in 1..N \/ i = N + 1
  BY <1>2
<1>4. /\ config' = config /\ session' = session /\ shown' = shown
      /\ slot <= Len(shown) /\ n = Emitted + 1
      /\ \/ InSession' /\ Emitted' = n /\ slot' = slot
         \/ InSession' /\ Emitted' = 0 /\ slot' = slot + 1
      /\ ts <= t /\ t <= ts' /\ ts' + Cost(Emitted) <= ts + Cost(n)
  BY DEF Emits
<1>5. SimTypeOK'
  <2>1. pc' \in {"open", "show", "click", "cart", "purchase", "done", "failed"}
    BY <1>4 DEF InSession
  <2>2. slot' \in Nat \ {0}
    BY <1>0, <1>4 DEF SimTypeOK
  <2> QED
    BY <1>0, <1>2, <1>4, <2>1, <2>2 DEF SimTypeOK
<1>6. Returned'
  BY <1>4 DEF Returned, Done, InSession
<1>7. AtHand'
  <2>0. slot \in Nat \ {0} /\ ts \in Nat /\ Emitted \in 0..3
    BY <1>0 DEF SimTypeOK, Emitted
  <2>1. session' \in 1..(Len(events') + 1)
    BY <1>0, <1>2, <1>4 DEF AtHand
  <2>2. /\ config'.source = "catalog" => IsInjective(shown')
        /\ config'.source = "api" => shown' \in ApiLists
    BY <1>0, <1>4 DEF AtHand
  <2>3. ts' <= WindowEnd - HeldBack + Slots(slot' - 1) + Cost(Emitted')
    <3> DEFINE w == WindowEnd - HeldBack
               a == Slots(slot - 1)
    <3>1. /\ Cost(Emitted) \in Nat /\ Cost(n) \in Nat /\ LongestFunnel \in Nat
          /\ Cost(n) <= LongestFunnel /\ Cost(0) = 0
      BY <2>0, Costs
    <3>2. w \in Int
      BY SimulatorAssumption
    <3>3. slot - 1 \in Int /\ (slot - 1) + 1 = slot /\ (slot + 1) - 1 = slot
      BY <2>0
    <3>4. a \in Int /\ Slots(slot) = a + LongestFunnel
      BY <3>3, SlotsAre
    <3>5. ts <= w + a + Cost(Emitted)
      BY <1>0 DEF AtHand
    <3>6. CASE Emitted' = n /\ slot' = slot
      <4>1. ts' <= w + a + Cost(n)
        <5> HIDE DEF w, a
        <5> QED
          BY <1>4, <2>0, <3>1, <3>2, <3>4, <3>5
      <4> QED
        BY <3>6, <4>1
    <3>7. CASE Emitted' = 0 /\ slot' = slot + 1
      <4>1. ts' <= w + (a + LongestFunnel) + 0
        <5> HIDE DEF w, a
        <5> QED
          BY <1>4, <2>0, <3>1, <3>2, <3>4, <3>5
      <4>2. Slots(slot' - 1) = Slots(slot)
        BY <3>3, <3>7
      <4> QED
        BY <3>1, <3>4, <3>7, <4>1, <4>2
    <3> QED
      BY <1>4, <3>6, <3>7
  <2>4. Emitted' > 0 => slot' <= Len(shown')
    BY <1>4
  <2>5. ASSUME NEW i \in 1..Len(events'), events'[i].key[1] = session'
        PROVE  Past(events[i])'
    <3> DEFINE f == events'[i]
    <3>1. CASE i \in 1..N
      <4>1. f = events[i] /\ f \in Emission /\ f.key[1] = session
        BY <1>2, <1>4, <2>5, <3>1
      <4>2. Past(f)
        BY <1>0, <3>1, <4>1 DEF AtHand
      <4>3. PICK g \in Emission : g = f /\ g.key[1] = session /\ Past(g)
        BY <4>1, <4>2
      <4>4. Past(g)'
        BY <1>0, <4>3, PastStaysPast
      <4> QED
        BY <4>3, <4>4 DEF Past
    <3>2. CASE i = N + 1
      <4>1. f = e
        BY <1>2, <3>2
      <4>2. PICK g \in Emission : g = e /\ g.key[1] = session
        BY <1>1
      <4>3. Past(g)'
        BY <1>0, <4>2, PastStaysPast
      <4> HIDE DEF e
      <4> QED
        BY <4>1, <4>2, <4>3 DEF Past
    <3> QED
      BY <1>3, <3>1, <3>2
  <2>6. slot' > 1 => \E j \in 1..Len(events') : /\ events'[j].key[1] = session'
                                               /\ events'[j].slot = slot' - 1
    <3>1. CASE slot' = slot
      BY <1>0, <1>2, <1>4, <3>1 DEF AtHand
    <3>2. CASE slot' = slot + 1
      <4>1. N + 1 \in 1..Len(events') /\ slot' - 1 = slot
        BY <1>2, <2>0, <3>2
      <4> HIDE DEF e
      <4> QED
        BY <1>1, <1>2, <1>4, <4>1
    <3> QED
      BY <1>4, <3>1, <3>2
  <2>7. Emitted' > 0 => \E j \in 1..Len(events') : /\ events'[j].key[1] = session'
                                                  /\ events'[j].slot = slot'
                                                  /\ Stage(events'[j].type) = Emitted'
    <3>1. N + 1 \in 1..Len(events')
      BY <1>2
    <3> HIDE DEF e
    <3> QED
      BY <1>1, <1>2, <1>4, <3>1
  <2> QED
    BY <2>1, <2>2, <2>3, <2>4, <2>5, <2>6, <2>7 DEF AtHand
<1> QED
  BY <1>5, <1>6, <1>7

-----------------------------------------------------------------------------
(* dict.fromkeys: a list of items, none of them twice.                     *)
LEMMA DistinctIs ==
  ASSUME NEW s \in Seq(Items)
  PROVE  Distinct(s) \in Seq(Items) /\ IsInjective(Distinct(s))
<1> DEFINE F == Firsts(s)
           R == Ascending(F)
           n == Cardinality(F)
<1>1. F \in SUBSET (1..Len(s)) /\ Len(s) \in Nat
  BY DEF Firsts
<1>2. IsFiniteSet(F) /\ n \in Nat
  <2> HIDE DEF F
  <2>1. IsFiniteSet(1..Len(s))
    BY <1>1, FS_Interval
  <2>2. IsFiniteSet(F)
    BY <1>1, <2>1, FS_Subset
  <2> QED
    BY <2>2, FS_CardinalityType
<1>3. \A x \in F : x \in Int
  BY <1>1
<1>4. \A x, y \in F : <<x, y>> \in R <=> x < y
  BY DEF Ascending
<1>5. /\ \A m \in 1..n : Place(F, R, m) \in F
      /\ \A m, k \in 1..n : m < k => <<Place(F, R, m), Place(F, R, k)>> \in R
  <2>1. \A x \in F : <<x, x>> \notin R
    BY <1>3, <1>4
  <2>2. \A x, y \in F : x = y \/ <<x, y>> \in R \/ <<y, x>> \in R
    <3> SUFFICES ASSUME NEW x \in F, NEW y \in F, x # y
                 PROVE  <<x, y>> \in R \/ <<y, x>> \in R
      OBVIOUS
    <3>1. x \in Int /\ y \in Int
      BY <1>3
    <3>2. x < y \/ y < x
      BY <3>1
    <3> QED
      BY <1>4, <3>2
  <2>3. \A x, y, z \in F : <<x, y>> \in R /\ <<y, z>> \in R => <<x, z>> \in R
    BY <1>3, <1>4
  <2>4. IsStrictOrder(R, F)
    BY <2>1, <2>2, <2>3 DEF IsStrictOrder
  <2> HIDE DEF F, R
  <2> QED
    BY <1>2, <2>4, PlacesInOrder
<1>6. Distinct(s) = [m \in 1..n |-> s[Place(F, R, m)]]
  BY DEF Distinct
<1>7. \A m \in 1..n : s[Place(F, R, m)] \in Items
  BY <1>1, <1>5
<1>8. Distinct(s) \in Seq(Items)
  <2> HIDE DEF F, R, n
  <2> QED
    BY <1>2, <1>6, <1>7
<1>9. \A x, y \in F : x < y => s[x] # s[y]
  <2> SUFFICES ASSUME NEW x \in F, NEW y \in F, x < y
               PROVE  s[x] # s[y]
    OBVIOUS
  <2>1. x \in 1..(y - 1)
    BY <1>1
  <2> QED
    BY <2>1 DEF Firsts
<1>10. \A m, k \in 1..n : m < k => s[Place(F, R, m)] # s[Place(F, R, k)]
  <2> HIDE DEF F, R, n
  <2> QED
    BY <1>4, <1>5, <1>9
<1>11. IsInjective(Distinct(s))
  <2> HIDE DEF F, R
  <2>1. \A m, k \in 1..n : m # k => s[Place(F, R, m)] # s[Place(F, R, k)]
    <3> SUFFICES ASSUME NEW m \in 1..n, NEW k \in 1..n, m # k
                 PROVE  s[Place(F, R, m)] # s[Place(F, R, k)]
      OBVIOUS
    <3>1. m < k \/ k < m
      BY <1>2
    <3> QED
      BY <1>10, <3>1
  <2> HIDE DEF n
  <2> QED
    BY <1>6, <2>1 DEF IsInjective
<1> QED
  BY <1>8, <1>11

LEMMA OpenKeeps == IInv /\ OpenSession => IInv'
<1> SUFFICES ASSUME IInv, OpenSession
             PROVE  IInv'
  OBVIOUS
<1>1. SimTypeOK /\ MadeInOrder /\ NothingLeftOut /\ InBounds
  BY DEF IInv
<1>2. PICK start \in StartOffsets, list \in Exposures : ts' = start /\ shown' = list
  BY DEF OpenSession
<1>3. /\ session' = Len(events) + 1 /\ slot' = 1 /\ pc' = "show"
      /\ config' = config /\ events' = events /\ result' = result
  BY DEF OpenSession
<1>4. Len(events) \in Nat /\ \A i \in 1..Len(events) : events[i] \in Emission
  BY <1>1 DEF SimTypeOK
<1>5. start \in Nat /\ start <= WindowEnd - HeldBack /\ WindowEnd - HeldBack \in Int
  BY SimulatorAssumption
<1>6. config.source = "catalog" \/ config.source = "api"
  BY <1>1, SimulatorAssumption DEF SimTypeOK
<1>7. config.source = "catalog" => list \in Seq(Items) /\ IsInjective(list)
  <2> SUFFICES ASSUME config.source = "catalog"
               PROVE  list \in Seq(Items) /\ IsInjective(list)
    OBVIOUS
  <2>1. PICK draw \in Draws : list = Distinct(draw)
    BY DEF Exposures
  <2>2. draw \in Seq(Items)
    BY SimulatorAssumption DEF Draws
  <2> QED
    BY <2>1, <2>2, DistinctIs
<1>8. config.source = "api" => list \in ApiLists /\ list \in Seq(Items)
  BY SimulatorAssumption DEF Exposures
<1>9. SimTypeOK'
  BY <1>1, <1>2, <1>3, <1>4, <1>5, <1>6, <1>7, <1>8 DEF SimTypeOK
<1>10. MadeInOrder' /\ NothingLeftOut' /\ InBounds'
  BY <1>1, <1>3 DEF MadeInOrder, NothingLeftOut, InBounds, Succeeds
<1>11. Returned'
  BY <1>3 DEF Returned, Done
<1>12. Emitted' = 0 /\ Cost(0) = 0 /\ Slots(0) = 0
  BY <1>3, Costs, SlotsAre DEF Emitted
<1>13. AtHand'
  <2>1. session' \in 1..(Len(events') + 1)
    BY <1>3, <1>4
  <2>2. \A i \in 1..Len(events') : events'[i].key[1] # session'
    <3> SUFFICES ASSUME NEW i \in 1..Len(events), events[i].key[1] = Len(events) + 1
                 PROVE  FALSE
      BY <1>3
    <3>1. events[i].key[1] <= i
      BY <1>1 DEF InBounds
    <3> QED
      BY <1>4, <3>1
  <2>3. slot' - 1 = 0 /\ ~(slot' > 1)
    BY <1>3
  <2>4. ts' <= WindowEnd - HeldBack + Slots(slot' - 1) + Cost(Emitted')
    <3>1. start <= (WindowEnd - HeldBack) + 0 + 0
      BY <1>5
    <3> QED
      BY <1>2, <1>12, <2>3, <3>1
  <2>5. ~(Emitted' > 0)
    BY <1>12
  <2>6. /\ config'.source = "catalog" => IsInjective(shown')
        /\ config'.source = "api" => shown' \in ApiLists
    BY <1>2, <1>3, <1>7, <1>8
  <2> QED
    BY <2>1, <2>2, <2>3, <2>4, <2>5, <2>6 DEF AtHand
<1> QED
  BY <1>9, <1>10, <1>11, <1>13 DEF IInv

LEMMA OthersKeep == IInv /\ (ApiFails \/ EndSession \/ Finish) => IInv'
<1> SUFFICES ASSUME IInv, ApiFails \/ EndSession \/ Finish
             PROVE  IInv'
  OBVIOUS
<1>1. SimTypeOK /\ MadeInOrder /\ NothingLeftOut /\ InBounds
  BY DEF IInv
<1>2. ~InSession'
  BY DEF ApiFails, EndSession, Finish, InSession
<1>3. /\ config' = config /\ session' = session /\ shown' = shown
      /\ slot' = slot /\ ts' = ts
      /\ events' = events \/ events' = <<>>
      /\ pc' \in {"open", "failed", "done"}
  BY DEF ApiFails, EndSession, Finish
<1>4. SimTypeOK'
  <2>1. events' \in Seq(Emission)
    <3>1. events \in Seq(Emission)
      BY <1>1 DEF SimTypeOK
    <3>2. <<>> \in Seq(Emission)
      OBVIOUS
    <3> QED
      BY <1>3, <3>1, <3>2
  <2>2. pc' \in {"open", "show", "click", "cart", "purchase", "done", "failed"}
    BY <1>3
  <2> QED
    BY <1>1, <1>3, <2>1, <2>2 DEF SimTypeOK
<1>5. MadeInOrder' /\ NothingLeftOut' /\ InBounds'
  <2>1. CASE events' = events
    BY <1>1, <1>3, <2>1 DEF MadeInOrder, NothingLeftOut, InBounds, Succeeds
  <2>2. CASE events' = <<>>
    <3>1. 1..Len(events') = {}
      BY <2>2
    <3> QED
      BY <3>1 DEF MadeInOrder, NothingLeftOut, InBounds
  <2> QED
    BY <1>3, <2>1, <2>2
<1>6. AtHand'
  BY <1>2 DEF AtHand
<1>7. Returned'
  <2>1. CASE ApiFails \/ EndSession
    <3>1. pc' # "done"
      BY <2>1 DEF ApiFails, EndSession
    <3> QED
      BY <3>1 DEF Returned, Done
  <2>2. CASE Finish
    <3>1. /\ Len(events) >= config.n_events /\ events' = events /\ config' = config
          /\ result' = SortedByTs(FirstEvents(events))
      BY <2>2 DEF Finish
    <3>2. FirstEvents(events)' = FirstEvents(events)
      BY <3>1 DEF FirstEvents
    <3>3. SortedByTs(FirstEvents(events))' = SortedByTs(FirstEvents(events))
      BY <3>2
    <3> QED
      BY <3>1, <3>3 DEF Returned
  <2> QED
    BY <2>1, <2>2
<1> QED
  BY <1>4, <1>5, <1>6, <1>7 DEF IInv

(* The invariant is inductive.                                             *)
LEMMA Invariance == Spec => []IInv
<1>1. Init => IInv
  <2> SUFFICES ASSUME Init
               PROVE  IInv
    OBVIOUS
  <2>1. 1..Len(events) = {} /\ events \in Seq(Emission) /\ shown \in Seq(Items)
    BY DEF Init
  <2> QED
    BY <2>1 DEF Init, IInv, SimTypeOK, MadeInOrder, NothingLeftOut, InBounds,
                AtHand, InSession, Returned, Done
<1>2. IInv /\ [Next]_vars => IInv'
  <2> SUFFICES ASSUME IInv, [Next]_vars
               PROVE  IInv'
    OBVIOUS
  <2>1. CASE Show \/ Click \/ Cart \/ Purchase
    <3>1. SimTypeOK /\ AtHand
      BY DEF IInv
    <3>2. InSession /\ ts' \in Nat /\ \E n \in 1..4, t \in Nat : Emits(n, t)
      BY <2>1, <3>1, FunnelStep
    <3>3. PICK n \in 1..4, t \in Nat : Emits(n, t)
      BY <3>2
    <3> QED
      BY <3>2, <3>3, EmissionKeepsEvents, EmissionKeepsHand DEF IInv
  <2>2. CASE OpenSession
    BY <2>2, OpenKeeps
  <2>3. CASE ApiFails \/ EndSession \/ Finish
    BY <2>3, OthersKeep
  <2>4. CASE UNCHANGED vars
    <3>1. /\ config' = config /\ pc' = pc /\ session' = session /\ shown' = shown
          /\ slot' = slot /\ ts' = ts /\ events' = events /\ result' = result
      BY <2>4 DEF vars
    <3>2. SimTypeOK'
      BY <3>1 DEF IInv, SimTypeOK
    <3>3. MadeInOrder' /\ NothingLeftOut' /\ InBounds'
      BY <3>1 DEF IInv, MadeInOrder, NothingLeftOut, InBounds, Succeeds
    <3>4. AtHand'
      <4>1. InSession' = InSession /\ Emitted' = Emitted
        BY <3>1 DEF InSession, Emitted
      <4> QED
        BY <3>1, <4>1 DEF IInv, AtHand, Past
    <3>5. Returned'
      BY <3>1 DEF IInv, Returned, Done, FirstEvents
    <3> QED
      BY <3>2, <3>3, <3>4, <3>5 DEF IInv
  <2> QED
    BY <2>1, <2>2, <2>3, <2>4 DEF Next
<1> QED
  BY <1>1, <1>2, PTL DEF Spec

-----------------------------------------------------------------------------
(* The list returned holds the first n_events of the events emitted, each  *)
(* once, ordered by time and, at one time, by emission: at(i) is where the *)
(* i-th of the list stood.                                                 *)
LEMMA ResultIs ==
  ASSUME IInv, Done
  PROVE  \E at \in [1..config.n_events -> 1..config.n_events] :
           /\ config.n_events \in Nat /\ config.n_events <= Len(events)
           /\ Len(events) \in Nat
           /\ Len(result) = config.n_events /\ DOMAIN result = 1..config.n_events
           /\ \A i \in 1..config.n_events : result[i] = events[at[i]]
           /\ \A p \in 1..config.n_events : \E i \in 1..config.n_events : at[i] = p
           /\ \A i, j \in 1..config.n_events : i < j =>
                 \/ events[at[i]].ts < events[at[j]].ts
                 \/ events[at[i]].ts = events[at[j]].ts /\ at[i] < at[j]
<1> DEFINE n == config.n_events
           s == FirstEvents(events)
           R == Earlier(s)
           at == [i \in 1..n |-> Place(1..n, R, i)]
<1>1. SimTypeOK /\ Len(events) >= n /\ result = SortedByTs(s)
  BY DEF IInv, Returned
<1>2. n \in Nat /\ n <= Len(events) /\ Len(events) \in Nat
  BY <1>1, SimulatorAssumption DEF SimTypeOK
<1>3. \A i \in 1..n : events[i] \in Emission
  BY <1>1, <1>2 DEF SimTypeOK
<1>4. /\ s \in Seq(Emission) /\ Len(s) = n /\ DOMAIN s = 1..n
      /\ \A i \in 1..n : s[i] = events[i]
  <2> HIDE DEF n
  <2>1. s = SubSeq(events, 1, n)
    BY DEF FirstEvents, n
  <2>2. /\ SubSeq(events, 1, n) \in Seq(Emission)
        /\ Len(SubSeq(events, 1, n)) = IF 1 <= n THEN n - 1 + 1 ELSE 0
        /\ \A i \in 1..(n - 1 + 1) : SubSeq(events, 1, n)[i] = events[1 + i - 1]
    BY <1>2, <1>3, SubSeqProperties
  <2>3. Len(SubSeq(events, 1, n)) = n
    BY <1>2, <2>2
  <2>4. \A i \in 1..n : SubSeq(events, 1, n)[i] = events[i]
    BY <1>2, <2>2
  <2> HIDE DEF s
  <2> QED
    BY <2>1, <2>2, <2>3, <2>4
<1>5. \A i \in 1..n : s[i].ts \in Nat
  BY <1>3, <1>4 DEF Emission
<1>6. \A i, j \in 1..n :
         <<i, j>> \in R <=> \/ s[i].ts < s[j].ts
                            \/ s[i].ts = s[j].ts /\ i < j
  <2> HIDE DEF s, n
  <2> QED
    BY <1>4 DEF Earlier
<1>7. /\ \A m \in 1..n : Place(1..n, R, m) \in 1..n
      /\ \A x \in 1..n : \E m \in 1..n : Place(1..n, R, m) = x
      /\ \A m, k \in 1..n :
            m < k => <<Place(1..n, R, m), Place(1..n, R, k)>> \in R
  <2> HIDE DEF s, n, R
  <2>1. \A x \in 1..n : <<x, x>> \notin R
    <3> SUFFICES ASSUME NEW x \in 1..n, <<x, x>> \in R
                 PROVE  FALSE
      OBVIOUS
    <3>1. s[x].ts \in Nat /\ x \in Nat
      BY <1>5
    <3> QED
      BY <1>6, <3>1
  <2>2. \A x, y \in 1..n : x = y \/ <<x, y>> \in R \/ <<y, x>> \in R
    <3> SUFFICES ASSUME NEW x \in 1..n, NEW y \in 1..n, x # y
                 PROVE  <<x, y>> \in R \/ <<y, x>> \in R
      OBVIOUS
    <3>1. s[x].ts \in Nat /\ s[y].ts \in Nat /\ x \in Nat /\ y \in Nat
      BY <1>5
    <3> QED
      BY <1>6, <3>1
  <2>3. \A x, y, z \in 1..n : <<x, y>> \in R /\ <<y, z>> \in R => <<x, z>> \in R
    <3> SUFFICES ASSUME NEW x \in 1..n, NEW y \in 1..n, NEW z \in 1..n,
                        <<x, y>> \in R, <<y, z>> \in R
                 PROVE  <<x, z>> \in R
      OBVIOUS
    <3>1. s[x].ts \in Nat /\ s[y].ts \in Nat /\ s[z].ts \in Nat
          /\ x \in Nat /\ y \in Nat /\ z \in Nat
      BY <1>5
    <3> QED
      BY <1>6, <3>1
  <2>4. IsFiniteSet(1..n) /\ Cardinality(1..n) = n
    BY <1>2, FS_Interval
  <2>5. IsStrictOrder(R, 1..n)
    BY <2>1, <2>2, <2>3 DEF IsStrictOrder
  <2> DEFINE D == 1..n
  <2>6. IsFiniteSet(D) /\ n = Cardinality(D) /\ IsStrictOrder(R, D)
    BY <2>4, <2>5
  <2> HIDE DEF D
  <2>7. /\ \A m \in 1..n : Place(D, R, m) \in D
        /\ \A x \in D : \E m \in 1..n : Place(D, R, m) = x
        /\ \A m, k \in 1..n : m < k => <<Place(D, R, m), Place(D, R, k)>> \in R
    BY <2>6, PlacesInOrder
  <2> QED
    BY <2>7 DEF D
<1>8. result = [i \in 1..n |-> s[Place(1..n, R, i)]]
  BY <1>1, <1>4 DEF SortedByTs, SortedBy
<1>9. at \in [1..n -> 1..n]
  BY <1>7
<1>10. /\ \A p \in 1..n : \E i \in 1..n : at[i] = p
       /\ \A i, j \in 1..n : i < j => <<at[i], at[j]>> \in R
       /\ \A i \in 1..n : result[i] = s[at[i]]
  <2> HIDE DEF s, R, n
  <2> QED
    BY <1>7, <1>8
<1>11. DOMAIN result = 1..n /\ Len(result) = n
  <2> HIDE DEF s, R, n
  <2>1. \A i \in 1..n : s[Place(1..n, R, i)] \in Emission
    BY <1>4, <1>7
  <2> QED
    BY <1>2, <1>8, <2>1
<1>12. \A i, j \in 1..n : i < j =>
                 \/ events[at[i]].ts < events[at[j]].ts
                 \/ events[at[i]].ts = events[at[j]].ts /\ at[i] < at[j]
  <2> SUFFICES ASSUME NEW i \in 1..n, NEW j \in 1..n, i < j
               PROVE  \/ events[at[i]].ts < events[at[j]].ts
                      \/ events[at[i]].ts = events[at[j]].ts /\ at[i] < at[j]
    OBVIOUS
  <2> HIDE DEF s, R, n, at
  <2>1. at[i] \in 1..n /\ at[j] \in 1..n
    BY <1>9
  <2>2. <<at[i], at[j]>> \in R
    BY <1>10
  <2> QED
    BY <1>4, <1>6, <2>1, <2>2
<1>13. \A i \in 1..n : result[i] = events[at[i]]
  <2> HIDE DEF s, R, n, at
  <2> QED
    BY <1>4, <1>9, <1>10
<1> HIDE DEF s, R, at
<1> QED
  BY <1>2, <1>9, <1>10, <1>11, <1>12, <1>13

(* Whatever is drawn and whatever the API answers: the list has the size   *)
(* asked for and is sorted, of every exposure it has the beginning of the  *)
(* funnel in order and strictly in time, and no exposure is left out       *)
(* between two.                                                            *)
THEOREM TrafficIsPlausible == Spec => []PlausibleTraffic
<1>1. IInv => PlausibleTraffic
  <2> SUFFICES ASSUME IInv, Done
               PROVE  FunnelInOrder
    BY DEF PlausibleTraffic
  <2> DEFINE n == config.n_events
             N == Len(events)
  <2>1. PICK at \in [1..n -> 1..n] :
           /\ n \in Nat /\ n <= N /\ N \in Nat
           /\ Len(result) = n /\ DOMAIN result = 1..n
           /\ \A i \in 1..n : result[i] = events[at[i]]
           /\ \A p \in 1..n : \E i \in 1..n : at[i] = p
           /\ \A i, j \in 1..n : i < j =>
                 \/ events[at[i]].ts < events[at[j]].ts
                 \/ events[at[i]].ts = events[at[j]].ts /\ at[i] < at[j]
    BY ResultIs
  <2>2. MadeInOrder /\ NothingLeftOut /\ InBounds
    BY DEF IInv
  <2>3. \A p \in 1..n : p \in 1..N /\ p \in Nat
    BY <2>1
  <2>4. \A i \in 1..n : at[i] \in 1..n /\ at[i] \in 1..N /\ at[i] \in Nat
    BY <2>3
  <2>5. \A p \in 1..N : events[p].ts \in Nat
    <3>1. \A p \in 1..N : events[p] \in Emission
      BY DEF IInv, SimTypeOK
    <3> QED
      BY <3>1 DEF Emission
  <2>12. \A i \in 1..n : result[i] = events[at[i]]
    BY <2>1
  <2>13. ASSUME NEW q \in 1..n
         PROVE  \E j \in 1..n : at[j] = q /\ result[j] = events[q]
    <3>1. PICK j \in 1..n : at[j] = q
      BY <2>1
    <3> QED
      BY <2>12, <3>1
  <2> HIDE DEF n, N
  <2>6. \A i \in 1..(n - 1) : result[i].ts <= result[i + 1].ts
    <3> SUFFICES ASSUME NEW i \in 1..(n - 1)
                 PROVE  result[i].ts <= result[i + 1].ts
      OBVIOUS
    <3>1. i \in 1..n /\ i + 1 \in 1..n /\ i < i + 1
      BY <2>1
    <3>2. PICK p \in 1..N, q \in 1..N :
            /\ p = at[i] /\ q = at[i + 1]
            /\ result[i] = events[p] /\ result[i + 1] = events[q]
      <4>1. at[i] \in 1..N /\ at[i + 1] \in 1..N
        BY <2>4, <3>1
      <4>2. result[i] = events[at[i]] /\ result[i + 1] = events[at[i + 1]]
        BY <2>12, <3>1
      <4> QED
        BY <4>1, <4>2
    <3>3. events[p].ts < events[q].ts \/ events[p].ts = events[q].ts
      BY <2>1, <3>1, <3>2
    <3>4. events[p].ts \in Nat /\ events[q].ts \in Nat
      BY <2>5
    <3> QED
      BY <3>2, <3>3, <3>4
  <2>7. ASSUME NEW i \in 1..n, NEW j \in 1..n, SameExposure(i, j), i < j
        PROVE  Stage(result[i].type) < Stage(result[j].type)
               /\ result[i].ts < result[j].ts
    <3>1. PICK p \in 1..N, q \in 1..N :
            /\ p = at[i] /\ q = at[j]
            /\ result[i] = events[p] /\ result[j] = events[q]
      <4>1. at[i] \in 1..N /\ at[j] \in 1..N
        BY <2>4
      <4>2. result[i] = events[at[i]] /\ result[j] = events[at[j]]
        BY <2>12
      <4> QED
        BY <4>1, <4>2
    <3>2. /\ events[p].key = events[q].key /\ events[p].slot = events[q].slot
      BY <2>7, <3>1 DEF SameExposure
    <3>3. \/ events[p].ts < events[q].ts
          \/ events[p].ts = events[q].ts /\ p < q
      BY <2>1, <2>7, <3>1
    <3>4. events[p].ts \in Nat /\ events[q].ts \in Nat
      BY <2>5
    <3>5. CASE p < q
      <4>1. Succeeds(events[p], events[q])
        BY <2>2, <3>2, <3>5 DEF MadeInOrder, N
      <4> QED
        BY <3>1, <3>2, <4>1 DEF Succeeds
    <3>6. CASE q < p
      <4>1. Succeeds(events[q], events[p])
        BY <2>2, <3>2, <3>6 DEF MadeInOrder, N
      <4>2. events[q].ts < events[p].ts
        BY <3>2, <4>1 DEF Succeeds
      <4> QED
        BY <3>3, <3>4, <3>6, <4>2
    <3>7. CASE p = q
      BY <3>3, <3>4, <3>7
    <3> QED
      BY <3>5, <3>6, <3>7
  <2>8. ASSUME NEW i \in 1..n, Stage(result[i].type) > 1
        PROVE  \E j \in 1..n : /\ SameExposure(i, j)
                               /\ Stage(result[j].type) = Stage(result[i].type) - 1
    <3>1. PICK p \in 1..n : p = at[i] /\ p \in 1..N /\ result[i] = events[p]
      BY <2>4, <2>12
    <3>2. PICK q \in 1..(p - 1) :
             /\ events[q].key = events[p].key /\ events[q].slot = events[p].slot
             /\ Stage(events[q].type) = Stage(events[p].type) - 1
      BY <2>2, <2>8, <3>1 DEF NothingLeftOut, N
    <3>3. q \in 1..n
      BY <2>1
    <3>4. PICK j \in 1..n : at[j] = q /\ result[j] = events[q]
      BY <2>13, <3>3
    <3> QED
      BY <3>1, <3>2, <3>4 DEF SameExposure
  <2>9. ASSUME NEW i \in 1..n, result[i].slot > 1
        PROVE  \E j \in 1..n : /\ result[j].key[1] = result[i].key[1]
                               /\ result[j].slot = result[i].slot - 1
    <3>1. PICK p \in 1..n : p = at[i] /\ p \in 1..N /\ result[i] = events[p]
      BY <2>4, <2>12
    <3>2. PICK q \in 1..(p - 1) : /\ events[q].key[1] = events[p].key[1]
                                  /\ events[q].slot = events[p].slot - 1
      BY <2>2, <2>9, <3>1 DEF NothingLeftOut, N
    <3>3. q \in 1..n
      BY <2>1
    <3>4. PICK j \in 1..n : at[j] = q /\ result[j] = events[q]
      BY <2>13, <3>3
    <3> QED
      BY <3>1, <3>2, <3>4
  <2> QED
    BY <2>1, <2>6, <2>7, <2>8, <2>9 DEF FunnelInOrder, n
<1> QED
  BY <1>1, Invariance, PTL

(* Events run past the end of the window, as the run simulator_window      *)
(* shows, but by no more than their slot allows: the exposure in slot n by *)
(* n times the longest funnel less the hour held back.                     *)
THEOREM OverrunBounded == Spec => []OverrunIsBounded
<1>1. IInv => OverrunIsBounded
  <2> SUFFICES ASSUME IInv, Done, NEW i \in DOMAIN result
               PROVE  result[i].ts
                        <= WindowEnd - HeldBack + result[i].slot * LongestFunnel
    BY DEF OverrunIsBounded
  <2> DEFINE n == config.n_events
  <2>1. PICK at \in [1..n -> 1..n] :
           /\ n \in Nat /\ n <= Len(events) /\ Len(events) \in Nat
           /\ DOMAIN result = 1..n
           /\ \A j \in 1..n : result[j] = events[at[j]]
    BY ResultIs
  <2>2. \A p \in 1..Len(events) :
           events[p].ts <= WindowEnd - HeldBack + events[p].slot * LongestFunnel
    BY DEF IInv, InBounds, Slots
  <2>3. at[i] \in 1..Len(events) /\ result[i] = events[at[i]]
    BY <2>1
  <2> QED
    BY <2>2, <2>3
<1> QED
  BY <1>1, Invariance, PTL

-----------------------------------------------------------------------------
(* Two events of one session in the list succeed each other one way or the *)
(* other, and the funnel above an event is there.                          *)
LEMMA ResultPairs ==
  ASSUME IInv, Done
  PROVE  /\ config.n_events \in Nat /\ Len(result) = config.n_events
         /\ \A i \in 1..Len(result) : result[i] \in Emission
         /\ \A i, j \in 1..Len(result) :
               i # j /\ result[i].key[1] = result[j].key[1] =>
                  Succeeds(result[i], result[j]) \/ Succeeds(result[j], result[i])
         /\ \A i \in 1..Len(result) : Stage(result[i].type) > 1 =>
               \E j \in 1..Len(result) :
                  /\ result[j].key = result[i].key
                  /\ result[j].slot = result[i].slot
                  /\ Stage(result[j].type) = Stage(result[i].type) - 1
         /\ config.source = "api" => \A i \in 1..Len(result) :
               \E list \in ApiLists : result[i].slot <= Len(list)
<1> DEFINE n == config.n_events
           N == Len(events)
<1>1. PICK at \in [1..n -> 1..n] :
         /\ n \in Nat /\ n <= N /\ N \in Nat
         /\ Len(result) = n /\ DOMAIN result = 1..n
         /\ \A i \in 1..n : result[i] = events[at[i]]
         /\ \A p \in 1..n : \E i \in 1..n : at[i] = p
         /\ \A i, j \in 1..n : i < j =>
               \/ events[at[i]].ts < events[at[j]].ts
               \/ events[at[i]].ts = events[at[j]].ts /\ at[i] < at[j]
  BY ResultIs
<1>2. /\ MadeInOrder /\ NothingLeftOut /\ InBounds
      /\ \A p \in 1..N : events[p] \in Emission
  BY DEF IInv, SimTypeOK
<1>3. \A p \in 1..N : events[p].ts \in Nat
  BY <1>2 DEF Emission
<1>4. \A p \in 1..n : p \in 1..N /\ p \in Nat
  BY <1>1
<1>5. \A i \in 1..n : at[i] \in 1..n /\ at[i] \in 1..N /\ at[i] \in Nat
  BY <1>4
<1>6. \A i \in 1..n : result[i] = events[at[i]]
  BY <1>1
<1>7. ASSUME NEW q \in 1..n
      PROVE  \E j \in 1..n : at[j] = q /\ result[j] = events[q]
  <2>1. PICK j \in 1..n : at[j] = q
    BY <1>1
  <2> QED
    BY <1>6, <2>1
<1> HIDE DEF n, N
<1>8. \A i \in 1..n : result[i] \in Emission
  BY <1>2, <1>5, <1>6
<1>9. ASSUME NEW i \in 1..n, NEW j \in 1..n, i # j
      PROVE  at[i] # at[j]
  <2>1. i \in Int /\ j \in Int
    BY <1>1
  <2>2. at[i] \in Int /\ at[j] \in Int
        /\ events[at[i]].ts \in Nat /\ events[at[j]].ts \in Nat
    BY <1>3, <1>5
  <2>3. CASE i < j
    <3>1. \/ events[at[i]].ts < events[at[j]].ts
          \/ events[at[i]].ts = events[at[j]].ts /\ at[i] < at[j]
      BY <1>1, <2>3
    <3> QED
      BY <2>2, <3>1
  <2>4. CASE j < i
    <3>1. \/ events[at[j]].ts < events[at[i]].ts
          \/ events[at[j]].ts = events[at[i]].ts /\ at[j] < at[i]
      BY <1>1, <2>4
    <3> QED
      BY <2>2, <3>1
  <2> QED
    BY <1>9, <2>1, <2>3, <2>4
<1>10. ASSUME NEW i \in 1..n, NEW j \in 1..n, i # j,
              result[i].key[1] = result[j].key[1]
       PROVE  Succeeds(result[i], result[j]) \/ Succeeds(result[j], result[i])
  <2>1. PICK p \in 1..N, q \in 1..N :
          p = at[i] /\ q = at[j] /\ result[i] = events[p] /\ result[j] = events[q]
    <3>1. at[i] \in 1..N /\ at[j] \in 1..N
      BY <1>5
    <3>2. result[i] = events[at[i]] /\ result[j] = events[at[j]]
      BY <1>6
    <3> QED
      BY <3>1, <3>2
  <2>2. p # q /\ p \in Int /\ q \in Int
    BY <1>1, <1>9, <1>10, <2>1
  <2>3. p < q \/ q < p
    BY <2>2
  <2> QED
    BY <1>2, <1>10, <2>1, <2>3 DEF MadeInOrder, N
<1>11. ASSUME NEW i \in 1..n, Stage(result[i].type) > 1
       PROVE  \E j \in 1..n : /\ result[j].key = result[i].key
                              /\ result[j].slot = result[i].slot
                              /\ Stage(result[j].type) = Stage(result[i].type) - 1
  <2>1. PICK p \in 1..n : p = at[i] /\ p \in 1..N /\ result[i] = events[p]
    BY <1>5, <1>6
  <2>2. PICK q \in 1..(p - 1) :
           /\ events[q].key = events[p].key /\ events[q].slot = events[p].slot
           /\ Stage(events[q].type) = Stage(events[p].type) - 1
    BY <1>2, <1>11, <2>1 DEF NothingLeftOut, N
  <2>3. q \in 1..n
    BY <1>1
  <2>4. PICK j \in 1..n : at[j] = q /\ result[j] = events[q]
    BY <1>7, <2>3
  <2> QED
    BY <2>1, <2>2, <2>4
<1>12. ASSUME config.source = "api", NEW i \in 1..n
       PROVE  \E list \in ApiLists : result[i].slot <= Len(list)
  BY <1>2, <1>5, <1>6, <1>12 DEF InBounds, N
<1>13. Len(result) = n /\ n \in Nat
  BY <1>1
<1> QED
  BY <1>8, <1>10, <1>11, <1>12, <1>13 DEF n

(* min over events of the list, by time.                                   *)
LEMMA EarliestIsEarliest ==
  ASSUME IInv, Done, NEW S \in SUBSET (1..Len(result)), S # {}
  PROVE  LET o == Labels!Earliest(result, S)
         IN  /\ o \in S /\ o \in Nat \ {0}
             /\ \A j \in S : result[o].ts <= result[j].ts
<1>1. \A i \in S : i \in Nat \ {0} /\ result[i].ts \in Nat
  <2>1. \A i \in 1..Len(result) : result[i] \in Emission
    BY ResultPairs
  <2>2. Len(result) \in Nat
    BY ResultPairs
  <2> QED
    BY <2>1, <2>2 DEF Emission
<1>2. PICK t \in {result[i].ts : i \in S} : \A u \in {result[i].ts : i \in S} : t <= u
  <2>1. {result[i].ts : i \in S} \in SUBSET Nat /\ {result[i].ts : i \in S} # {}
    BY <1>1
  <2> QED
    BY <2>1, SmallestOfNats
<1>3. PICK i \in {j \in S : result[j].ts = t} :
         \A k \in {j \in S : result[j].ts = t} : i <= k
  <2>1. /\ {j \in S : result[j].ts = t} \in SUBSET Nat
        /\ {j \in S : result[j].ts = t} # {}
    BY <1>1, <1>2
  <2> QED
    BY <2>1, SmallestOfNats
<1>4. ASSUME NEW j \in S
      PROVE  Labels!Precedes(result, i, j)
  <2>1. t <= result[j].ts /\ result[i].ts = t /\ t \in Nat /\ result[j].ts \in Nat
    BY <1>1, <1>2, <1>3
  <2>2. result[j].ts = t => i <= j
    BY <1>3
  <2> QED
    BY <2>1, <2>2 DEF Labels!Precedes
<1>5. \E x \in S : \A j \in S : Labels!Precedes(result, x, j)
  BY <1>3, <1>4
<1>6. PICK o \in S : /\ o = Labels!Earliest(result, S)
                     /\ \A j \in S : Labels!Precedes(result, o, j)
  BY <1>5 DEF Labels!Earliest
<1>7. \A j \in S : result[o].ts <= result[j].ts
  <2> SUFFICES ASSUME NEW j \in S
               PROVE  result[o].ts <= result[j].ts
    OBVIOUS
  <2>1. Labels!Precedes(result, o, j) /\ result[o].ts \in Nat /\ result[j].ts \in Nat
    BY <1>1, <1>6
  <2> QED
    BY <2>1 DEF Labels!Precedes
<1> QED
  BY <1>1, <1>6, <1>7

LEMMA FirstAfter ==
  ASSUME IInv, Done, NEW S \in SUBSET (1..Len(result)), NEW t \in Nat
  PROVE  LET o == Labels!EarliestAfter(result, S, t)
         IN  /\ o = 0 <=> \A j \in S : ~(result[j].ts > t)
             /\ o # 0 => /\ o \in S /\ result[o].ts > t
                         /\ \A j \in S : result[j].ts > t => result[o].ts <= result[j].ts
<1> DEFINE C == {j \in S : result[j].ts > t}
           o == Labels!EarliestAfter(result, S, t)
<1>1. C \in SUBSET (1..Len(result)) /\ C \subseteq S
  OBVIOUS
<1>2. o = IF C = {} THEN 0 ELSE Labels!Earliest(result, C)
  BY DEF Labels!EarliestAfter, Labels!None
<1>3. CASE C = {}
  <2>1. o = 0
    BY <1>2, <1>3
  <2>2. \A j \in S : ~(result[j].ts > t)
    BY <1>3
  <2> QED
    BY <2>1, <2>2
<1>4. CASE C # {}
  <2>1. o = Labels!Earliest(result, C)
    BY <1>2, <1>4
  <2>2. o \in C /\ o \in Nat \ {0} /\ \A j \in C : result[o].ts <= result[j].ts
    <3> HIDE DEF C, o
    <3> QED
      BY <1>1, <1>4, <2>1, EarliestIsEarliest
  <2>3. o # 0 /\ o \in S /\ result[o].ts > t
    <3> HIDE DEF o
    <3> QED
      BY <2>2
  <2>4. \A j \in S : result[j].ts > t => result[o].ts <= result[j].ts
    <3> HIDE DEF o
    <3> QED
      BY <2>2
  <2> HIDE DEF o
  <2> QED
    BY <2>3, <2>4 DEF o
<1> QED
  BY <1>3, <1>4

-----------------------------------------------------------------------------
(* The sessions are short for the purchase window: 24 hours, against a     *)
(* funnel of 37 minutes at most and lists of ten items.                    *)
SessionsFitWindow ==
    /\ LongestFunnel <= PurchaseWindow
    /\ \A list \in ApiLists : Len(list) * LongestFunnel <= PurchaseWindow

(* The events the label of impression i is to tell of.                     *)
Own(i, j) ==
    /\ j \in 1..Len(result)
    /\ result[j].key = result[i].key
    /\ result[j].slot >= result[i].slot
    /\ config.source = "catalog" => result[j].slot = result[i].slot

Has(i, m) == \E j \in 1..Len(result) : Own(i, j) /\ Stage(result[j].type) = m

(* They are the outcomes of its key that are later than the impression.    *)
LEMMA OwnAreTheLater ==
  ASSUME IInv, Done, NEW i \in 1..Len(result), result[i].type = "impression",
         NEW j \in 1..Len(result), result[j].key = result[i].key,
         result[j].type # "impression"
  PROVE  Own(i, j) <=> result[j].ts > result[i].ts
<1>1. result[i] \in Emission /\ result[j] \in Emission
  BY ResultPairs
<1>2. /\ result[i].slot \in Nat /\ result[j].slot \in Nat
      /\ result[i].ts \in Nat /\ result[j].ts \in Nat
      /\ Stage(result[i].type) = 1 /\ Stage(result[j].type) \in 1..4
      /\ Stage(result[j].type) # 1
  BY <1>1, StageIs DEF Emission
<1>3. Succeeds(result[i], result[j]) \/ Succeeds(result[j], result[i])
  BY ResultPairs
<1>4. CASE Succeeds(result[i], result[j])
  <2>1. result[i].ts < result[j].ts /\ result[i].slot <= result[j].slot
        /\ (config.source = "catalog" => result[i].slot = result[j].slot)
    BY <1>4 DEF Succeeds
  <2> QED
    BY <1>2, <2>1 DEF Own
<1>5. CASE Succeeds(result[j], result[i])
  <2>1. /\ result[j].ts <= result[i].ts /\ result[j].slot <= result[i].slot
        /\ result[j].slot = result[i].slot
              => Stage(result[j].type) < Stage(result[i].type)
    BY <1>5 DEF Succeeds
  <2>2. result[j].slot # result[i].slot
    BY <1>2, <2>1
  <2> QED
    BY <1>2, <2>1, <2>2 DEF Own
<1> QED
  BY <1>3, <1>4, <1>5

(* The funnel above one of them is theirs too.                             *)
LEMMA FunnelIsOwn ==
  ASSUME IInv, Done, NEW i \in 1..Len(result), NEW m \in 2..4, Has(i, m)
  PROVE  Has(i, m - 1)
<1>1. PICK j \in 1..Len(result) : Own(i, j) /\ Stage(result[j].type) = m
  BY DEF Has
<1>2. PICK k \in 1..Len(result) : /\ result[k].key = result[j].key
                                  /\ result[k].slot = result[j].slot
                                  /\ Stage(result[k].type) = m - 1
  BY <1>1, ResultPairs
<1>3. Own(i, k)
  BY <1>1, <1>2 DEF Own
<1> QED
  BY <1>2, <1>3 DEF Has

(* A purchase is in the window of every click of the impression's.         *)
LEMMA PurchaseInWindow ==
  ASSUME IInv, Done, SessionsFitWindow, NEW i \in 1..Len(result),
         NEW p \in 1..Len(result), Own(i, p), Stage(result[p].type) = 4,
         NEW c \in 1..Len(result), Own(i, c), Stage(result[c].type) = 2
  PROVE  result[p].ts <= result[c].ts + PurchaseWindow
<1>1. result[p] \in Emission /\ result[c] \in Emission /\ result[i] \in Emission
  BY ResultPairs
<1>2. /\ result[p].slot \in Nat \ {0} /\ result[c].slot \in Nat \ {0}
      /\ result[p].ts \in Nat /\ result[c].ts \in Nat /\ PurchaseWindow \in Nat
  BY <1>1, SimulatorAssumption DEF Emission
<1>3. Succeeds(result[c], result[p]) \/ Succeeds(result[p], result[c])
  BY ResultPairs DEF Own
<1>4. CASE Succeeds(result[p], result[c])
  <2>1. result[p].ts <= result[c].ts
    BY <1>4 DEF Succeeds
  <2> QED
    BY <1>2, <2>1
<1>5. CASE Succeeds(result[c], result[p])
  <2> DEFINE k == result[p].slot - result[c].slot + 1
  <2>1. /\ result[p].ts <= result[c].ts + k * LongestFunnel
        /\ result[c].slot <= result[p].slot
    BY <1>5 DEF Succeeds, Slots
  <2>2. k \in Nat /\ k <= result[p].slot /\ LongestFunnel \in Nat
    <3>1. result[c].slot <= result[p].slot
      BY <2>1
    <3>2. k \in Nat /\ k <= result[p].slot
      BY <1>2, <3>1
    <3> QED
      BY <3>2, Costs
  <2>3. config.source = "catalog" \/ config.source = "api"
    BY SimulatorAssumption DEF IInv, SimTypeOK
  <2>4. CASE config.source = "catalog"
    <3>0. result[p].slot = result[c].slot
      BY <2>4 DEF Own
    <3>1. k = 1
      BY <1>2, <3>0
    <3>2. result[p].ts <= result[c].ts + LongestFunnel
      <4> HIDE DEF k
      <4>1. k * LongestFunnel = LongestFunnel
        BY <2>2, <3>1
      <4> QED
        BY <2>1, <4>1
    <3>3. LongestFunnel <= PurchaseWindow
      BY DEF SessionsFitWindow
    <3> HIDE DEF k
    <3> QED
      BY <1>2, <2>2, <3>2, <3>3
  <2>5. CASE config.source = "api"
    <3>1. PICK list \in ApiLists : result[p].slot <= Len(list)
      BY <2>5, ResultPairs
    <3>2. Len(list) \in Nat /\ Len(list) * LongestFunnel <= PurchaseWindow
      BY SimulatorAssumption DEF SessionsFitWindow
    <3>3. k <= Len(list)
      <4> HIDE DEF k
      <4> QED
        BY <1>2, <2>2, <3>1, <3>2
    <3>4. k * LongestFunnel <= Len(list) * LongestFunnel
      <4>1. PICK a \in Nat, b \in Nat, L \in Nat :
               a = k /\ b = Len(list) /\ L = LongestFunnel
        BY <2>2, <3>2
      <4>2. a <= b
        BY <3>3, <4>1
      <4>3. a * L <= b * L
        BY <4>2
      <4> QED
        BY <4>1, <4>3
    <3>5. k * LongestFunnel \in Nat /\ Len(list) * LongestFunnel \in Nat
      <4> HIDE DEF k
      <4> QED
        BY <2>2, <3>2
    <3>6. \A u, v, a, b, w \in Nat :
             u <= v + a /\ a <= b /\ b <= w => u <= v + w
      OBVIOUS
    <3> HIDE DEF k
    <3> QED
      BY <1>2, <2>1, <3>2, <3>4, <3>5, <3>6
  <2> QED
    BY <2>3, <2>4, <2>5
<1> QED
  BY <1>3, <1>4, <1>5

LEMMA CreditsAre ==
  ASSUME IInv, Done, SessionsFitWindow, NEW i \in 1..Len(result),
         result[i].type = "impression"
  PROVE  /\ Labels!Click(result, i) # 0 <=> Has(i, 2)
         /\ Labels!Cart(result, i) # 0 <=> Has(i, 3)
         /\ Labels!Purchase(result, i) # 0 <=> Has(i, 4)
<1> DEFINE n == Len(result)
           B(type) == Labels!Bucket(result, result[i].key, type)
           t == result[i].ts
<1>1. \A j \in 1..n : result[j] \in Emission
  BY ResultPairs
<1>2. t \in Nat /\ n \in Nat
  BY <1>1, ResultPairs DEF Emission
<1>3. \A type : B(type) = {j \in 1..n : result[j].key = result[i].key
                                           /\ result[j].type = type}
  BY DEF Labels!Bucket, Labels!Ids
<1>4. /\ Funnel[2] = "click" /\ Funnel[3] = "cart" /\ Funnel[4] = "purchase"
      /\ \A m \in 2..4 : Funnel[m] # "impression"
  BY StageIs DEF Funnel
<1>5. \A j \in 1..n, m \in 1..4 : result[j].type = Funnel[m] <=> Stage(result[j].type) = m
  BY <1>1, StageIs DEF Emission
<1>6. ASSUME NEW m \in 2..4
      PROVE  Has(i, m) <=> \E j \in B(Funnel[m]) : result[j].ts > t
  <2>1. ASSUME NEW j \in 1..n, Own(i, j), Stage(result[j].type) = m
        PROVE  j \in B(Funnel[m]) /\ result[j].ts > t
    <3>1. result[j].key = result[i].key /\ result[j].type = Funnel[m]
      BY <1>5, <2>1 DEF Own
    <3>2. result[j].type # "impression"
      BY <1>4, <3>1
    <3>3. result[j].ts > t
      BY <2>1, <3>1, <3>2, OwnAreTheLater
    <3> QED
      BY <1>3, <3>1, <3>3
  <2>2. ASSUME NEW j \in B(Funnel[m]), result[j].ts > t
        PROVE  j \in 1..n /\ Own(i, j) /\ Stage(result[j].type) = m
    <3>1. j \in 1..n /\ result[j].key = result[i].key /\ result[j].type = Funnel[m]
      BY <1>3
    <3>2. result[j].type # "impression"
      BY <1>4, <3>1
    <3>3. Own(i, j)
      BY <2>2, <3>1, <3>2, OwnAreTheLater
    <3> QED
      BY <1>5, <3>1, <3>3
  <2> HIDE DEF B, t
  <2> QED
    BY <2>1, <2>2 DEF Has, n
<1>7. \A type : B(type) \in SUBSET (1..n)
  BY <1>3
<1>8. Labels!Click(result, i) # 0 <=> Has(i, 2)
  <2>1. Labels!Click(result, i) = Labels!EarliestAfter(result, B(Funnel[2]), t)
    BY <1>4 DEF Labels!Click
  <2> HIDE DEF B, t, n
  <2>2. Labels!EarliestAfter(result, B(Funnel[2]), t) = 0
           <=> \A j \in B(Funnel[2]) : ~(result[j].ts > t)
    BY <1>2, <1>7, FirstAfter DEF n
  <2> QED
    BY <1>6, <2>1, <2>2
<1>9. Labels!Cart(result, i) # 0 <=> Has(i, 3)
  <2>1. Labels!Cart(result, i) = Labels!EarliestAfter(result, B(Funnel[3]), t)
    BY <1>4 DEF Labels!Cart
  <2> HIDE DEF B, t, n
  <2>2. Labels!EarliestAfter(result, B(Funnel[3]), t) = 0
           <=> \A j \in B(Funnel[3]) : ~(result[j].ts > t)
    BY <1>2, <1>7, FirstAfter DEF n
  <2> QED
    BY <1>6, <2>1, <2>2
<1> DEFINE a == Labels!AnchorEvent(result, i)
           C == {p \in B(Funnel[4]) : /\ result[a].ts <= result[p].ts
                                      /\ result[p].ts <= result[a].ts + PurchaseWindow}
<1>10. a # 0 => result[a].ts > t /\ a \in 1..n
  <2>1. /\ Labels!Click(result, i) = Labels!EarliestAfter(result, B(Funnel[2]), t)
        /\ Labels!Cart(result, i) = Labels!EarliestAfter(result, B(Funnel[3]), t)
    BY <1>4 DEF Labels!Click, Labels!Cart
  <2>2. a = Labels!Click(result, i) \/ a = Labels!Cart(result, i)
    BY DEF Labels!AnchorEvent
  <2> HIDE DEF B, t, n, a
  <2>3. \A m \in 2..3 : LET o == Labels!EarliestAfter(result, B(Funnel[m]), t)
                        IN  o # 0 => result[o].ts > t /\ o \in 1..n
    <3> SUFFICES ASSUME NEW m \in 2..3
                 PROVE  LET o == Labels!EarliestAfter(result, B(Funnel[m]), t)
                        IN  o # 0 => result[o].ts > t /\ o \in 1..n
      OBVIOUS
    <3>1. B(Funnel[m]) \in SUBSET (1..Len(result))
      BY <1>7 DEF n
    <3>2. LET o == Labels!EarliestAfter(result, B(Funnel[m]), t)
          IN  o # 0 => o \in B(Funnel[m]) /\ result[o].ts > t
      BY <1>2, <3>1, FirstAfter
    <3> QED
      BY <3>1, <3>2 DEF n
  <2> QED
    BY <2>1, <2>2, <2>3
<1>11. Labels!Purchase(result, i)
          = IF a = 0 \/ C = {} THEN 0 ELSE Labels!Earliest(result, C)
  BY <1>4 DEF Labels!Purchase, Labels!EarliestInWindow, Labels!None
<1>12. C \in SUBSET (1..n)
  BY <1>7
<1>13. Labels!Purchase(result, i) # 0 <=> a # 0 /\ C # {}
  <2> HIDE DEF B, a, C
  <2>1. C # {} => Labels!Earliest(result, C) \in Nat \ {0}
    BY <1>12, EarliestIsEarliest
  <2> QED
    BY <1>11, <2>1
<1>14. ASSUME a # 0, C # {}
       PROVE  Has(i, 4)
  <2>1. PICK p \in C : TRUE
    BY <1>14
  <2>2. p \in B(Funnel[4]) /\ p \in 1..n /\ result[a].ts <= result[p].ts
    BY <1>12, <2>1
  <2>3. result[p].ts \in Nat
    BY <1>1, <2>2 DEF Emission
  <2>4. result[p].ts > t
    <3> HIDE DEF B, C, a
    <3>1. result[a].ts > t /\ result[a].ts \in Nat
      BY <1>1, <1>10, <1>14 DEF Emission
    <3> QED
      BY <1>2, <2>2, <2>3, <3>1
  <2> HIDE DEF B, C, a, t
  <2> QED
    BY <1>6, <2>2, <2>4
<1>15. ASSUME Has(i, 4)
       PROVE  a # 0 /\ C # {}
  <2>1. Has(i, 3) /\ Has(i, 2)
    BY <1>15, FunnelIsOwn
  <2>2. a = Labels!Click(result, i) /\ a # 0
    BY <1>8, <2>1 DEF Labels!AnchorEvent, Labels!None
  <2>3. PICK p \in 1..n : Own(i, p) /\ Stage(result[p].type) = 4
    BY <1>15 DEF Has
  <2>4. a = Labels!EarliestAfter(result, B(Funnel[2]), t)
    BY <1>4, <2>2 DEF Labels!Click
  <2>5. /\ a \in B(Funnel[2]) /\ result[a].ts > t
        /\ \A j \in B(Funnel[2]) : result[j].ts > t => result[a].ts <= result[j].ts
    <3> HIDE DEF B, t, n, a, C
    <3> QED
      BY <1>2, <1>7, <2>2, <2>4, FirstAfter DEF n
  <2>6. a \in 1..n /\ Own(i, a) /\ Stage(result[a].type) = 2
    <3>1. a \in 1..n /\ result[a].key = result[i].key /\ result[a].type = Funnel[2]
      BY <1>3, <2>5
    <3>2. result[a].type # "impression"
      BY <1>4, <3>1
    <3> HIDE DEF a, B, C
    <3>3. Own(i, a)
      BY <2>5, <3>1, <3>2, OwnAreTheLater
    <3> QED
      BY <1>5, <3>1, <3>3
  <2>7. result[p].ts <= result[a].ts + PurchaseWindow
    <3> HIDE DEF a, B, C
    <3> QED
      BY <2>3, <2>6, PurchaseInWindow
  <2>8. result[a].ts <= result[p].ts
    <3>1. PICK x \in 1..n : /\ result[x].key = result[p].key
                            /\ result[x].slot = result[p].slot
                            /\ Stage(result[x].type) = 3
      BY <2>3, ResultPairs
    <3>2. PICK c \in 1..n : /\ result[c].key = result[x].key
                            /\ result[c].slot = result[x].slot
                            /\ Stage(result[c].type) = 2
      BY <3>1, ResultPairs
    <3>3. Own(i, c) /\ c # p
      BY <2>3, <3>1, <3>2 DEF Own
    <3>4. Succeeds(result[c], result[p]) \/ Succeeds(result[p], result[c])
      BY <3>1, <3>2, <3>3, ResultPairs
    <3>5. result[c].ts <= result[p].ts
      BY <2>3, <3>1, <3>2, <3>4 DEF Succeeds
    <3>6. c \in B(Funnel[2]) /\ result[c].ts > t
      <4>1. result[c].key = result[i].key /\ result[c].type = Funnel[2]
        BY <1>5, <3>2, <3>3 DEF Own
      <4>2. result[c].type # "impression"
        BY <1>4, <4>1
      <4> QED
        BY <1>3, <3>3, <4>1, <4>2, OwnAreTheLater
    <3>7. result[a].ts <= result[c].ts
      BY <2>5, <3>6
    <3>8. result[a].ts \in Nat /\ result[c].ts \in Nat /\ result[p].ts \in Nat
      BY <1>1, <2>6 DEF Emission
    <3> HIDE DEF a
    <3> QED
      BY <3>5, <3>7, <3>8
  <2>9. p \in B(Funnel[4])
    BY <1>3, <1>5, <2>3 DEF Own
  <2> HIDE DEF a, B
  <2> QED
    BY <2>2, <2>7, <2>8, <2>9
<1> QED
  BY <1>8, <1>9, <1>13, <1>14, <1>15

(* As long as sessions fit the purchase window: an impression's label is   *)
(* the deepest stage its item reached from that exposure on, of any length *)
(* of list, interleaving of sessions and place of the cut.                 *)
THEOREM LabelsAreTruthful ==
  ASSUME SessionsFitWindow
  PROVE  Spec => []LabelsTellTheTruth
<1>1. IInv => LabelsTellTheTruth
  <2> SUFFICES ASSUME IInv, Done, NEW i \in Labels!Impressions(result)
               PROVE  Labels!Label(result, i) = Reached(i) - 1
    BY DEF LabelsTellTheTruth
  <2>1. i \in 1..Len(result) /\ result[i].type = "impression"
    BY DEF Labels!Impressions, Labels!IsImpression, Labels!Ids
  <2> DEFINE own == {j \in DOMAIN result :
                       /\ result[j].key = result[i].key
                       /\ result[j].slot >= result[i].slot
                       /\ config.source = "catalog" =>
                             result[j].slot = result[i].slot}
             stages == {Stage(result[j].type) : j \in own}
  <2>2. Reached(i) = CHOOSE n \in stages : \A m \in stages : m <= n
    BY DEF Reached
  <2>3. \A j \in 1..Len(result) : result[j] \in Emission
    BY ResultPairs
  <2>4. DOMAIN result = 1..Len(result)
    BY ResultIs, ResultPairs
  <2>5. \A j : j \in own <=> Own(i, j)
    BY <2>4 DEF Own
  <2>6. \A m : m \in stages <=> Has(i, m)
    <3>1. \A j : Own(i, j) => j \in 1..Len(result)
      BY DEF Own
    <3> HIDE DEF own
    <3> QED
      BY <2>5, <3>1 DEF Has
  <2>7. \A m \in stages : m \in 1..4
    <3>1. \A j \in own : Stage(result[j].type) \in 1..4
      BY <2>3, <2>4, StageIs DEF Emission
    <3> HIDE DEF own
    <3> QED
      BY <3>1
  <2>8. 1 \in stages
    <3>1. Own(i, i) /\ Stage(result[i].type) = 1
      <4>1. result[i].slot \in Nat
        BY <2>1, <2>3 DEF Emission
      <4>2. Stage("impression") = 1
        BY StageIs DEF Types
      <4> QED
        BY <2>1, <4>1, <4>2 DEF Own
    <3>2. i \in own
      BY <2>5, <3>1
    <3> HIDE DEF own
    <3> QED
      BY <3>1, <3>2
  <2>9. (4 \in stages => 3 \in stages) /\ (3 \in stages => 2 \in stages)
    <3>1. Has(i, 4) => Has(i, 4 - 1)
      BY <2>1, FunnelIsOwn
    <3>2. Has(i, 3) => Has(i, 3 - 1)
      BY <2>1, FunnelIsOwn
    <3> HIDE DEF stages
    <3> QED
      BY <2>6, <3>1, <3>2
  <2>10. /\ Labels!Click(result, i) # 0 <=> 2 \in stages
         /\ Labels!Cart(result, i) # 0 <=> 3 \in stages
         /\ Labels!Purchase(result, i) # 0 <=> 4 \in stages
    <3> HIDE DEF stages
    <3> QED
      BY <2>1, <2>6, CreditsAre
  <2>11. Labels!Label(result, i) = IF 4 \in stages THEN 3
                                   ELSE IF 3 \in stages THEN 2
                                   ELSE IF 2 \in stages THEN 1 ELSE 0
    <3> HIDE DEF stages
    <3> QED
      BY <2>10 DEF Labels!Label, Labels!None
  <2> HIDE DEF stages
  <2>12. ASSUME NEW n \in 1..4, n \in stages, \A m \in stages : m <= n
         PROVE  Reached(i) = n
    <3>1. /\ Reached(i) \in stages
          /\ \A m \in stages : m <= Reached(i)
      BY <2>2, <2>12
    <3>2. Reached(i) \in 1..4 /\ n <= Reached(i) /\ Reached(i) <= n
      BY <2>7, <2>12, <3>1
    <3> QED
      BY <3>2
  <2>13. CASE 4 \in stages
    <3>1. \A m \in stages : m <= 4
      BY <2>7
    <3>2. Reached(i) = 4
      BY <2>12, <2>13, <3>1
    <3> QED
      BY <2>11, <2>13, <3>2
  <2>14. CASE 4 \notin stages /\ 3 \in stages
    <3>1. \A m \in stages : m <= 3
      BY <2>7, <2>14
    <3>2. Reached(i) = 3
      BY <2>12, <2>14, <3>1
    <3> QED
      BY <2>11, <2>14, <3>2
  <2>15. CASE 4 \notin stages /\ 3 \notin stages /\ 2 \in stages
    <3>1. \A m \in stages : m <= 2
      BY <2>7, <2>15
    <3>2. Reached(i) = 2
      BY <2>12, <2>15, <3>1
    <3> QED
      BY <2>11, <2>15, <3>2
  <2>16. CASE 4 \notin stages /\ 3 \notin stages /\ 2 \notin stages
    <3>1. \A m \in stages : m <= 1
      BY <2>7, <2>16
    <3>2. Reached(i) = 1
      BY <2>8, <2>12, <3>1
    <3> QED
      BY <2>11, <2>16, <3>2
  <2> QED
    BY <2>13, <2>14, <2>15, <2>16
<1> QED
  BY <1>1, Invariance, PTL

-----------------------------------------------------------------------------
(* The metrics.  A sum of gains is the history of a loop.                  *)

(* What the loop of the sum holds after each place.                        *)
LEMMA GainsAre ==
  ASSUME NEW places
  PROVE  /\ GainsUpTo(places) \in [0..Len(Gain) -> Nat]
         /\ GainsUpTo(places)[0] = 0
         /\ \A n \in 1..Len(Gain) :
               GainsUpTo(places)[n] = GainsUpTo(places)[n - 1]
                                + (IF n \in places THEN Gain[n] ELSE 0)
<1> DEFINE N == Len(Gain)
           add(n) == IF n \in places THEN Gain[n] ELSE 0
           step == [p \in Nat \X (1..N) |-> p[1] + add(p[2])]
           G == GainsUpTo(places)
           T == {n \in 0..N : G[n] \in Nat}
<1>1. N \in Nat /\ \A n \in 1..N : add(n) \in Nat
  BY GainAssumption
<1> HIDE DEF N, add
<1>2. \A n \in 1..N : \A a \in Nat : step[<<a, n>>] = a + add(n) /\ a + add(n) \in Nat
  BY <1>1
<1>3. PICK f : IsHistory(f, N, Nat, 0, step)
  <2>1. IsLoop(N, Nat, 0, step)
    BY <1>1, <1>2 DEF IsLoop
  <2> HIDE DEF step
  <2> QED
    BY <2>1, LoopHasHistory
<1>4. ASSUME NEW n \in 1..N
      PROVE  f[n] = f[n - 1] + add(n)
  <2>1. f[n - 1] \in Nat
    BY <1>1, <1>3 DEF IsHistory
  <2> QED
    BY <1>2, <1>3, <2>1 DEF IsHistory
<1>5. f = [n \in 0..N |-> IF n = 0 THEN 0 ELSE f[n - 1] + add(n)]
  BY <1>3, <1>4 DEF IsHistory
<1>6. G = [n \in 0..N |-> IF n = 0 THEN 0 ELSE G[n - 1] + add(n)]
  BY <1>5 DEF GainsUpTo, add, N
<1> HIDE DEF G
<1>7. G[0] = 0 /\ \A n \in 1..N : G[n] = G[n - 1] + add(n)
  BY <1>1, <1>6
<1>8. \A n \in 0..N : n \in T
  <2>1. \A n \in 1..N : n - 1 \in T => n \in T
    BY <1>1, <1>7
  <2>2. 0 \in T
    BY <1>1, <1>7
  <2> HIDE DEF T
  <2> QED
    BY <1>1, <2>1, <2>2, RangeInduction
<1>9. G \in [0..N -> Nat]
  BY <1>6, <1>8
<1> QED
  BY <1>7, <1>9 DEF N, G, add

LEMMA GainIs ==
  /\ Len(Gain) \in Nat
  /\ \A n \in 1..Len(Gain) : Gain[n] \in Nat /\ Gain[n] > 0
  /\ \A m, n \in 1..Len(Gain) : m < n => Gain[m] > Gain[n]
BY GainAssumption

(* One place more adds its gain.                                           *)
LEMMA AddPlace ==
  ASSUME NEW places, NEW x \in 1..Len(Gain), x \notin places
  PROVE  SumOfGains(places \cup {x}) = SumOfGains(places) + Gain[x]
<1> DEFINE N == Len(Gain)
           G == GainsUpTo(places)
           H == GainsUpTo(places \cup {x})
           T == {n \in 0..N : H[n] = G[n] + (IF x <= n THEN Gain[x] ELSE 0)}
<1>1. N \in Nat /\ x \in 1..N /\ Gain[x] \in Nat
  BY GainIs
<1>2. /\ G[0] = 0 /\ \A n \in 0..N : G[n] \in Nat
      /\ \A n \in 1..N : G[n] = G[n - 1] + (IF n \in places THEN Gain[n] ELSE 0)
  BY GainsAre
<1>3. /\ H[0] = 0 /\ \A n \in 0..N : H[n] \in Nat
      /\ \A n \in 1..N :
            H[n] = H[n - 1] + (IF n \in places \cup {x} THEN Gain[n] ELSE 0)
  <2> DEFINE more == places \cup {x}
  <2>1. /\ GainsUpTo(more) \in [0..N -> Nat] /\ GainsUpTo(more)[0] = 0
        /\ \A n \in 1..N : GainsUpTo(more)[n] = GainsUpTo(more)[n - 1]
                                 + (IF n \in more THEN Gain[n] ELSE 0)
    <3> HIDE DEF more
    <3> QED
      BY GainsAre
  <2> HIDE DEF N
  <2> QED
    BY <2>1
<1> HIDE DEF G, H, N
<1>4. 0 \in T
  BY <1>1, <1>2, <1>3
<1>5. ASSUME NEW n \in 1..N, n - 1 \in T
      PROVE  n \in T
  <2>1. /\ n - 1 \in 0..N /\ n \in 0..N /\ Gain[n] \in Nat
        /\ G[n] \in Nat /\ G[n - 1] \in Nat /\ H[n - 1] \in Nat
    BY <1>1, <1>2, <1>3, GainIs DEF N
  <2>2. H[n - 1] = G[n - 1] + (IF x <= n - 1 THEN Gain[x] ELSE 0)
    BY <1>5
  <2>3. CASE n = x
    <3>1. H[n] = H[n - 1] + Gain[n] /\ G[n] = G[n - 1]
      BY <1>2, <1>3, <2>1, <2>3
    <3>2. H[n - 1] = G[n - 1]
      BY <1>1, <2>1, <2>2, <2>3
    <3>3. H[n] = G[n] + Gain[x]
      BY <2>3, <3>1, <3>2
    <3> QED
      BY <1>1, <2>1, <2>3, <3>3
  <2>4. CASE n # x
    <3>1. n \in places <=> n \in places \cup {x}
      BY <2>4
    <3>2. PICK a \in Nat : a = IF n \in places THEN Gain[n] ELSE 0
      BY <2>1
    <3>3. H[n] = H[n - 1] + a /\ G[n] = G[n - 1] + a
      BY <1>2, <1>3, <3>1, <3>2
    <3>4. x <= n - 1 <=> x <= n
      BY <1>1, <2>1, <2>4
    <3>5. PICK b \in Nat : b = IF x <= n THEN Gain[x] ELSE 0
      BY <1>1
    <3>6. H[n - 1] = G[n - 1] + b
      BY <2>2, <3>4, <3>5
    <3>7. H[n] = G[n] + b
      BY <2>1, <3>3, <3>6
    <3> QED
      BY <2>1, <3>5, <3>7
  <2> QED
    BY <2>3, <2>4
<1>6. \A n \in 0..N : n \in T
  <2> HIDE DEF T
  <2> QED
    BY <1>1, <1>4, <1>5, RangeInduction
<1>7. N \in T
  BY <1>1, <1>6
<1>8. H[N] = G[N] + Gain[x]
  BY <1>1, <1>7
<1> QED
  BY <1>8 DEF SumOfGains, H, G, N

(* What the first n places gain: the best that n hits can do.              *)
Ideal(n) == SumOfGains(1..n)

LEMMA IdealGrows ==
  /\ \A n \in 0..Len(Gain) : Ideal(n) \in Nat
  /\ Ideal(0) = 0
  /\ \A n \in 1..Len(Gain) : Ideal(n) = Ideal(n - 1) + Gain[n]
  /\ \A m, n \in 0..Len(Gain) : m < n => Ideal(m) < Ideal(n)
<1> DEFINE N == Len(Gain)
           Up(n) == \A m \in 0..n : m < n => Ideal(m) < Ideal(n)
           T == {n \in 0..N : Up(n)}
<1>1. N \in Nat
  BY GainIs
<1>2. \A n \in 0..N : Ideal(n) \in Nat
  BY <1>1, GainsAre DEF Ideal, SumOfGains
<1>3. Ideal(0) = 0
  <2> DEFINE G == GainsUpTo(1..0)
             S == {n \in 0..N : G[n] = 0}
  <2>1. G[0] = 0 /\ \A n \in 1..N : G[n] = G[n - 1] + 0
    <3>1. \A n : n \notin 1..0
      OBVIOUS
    <3> QED
      BY <3>1, GainsAre
  <2> HIDE DEF G
  <2>2. 0 \in S /\ \A n \in 1..N : n - 1 \in S => n \in S
    BY <1>1, <2>1
  <2>3. \A n \in 0..N : n \in S
    <3> HIDE DEF S
    <3> QED
      BY <1>1, <2>2, RangeInduction
  <2> QED
    BY <1>1, <2>3 DEF Ideal, SumOfGains, G
<1>4. ASSUME NEW n \in 1..N
      PROVE  Ideal(n) = Ideal(n - 1) + Gain[n]
  <2>1. 1..n = (1..(n - 1)) \cup {n} /\ n \notin 1..(n - 1)
    BY <1>1
  <2> QED
    BY <2>1, AddPlace DEF Ideal
<1>5. 0 \in T
  BY <1>1
<1>6. ASSUME NEW n \in 1..N, n - 1 \in T
      PROVE  n \in T
  <2>1. n \in 0..N /\ n - 1 \in 0..N /\ Up(n - 1)
    BY <1>1, <1>6
  <2>2. Ideal(n - 1) < Ideal(n)
    <3>1. Gain[n] \in Nat /\ Gain[n] > 0
      BY GainIs
    <3>2. Ideal(n - 1) \in Nat
      BY <1>2, <2>1
    <3>3. Ideal(n) = Ideal(n - 1) + Gain[n]
      BY <1>4
    <3> HIDE DEF Ideal
    <3> QED
      BY <3>1, <3>2, <3>3
  <2>3. ASSUME NEW m \in 0..n, m < n
        PROVE  Ideal(m) < Ideal(n)
    <3>1. CASE m = n - 1
      BY <2>2, <3>1
    <3>2. CASE m # n - 1
      <4>1. m \in 0..(n - 1) /\ m < n - 1 /\ m \in 0..N
        BY <1>1, <2>3, <3>2
      <4>2. Ideal(m) < Ideal(n - 1)
        BY <2>1, <4>1
      <4> QED
        BY <1>2, <2>1, <2>2, <4>1, <4>2
    <3> QED
      BY <3>1, <3>2
  <2> QED
    BY <2>1, <2>3
<1>7. \A n \in 0..N : n \in T
  <2> HIDE DEF T
  <2> QED
    BY <1>1, <1>5, <1>6, RangeInduction
<1>8. ASSUME NEW m \in 0..N, NEW n \in 0..N, m < n
      PROVE  Ideal(m) < Ideal(n)
  BY <1>1, <1>7, <1>8
<1> QED
  BY <1>2, <1>3, <1>4, <1>8

UpTo(P, n) == {p \in P : p <= n}

(* The hits Q among the first n places gain no more than the first places. *)
Outdone(Q, n) ==
    /\ IsFiniteSet(Q) /\ Cardinality(Q) \in 0..n
    /\ SumOfGains(Q) \in Nat
    /\ SumOfGains(Q) <= Ideal(Cardinality(Q))
    /\ SumOfGains(Q) = Ideal(Cardinality(Q)) <=> Q = 1..Cardinality(Q)

LEMMA IdealIsBest ==
  ASSUME NEW P \in SUBSET (1..Len(Gain))
  PROVE  Outdone(P, Len(Gain))
<1> DEFINE N == Len(Gain)
           T == {n \in 0..N : Outdone(UpTo(P, n), n)}
<1>1. N \in Nat
  BY GainIs
<1>2. \A Q : SumOfGains(Q) \in Nat
  BY <1>1, GainsAre DEF SumOfGains
<1>0. \A p \in P : p \in Int /\ 1 <= p /\ p <= N
  BY <1>1
<1>3. 0 \in T
  <2>0. \A p \in P : ~(p <= 0)
    BY <1>0
  <2>4. 1..0 = {}
    OBVIOUS
  <2>1. UpTo(P, 0) = {} /\ 1..0 = {}
    BY <2>0, <2>4 DEF UpTo
  <2>2. IsFiniteSet({}) /\ Cardinality({}) = 0
    BY FS_EmptySet
  <2>3. Outdone({}, 0)
    BY <1>2, <2>1, <2>2 DEF Ideal, Outdone
  <2> QED
    BY <1>1, <2>1, <2>3
<1>4. ASSUME NEW n \in 1..N, n - 1 \in T
      PROVE  n \in T
  <2> DEFINE Q == UpTo(P, n - 1)
             h == Cardinality(Q)
  <2>1. Outdone(Q, n - 1)
    BY <1>4
  <2>2. n \notin Q /\ n \in 0..N /\ n - 1 \in 0..N
    BY <1>1 DEF UpTo
  <2>0. IsFiniteSet(Q) /\ h \in 0..(n - 1)
    BY <2>1 DEF Outdone
  <2>6. \A p \in P : p <= n <=> p <= n - 1 \/ p = n
    BY <1>0, <2>2
  <2>7. n \in Int /\ n <= n /\ ~(n <= n - 1)
    BY <2>2
  <2>3. CASE n \notin P
    <3>1. UpTo(P, n) = Q
      BY <2>3, <2>6 DEF UpTo
    <3>2. Outdone(Q, n)
      BY <1>1, <2>1 DEF Outdone
    <3> QED
      BY <2>2, <3>1, <3>2
  <2>4. CASE n \in P
    <3>1. UpTo(P, n) = Q \cup {n}
      BY <2>4, <2>6, <2>7 DEF UpTo
    <3> HIDE DEF Q
    <3>2. IsFiniteSet(Q \cup {n}) /\ Cardinality(Q \cup {n}) = h + 1
      BY <2>0, <2>2, FS_AddElement
    <3>3. SumOfGains(Q \cup {n}) = SumOfGains(Q) + Gain[n]
      BY <2>2, AddPlace
    <3>4. h + 1 \in 1..n /\ h + 1 \in 1..N /\ h \in 0..N
      BY <1>1, <2>0
    <3>5. Ideal(h + 1) = Ideal(h) + Gain[h + 1] /\ Ideal(h) \in Nat
      <4>1. Ideal(h + 1) = Ideal(h + 1 - 1) + Gain[h + 1]
        BY <3>4, IdealGrows
      <4>2. h + 1 - 1 = h
        BY <3>4
      <4> QED
        BY <3>4, <4>1, <4>2, IdealGrows
    <3>6. /\ Gain[n] \in Nat /\ Gain[h + 1] \in Nat
          /\ h + 1 < n => Gain[h + 1] > Gain[n]
      BY <3>4, GainIs
    <3>0. /\ SumOfGains(Q) \in Nat /\ SumOfGains(Q) <= Ideal(h)
          /\ SumOfGains(Q) = Ideal(h) <=> Q = 1..h
      BY <2>1 DEF Outdone
    <3>9. /\ IsFiniteSet(Q \cup {n}) /\ Cardinality(Q \cup {n}) = h + 1
          /\ SumOfGains(Q \cup {n}) \in Nat /\ Ideal(h + 1) \in Nat
      BY <1>2, <3>2, <3>4, IdealGrows
    <3> DEFINE R == Q \cup {n}
    <3> HIDE DEF h, R
    <3>7. CASE h + 1 < n
      <4>1. SumOfGains(Q \cup {n}) < Ideal(h + 1)
        BY <3>0, <3>3, <3>5, <3>6, <3>7
      <4>2. Q \cup {n} # 1..(h + 1)
        BY <3>4, <3>7
      <4>3. Outdone(R, n)
        <5>1. /\ IsFiniteSet(R) /\ Cardinality(R) = h + 1 /\ SumOfGains(R) \in Nat
              /\ SumOfGains(R) < Ideal(h + 1) /\ R # 1..(h + 1)
              /\ Ideal(h + 1) \in Nat
          BY <3>9, <4>1, <4>2 DEF R
        <5>2. SumOfGains(R) <= Ideal(h + 1) /\ SumOfGains(R) # Ideal(h + 1)
          BY <5>1
        <5> QED
          BY <3>4, <5>1, <5>2 DEF Outdone
      <4> QED
        BY <2>2, <3>1, <4>3 DEF R
    <3>8. CASE h + 1 = n
      <4>1. SumOfGains(Q \cup {n}) <= Ideal(h + 1)
        BY <3>0, <3>3, <3>5, <3>6, <3>8
      <4>2. SumOfGains(Q \cup {n}) = Ideal(h + 1) <=> SumOfGains(Q) = Ideal(h)
        BY <3>0, <3>3, <3>5, <3>6, <3>8
      <4>3. Q = 1..h <=> Q \cup {n} = 1..(h + 1)
        <5>1. 1..(h + 1) = (1..h) \cup {n} /\ n \notin 1..h
          BY <3>4, <3>8
        <5> QED
          BY <2>2, <5>1
      <4>4. Outdone(R, n)
        <5>1. /\ IsFiniteSet(R) /\ Cardinality(R) = h + 1 /\ SumOfGains(R) \in Nat
              /\ SumOfGains(R) <= Ideal(h + 1)
          BY <3>9, <4>1 DEF R
        <5>2. SumOfGains(R) = Ideal(h + 1) <=> R = 1..(h + 1)
          BY <3>0, <4>2, <4>3 DEF R
        <5> QED
          BY <3>4, <5>1, <5>2 DEF Outdone
      <4> QED
        BY <2>2, <3>1, <4>4 DEF R
    <3> QED
      BY <3>4, <3>7, <3>8
  <2> QED
    BY <2>3, <2>4
<1>5. \A n \in 0..N : n \in T
  <2> HIDE DEF T
  <2> QED
    BY <1>1, <1>3, <1>4, RangeInduction
<1>6. UpTo(P, N) = P
  BY <1>0 DEF UpTo
<1>7. N \in T
  BY <1>1, <1>5
<1> QED
  BY <1>6, <1>7

LEMMA SmallerAndLarger ==
  ASSUME NEW a \in Int, NEW b \in Int
  PROVE  /\ Min({a, b}) = IF a <= b THEN a ELSE b
         /\ Max({a, b}) = IF a <= b THEN b ELSE a
<1>1. PICK m \in {a, b} : m = IF a <= b THEN a ELSE b
  OBVIOUS
<1>2. \A x \in {a, b} : m <= x
  BY <1>1
<1>3. \A x \in {a, b} : (\A y \in {a, b} : x <= y) => x = m
  BY <1>1
<1>4. Min({a, b}) = m
  BY <1>2, <1>3 DEF Min
<1>5. PICK n \in {a, b} : n = IF a <= b THEN b ELSE a
  OBVIOUS
<1>6. \A x \in {a, b} : n >= x
  BY <1>5
<1>7. \A x \in {a, b} : (\A y \in {a, b} : x >= y) => x = n
  BY <1>5
<1>8. Max({a, b}) = n
  BY <1>6, <1>7 DEF Max
<1> QED
  BY <1>1, <1>4, <1>5, <1>8

(* How far into the list a metric looks: [:k] of the code.                 *)
Reach(list, k) == IF k >= 0 THEN k ELSE Len(list) + k

LEMMA HitPlacesAre ==
  ASSUME NEW X, NEW list \in Seq(X), NEW relevant, NEW k \in Int
  PROVE  HitPlaces(list, relevant, k)
            = {n \in 1..Len(list) : n <= Reach(list, k) /\ list[n] \in relevant}
<1> DEFINE L == Len(list)
           cut == IF k >= 0 THEN Min({k, L}) ELSE L + k
           top == TopK(list, k)
<1>1. L \in Nat /\ \A n \in 1..L : list[n] \in X
  OBVIOUS
<1>2. cut \in Int /\ cut <= L
  BY <1>1, SmallerAndLarger
<1>3. \A n \in 1..L : n <= cut <=> n <= Reach(list, k)
  BY <1>1, SmallerAndLarger DEF Reach
<1>4. top = SubSeq(list, 1, cut)
  BY DEF TopK
<1> HIDE DEF cut, top, L
<1>5. \A n \in 1..cut : n \in 1..L
  BY <1>1, <1>2
<1>6. /\ top \in Seq(X)
      /\ Len(top) = IF 1 <= cut THEN cut - 1 + 1 ELSE 0
      /\ \A i \in 1..(cut - 1 + 1) : top[i] = list[1 + i - 1]
  <2>1. \A i \in 1..cut : list[i] \in X
    BY <1>1, <1>5
  <2> QED
    BY <1>2, <1>4, <2>1, SubSeqProperties
<1>7. DOMAIN top = 1..cut
  <2>1. DOMAIN top = 1..Len(top)
    BY <1>6
  <2> QED
    BY <1>2, <1>6, <2>1
<1>8. \A n \in 1..cut : top[n] = list[n]
  BY <1>2, <1>6
<1>9. \A n : n \in 1..cut <=> n \in 1..L /\ n <= cut
  BY <1>1, <1>2
<1>10. HitPlaces(list, relevant, k) = {n \in 1..cut : list[n] \in relevant}
  BY <1>7, <1>8 DEF HitPlaces, top
<1> QED
  BY <1>3, <1>9, <1>10 DEF L

(* Of a list without duplicates, the hits are no more than what is         *)
(* relevant, nor than the places looked at.                                *)
LEMMA HitsAreFew ==
  ASSUME NEW X, NEW list \in Seq(X), IsInjective(list), NEW k \in Int,
         NEW relevant, IsFiniteSet(relevant)
  PROVE  /\ IsFiniteSet(HitPlaces(list, relevant, k))
         /\ Hits(list, relevant, k) \in Nat
         /\ Hits(list, relevant, k) <= Cardinality(relevant)
         /\ k >= 0 => Hits(list, relevant, k) <= k
<1> DEFINE H == HitPlaces(list, relevant, k)
           L == Len(list)
<1>1. L \in Nat
  OBVIOUS
<1>2. H = {n \in 1..L : n <= Reach(list, k) /\ list[n] \in relevant}
  BY HitPlacesAre
<1> HIDE DEF H
<1>3. IsFiniteSet(H) /\ Cardinality(H) \in Nat
  <2>1. H \in SUBSET (1..L) /\ IsFiniteSet(1..L)
    BY <1>1, <1>2, FS_Interval
  <2>2. IsFiniteSet(H)
    BY <2>1, FS_Subset
  <2> QED
    BY <2>2, FS_CardinalityType
<1>4. Cardinality(H) <= Cardinality(relevant)
  <2> DEFINE item == [n \in H |-> list[n]]
  <2>1. item \in [H -> relevant]
    BY <1>2
  <2>2. \A m, n \in H : item[m] = item[n] => m = n
    BY <1>2 DEF IsInjective
  <2> HIDE DEF item
  <2>3. item \in Injection(H, relevant)
    BY <2>1, <2>2, Fun_IsInj
  <2> QED
    BY <2>3, FS_Injection
<1>5. k >= 0 => Cardinality(H) <= k
  <2> SUFFICES ASSUME k >= 0
               PROVE  Cardinality(H) <= k
    OBVIOUS
  <2>1. H \in SUBSET (1..k)
    BY <1>1, <1>2 DEF Reach
  <2>2. IsFiniteSet(1..k) /\ Cardinality(1..k) = k
    BY FS_Interval
  <2> QED
    BY <2>1, <2>2, FS_Subset
<1> QED
  BY <1>3, <1>4, <1>5 DEF Hits, H

(* A list that metrics are taken of: no duplicates, and no more items than *)
(* there are gains.                                                        *)
IsRanking(list) ==
    /\ list \in Seq(RankedItems)
    /\ IsInjective(list)
    /\ Len(list) <= Len(Gain)

LEMMA RoomIs ==
  ASSUME NEW relevant \in SUBSET RankedItems, NEW k \in Int
  PROVE  /\ IsFiniteSet(relevant) /\ Cardinality(relevant) \in 0..Len(Gain)
         /\ k >= 0 =>
               /\ Min({Cardinality(relevant), k}) \in 0..Len(Gain)
               /\ SumOfGains(IdealHits(relevant, k))
                     = Ideal(Min({Cardinality(relevant), k}))
         /\ k <= 0 => SumOfGains(IdealHits(relevant, k)) = 0
<1> DEFINE c == Cardinality(relevant)
<1>1. IsFiniteSet(relevant) /\ c \in Nat /\ c <= Cardinality(RankedItems)
  <2>1. IsFiniteSet(relevant) /\ c <= Cardinality(RankedItems)
    BY OfflineAssumption, FS_Subset
  <2> QED
    BY <2>1, FS_CardinalityType
<1>2. Cardinality(RankedItems) \in Nat /\ Cardinality(RankedItems) < Len(Gain)
  BY OfflineAssumption, FS_CardinalityType
<1>3. c \in 0..Len(Gain)
  BY <1>1, <1>2, GainIs
<1> HIDE DEF c
<1>4. ASSUME k >= 0
      PROVE  /\ Min({c, k}) \in 0..Len(Gain)
             /\ SumOfGains(IdealHits(relevant, k)) = Ideal(Min({c, k}))
  <2>1. Min({c, k}) \in 0..Len(Gain)
    BY <1>3, <1>4, GainIs, SmallerAndLarger
  <2> QED
    BY <2>1 DEF IdealHits, Ideal, c
<1>5. ASSUME k <= 0
      PROVE  SumOfGains(IdealHits(relevant, k)) = 0
  <2>1. Min({c, k}) = k
    BY <1>3, <1>5, SmallerAndLarger
  <2>2. 1..k = 1..0
    BY <1>5
  <2>3. IdealHits(relevant, k) = 1..0
    BY <2>1, <2>2 DEF IdealHits, c
  <2> QED
    BY <2>3, IdealGrows DEF Ideal
<1> QED
  BY <1>1, <1>3, <1>4, <1>5 DEF c

(* nDCG is a share, and 1 just for the lists that begin with what is       *)
(* relevant, as far as there is room.                                      *)
LEMMA NdcgIsShare ==
  ASSUME NEW list, IsRanking(list), NEW relevant \in SUBSET RankedItems,
         NEW k \in Int
  PROVE  LET ndcg == NdcgAtK(list, relevant, k)
             room == Min({Cardinality(relevant), k})
         IN  /\ IsShare(ndcg)
             /\ (ndcg[1] = ndcg[2]) <=>
                   /\ room > 0
                   /\ Len(list) >= room
                   /\ \A n \in 1..room : list[n] \in relevant
             /\ k <= 0 => ndcg = <<0, 1>>
<1> DEFINE c == Cardinality(relevant)
           room == Min({c, k})
           H == HitPlaces(list, relevant, k)
           h == Cardinality(H)
           idcg == SumOfGains(IdealHits(relevant, k))
           L == Len(list)
           ndcg == NdcgAtK(list, relevant, k)
           Fits == L >= room /\ \A n \in 1..room : list[n] \in relevant
<1>1. /\ IsFiniteSet(relevant) /\ c \in 0..Len(Gain)
      /\ k >= 0 => room \in 0..Len(Gain) /\ idcg = Ideal(room)
      /\ k <= 0 => idcg = 0
  BY RoomIs
<1>2. /\ room = IF c <= k THEN c ELSE k
      /\ c \in Int
  BY <1>1, SmallerAndLarger
<1>3. H = {n \in 1..L : n <= Reach(list, k) /\ list[n] \in relevant}
  BY HitPlacesAre DEF IsRanking
<1>4. L \in Nat /\ L <= Len(Gain) /\ Len(Gain) \in Nat
  BY GainIs DEF IsRanking
<1>5. /\ IsFiniteSet(H) /\ h \in Nat /\ h <= c
      /\ k >= 0 => h <= k
  BY <1>1, HitsAreFew DEF IsRanking, Hits
<1>6. DcgAtK(list, relevant, k) = SumOfGains(H)
  BY DEF DcgAtK
<1>7. Outdone(H, Len(Gain))
  <2>1. H \in SUBSET (1..Len(Gain))
    BY <1>3, <1>4
  <2> HIDE DEF H
  <2> QED
    BY <2>1, IdealIsBest
<1>8. SumOfGains(H) \in Nat
  BY <1>7 DEF Outdone
<1>9. ndcg = IF idcg > 0 THEN <<SumOfGains(H), idcg>> ELSE <<0, 1>>
  BY <1>6 DEF NdcgAtK
<1>13. SUFFICES /\ IsShare(ndcg)
                /\ (ndcg[1] = ndcg[2]) <=> room > 0 /\ Fits
                /\ k <= 0 => ndcg = <<0, 1>>
  OBVIOUS
<1>14. room \in Int
  BY <1>1, <1>2
<1> HIDE DEF idcg, H, h, c, room, ndcg
<1>10. CASE k <= 0
  <2>1. ndcg = <<0, 1>>
    BY <1>1, <1>9, <1>10
  <2>2. ~(room > 0)
    BY <1>2, <1>10
  <2>3. IsShare(ndcg) /\ ndcg[1] # ndcg[2]
    BY <2>1 DEF IsShare, Leq
  <2> HIDE DEF Fits
  <2> QED
    BY <2>1, <2>2, <2>3
<1>11. CASE k > 0
  <2>1. h <= room /\ room \in 0..Len(Gain) /\ h \in 0..Len(Gain)
    BY <1>1, <1>2, <1>4, <1>5, <1>11
  <2>2. idcg = Ideal(room) /\ idcg \in Nat /\ Ideal(h) \in Nat
    BY <1>1, <1>11, <2>1, IdealGrows
  <2>3. /\ h < room => Ideal(h) < Ideal(room)
        /\ room > 0 => idcg > 0
        /\ room = 0 => idcg = 0
    <3>1. 0 \in 0..Len(Gain) /\ Ideal(0) = 0
      BY <1>4, IdealGrows
    <3>2. h < room => Ideal(h) < Ideal(room)
      BY <2>1, IdealGrows
    <3>3. room > 0 => Ideal(0) < Ideal(room)
      BY <2>1, <3>1, IdealGrows
    <3> QED
      BY <2>1, <2>2, <3>1, <3>2, <3>3
  <2>4. /\ SumOfGains(H) <= Ideal(h)
        /\ SumOfGains(H) = Ideal(h) <=> H = 1..h
    BY <1>7 DEF Outdone, h
  <2>5. Ideal(h) <= idcg
    BY <2>1, <2>2, <2>3
  <2>6. SumOfGains(H) = idcg <=> h = room /\ H = 1..h
    BY <1>8, <2>1, <2>2, <2>3, <2>4, <2>5
  <2>7. CASE room = 0
    <3>1. ndcg = <<0, 1>>
      BY <1>9, <2>3, <2>7
    <3>2. IsShare(ndcg) /\ ndcg[1] # ndcg[2]
      BY <3>1 DEF IsShare, Leq
    <3> HIDE DEF Fits
    <3> QED
      BY <1>11, <2>7, <3>1, <3>2
  <2>8. CASE room > 0
    <3>1. ndcg = <<SumOfGains(H), idcg>>
      BY <1>9, <2>3, <2>8
    <3>2. IsShare(<<SumOfGains(H), idcg>>)
      <4>1. SumOfGains(H) <= idcg
        BY <1>8, <2>2, <2>4, <2>5
      <4> QED
        BY <1>8, <2>2, <4>1 DEF IsShare, Leq
    <3>3. ASSUME h = room, H = 1..h
          PROVE  Fits
      <4>1. \A n \in 1..room : n \in H
        BY <3>3
      <4>2. room \in H
        BY <2>1, <2>8, <4>1
      <4>3. \A n \in H : n <= L /\ list[n] \in relevant
        BY <1>3, <1>4
      <4> QED
        BY <1>4, <2>1, <4>1, <4>2, <4>3
    <3>4. ASSUME Fits
          PROVE  h = room /\ H = 1..h
      <4>1. room <= k
        BY <1>2
      <4>2. \A n \in 1..room : n \in 1..L /\ n <= Reach(list, k)
        BY <1>4, <1>11, <2>1, <3>4, <4>1 DEF Reach
      <4>3. 1..room \in SUBSET H
        BY <1>3, <3>4, <4>2
      <4>4. IsFiniteSet(1..room) /\ Cardinality(1..room) = room
        BY <2>1, FS_Interval
      <4> DEFINE R == 1..room
      <4>6. R \in SUBSET H /\ IsFiniteSet(R) /\ Cardinality(R) = room
        BY <4>3, <4>4
      <4>7. IsFiniteSet(H) /\ Cardinality(H) = h
        BY <1>5 DEF h
      <4>5. room <= h /\ (h = room => H = R)
        <5> HIDE DEF R
        <5> QED
          BY <4>6, <4>7, FS_Subset
      <4> QED
        BY <1>5, <2>1, <4>5
    <3>5. SumOfGains(H) = idcg <=> Fits
      <4> HIDE DEF Fits
      <4> QED
        BY <2>6, <3>3, <3>4
    <3>6. ndcg[1] = SumOfGains(H) /\ ndcg[2] = idcg
      BY <3>1
    <3> HIDE DEF Fits
    <3> QED
      BY <1>11, <2>8, <3>1, <3>2, <3>5, <3>6
  <2> HIDE DEF Fits
  <2> QED
    BY <2>1, <2>7, <2>8
<1> HIDE DEF Fits
<1> QED
  BY <1>10, <1>11

(* Precision and recall are shares, and more room never lowers recall.     *)
LEMMA HitsAreShares ==
  ASSUME NEW list, IsRanking(list), NEW relevant \in SUBSET RankedItems,
         NEW k \in Int
  PROVE  /\ IsShare(PrecisionAtK(list, relevant, k))
         /\ IsShare(RecallAtK(list, relevant, k))
         /\ k >= 0 => Leq(RecallAtK(list, relevant, k),
                          RecallAtK(list, relevant, k + 1))
         /\ k <= 0 => PrecisionAtK(list, relevant, k) = <<0, 1>>
<1> DEFINE c == Cardinality(relevant)
           h(n) == Hits(list, relevant, n)
           H(n) == HitPlaces(list, relevant, n)
<1>1. IsFiniteSet(relevant) /\ c \in Nat
  <2>1. IsFiniteSet(relevant) /\ c \in 0..Len(Gain)
    BY RoomIs
  <2> QED
    BY <2>1, GainIs
<1>2. \A n \in Int : /\ IsFiniteSet(H(n)) /\ h(n) \in Nat /\ h(n) <= c
                     /\ n >= 0 => h(n) <= n
  <2> SUFFICES ASSUME NEW n \in Int
               PROVE  /\ IsFiniteSet(H(n)) /\ h(n) \in Nat /\ h(n) <= c
                      /\ n >= 0 => h(n) <= n
    OBVIOUS
  <2>1. list \in Seq(RankedItems) /\ IsInjective(list)
    BY DEF IsRanking
  <2> QED
    BY <1>1, <2>1, HitsAreFew
<1>3. relevant # {} => c > 0
  BY <1>1, FS_EmptySet
<1>4. IsShare(PrecisionAtK(list, relevant, k))
  <2>1. CASE k <= 0
    BY <2>1 DEF PrecisionAtK, IsShare, Leq
  <2>2. CASE k > 0
    <3>1. h(k) \in Nat /\ h(k) <= k
      BY <1>2, <2>2
    <3>2. PrecisionAtK(list, relevant, k) = <<h(k), k>>
      BY <2>2 DEF PrecisionAtK
    <3> HIDE DEF h
    <3> QED
      BY <3>1, <3>2 DEF IsShare, Leq
  <2> QED
    BY <2>1, <2>2
<1>5. \A n \in Int : RecallAtK(list, relevant, n)
                        = IF relevant = {} THEN <<0, 1>> ELSE <<h(n), c>>
  BY DEF RecallAtK
<1>6. k >= 0 => h(k) <= h(k + 1)
  <2> SUFFICES ASSUME k >= 0
               PROVE  h(k) <= h(k + 1)
    OBVIOUS
  <2>1. /\ H(k) = {n \in 1..Len(list) : n <= k /\ list[n] \in relevant}
        /\ H(k + 1) = {n \in 1..Len(list) : n <= k + 1 /\ list[n] \in relevant}
    BY HitPlacesAre DEF IsRanking, Reach
  <2>2. H(k) \in SUBSET H(k + 1)
    <3> HIDE DEF H
    <3>1. \A n \in 1..Len(list) : n <= k => n <= k + 1
      OBVIOUS
    <3> QED
      BY <2>1, <3>1
  <2>3. IsFiniteSet(H(k + 1))
    BY <1>2
  <2>4. h(k) = Cardinality(H(k)) /\ h(k + 1) = Cardinality(H(k + 1))
    BY DEF Hits
  <2> HIDE DEF h, H
  <2> QED
    BY <2>2, <2>3, <2>4, FS_Subset
<1>7. h(k) \in Nat /\ h(k + 1) \in Nat /\ h(k) <= c
  BY <1>2
<1> HIDE DEF h, c
<1>8. IsShare(RecallAtK(list, relevant, k))
  <2>1. CASE relevant = {}
    BY <1>5, <2>1 DEF IsShare, Leq
  <2>2. CASE relevant # {}
    BY <1>1, <1>5, <1>7, <2>2 DEF IsShare, Leq
  <2> QED
    BY <2>1, <2>2
<1>9. ASSUME k >= 0
      PROVE  Leq(RecallAtK(list, relevant, k), RecallAtK(list, relevant, k + 1))
  <2>1. CASE relevant = {}
    BY <1>5, <2>1 DEF Leq
  <2>2. CASE relevant # {}
    <3>1. /\ RecallAtK(list, relevant, k) = <<h(k), c>>
          /\ RecallAtK(list, relevant, k + 1) = <<h(k + 1), c>>
      BY <1>5, <2>2
    <3>2. \A a, b, d \in Nat : a <= b => a * d <= b * d
      OBVIOUS
    <3>3. h(k) * c <= h(k + 1) * c
      BY <1>1, <1>6, <1>7, <1>9, <3>2
    <3> QED
      BY <3>1, <3>3 DEF Leq
  <2> QED
    BY <2>1, <2>2
<1>10. k <= 0 => PrecisionAtK(list, relevant, k) = <<0, 1>>
  BY DEF PrecisionAtK
<1> QED
  BY <1>4, <1>8, <1>9, <1>10

(* To move a relevant item up past an irrelevant one moves one hit up by a *)
(* place, brings one in at the cut, or changes nothing behind it.          *)
LEMMA ExchangeMovesHit ==
  ASSUME NEW list, IsRanking(list), NEW relevant \in SUBSET RankedItems,
         NEW k \in Int, k > 0, NEW n \in 1..(Len(list) - 1),
         list[n] \notin relevant, list[n + 1] \in relevant
  PROVE  LET H == HitPlaces(list, relevant, k)
             better == HitPlaces(Exchanged(list, n), relevant, k)
         IN  /\ n \notin H /\ n + 1 \notin better
             /\ n < k => /\ n + 1 \in H
                         /\ better = (H \ {n + 1}) \cup {n}
             /\ n = k => better = H \cup {n}
             /\ n > k => better = H
<1> DEFINE L == Len(list)
           up == Exchanged(list, n)
           H == HitPlaces(list, relevant, k)
           U == HitPlaces(up, relevant, k)
<1>1. /\ L \in Nat /\ n \in 1..L /\ n + 1 \in 1..L /\ n + 1 # n
      /\ list \in [1..L -> RankedItems]
  BY DEF IsRanking
<1>2. up = [i \in 1..L |-> IF i = n + 1 THEN list[n]
                           ELSE IF i = n THEN list[n + 1] ELSE list[i]]
  BY <1>1 DEF Exchanged
<1> HIDE DEF up
<1>3. up \in Seq(RankedItems) /\ Len(up) = L
  <2>1. up \in [1..L -> RankedItems]
    BY <1>1, <1>2
  <2> QED
    BY <1>1, <2>1
<1>4. /\ H = {i \in 1..L : i <= k /\ list[i] \in relevant}
      /\ U = {i \in 1..L : i <= k /\ up[i] \in relevant}
  BY <1>3, HitPlacesAre DEF IsRanking, Reach
<1>5. /\ up[n] \in relevant /\ up[n + 1] \notin relevant
      /\ \A i \in 1..L : i # n /\ i # n + 1 => up[i] = list[i]
  BY <1>1, <1>2
<1>6. \A i \in 1..L : i \in Int
  OBVIOUS
<1> HIDE DEF L, H, U
<1>7. n \notin H /\ n + 1 \notin U
  BY <1>4, <1>5
<1>8. ASSUME n < k
      PROVE  n + 1 \in H /\ U = (H \ {n + 1}) \cup {n}
  <2>1. n + 1 <= k /\ n <= k
    BY <1>8
  <2>2. n + 1 \in H /\ n \in U
    BY <1>1, <1>4, <1>5, <2>1
  <2>3. \A i \in 1..L : i # n /\ i # n + 1 => (i \in H <=> i \in U)
    BY <1>4, <1>5
  <2>4. H \subseteq 1..L /\ U \subseteq 1..L
    BY <1>4
  <2> QED
    BY <1>7, <2>2, <2>3, <2>4
<1>9. ASSUME n = k
      PROVE  U = H \cup {n}
  <2>1. ~(n + 1 <= k)
    BY <1>9
  <2>2. n + 1 \notin H /\ n \in U
    BY <1>1, <1>4, <1>5, <1>9, <2>1
  <2>3. \A i \in 1..L : i # n /\ i # n + 1 => (i \in H <=> i \in U)
    BY <1>4, <1>5
  <2>4. H \subseteq 1..L /\ U \subseteq 1..L
    BY <1>4
  <2> QED
    BY <1>7, <2>2, <2>3, <2>4
<1>10. ASSUME n > k
       PROVE  U = H
  <2>1. ~(n <= k) /\ ~(n + 1 <= k)
    BY <1>10
  <2> QED
    BY <1>4, <1>5, <2>1
<1> QED
  BY <1>7, <1>8, <1>9, <1>10 DEF H, U, up

(* So nDCG rises, if the upper place counts; and unless it crosses the cut *)
(* there are as many hits as before.                                       *)
LEMMA ExchangeRaisesNdcg ==
  ASSUME NEW list, IsRanking(list), NEW relevant \in SUBSET RankedItems,
         NEW k \in Int, NEW n \in 1..(Len(list) - 1),
         list[n] \notin relevant, list[n + 1] \in relevant
  PROVE  LET better == Exchanged(list, n)
         IN  /\ n <= k => Less(NdcgAtK(list, relevant, k),
                               NdcgAtK(better, relevant, k))
             /\ k > 0 /\ n # k =>
                   /\ RecallAtK(list, relevant, k) = RecallAtK(better, relevant, k)
                   /\ PrecisionAtK(list, relevant, k)
                         = PrecisionAtK(better, relevant, k)
<1> DEFINE up == Exchanged(list, n)
           H == HitPlaces(list, relevant, k)
           U == HitPlaces(up, relevant, k)
           Q == H \ {n + 1}
           c == Cardinality(relevant)
           room == Min({c, k})
           idcg == SumOfGains(IdealHits(relevant, k))
<1>0. n \in Int /\ n >= 1 /\ n + 1 > n /\ n + 1 # n
  OBVIOUS
<1>1. SUFFICES ASSUME k > 0
               PROVE  /\ n <= k => Less(NdcgAtK(list, relevant, k),
                                        NdcgAtK(up, relevant, k))
                      /\ n # k => Cardinality(H) = Cardinality(U)
  BY <1>0 DEF RecallAtK, PrecisionAtK, Hits
<1>2. /\ n \notin H /\ n + 1 \notin U
      /\ n < k => n + 1 \in H /\ U = Q \cup {n}
      /\ n = k => U = H \cup {n}
      /\ n > k => U = H
  BY SMTT(30), <1>1, ExchangeMovesHit
<1>3. /\ n \in 1..Len(Gain) /\ n + 1 \in 1..Len(Gain)
      /\ Gain[n] \in Nat /\ Gain[n + 1] \in Nat
      /\ Gain[n] > 0 /\ Gain[n] > Gain[n + 1]
  BY GainIs, <1>0 DEF IsRanking
<1>4. \A places : SumOfGains(places) \in Nat
  <2>1. Len(Gain) \in 0..Len(Gain)
    BY GainIs
  <2> QED
    BY <2>1, GainsAre DEF SumOfGains
<1>5. idcg > 0
  <2>1. IsFiniteSet(relevant) /\ c \in 0..Len(Gain) /\ relevant # {}
    BY RoomIs
  <2>2. c > 0
    BY <2>1, FS_EmptySet
  <2>3. room \in 0..Len(Gain) /\ idcg = Ideal(room)
    <3>1. k >= 0
      BY <1>1
    <3> QED
      BY <3>1, RoomIs
  <2>4. room > 0
    BY <1>1, <2>1, <2>2, SmallerAndLarger
  <2>5. 0 \in 0..Len(Gain)
    BY GainIs
  <2> HIDE DEF room, c, idcg
  <2> QED
    BY <2>3, <2>4, <2>5, IdealGrows
<1>6. /\ NdcgAtK(list, relevant, k) = <<SumOfGains(H), idcg>>
      /\ NdcgAtK(up, relevant, k) = <<SumOfGains(U), idcg>>
  BY <1>5 DEF NdcgAtK, DcgAtK
<1>7. IsFiniteSet(H)
  BY HitsAreFew, RoomIs DEF IsRanking
<1> HIDE DEF H, U, idcg, up
<1>8. ASSUME n < k
      PROVE  SumOfGains(H) < SumOfGains(U)
  <2>1. n + 1 \notin Q /\ n \notin Q /\ H = Q \cup {n + 1} /\ U = Q \cup {n}
    BY <1>2, <1>8
  <2> HIDE DEF Q
  <2>2. /\ SumOfGains(Q \cup {n + 1}) = SumOfGains(Q) + Gain[n + 1]
        /\ SumOfGains(Q \cup {n}) = SumOfGains(Q) + Gain[n]
    BY <1>3, <2>1, AddPlace
  <2> QED
    BY <1>3, <1>4, <2>1, <2>2
<1>9. ASSUME n = k
      PROVE  SumOfGains(H) < SumOfGains(U)
  <2>1. SumOfGains(H \cup {n}) = SumOfGains(H) + Gain[n]
    BY <1>2, <1>3, AddPlace
  <2>2. U = H \cup {n} /\ SumOfGains(H) \in Nat
    BY <1>2, <1>4, <1>9
  <2> QED
    BY <1>3, <2>1, <2>2
<1>10. ASSUME n <= k
       PROVE  Less(NdcgAtK(list, relevant, k), NdcgAtK(up, relevant, k))
  <2>1. SumOfGains(H) < SumOfGains(U)
    BY <1>0, <1>8, <1>9, <1>10
  <2>2. /\ SumOfGains(H) \in Nat /\ SumOfGains(U) \in Nat
        /\ idcg \in Nat /\ idcg > 0
    BY <1>4, <1>5 DEF idcg
  <2>3. \A a, b, d \in Nat : a < b /\ d > 0 => a * d < b * d
    OBVIOUS
  <2>4. SumOfGains(H) * idcg < SumOfGains(U) * idcg
    BY <2>1, <2>2, <2>3
  <2> QED
    BY <1>6, <2>4 DEF Less
<1>11. ASSUME n # k
       PROVE  Cardinality(H) = Cardinality(U)
  <2>1. CASE n < k
    <3>1. n + 1 \notin Q /\ n \notin Q /\ H = Q \cup {n + 1} /\ U = Q \cup {n}
      BY <1>2, <2>1
    <3>2. IsFiniteSet(Q)
      BY <1>7, FS_Subset
    <3> HIDE DEF Q
    <3> QED
      BY <3>1, <3>2, FS_AddElement
  <2>2. CASE n > k
    BY <1>2, <2>2
  <2> QED
    BY <1>0, <1>11, <2>1, <2>2
<1> QED
  BY <1>10, <1>11

(* What the metrics promise, they keep for every list without duplicates.  *)
LEMMA MetricsAreSound ==
  ASSUME NEW list, IsRanking(list), NEW relevant \in SUBSET RankedItems,
         NEW k \in Int
  PROVE  SoundFor(list, relevant, k)
<1>1. /\ IsShare(PrecisionAtK(list, relevant, k))
      /\ IsShare(RecallAtK(list, relevant, k))
      /\ k >= 0 => Leq(RecallAtK(list, relevant, k),
                       RecallAtK(list, relevant, k + 1))
      /\ k <= 0 => PrecisionAtK(list, relevant, k) = <<0, 1>>
  BY HitsAreShares
<1>2. LET ndcg == NdcgAtK(list, relevant, k)
          room == Min({Cardinality(relevant), k})
      IN  /\ IsShare(ndcg)
          /\ (ndcg[1] = ndcg[2]) <=>
                /\ room > 0
                /\ Len(list) >= room
                /\ \A n \in 1..room : list[n] \in relevant
          /\ k <= 0 => ndcg = <<0, 1>>
  BY NdcgIsShare
<1>3. \A n \in 1..(Len(list) - 1) :
         list[n] \notin relevant /\ list[n + 1] \in relevant =>
           LET better == Exchanged(list, n)
           IN  /\ n <= k => Less(NdcgAtK(list, relevant, k),
                                 NdcgAtK(better, relevant, k))
               /\ k > 0 /\ n # k =>
                     /\ RecallAtK(list, relevant, k) = RecallAtK(better, relevant, k)
                     /\ PrecisionAtK(list, relevant, k)
                           = PrecisionAtK(better, relevant, k)
  BY ExchangeRaisesNdcg
<1> QED
  BY <1>1, <1>2, <1>3 DEF SoundFor

-----------------------------------------------------------------------------
(* The recommender.                                                        *)

(* How many items recommend gives for k: k, but never less than one.       *)
LEMMA MostIs ==
  ASSUME NEW k \in Int
  PROVE  /\ Max({k, 1}) \in Nat /\ Max({k, 1}) >= 1 /\ Max({k, 1}) >= k
         /\ k >= 1 => Max({k, 1}) = k
         /\ Max({k, 1}) = k \/ Max({k, 1}) = 1
<1>1. \A a, b \in Int : Max({a, b}) = IF a <= b THEN b ELSE a
  BY SmallerAndLarger
<1>2. 1 \in Int
  OBVIOUS
<1>3. Max({k, 1}) = IF k <= 1 THEN 1 ELSE k
  BY ZenonT(20), <1>1, <1>2
<1> QED
  BY <1>3

(* A list that recommend may be called with.                               *)
IsCandidates(list) ==
    /\ Len(list) \in Nat /\ DOMAIN list = 1..Len(list)
    /\ \A n \in 1..Len(list) : list[n].item \in RankedItems

Taken == [out : Seq(RankedItems), full : BOOLEAN]

(* What the loop of recommend holds after each candidate.                  *)
LEMMA TakenAre ==
  ASSUME NEW list, IsCandidates(list), NEW k \in Int, NEW seen
  PROVE  /\ TakenAfter(list, k, seen) \in [0..Len(list) -> Taken]
         /\ TakenAfter(list, k, seen)[0] = [out |-> <<>>, full |-> FALSE]
         /\ \A n \in 1..Len(list) :
               TakenAfter(list, k, seen)[n]
                  = Take(TakenAfter(list, k, seen)[n - 1], list[n].item, k, seen)
<1> DEFINE N == Len(list)
           take(a, n) == Take(a, list[n].item, k, seen)
           base == [out |-> <<>>, full |-> FALSE]
           step == [p \in Taken \X (1..N) |-> take(p[1], p[2])]
           G == TakenAfter(list, k, seen)
           T == {n \in 0..N : G[n] \in Taken}
<1>1. N \in Nat /\ \A n \in 1..N : \A a \in Taken : take(a, n) \in Taken
  <2> SUFFICES ASSUME NEW n \in 1..N, NEW a \in Taken
               PROVE  take(a, n) \in Taken
    BY DEF IsCandidates
  <2>1. list[n].item \in RankedItems
    BY DEF IsCandidates
  <2>2. a.out \in Seq(RankedItems) /\ Len(a.out) \in Nat
    BY DEF Taken
  <2>3. Append(a.out, list[n].item) \in Seq(RankedItems)
    BY <2>1, <2>2
  <2>4. (Len(a.out) + 1 >= k) \in BOOLEAN
    BY <2>2
  <2> QED
    BY <2>3, <2>4 DEF Take, Taken
<1>2. base \in Taken
  <2>1. <<>> \in Seq(RankedItems)
    OBVIOUS
  <2> QED
    BY <2>1 DEF Taken
<1> HIDE DEF N, take, base
<1>4. \A n \in 1..N : \A a \in Taken :
         step[<<a, n>>] = take(a, n) /\ take(a, n) \in Taken
  BY <1>1
<1>5. PICK f : IsHistory(f, N, Taken, base, step)
  <2>1. IsLoop(N, Taken, base, step)
    BY <1>1, <1>2, <1>4 DEF IsLoop
  <2> HIDE DEF step
  <2> QED
    BY <2>1, LoopHasHistory
<1>6. ASSUME NEW n \in 1..N
      PROVE  f[n] = take(f[n - 1], n)
  <2>1. f[n - 1] \in Taken
    BY <1>1, <1>5 DEF IsHistory
  <2> QED
    BY <1>4, <1>5, <2>1 DEF IsHistory
<1>7. f = [n \in 0..N |-> IF n = 0 THEN base ELSE take(f[n - 1], n)]
  BY <1>5, <1>6 DEF IsHistory
<1>8. G = [n \in 0..N |-> IF n = 0 THEN base ELSE take(G[n - 1], n)]
  BY <1>7 DEF TakenAfter, take, base, N
<1> HIDE DEF G
<1>9. G[0] = base /\ \A n \in 1..N : G[n] = take(G[n - 1], n)
  BY <1>1, <1>8
<1>10. \A n \in 0..N : n \in T
  <2>1. \A n \in 1..N : n - 1 \in T => n \in T
    BY <1>1, <1>9
  <2>2. 0 \in T
    BY <1>1, <1>2, <1>9
  <2> HIDE DEF T
  <2> QED
    BY <1>1, <2>1, <2>2, RangeInduction
<1>11. G \in [0..N -> Taken]
  BY <1>8, <1>10
<1> QED
  BY <1>9, <1>11 DEF N, G, take, base

-----------------------------------------------------------------------------
(* The places where an item is mentioned first, of those not seen.         *)
FirstMentions(list, seen) ==
    {i \in DOMAIN list : /\ list[i].item \notin seen
                         /\ \A j \in 1..(i - 1) : list[j].item # list[i].item}

LEMMA FirstMentionsAre ==
  ASSUME NEW list, IsCandidates(list), NEW seen
  PROVE  /\ FirstMentions(list, seen) \in SUBSET (1..Len(list))
         /\ \A i, j \in FirstMentions(list, seen) :
               list[i].item = list[j].item => i = j
         /\ \A n \in 1..Len(list) : list[n].item \notin seen =>
               \E i \in FirstMentions(list, seen) :
                   i <= n /\ list[i].item = list[n].item
<1> DEFINE F == FirstMentions(list, seen)
<1>1. Len(list) \in Nat /\ DOMAIN list = 1..Len(list)
  BY DEF IsCandidates
<1>2. F \in SUBSET (1..Len(list))
  BY <1>1 DEF FirstMentions
<1>3. ASSUME NEW i \in F, NEW j \in F, list[i].item = list[j].item
      PROVE  i = j
  <2>1. i \in Int /\ j \in Int /\ i >= 1 /\ j >= 1
    BY <1>2
  <2>2. ~(i \in 1..(j - 1)) /\ ~(j \in 1..(i - 1))
    BY <1>3 DEF FirstMentions
  <2> QED
    BY <2>1, <2>2
<1>4. ASSUME NEW n \in 1..Len(list), list[n].item \notin seen
      PROVE  \E i \in F : i <= n /\ list[i].item = list[n].item
  <2> DEFINE Same == {i \in 1..Len(list) : list[i].item = list[n].item}
  <2>1. Same \in SUBSET Nat /\ n \in Same
    OBVIOUS
  <2>2. PICK i \in Same : \A j \in Same : i <= j
    <3> HIDE DEF Same
    <3> QED
      BY <2>1, SmallestOfNats
  <2>3. \A j \in 1..(i - 1) : j \in 1..Len(list) /\ ~(i <= j)
    BY <1>1, <2>2
  <2>4. i \in F
    BY <1>1, <1>4, <2>2, <2>3 DEF FirstMentions
  <2> QED
    BY <2>1, <2>2, <2>4
<1> QED
  BY <1>2, <1>3, <1>4

(* A list of the items at the places F, cut at its end only.               *)
IsCut(out, list, F) ==
    /\ \A m \in 1..Len(out) : \E i \in F : out[m] = list[i].item
    /\ \A a, b \in 1..Len(out), i, j \in F :
          a < b /\ out[a] = list[i].item /\ out[b] = list[j].item => i < j
    /\ \A i, j \in F :
          i < j /\ Contains(out, list[j].item) => Contains(out, list[i].item)

(* The loop of recommend has taken what is offered, as far as it got and k *)
(* allows; and k allows one item, whatever it is.                          *)
TakenSoFar(acc, list, k, seen, n) ==
    LET F == FirstMentions(list, seen)
        most == Max({k, 1})
    IN  /\ acc \in Taken
        /\ IsCut(acc.out, list, F)
        /\ \A i \in F : Contains(acc.out, list[i].item) => i <= n
        /\ ~acc.full => \A i \in F : i <= n => Contains(acc.out, list[i].item)
        /\ Len(acc.out) <= most
        /\ acc.full <=> Len(acc.out) = most

LEMMA TakeKeeps ==
  ASSUME NEW list, IsCandidates(list), NEW k \in Int, NEW seen,
         NEW n \in 1..Len(list), NEW acc,
         TakenSoFar(acc, list, k, seen, n - 1)
  PROVE  TakenSoFar(Take(acc, list[n].item, k, seen), list, k, seen, n)
<1> DEFINE F == FirstMentions(list, seen)
           most == Max({k, 1})
           out == acc.out
           L == Len(out)
           x == list[n].item
           new == Append(out, x)
<1>1. /\ F \in SUBSET (1..Len(list))
      /\ \A i, j \in F : list[i].item = list[j].item => i = j
      /\ \A m \in 1..Len(list) : list[m].item \notin seen =>
            \E i \in F : i <= m /\ list[i].item = list[m].item
  BY FirstMentionsAre
<1>2. most \in Nat /\ most >= 1 /\ most >= k /\ (most = k \/ most = 1)
  BY MostIs
<1>3. /\ acc \in Taken
      /\ IsCut(out, list, F)
      /\ \A i \in F : Contains(out, list[i].item) => i <= n - 1
      /\ ~acc.full => \A i \in F : i <= n - 1 => Contains(out, list[i].item)
      /\ L <= most
      /\ acc.full <=> L = most
  BY DEF TakenSoFar
<1>4. out \in Seq(RankedItems) /\ L \in Nat
  BY <1>3 DEF Taken
<1>5. n \in Int /\ Len(list) \in Nat /\ x \in RankedItems /\ n \in 1..Len(list)
  BY DEF IsCandidates
<1>6. \A i \in F : i \in Int
  BY <1>1
<1> HIDE DEF F, most, x
<1>7. CASE acc.full \/ x \in seen \/ Contains(out, x)
  <2>1. Take(acc, x, k, seen) = acc
    BY <1>7 DEF Take
  <2>2. \A i \in F : Contains(out, list[i].item) => i <= n
    <3> SUFFICES ASSUME NEW i \in F, Contains(out, list[i].item)
                 PROVE  i <= n
      OBVIOUS
    <3>1. i <= n - 1 /\ i \in Int
      BY <1>3, <1>6
    <3> QED
      BY <1>5, <3>1
  <2>3. ASSUME ~acc.full
        PROVE  n \notin F
    <3> SUFFICES ASSUME n \in F
                 PROVE  FALSE
      OBVIOUS
    <3>1. x \notin seen
      BY DEF F, FirstMentions, x
    <3>2. Contains(out, x)
      BY <1>7, <2>3, <3>1
    <3>3. n <= n - 1
      BY <1>3, <3>2 DEF x
    <3> QED
      BY <1>5, <3>3
  <2>4. ASSUME ~acc.full, NEW i \in F, i <= n
        PROVE  Contains(out, list[i].item)
    <3>1. i # n
      BY <2>3, <2>4
    <3>2. i <= n - 1
      BY <1>5, <1>6, <2>4, <3>1
    <3> QED
      BY <1>3, <2>4, <3>2
  <2>5. TakenSoFar(acc, list, k, seen, n)
    BY <1>3, <2>2, <2>4 DEF TakenSoFar, F, most
  <2> QED
    BY <2>1, <2>5 DEF x
<1>8. CASE ~(acc.full \/ x \in seen \/ Contains(out, x))
  <2>0. ~acc.full /\ x \notin seen /\ ~Contains(out, x)
    BY <1>8
  <2>1. Take(acc, x, k, seen) = [out |-> new, full |-> L + 1 >= k]
    BY <2>0 DEF Take
  <2>2. n \in F
    <3>1. PICK i \in F : i <= n /\ list[i].item = x
      BY <1>1, <1>5, <2>0 DEF x
    <3>2. ~(i <= n - 1)
      BY <1>3, <2>0, <3>1
    <3> QED
      BY <1>5, <1>6, <3>1, <3>2
  <2>3. /\ new \in Seq(RankedItems) /\ Len(new) = L + 1 /\ new[L + 1] = x
        /\ \A m \in 1..L : new[m] = out[m]
    BY <1>4, <1>5
  <2>4. \A y : Contains(new, y) <=> Contains(out, y) \/ y = x
    <3> HIDE DEF new, out
    <3>1. 1..(L + 1) = (1..L) \cup {L + 1}
      BY <1>4
    <3> QED
      BY <2>3, <3>1 DEF Contains
  <2>5. \A i \in F : list[i].item = x => i = n
    BY <1>1, <2>2 DEF x
  <2>6. \A i \in F : i <= n - 1 => Contains(out, list[i].item)
    BY <1>3, <2>0
  <2> HIDE DEF new, out, L
  <2>7. /\ \A m \in 1..L : \E i \in F : out[m] = list[i].item
        /\ \A a, b \in 1..L, i, j \in F :
              a < b /\ out[a] = list[i].item /\ out[b] = list[j].item => i < j
        /\ \A i, j \in F :
              i < j /\ Contains(out, list[j].item) => Contains(out, list[i].item)
    BY <1>3 DEF IsCut, L
  <2>8. \A m \in 1..(L + 1) : m \in 1..L \/ m = L + 1
    BY <1>4
  <2>9. ASSUME NEW m \in 1..(L + 1)
        PROVE  \E i \in F : new[m] = list[i].item
    BY <2>2, <2>3, <2>7, <2>8 DEF x
  <2>10. ASSUME NEW a \in 1..(L + 1), NEW b \in 1..(L + 1),
                NEW i \in F, NEW j \in F, a < b,
                new[a] = list[i].item, new[b] = list[j].item
         PROVE  i < j
    <3>1. a \in 1..L
      BY <1>4, <2>10
    <3>2. CASE b \in 1..L
      BY <2>3, <2>7, <2>10, <3>1, <3>2
    <3>3. CASE b = L + 1
      <4>1. j = n
        BY <2>3, <2>5, <2>10, <3>3
      <4>2. Contains(out, list[i].item)
        BY <2>3, <2>10, <3>1 DEF Contains, L
      <4>3. i <= n - 1
        BY <1>3, <4>2 DEF out
      <4> QED
        BY <1>5, <1>6, <4>1, <4>3
    <3> QED
      BY <2>8, <3>2, <3>3
  <2>11. ASSUME NEW i \in F, NEW j \in F, i < j, Contains(new, list[j].item)
         PROVE  Contains(new, list[i].item)
    <3>1. CASE Contains(out, list[j].item)
      BY <2>4, <2>7, <2>11, <3>1
    <3>2. CASE list[j].item = x
      <4>1. j = n
        BY <2>5, <3>2
      <4>2. i <= n - 1
        BY <1>5, <1>6, <2>11, <4>1
      <4> QED
        BY <2>4, <2>6, <4>2
    <3> QED
      BY <2>4, <2>11, <3>1, <3>2
  <2>12. IsCut(new, list, F)
    <3>1. Len(new) = L + 1
      BY <2>3
    <3> QED
      BY <2>9, <2>10, <2>11, <3>1 DEF IsCut
  <2>13. ASSUME NEW i \in F, Contains(new, list[i].item)
         PROVE  i <= n
    <3>1. i <= n - 1 \/ i = n
      BY <1>3, <2>4, <2>5, <2>13 DEF out
    <3> QED
      BY <1>5, <1>6, <3>1
  <2>14. ASSUME NEW i \in F, i <= n
         PROVE  Contains(new, list[i].item)
    <3>1. i <= n - 1 \/ i = n
      BY <1>5, <1>6, <2>14
    <3> QED
      BY <2>4, <2>6, <3>1 DEF x
  <2>15. /\ L + 1 <= most
         /\ L + 1 >= k <=> L + 1 = most
    <3>1. L < most
      BY <1>2, <1>3, <1>4, <2>0 DEF L
    <3> QED
      BY <1>2, <1>4, <3>1
  <2> DEFINE next == [out |-> new, full |-> L + 1 >= k]
  <2>16. /\ next \in Taken
         /\ next.out = new /\ next.full = (L + 1 >= k)
    <3>1. (L + 1 >= k) \in BOOLEAN
      BY <1>4
    <3> QED
      BY <2>3, <3>1 DEF Taken
  <2> HIDE DEF next
  <2>17. TakenSoFar(next, list, k, seen, n)
    BY <2>3, <2>12, <2>13, <2>14, <2>15, <2>16 DEF TakenSoFar, F, most
  <2> QED
    BY <2>1, <2>17 DEF next, x
<1> QED
  BY <1>7, <1>8

(* recommend returns the candidates not seen in the order of their first   *)
(* mention, as many as k allows, but never none when there is one.         *)
LEMMA RecommendIs ==
  ASSUME NEW list, IsCandidates(list), NEW k \in Int, NEW seen
  PROVE  LET F == FirstMentions(list, seen)
             offered == {c.item : c \in ToSet(list)} \ seen
             out == Recommend(list, k, seen)
         IN  /\ out \in Seq(RankedItems) /\ IsInjective(out)
             /\ IsCut(out, list, F)
             /\ IsFiniteSet(offered) /\ ToSet(out) \subseteq offered
             /\ Len(out) = Min({Cardinality(offered), Max({k, 1})})
<1> DEFINE N == Len(list)
           F == FirstMentions(list, seen)
           offered == {c.item : c \in ToSet(list)} \ seen
           G == TakenAfter(list, k, seen)
           most == Max({k, 1})
           T == {n \in 0..N : TakenSoFar(G[n], list, k, seen, n)}
<1>1. /\ G \in [0..N -> Taken]
      /\ G[0] = [out |-> <<>>, full |-> FALSE]
      /\ \A n \in 1..N : G[n] = Take(G[n - 1], list[n].item, k, seen)
  BY TakenAre
<1>2. N \in Nat /\ DOMAIN list = 1..N
  BY DEF IsCandidates
<1>3. most \in Nat /\ most >= 1
  BY MostIs
<1>4. /\ F \in SUBSET (1..N)
      /\ \A i, j \in F : list[i].item = list[j].item => i = j
      /\ \A n \in 1..N : list[n].item \notin seen =>
            \E i \in F : i <= n /\ list[i].item = list[n].item
  BY FirstMentionsAre
<1> HIDE DEF G, F, most
<1>5. 0 \in T
  <2>0. 0 \in 0..N
    BY <1>2
  <2>1. G[0] \in Taken /\ G[0].out = <<>> /\ ~G[0].full
    <3>1. G[0] \in Taken
      BY <1>1, <2>0
    <3>2. G[0].out = <<>> /\ G[0].full = FALSE
      BY <1>1
    <3> QED
      BY <3>1, <3>2
  <2>2. 1..0 = {} /\ Len(<<>>) = 0
    OBVIOUS
  <2>3. \A y : ~Contains(<<>>, y)
    BY <2>2 DEF Contains
  <2>4. IsCut(<<>>, list, F)
    BY <2>2, <2>3 DEF IsCut
  <2>5. \A i \in F : ~(i <= 0)
    BY <1>4
  <2>6. Len(<<>>) <= most /\ Len(<<>>) # most
    BY <1>3, <2>2
  <2>7. TakenSoFar(G[0], list, k, seen, 0)
    BY <2>1, <2>3, <2>4, <2>5, <2>6 DEF TakenSoFar, F, most
  <2> QED
    BY <1>2, <2>7
<1>6. ASSUME NEW n \in 1..N, n - 1 \in T
      PROVE  n \in T
  <2>1. TakenSoFar(G[n - 1], list, k, seen, n - 1)
    BY <1>6
  <2>2. TakenSoFar(G[n], list, k, seen, n)
    BY <1>1, <2>1, TakeKeeps
  <2> QED
    BY <1>2, <2>2
<1>7. N \in T
  <2>1. \A n \in 0..N : n \in T
    <3> HIDE DEF T, N
    <3> QED
      BY <1>2, <1>5, <1>6, RangeInduction
  <2> QED
    BY <1>2, <2>1
<1> DEFINE out == Recommend(list, k, seen)
           L == Len(out)
<1>8. /\ G[N] \in Taken /\ out = G[N].out
      /\ IsCut(out, list, F)
      /\ ~G[N].full => \A i \in F : i <= N => Contains(out, list[i].item)
      /\ L <= most
      /\ G[N].full <=> L = most
  BY <1>7 DEF TakenSoFar, Recommend, F, most, G
<1>9. out \in Seq(RankedItems) /\ L \in Nat /\ DOMAIN out = 1..L
  BY <1>8 DEF Taken
<1> HIDE DEF out, L
<1>10. /\ \A m \in 1..L : \E i \in F : out[m] = list[i].item
       /\ \A a, b \in 1..L, i, j \in F :
             a < b /\ out[a] = list[i].item /\ out[b] = list[j].item => i < j
  BY <1>8 DEF IsCut, L
<1>11. ASSUME NEW a \in 1..L, NEW b \in 1..L, out[a] = out[b]
       PROVE  a = b
  <2>1. PICK i \in F : out[a] = list[i].item
    BY <1>10
  <2>2. ~(i < i)
    BY <1>4
  <2>3. ~(a < b) /\ ~(b < a)
    BY <1>10, <1>11, <2>1, <2>2
  <2> QED
    BY <1>9, <2>3
<1>12. IsInjective(out)
  BY <1>9, <1>11 DEF IsInjective
<1>13. offered = {list[i].item : i \in F}
  <2>1. {c.item : c \in ToSet(list)} = {list[n].item : n \in 1..N}
    BY <1>2 DEF ToSet
  <2>2. \A i \in F : i \in 1..N /\ list[i].item \notin seen
    BY <1>4 DEF F, FirstMentions
  <2>3. ASSUME NEW x \in offered
        PROVE  \E i \in F : x = list[i].item
    <3>1. PICK n \in 1..N : x = list[n].item /\ list[n].item \notin seen
      BY <2>1
    <3> QED
      BY <1>4, <3>1
  <2>4. \A i \in F : list[i].item \in offered
    BY <2>1, <2>2
  <2> HIDE DEF offered
  <2> QED
    BY <2>3, <2>4
<1>14. offered \in SUBSET RankedItems /\ IsFiniteSet(offered)
  <2>0. \A i \in F : list[i].item \in RankedItems
    BY <1>4 DEF IsCandidates
  <2>1. offered \in SUBSET RankedItems
    <3> HIDE DEF offered
    <3> QED
      BY <1>13, <2>0
  <2> QED
    BY <2>1, OfflineAssumption, FS_Subset
<1> HIDE DEF offered
<1>15. Cardinality(offered) \in Nat
  BY <1>14, FS_CardinalityType
<1>16. \A m \in 1..L : out[m] \in offered
  BY <1>10, <1>13
<1>17. ToSet(out) \subseteq offered
  BY <1>9, <1>16 DEF ToSet
<1>18. out \in Injection(1..L, offered)
  <2>1. out \in [1..L -> offered]
    BY <1>9, <1>16
  <2> QED
    BY <1>11, <2>1, Fun_IsInj
<1>19. IsFiniteSet(1..L) /\ Cardinality(1..L) = L
  BY <1>9, FS_Interval
<1>20. L <= Cardinality(offered)
  BY <1>14, <1>18, <1>19, FS_Injection
<1>21. ASSUME L # most
       PROVE  L = Cardinality(offered)
  <2>1. ASSUME NEW x \in offered
        PROVE  \E m \in 1..L : out[m] = x
    <3>1. PICK i \in F : x = list[i].item
      BY <1>13
    <3>2. i <= N
      BY <1>2, <1>4
    <3>3. Contains(out, x)
      BY <1>8, <1>21, <3>1, <3>2
    <3> QED
      BY <3>3 DEF Contains, L
  <2>2. out \in Surjection(1..L, offered)
    <3>1. out \in [1..L -> offered]
      BY <1>9, <1>16
    <3> QED
      BY <2>1, <3>1, Fun_IsSurj
  <2>3. Cardinality(offered) <= L
    BY <1>19, <2>2, FS_Surjection
  <2> QED
    BY <1>9, <1>15, <1>20, <2>3
<1>22. L = Min({Cardinality(offered), most})
  <2>1. Min({Cardinality(offered), most})
           = IF Cardinality(offered) <= most THEN Cardinality(offered) ELSE most
    BY <1>3, <1>15, SmallerAndLarger
  <2> QED
    BY <1>3, <1>8, <1>9, <1>15, <1>20, <1>21, <2>1
<1> QED
  BY <1>8, <1>9, <1>12, <1>14, <1>17, <1>22 DEF F, offered, most, out, L

(* recommend keeps its contract, but for a k below one it is that of one.  *)
LEMMA RecommendIsTopK ==
  ASSUME NEW list, IsCandidates(list), NEW k \in Int, NEW seen
  PROVE  IsTopK(Recommend(list, k, seen), list, Max({k, 1}), seen)
<1> DEFINE N == Len(list)
           F == FirstMentions(list, seen)
           offered == {s.item : s \in ToSet(list)} \ seen
           out == Recommend(list, k, seen)
           First(x) == CHOOSE i \in DOMAIN list :
                           /\ list[i].item = x
                           /\ \A j \in 1..(i - 1) : list[j].item # x
<1>1. /\ out \in Seq(RankedItems) /\ IsInjective(out)
      /\ IsCut(out, list, F)
      /\ ToSet(out) \subseteq offered
      /\ Len(out) = Min({Cardinality(offered), Max({k, 1})})
  BY RecommendIs
<1>2. N \in Nat /\ DOMAIN list = 1..N
  BY DEF IsCandidates
<1>3. /\ F \in SUBSET (1..N)
      /\ \A i, j \in F : list[i].item = list[j].item => i = j
      /\ \A n \in 1..N : list[n].item \notin seen =>
            \E i \in F : i <= n /\ list[i].item = list[n].item
  BY FirstMentionsAre
<1>4. ASSUME NEW x \in offered
      PROVE  First(x) \in F /\ list[First(x)].item = x
  <2>1. PICK n \in 1..N : list[n].item = x /\ list[n].item \notin seen
    BY <1>2 DEF ToSet
  <2>2. PICK i \in F : list[i].item = x
    BY <1>3, <2>1
  <2>3. i \in DOMAIN list /\ \A j \in 1..(i - 1) : list[j].item # x
    BY <2>2 DEF FirstMentions
  <2>4. /\ First(x) \in DOMAIN list
        /\ list[First(x)].item = x
        /\ \A j \in 1..(First(x) - 1) : list[j].item # x
    BY <2>2, <2>3
  <2>5. x \notin seen
    OBVIOUS
  <2> HIDE DEF First
  <2> QED
    BY <2>4, <2>5 DEF FirstMentions
<1>5. DOMAIN out = 1..Len(out) /\ Len(out) \in Nat
  BY <1>1
<1>6. /\ \A m \in 1..Len(out) : \E i \in F : out[m] = list[i].item
      /\ \A a, b \in 1..Len(out), i, j \in F :
            a < b /\ out[a] = list[i].item /\ out[b] = list[j].item => i < j
      /\ \A i, j \in F :
            i < j /\ Contains(out, list[j].item) => Contains(out, list[i].item)
  BY <1>1 DEF IsCut
<1> HIDE DEF N, F, out, offered, First
<1>7. ASSUME NEW n \in DOMAIN out, NEW x \in offered, First(x) < First(out[n])
      PROVE  \E m \in 1..(n - 1) : out[m] = x
  <2>1. out[n] \in offered
    BY <1>1, <1>7 DEF ToSet
  <2>2. /\ First(x) \in F /\ list[First(x)].item = x
        /\ First(out[n]) \in F /\ list[First(out[n])].item = out[n]
    BY <1>4, <2>1
  <2>3. n \in 1..Len(out) /\ Contains(out, out[n])
    BY <1>5 DEF Contains
  <2>4. Contains(out, x)
    BY <1>6, <1>7, <2>2, <2>3
  <2>5. PICK m \in 1..Len(out) : out[m] = x
    BY <2>4 DEF Contains
  <2>6. \A i \in F : i \in Int
    BY <1>3
  <2>7. ~(n < m) /\ n # m
    <3>1. n < m => First(out[n]) < First(x)
      BY <1>6, <2>2, <2>3, <2>5
    <3> QED
      BY <1>7, <2>2, <2>5, <2>6, <3>1
  <2>8. m \in 1..(n - 1)
    BY <1>5, <2>3, <2>7
  <2> QED
    BY <2>5, <2>8
<1> QED
  BY <1>1, <1>7 DEF IsTopK, offered, out, First

(* What recommend returns can be measured.                                 *)
LEMMA RecommendIsRanking ==
  ASSUME NEW list, IsCandidates(list), NEW k \in Int, NEW seen
  PROVE  IsRanking(Recommend(list, k, seen))
<1> DEFINE out == Recommend(list, k, seen)
<1>1. out \in Seq(RankedItems) /\ IsInjective(out)
  BY RecommendIs
<1>2. Len(out) \in Nat /\ out \in [1..Len(out) -> RankedItems]
  BY <1>1
<1> HIDE DEF out
<1>3. out \in Injection(1..Len(out), RankedItems)
  BY <1>1, <1>2 DEF Injection
<1>4. IsFiniteSet(1..Len(out)) /\ Cardinality(1..Len(out)) = Len(out)
  BY <1>2, FS_Interval
<1>5. Len(out) <= Cardinality(RankedItems)
  BY <1>3, <1>4, OfflineAssumption, FS_Injection
<1>6. Cardinality(RankedItems) \in Nat /\ Cardinality(RankedItems) < Len(Gain)
  BY OfflineAssumption, FS_CardinalityType
<1> QED
  BY <1>1, <1>2, <1>5, <1>6, GainIs DEF IsRanking, out

-----------------------------------------------------------------------------
(* sorted by score and id.                                                 *)
IsScored(list) ==
    /\ IsCandidates(list)
    /\ \A n \in 1..Len(list) : list[n].score \in Nat

LEMMA SortedByScoreIs ==
  ASSUME NEW list, IsScored(list)
  PROVE  LET sorted == SortedByScore(list)
             N == Len(list)
         IN  /\ IsCandidates(sorted) /\ Len(sorted) = N
             /\ \A m \in 1..N : \E n \in 1..N : sorted[m] = list[n]
             /\ \A n \in 1..N : \E m \in 1..N : sorted[m] = list[n]
             /\ \A i, j \in 1..N : i < j =>
                   \/ sorted[i].score > sorted[j].score
                   \/ /\ sorted[i].score = sorted[j].score
                      /\ sorted[i].item <= sorted[j].item
<1> DEFINE N == Len(list)
           R == Ahead(list)
           at(m) == Place(1..N, R, m)
           sorted == SortedByScore(list)
<1>1. /\ N \in Nat /\ DOMAIN list = 1..N
      /\ \A n \in 1..N : /\ list[n].item \in RankedItems /\ list[n].item \in Int
                         /\ list[n].score \in Int
  <2>1. \A x \in RankedItems : x \in Int
    BY OfflineAssumption
  <2> QED
    BY <2>1 DEF IsScored, IsCandidates
<1>2. R = {p \in (1..N) \X (1..N) :
             \/ list[p[1]].score > list[p[2]].score
             \/ /\ list[p[1]].score = list[p[2]].score
                /\ \/ list[p[1]].item < list[p[2]].item
                   \/ list[p[1]].item = list[p[2]].item /\ p[1] < p[2]}
  BY <1>1 DEF Ahead
<1>3. \A x, y \in 1..N : <<x, y>> \in R <=>
         \/ list[x].score > list[y].score
         \/ /\ list[x].score = list[y].score
            /\ \/ list[x].item < list[y].item
               \/ list[x].item = list[y].item /\ x < y
  BY <1>2
<1> HIDE DEF R, N
<1>4. /\ \A m \in 1..N : at(m) \in 1..N
      /\ \A x \in 1..N : \E m \in 1..N : at(m) = x
      /\ \A m, n \in 1..N : m < n => <<at(m), at(n)>> \in R
  <2>1. \A x \in 1..N : <<x, x>> \notin R
    BY <1>1, <1>3
  <2>2. ASSUME NEW x \in 1..N, NEW y \in 1..N, x # y
        PROVE  <<x, y>> \in R \/ <<y, x>> \in R
    <3>1. /\ list[x].score \in Int /\ list[y].score \in Int
          /\ list[x].item \in Int /\ list[y].item \in Int
      BY <1>1
    <3>2. x \in Int /\ y \in Int
      OBVIOUS
    <3> QED
      BY <1>3, <2>2, <3>1, <3>2
  <2>3. ASSUME NEW x \in 1..N, NEW y \in 1..N, NEW z \in 1..N,
               <<x, y>> \in R, <<y, z>> \in R
        PROVE  <<x, z>> \in R
    <3>1. /\ list[x].score \in Int /\ list[y].score \in Int
          /\ list[z].score \in Int /\ list[x].item \in Int
          /\ list[y].item \in Int /\ list[z].item \in Int
      BY <1>1
    <3>2. x \in Int /\ y \in Int /\ z \in Int
      OBVIOUS
    <3> QED
      BY <1>3, <2>3, <3>1, <3>2
  <2>4. IsFiniteSet(1..N) /\ Cardinality(1..N) = N
    BY <1>1, FS_Interval
  <2>5. IsStrictOrder(R, 1..N)
    BY <2>1, <2>2, <2>3 DEF IsStrictOrder
  <2> DEFINE D == 1..N
  <2>6. IsFiniteSet(D) /\ N = Cardinality(D) /\ IsStrictOrder(R, D)
    BY <2>4, <2>5
  <2> HIDE DEF D
  <2>7. /\ \A m \in 1..N : Place(D, R, m) \in D
        /\ \A x \in D : \E m \in 1..N : Place(D, R, m) = x
        /\ \A m, n \in 1..N : m < n => <<Place(D, R, m), Place(D, R, n)>> \in R
    BY <2>6, PlacesInOrder
  <2> QED
    BY <2>7 DEF D
<1>5. sorted = [m \in 1..N |-> list[at(m)]]
  BY <1>1 DEF SortedByScore, SortedBy, R
<1> HIDE DEF at, sorted
<1>6. Len(sorted) = N /\ DOMAIN sorted = 1..N /\ \A m \in 1..N : sorted[m] = list[at(m)]
  BY <1>1, <1>5
<1>7. IsCandidates(sorted)
  BY <1>1, <1>4, <1>6 DEF IsCandidates
<1>8. ASSUME NEW i \in 1..N, NEW j \in 1..N, i < j
      PROVE  \/ sorted[i].score > sorted[j].score
             \/ /\ sorted[i].score = sorted[j].score
                /\ sorted[i].item <= sorted[j].item
  <2>1. <<at(i), at(j)>> \in R /\ at(i) \in 1..N /\ at(j) \in 1..N
    BY <1>4, <1>8
  <2>2. list[at(i)].item \in Int /\ list[at(j)].item \in Int
    BY <1>1, <2>1
  <2> QED
    BY <1>3, <1>6, <2>1, <2>2
<1> QED
  BY <1>4, <1>6, <1>7, <1>8 DEF N, sorted

IsCounted(history) == \A genre \in DOMAIN history : history[genre] \in Nat

(* How much a history likes a candidate, and an item at best.              *)
Liking(history, c) ==
    IF c.genre \in DOMAIN history THEN history[c.genre] ELSE 0

Likings(history, list, x) ==
    {Liking(history, c) : c \in {c \in ToSet(list) : c.item = x}}

LEMMA CandidatesAre ==
  ASSUME NEW list \in Seq(Candidate)
  PROVE  IsCandidates(list)
<1>1. \A n \in 1..Len(list) : list[n] \in Candidate
  OBVIOUS
<1>2. \A c \in Candidate : c.item \in RankedItems
  BY DEF Candidate
<1> QED
  BY <1>1, <1>2 DEF IsCandidates

(* Sorted by the affinity of a history, an item is first mentioned with    *)
(* the genre of it that the history likes best.                            *)
LEMMA AffinityIs ==
  ASSUME NEW list \in Seq(Candidate), NEW history, IsCounted(history),
         NEW seen
  PROVE  LET sorted == ScoreByGenreAffinity(history, list)
             N == Len(list)
         IN  /\ IsCandidates(sorted) /\ Len(sorted) = N
             /\ {c.item : c \in ToSet(sorted)} = {c.item : c \in ToSet(list)}
             /\ \A i \in FirstMentions(sorted, seen) :
                   /\ sorted[i].score \in Nat
                   /\ sorted[i].score = Max(Likings(history, list, sorted[i].item))
             /\ \A i, j \in 1..N : i < j =>
                   \/ sorted[i].score > sorted[j].score
                   \/ /\ sorted[i].score = sorted[j].score
                      /\ sorted[i].item <= sorted[j].item
<1> DEFINE N == Len(list)
           s == [n \in 1..N |-> [item |-> list[n].item,
                                 score |-> Liking(history, list[n])]]
           sorted == ScoreByGenreAffinity(history, list)
           F == FirstMentions(sorted, seen)
<1>1. /\ N \in Nat /\ DOMAIN list = 1..N
      /\ \A n \in 1..N : list[n].item \in RankedItems
  BY CandidatesAre DEF IsCandidates
<1>2. \A c : Liking(history, c) \in Nat
  BY DEF Liking, IsCounted
<1>3. sorted = SortedByScore(s)
  BY <1>1 DEF ScoreByGenreAffinity, Liking
<1>4. /\ Len(s) = N /\ DOMAIN s = 1..N
      /\ \A n \in 1..N : /\ s[n].item = list[n].item
                         /\ s[n].score = Liking(history, list[n])
  BY <1>1
<1> HIDE DEF s, N, sorted
<1>5. IsScored(s)
  BY <1>1, <1>2, <1>4 DEF IsScored, IsCandidates
<1>6. /\ IsCandidates(sorted) /\ Len(sorted) = N
      /\ \A m \in 1..N : \E n \in 1..N : sorted[m] = s[n]
      /\ \A n \in 1..N : \E m \in 1..N : sorted[m] = s[n]
      /\ \A i, j \in 1..N : i < j =>
            \/ sorted[i].score > sorted[j].score
            \/ /\ sorted[i].score = sorted[j].score
               /\ sorted[i].item <= sorted[j].item
  <2>1. LET t == SortedByScore(s)
            M == Len(s)
        IN  /\ IsCandidates(t) /\ Len(t) = M
            /\ \A m \in 1..M : \E n \in 1..M : t[m] = s[n]
            /\ \A n \in 1..M : \E m \in 1..M : t[m] = s[n]
            /\ \A i, j \in 1..M : i < j =>
                  \/ t[i].score > t[j].score
                  \/ /\ t[i].score = t[j].score
                     /\ t[i].item <= t[j].item
    BY <1>5, SortedByScoreIs
  <2>2. Len(s) = N
    BY <1>4
  <2> QED
    BY <1>3, <2>1, <2>2
<1>7. DOMAIN sorted = 1..N
  BY <1>6 DEF IsCandidates
<1>8. {c.item : c \in ToSet(sorted)} = {c.item : c \in ToSet(list)}
  <2>1. {c.item : c \in ToSet(sorted)} = {sorted[m].item : m \in 1..N}
    BY <1>7 DEF ToSet
  <2>2. {c.item : c \in ToSet(list)} = {list[n].item : n \in 1..N}
    BY <1>1 DEF ToSet
  <2>3. ASSUME NEW m \in 1..N
        PROVE  \E n \in 1..N : sorted[m].item = list[n].item
    <3>1. PICK n \in 1..N : sorted[m] = s[n]
      BY <1>6
    <3> QED
      BY <1>4, <3>1
  <2>4. ASSUME NEW n \in 1..N
        PROVE  \E m \in 1..N : list[n].item = sorted[m].item
    <3>1. PICK m \in 1..N : sorted[m] = s[n]
      BY <1>6
    <3> QED
      BY <1>4, <3>1
  <2> QED
    BY <2>1, <2>2, <2>3, <2>4
<1>9. ASSUME NEW m \in 1..N
      PROVE  sorted[m].score \in Nat
  <2>1. PICK n \in 1..N : sorted[m] = s[n]
    BY <1>6
  <2> QED
    BY <1>2, <1>4, <2>1
<1>10. /\ F \in SUBSET (1..N)
       /\ \A i, j \in F : sorted[i].item = sorted[j].item => i = j
       /\ \A n \in 1..N : sorted[n].item \notin seen =>
             \E i \in F : i <= n /\ sorted[i].item = sorted[n].item
  <2>1. IsCandidates(sorted) /\ Len(sorted) = N
    BY <1>6
  <2>2. /\ F \in SUBSET (1..Len(sorted))
        /\ \A i, j \in F : sorted[i].item = sorted[j].item => i = j
        /\ \A n \in 1..Len(sorted) : sorted[n].item \notin seen =>
              \E i \in F : i <= n /\ sorted[i].item = sorted[n].item
    BY <2>1, FirstMentionsAre
  <2> QED
    BY <2>1, <2>2
<1>11. \A i \in F : sorted[i].item \notin seen
  BY DEF FirstMentions
<1> HIDE DEF F
<1>12. ASSUME NEW i \in F
       PROVE  sorted[i].score = Max(Likings(history, list, sorted[i].item))
  <2> DEFINE x == sorted[i].item
             likings == Likings(history, list, x)
             best == sorted[i].score
  <2>1. i \in 1..N /\ i \in Int /\ best \in Nat
    BY <1>9, <1>10
  <2>2. best \in likings
    <3>1. PICK n \in 1..N : sorted[i] = s[n]
      BY <1>6, <2>1
    <3>2. list[n] \in ToSet(list) /\ list[n].item = x
      BY <1>1, <1>4, <3>1 DEF ToSet
    <3> QED
      BY <1>4, <3>1, <3>2 DEF Likings
  <2>3. ASSUME NEW y \in likings
        PROVE  y \in Nat /\ best >= y
    <3>1. PICK n \in 1..N : list[n].item = x /\ y = Liking(history, list[n])
      BY <1>1 DEF Likings, ToSet
    <3>2. PICK m \in 1..N : sorted[m] = s[n]
      BY <1>6
    <3>3. sorted[m].item = x /\ sorted[m].score = y /\ y \in Nat
      BY <1>2, <1>4, <3>1, <3>2
    <3>4. i <= m
      <4>1. PICK j \in F : j <= m /\ sorted[j].item = x
        BY <1>10, <1>11, <3>3
      <4>2. j = i
        BY <1>10, <4>1
      <4> QED
        BY <4>1, <4>2
    <3>5. i < m => best > y \/ best = y
      BY <1>6, <2>1, <3>3
    <3>6. i = m => best = y
      BY <3>3
    <3> HIDE DEF best
    <3> QED
      BY <2>1, <3>3, <3>4, <3>5, <3>6
  <2> HIDE DEF likings, best
  <2>4. \A z \in likings : (\A y \in likings : z >= y) => z = best
    BY <2>1, <2>2, <2>3
  <2>5. Max(likings) = best
    BY <2>2, <2>3, <2>4 DEF Max
  <2> QED
    BY <2>5 DEF likings, best
<1> QED
  BY <1>6, <1>8, <1>9, <1>10, <1>12 DEF F, sorted, N

(* With a history, recommend_for_user returns the items by how much it     *)
(* likes them at best, and among equals by id.                             *)
ByLiking(history, list, k, seen) ==
    LET offered == {c.item : c \in ToSet(list)} \ seen
        best == [x \in offered |-> Max(Likings(history, list, x))]
        Likelier == {p \in offered \X offered :
                        \/ best[p[1]] > best[p[2]]
                        \/ best[p[1]] = best[p[2]] /\ p[1] < p[2]}
    IN  [n \in 1..Min({Cardinality(offered), k})
           |-> Place(offered, Likelier, n)]

LEMMA HistoryDecides ==
  ASSUME NEW list \in Seq(Candidate), NEW history, IsCounted(history),
         NEW k \in Int, NEW seen
  PROVE  Recommend(ScoreByGenreAffinity(history, list), k, seen)
            = ByLiking(history, list, Max({k, 1}), seen)
<1> DEFINE sorted == ScoreByGenreAffinity(history, list)
           out == Recommend(sorted, k, seen)
           L == Len(out)
           F == FirstMentions(sorted, seen)
           offered == {c.item : c \in ToSet(list)} \ seen
           best == [x \in offered |-> Max(Likings(history, list, x))]
           Likelier == {p \in offered \X offered :
                           \/ best[p[1]] > best[p[2]]
                           \/ best[p[1]] = best[p[2]] /\ p[1] < p[2]}
<1>1. /\ IsCandidates(sorted) /\ Len(sorted) = Len(list)
      /\ {c.item : c \in ToSet(sorted)} = {c.item : c \in ToSet(list)}
      /\ \A i \in F :
            /\ sorted[i].score \in Nat
            /\ sorted[i].score = Max(Likings(history, list, sorted[i].item))
      /\ \A i, j \in 1..Len(list) : i < j =>
            \/ sorted[i].score > sorted[j].score
            \/ /\ sorted[i].score = sorted[j].score
               /\ sorted[i].item <= sorted[j].item
  BY AffinityIs
<1> HIDE DEF sorted
<1>2. /\ out \in Seq(RankedItems)
      /\ IsCut(out, sorted, F)
      /\ IsFiniteSet(offered) /\ ToSet(out) \subseteq offered
      /\ L = Min({Cardinality(offered), Max({k, 1})})
  <2> DEFINE those == {c.item : c \in ToSet(sorted)} \ seen
  <2>1. /\ out \in Seq(RankedItems)
        /\ IsCut(out, sorted, F)
        /\ IsFiniteSet(those) /\ ToSet(out) \subseteq those
        /\ L = Min({Cardinality(those), Max({k, 1})})
    <3>1. IsCandidates(sorted)
      BY <1>1
    <3> QED
      BY <3>1, RecommendIs
  <2>2. those = offered
    BY <1>1
  <2> HIDE DEF those, out, L, F, offered
  <2> QED
    BY <2>1, <2>2
<1>3. /\ F \in SUBSET (1..Len(list))
      /\ \A i, j \in F : sorted[i].item = sorted[j].item => i = j
      /\ \A n \in 1..Len(list) : sorted[n].item \notin seen =>
            \E i \in F : i <= n /\ sorted[i].item = sorted[n].item
  BY <1>1, FirstMentionsAre
<1>4. L \in Nat /\ out \in [1..L -> offered]
  <2>1. L \in Nat /\ DOMAIN out = 1..L /\ out = [n \in 1..L |-> out[n]]
    BY <1>2
  <2> HIDE DEF offered
  <2> QED
    BY <1>2, <2>1 DEF ToSet
<1>5. ASSUME NEW x \in offered
      PROVE  /\ x \in Int /\ best[x] \in Nat
             /\ \E i \in F : x = sorted[i].item /\ best[x] = sorted[i].score
  <2>1. x \in {c.item : c \in ToSet(sorted)} /\ x \notin seen
    BY <1>1
  <2>2. PICK n \in 1..Len(list) : x = sorted[n].item
    BY <1>1, <2>1 DEF ToSet, IsCandidates
  <2>3. PICK i \in F : x = sorted[i].item
    BY <1>3, <2>1, <2>2
  <2>4. x \in RankedItems /\ i \in 1..Len(list)
    BY <1>1, <1>3, <2>2 DEF IsCandidates
  <2>5. x \in Int
    BY <2>4, OfflineAssumption
  <2>6. best[x] = Max(Likings(history, list, x))
    OBVIOUS
  <2> QED
    BY <1>1, <2>3, <2>5, <2>6
<1>6. \A x, y \in offered : <<x, y>> \in Likelier <=>
         \/ best[x] > best[y]
         \/ best[x] = best[y] /\ x < y
  OBVIOUS
<1> HIDE DEF out, L, F, offered, best, Likelier
<1>7. IsStrictOrder(Likelier, offered)
  <2>1. \A x \in offered : <<x, x>> \notin Likelier
    BY <1>5, <1>6
  <2>2. ASSUME NEW x \in offered, NEW y \in offered, x # y
        PROVE  <<x, y>> \in Likelier \/ <<y, x>> \in Likelier
    <3>1. x \in Int /\ y \in Int /\ best[x] \in Nat /\ best[y] \in Nat
      BY <1>5
    <3> QED
      BY <1>6, <2>2, <3>1
  <2>3. ASSUME NEW x \in offered, NEW y \in offered, NEW z \in offered,
               <<x, y>> \in Likelier, <<y, z>> \in Likelier
        PROVE  <<x, z>> \in Likelier
    <3>1. /\ x \in Int /\ y \in Int /\ z \in Int
          /\ best[x] \in Nat /\ best[y] \in Nat /\ best[z] \in Nat
      BY <1>5
    <3> QED
      BY <1>6, <2>3, <3>1
  <2> QED
    BY <2>1, <2>2, <2>3 DEF IsStrictOrder
<1>8. \A i \in F : sorted[i].item \in offered => best[sorted[i].item] = sorted[i].score
  <2> SUFFICES ASSUME NEW i \in F, sorted[i].item \in offered
               PROVE  best[sorted[i].item] = sorted[i].score
    OBVIOUS
  <2>1. PICK j \in F : /\ sorted[i].item = sorted[j].item
                       /\ best[sorted[i].item] = sorted[j].score
    BY <1>5
  <2> QED
    BY <1>3, <2>1
<1>9. ASSUME NEW i \in F, NEW j \in F, i < j,
             sorted[i].item \in offered, sorted[j].item \in offered
      PROVE  <<sorted[i].item, sorted[j].item>> \in Likelier
  <2>1. i \in 1..Len(list) /\ j \in 1..Len(list) /\ i # j
    BY <1>3, <1>9
  <2>2. sorted[i].item # sorted[j].item
    BY <1>3, <2>1
  <2>3. sorted[i].item \in Int /\ sorted[j].item \in Int
    BY <1>5, <1>9
  <2>4. \/ sorted[i].score > sorted[j].score
        \/ /\ sorted[i].score = sorted[j].score
           /\ sorted[i].item <= sorted[j].item
    BY <1>1, <1>9, <2>1
  <2>5. best[sorted[i].item] = sorted[i].score /\ best[sorted[j].item] = sorted[j].score
    BY <1>8, <1>9
  <2> QED
    BY <1>6, <1>9, <2>2, <2>3, <2>4, <2>5
<1>10. /\ \A m \in 1..L : \E i \in F : out[m] = sorted[i].item
       /\ \A a, b \in 1..L, i, j \in F :
             a < b /\ out[a] = sorted[i].item /\ out[b] = sorted[j].item => i < j
       /\ \A i, j \in F :
             i < j /\ Contains(out, sorted[j].item) => Contains(out, sorted[i].item)
  BY <1>2 DEF IsCut, L
<1>11. ASSUME NEW a \in 1..L, NEW b \in 1..L, a < b
       PROVE  <<out[a], out[b]>> \in Likelier
  <2>1. PICK i \in F : out[a] = sorted[i].item
    BY <1>10
  <2>2. PICK j \in F : out[b] = sorted[j].item
    BY <1>10
  <2>3. i < j
    BY <1>10, <1>11, <2>1, <2>2
  <2>4. out[a] \in offered /\ out[b] \in offered
    BY <1>4
  <2> QED
    BY <1>9, <2>1, <2>2, <2>3, <2>4
<1>12. ASSUME NEW b \in 1..L, NEW x \in offered, <<x, out[b]>> \in Likelier
       PROVE  \E a \in 1..L : out[a] = x
  <2>1. PICK j \in F : out[b] = sorted[j].item
    BY <1>10
  <2>2. PICK i \in F : x = sorted[i].item
    BY <1>5
  <2>3. out[b] \in offered
    BY <1>4
  <2>4. <<out[b], x>> \notin Likelier /\ x # out[b]
    BY <1>7, <1>12, <2>3 DEF IsStrictOrder
  <2>5. ~(j < i) /\ i # j
    BY <1>9, <2>1, <2>2, <2>3, <2>4
  <2>6. i < j
    BY <1>3, <2>5
  <2>7. Contains(out, out[b])
    BY DEF Contains, L
  <2>8. Contains(out, x)
    BY <1>10, <2>1, <2>2, <2>6, <2>7
  <2> QED
    BY <2>8 DEF Contains, L
<1>13. \A m \in 1..L : out[m] = Place(offered, Likelier, m)
  <2>1. IsAscent(out, L, offered, Likelier)
    BY <1>4, <1>11, <1>12 DEF IsAscent
  <2> QED
    BY <1>2, <1>7, <2>1, ListInOrder
<1>14. out = [n \in 1..L |-> Place(offered, Likelier, n)]
  BY <1>4, <1>13
<1> QED
  BY <1>2, <1>14 DEF ByLiking, out, L, offered, best, Likelier, sorted

(* The candidates tried are candidates.                                    *)
ScoredOK == scored \in Seq(Candidate)

LEMMA ScoredInvariance == OfflineSpec => []ScoredOK
<1>1. OfflineInit => ScoredOK
  BY DEF OfflineInit, ScoredOK
<1>2. ScoredOK /\ [OfflineNext]_<<vars, scored>> => ScoredOK'
  <2> SUFFICES ASSUME ScoredOK, [OfflineNext]_<<vars, scored>>
               PROVE  ScoredOK'
    OBVIOUS
  <2>1. CASE UNCHANGED scored
    BY <2>1 DEF ScoredOK
  <2>2. ASSUME NEW c \in Candidate, Offer(c)
        PROVE  ScoredOK'
    BY <2>2 DEF Offer, ScoredOK
  <2> QED
    BY <2>1, <2>2 DEF OfflineNext
<1> QED
  BY <1>1, <1>2, PTL DEF OfflineSpec

(* What recommend returns is measured soundly: precision, recall and nDCG  *)
(* of py_common/metrics.py are shares, and nDCG tells the rankings apart   *)
(* as it must, for every list of the recommender and every relevant set.   *)
THEOREM MetricsAreBounded == OfflineSpec => []MetricsBounded
<1>1. ScoredOK => MetricsBounded
  <2> SUFFICES ASSUME ScoredOK, NEW relevant \in SUBSET RankedItems,
                      NEW k \in -1..MaxK
               PROVE  SoundFor(Recommend(scored, MaxK, {}), relevant, k)
    BY DEF MetricsBounded
  <2>1. k \in Int /\ MaxK \in Int
    BY OfflineAssumption
  <2>2. IsCandidates(scored)
    BY CandidatesAre DEF ScoredOK
  <2>3. IsRanking(Recommend(scored, MaxK, {}))
    BY <2>1, <2>2, RecommendIsRanking
  <2> QED
    BY <2>1, <2>3, MetricsAreSound
<1> QED
  BY <1>1, ScoredInvariance, PTL

(* recommend and recommend_for_user keep the contract of                   *)
(* test_recommend_contract.py for every k of at least one, whatever else   *)
(* they are called with: no item twice, nothing seen, at most k and fewer  *)
(* only if there are no more, in the order of the scores; and with a       *)
(* history, in the order of the genre of an item that it likes best.  For  *)
(* a k of 0 the run recommend_at_most_k has the item too many.             *)
THEOREM TopKIsKept == OfflineSpec => []TopKContract
<1>1. ScoredOK => TopKContract
  <2> SUFFICES ASSUME ScoredOK
               PROVE  TopKContract
    OBVIOUS
  <2>1. scored \in Seq(Candidate) /\ IsCandidates(scored)
    BY CandidatesAre DEF ScoredOK
  <2>2. \A k \in 1..MaxK : k \in Int /\ Max({k, 1}) = k
    BY MostIs
  <2>3. ASSUME NEW k \in 1..MaxK, NEW seen \in SUBSET RankedItems
        PROVE  IsTopK(Recommend(scored, k, seen), scored, k, seen)
    BY <2>1, <2>2, RecommendIsTopK
  <2>4. ASSUME NEW k \in 1..MaxK, NEW seen \in SUBSET RankedItems,
               NEW history \in Histories
        PROVE  RecommendForUser(history, scored, k, seen, scored)
                  = IF DOMAIN history = {} THEN Recommend(scored, k, seen)
                    ELSE ByLiking(history, scored, k, seen)
    <3>1. IsCounted(history)
      BY OfflineAssumption DEF IsCounted
    <3>2. CASE DOMAIN history = {}
      BY <3>2 DEF RecommendForUser
    <3>3. CASE DOMAIN history # {}
      <4>1. RecommendForUser(history, scored, k, seen, scored)
               = Recommend(ScoreByGenreAffinity(history, scored), k, seen)
        BY <3>3 DEF RecommendForUser
      <4>2. k \in Int /\ Max({k, 1}) = k
        BY <2>2
      <4>3. Recommend(ScoreByGenreAffinity(history, scored), k, seen)
               = ByLiking(history, scored, Max({k, 1}), seen)
        BY <2>1, <3>1, <4>2, HistoryDecides
      <4> QED
        BY <3>3, <4>1, <4>2, <4>3
    <3> QED
      BY <3>2, <3>3
  <2> QED
    BY <2>3, <2>4 DEF TopKContract, ByLiking, Likings, Liking
<1> QED
  BY <1>1, ScoredInvariance, PTL

-----------------------------------------------------------------------------
(* Popularity.                                                             *)

(* A log whose events name an item, and what it says of an item so far.    *)
IsLog(log) ==
    /\ Len(log) \in Nat /\ DOMAIN log = 1..Len(log)
    /\ \A n \in 1..Len(log) : ItemOf(log[n]) \in Nat /\ TypeOf(log[n]) \in Types

ItemsOf(log, n) == {ItemOf(log[m]) : m \in 1..n}

Mentions(log, n, x, type) ==
    {m \in 1..n : ItemOf(log[m]) = x /\ TypeOf(log[m]) = type}

Times(log, n, x, type) == Cardinality(Mentions(log, n, x, type))

Total(log, n, x) ==
    Times(log, n, x, "click") + 3 * Times(log, n, x, "cart")
        + 5 * Times(log, n, x, "purchase")

Totals(log, n) == [x \in ItemsOf(log, n) |-> Total(log, n, x)]

LEMMA MentionsAreFinite ==
  ASSUME NEW log, NEW n \in Nat, NEW x, NEW type
  PROVE  /\ IsFiniteSet(Mentions(log, n, x, type))
         /\ Times(log, n, x, type) \in Nat
<1>1. Mentions(log, n, x, type) \in SUBSET (1..n) /\ IsFiniteSet(1..n)
  BY FS_Interval DEF Mentions
<1>2. IsFiniteSet(Mentions(log, n, x, type))
  BY <1>1, FS_Subset
<1> QED
  BY <1>2, FS_CardinalityType DEF Times

(* One event more.                                                         *)
LEMMA TimesGrow ==
  ASSUME NEW log, NEW n \in Nat, n > 0, NEW x, NEW type
  PROVE  Times(log, n, x, type)
            = Times(log, n - 1, x, type)
              + (IF ItemOf(log[n]) = x /\ TypeOf(log[n]) = type THEN 1 ELSE 0)
<1> DEFINE M == Mentions(log, n, x, type)
           B == Mentions(log, n - 1, x, type)
<1>1. \A m : m \in 1..n <=> m \in 1..(n - 1) \/ m = n
  OBVIOUS
<1>2. IsFiniteSet(B) /\ n \notin B /\ Cardinality(B) \in Nat
  <2>1. n - 1 \in Nat /\ n \notin 1..(n - 1)
    OBVIOUS
  <2>2. IsFiniteSet(B) /\ Cardinality(B) \in Nat
    BY <2>1, MentionsAreFinite DEF Times
  <2>3. n \notin B
    BY <2>1 DEF Mentions
  <2> QED
    BY <2>2, <2>3
<1>3. CASE ItemOf(log[n]) = x /\ TypeOf(log[n]) = type
  <2>1. M = B \cup {n}
    BY <1>1, <1>3 DEF Mentions
  <2> HIDE DEF M, B
  <2>2. Cardinality(M) = Cardinality(B) + 1
    BY <1>2, <2>1, FS_AddElement
  <2> QED
    BY <1>3, <2>2 DEF Times, M, B
<1>4. CASE ~(ItemOf(log[n]) = x /\ TypeOf(log[n]) = type)
  <2>1. M = B
    BY <1>1, <1>4 DEF Mentions
  <2> QED
    BY <1>2, <1>4, <2>1 DEF Times
<1> QED
  BY <1>3, <1>4

LEMMA TotalGrows ==
  ASSUME NEW log, NEW n \in Nat, n > 0, NEW x, TypeOf(log[n]) \in Types
  PROVE  /\ Total(log, n, x) \in Nat
         /\ Total(log, n, x)
               = Total(log, n - 1, x)
                 + (IF ItemOf(log[n]) = x THEN Weight(TypeOf(log[n])) ELSE 0)
<1> DEFINE now(type) == Times(log, n, x, type)
           was(type) == Times(log, n - 1, x, type)
           more(type) ==
             IF ItemOf(log[n]) = x /\ TypeOf(log[n]) = type THEN 1 ELSE 0
<1>1. \A type : now(type) \in Nat /\ was(type) \in Nat
  <2>1. n - 1 \in Nat
    OBVIOUS
  <2> QED
    BY <2>1, MentionsAreFinite
<1>2. \A type : now(type) = was(type) + more(type)
  BY TimesGrow
<1>3. /\ Total(log, n, x) = now("click") + 3 * now("cart") + 5 * now("purchase")
      /\ Total(log, n - 1, x)
            = was("click") + 3 * was("cart") + 5 * was("purchase")
  BY DEF Total
<1>4. more("click") + 3 * more("cart") + 5 * more("purchase")
         = IF ItemOf(log[n]) = x THEN Weight(TypeOf(log[n])) ELSE 0
  BY DEF Weight, Types
<1>5. \A type : more(type) \in Nat
  OBVIOUS
<1> HIDE DEF now, was, more
<1> QED
  BY <1>1, <1>2, <1>3, <1>4, <1>5

(* An item that is not in the log has no score.                            *)
LEMMA NoTotal ==
  ASSUME NEW log, NEW n \in Nat, NEW x, x \notin ItemsOf(log, n)
  PROVE  Total(log, n, x) = 0
<1>1. \A type : Mentions(log, n, x, type) = {}
  BY DEF Mentions, ItemsOf
<1>2. \A type : Times(log, n, x, type) = 0
  BY <1>1, FS_EmptySet DEF Times
<1> QED
  BY <1>2 DEF Total

(* The loop of rank_by_popularity counts.                                  *)
LEMMA ScoresAre ==
  ASSUME NEW log, IsLog(log)
  PROVE  Scores(log) = Totals(log, Len(log))
<1> DEFINE N == Len(log)
           G == ScoresAfter(log)
           f == [n \in 0..N |-> Totals(log, n)]
           T == {n \in 0..N : G[n] = Totals(log, n)}
           none == [x \in {} |-> 0]
<1>1. N \in Nat /\ \A n \in 1..N : /\ ItemOf(log[n]) \in Nat
                                   /\ TypeOf(log[n]) \in Types
  BY DEF IsLog
<1> HIDE DEF N
<1>2. Totals(log, 0) = none
  <2>1. 1..0 = {}
    OBVIOUS
  <2>2. ItemsOf(log, 0) = {}
    BY <2>1 DEF ItemsOf
  <2> QED
    BY <2>2 DEF Totals
<1>3. ASSUME NEW n \in 1..N
      PROVE  Totals(log, n) = Score(Totals(log, n - 1), log[n])
  <2> DEFINE e == log[n]
             old == Totals(log, n - 1)
             D == ItemsOf(log, n - 1)
             value(x) == (IF x \in D THEN old[x] ELSE 0)
                         + (IF x = ItemOf(e) THEN Weight(TypeOf(e)) ELSE 0)
  <2>1. n \in Nat /\ n > 0 /\ n - 1 \in Nat
    BY <1>1
  <2>2. ItemOf(e) # NoValue
    BY <1>1, RecommenderAssumption
  <2>3. DOMAIN old = D
    BY DEF Totals
  <2>4. ItemsOf(log, n) = D \cup {ItemOf(e)}
    <3>1. \A m : m \in 1..n <=> m \in 1..(n - 1) \/ m = n
      BY <2>1
    <3> QED
      BY <3>1 DEF ItemsOf
  <2>5. Score(old, e) = [x \in D \cup {ItemOf(e)} |-> value(x)]
    <3> HIDE DEF old, e, D
    <3> QED
      BY <2>2, <2>3 DEF Score
  <2>6. ASSUME NEW x
        PROVE  value(x) = Total(log, n, x)
    <3>1. (IF x \in D THEN old[x] ELSE 0) = Total(log, n - 1, x)
      BY <2>1, NoTotal DEF Totals
    <3>2. TypeOf(e) \in Types
      BY <1>1
    <3>3. Total(log, n, x)
             = Total(log, n - 1, x)
               + (IF ItemOf(e) = x THEN Weight(TypeOf(e)) ELSE 0)
      BY <2>1, <3>2, TotalGrows
    <3> HIDE DEF e, D, old
    <3> QED
      BY <3>1, <3>3
  <2> HIDE DEF value, D, old, e
  <2>7. Totals(log, n) = [x \in D \cup {ItemOf(e)} |-> Total(log, n, x)]
    BY <2>4 DEF Totals
  <2> QED
    BY <2>5, <2>6, <2>7 DEF old, e
<1>4. f = [n \in 0..N |-> IF n = 0 THEN none ELSE Score(f[n - 1], log[n])]
  <2>1. ASSUME NEW n \in 0..N
        PROVE  f[n] = IF n = 0 THEN none ELSE Score(f[n - 1], log[n])
    <3>1. n # 0 => n \in 1..N /\ n - 1 \in 0..N
      BY <1>1
    <3>2. n # 0 => f[n - 1] = Totals(log, n - 1)
      BY <3>1
    <3>3. f[n] = Totals(log, n)
      OBVIOUS
    <3> HIDE DEF f, none
    <3> QED
      BY <1>2, <1>3, <3>1, <3>2, <3>3
  <2>2. f = [n \in 0..N |-> f[n]]
    OBVIOUS
  <2> HIDE DEF f, none
  <2> QED
    BY <2>1, <2>2
<1>5. G = [n \in 0..N |-> IF n = 0 THEN none ELSE Score(G[n - 1], log[n])]
  <2> HIDE DEF f
  <2> QED
    BY <1>4 DEF ScoresAfter, N
<1> HIDE DEF G
<1>6. 0 \in T
  BY <1>1, <1>2, <1>5
<1>7. ASSUME NEW n \in 1..N, n - 1 \in T
      PROVE  n \in T
  <2>1. n \in 0..N /\ n # 0
    BY <1>1
  <2> QED
    BY <1>3, <1>5, <1>7, <2>1
<1>8. \A n \in 0..N : n \in T
  <2> HIDE DEF T
  <2> QED
    BY <1>1, <1>6, <1>7, RangeInduction
<1>9. N \in T
  BY <1>1, <1>8
<1> QED
  BY <1>9 DEF Scores, G, N

(* The order of rank_by_popularity: by score, then by id.                  *)
LEMMA RankIs ==
  ASSUME NEW log, IsLog(log)
  PROVE  IsPopularity(RankByPopularity(log), log)
<1> DEFINE N == Len(log)
           scores == Scores(log)
           D == DOMAIN scores
           R == AheadInScore(scores)
           item(n) == Place(D, R, n)
           ranked == RankByPopularity(log)
           c == Cardinality(D)
<1>1. /\ N \in Nat /\ DOMAIN log = 1..N
      /\ \A n \in 1..N : ItemOf(log[n]) \in Nat
  BY DEF IsLog
<1>2. scores = [x \in ItemsOf(log, N) |-> Total(log, N, x)]
  BY ScoresAre DEF Totals
<1>3. D = ItemsOf(log, N) /\ \A x \in D : scores[x] = Total(log, N, x)
  BY <1>2
<1>4. D \in SUBSET Nat /\ IsFiniteSet(D)
  <2>1. D \in SUBSET Nat
    BY <1>1, <1>3 DEF ItemsOf
  <2> DEFINE name == [n \in 1..N |-> ItemOf(log[n])]
  <2>2. name \in Surjection(1..N, D)
    <3> HIDE DEF D
    <3>1. name \in [1..N -> D]
      BY <1>3 DEF ItemsOf
    <3>2. \A x \in D : \E n \in 1..N : name[n] = x
      BY <1>3 DEF ItemsOf
    <3> HIDE DEF name
    <3> QED
      BY <3>1, <3>2, Fun_IsSurj
  <2>3. IsFiniteSet(1..N)
    BY <1>1, FS_Interval
  <2> HIDE DEF D, name
  <2> QED
    BY <2>1, <2>2, <2>3, FS_Surjection
<1>5. \A x \in D : x \in Int /\ scores[x] \in Nat
  <2> SUFFICES ASSUME NEW x \in D
               PROVE  x \in Int /\ scores[x] \in Nat
    OBVIOUS
  <2>1. \A type : Times(log, N, x, type) \in Nat
    BY <1>1, MentionsAreFinite
  <2>2. Total(log, N, x) \in Nat
    BY <2>1 DEF Total
  <2> QED
    BY <1>3, <1>4, <2>2
<1>6. \A x, y \in D : <<x, y>> \in R <=>
         \/ scores[x] > scores[y]
         \/ scores[x] = scores[y] /\ x < y
  BY DEF AheadInScore
<1>7. ranked = [n \in 1..c |-> [item |-> item(n), score |-> scores[item(n)]]]
  BY DEF RankByPopularity
<1> HIDE DEF scores, D, R, N
<1>8. IsStrictOrder(R, D)
  <2>1. \A x \in D : <<x, x>> \notin R
    BY <1>5, <1>6
  <2>2. ASSUME NEW x \in D, NEW y \in D, x # y
        PROVE  <<x, y>> \in R \/ <<y, x>> \in R
    <3>1. x \in Int /\ y \in Int /\ scores[x] \in Nat /\ scores[y] \in Nat
      BY <1>5
    <3> QED
      BY <1>6, <2>2, <3>1
  <2>3. ASSUME NEW x \in D, NEW y \in D, NEW z \in D,
               <<x, y>> \in R, <<y, z>> \in R
        PROVE  <<x, z>> \in R
    <3>1. /\ x \in Int /\ y \in Int /\ z \in Int
          /\ scores[x] \in Nat /\ scores[y] \in Nat /\ scores[z] \in Nat
      BY <1>5
    <3> QED
      BY <1>6, <2>3, <3>1
  <2> QED
    BY <2>1, <2>2, <2>3 DEF IsStrictOrder
<1>9. /\ \A m \in 1..c : Place(D, R, m) \in D
      /\ \A x \in D : \E m \in 1..c : Place(D, R, m) = x
      /\ \A m, n \in 1..c : m < n => <<Place(D, R, m), Place(D, R, n)>> \in R
  BY <1>4, <1>8, PlacesInOrder
<1>10. c \in Nat
  BY <1>4, FS_CardinalityType
<1> HIDE DEF c
<1>11. /\ DOMAIN ranked = 1..c
       /\ \A n \in 1..c : /\ ranked[n].item = item(n)
                          /\ ranked[n].score = scores[item(n)]
  BY <1>7
<1>12. /\ \A n \in 1..c : item(n) \in D
       /\ \A x \in D : \E n \in 1..c : item(n) = x
       /\ \A m, n \in 1..c : m < n => <<item(m), item(n)>> \in R
  BY <1>9
<1> HIDE DEF item, ranked
<1>13. IsInjective([n \in DOMAIN ranked |-> ranked[n].item])
  <2>1. ASSUME NEW m \in 1..c, NEW n \in 1..c, item(m) = item(n)
        PROVE  m = n
    <3>1. <<item(m), item(n)>> \notin R /\ <<item(n), item(m)>> \notin R
      BY <1>8, <1>12, <2>1 DEF IsStrictOrder
    <3>2. ~(m < n) /\ ~(n < m)
      BY <1>12, <3>1
    <3> QED
      BY <3>2
  <2> QED
    BY <1>11, <2>1 DEF IsInjective
<1>14. {r.item : r \in ToSet(ranked)} = {ItemOf(e) : e \in ToSet(log)} \ {NoValue}
  <2>1. {r.item : r \in ToSet(ranked)} = {item(n) : n \in 1..c}
    BY <1>11 DEF ToSet
  <2>2. {item(n) : n \in 1..c} = D
    BY <1>12
  <2>3. {ItemOf(e) : e \in ToSet(log)} = ItemsOf(log, N)
    BY <1>1 DEF ToSet, ItemsOf
  <2>4. NoValue \notin D
    BY <1>4, RecommenderAssumption
  <2> QED
    BY <1>3, <2>1, <2>2, <2>3, <2>4
<1>15. ASSUME NEW r \in ToSet(ranked)
       PROVE  r.score = Total(log, N, r.item)
  <2>1. PICK n \in 1..c : r = ranked[n]
    BY <1>11 DEF ToSet
  <2> QED
    BY <1>3, <1>11, <1>12, <2>1
<1>16. ASSUME NEW i \in DOMAIN ranked, NEW j \in DOMAIN ranked, i < j
       PROVE  \/ ranked[i].score > ranked[j].score
              \/ /\ ranked[i].score = ranked[j].score
                 /\ ranked[i].item < ranked[j].item
  <2>1. i \in 1..c /\ j \in 1..c
    BY <1>11
  <2>2. <<item(i), item(j)>> \in R /\ item(i) \in D /\ item(j) \in D
    BY <1>12, <1>16, <2>1
  <2> QED
    BY <1>6, <1>11, <2>1, <2>2
<1>17. \A x : Total(log, N, x)
          = Cardinality({n \in DOMAIN log :
                            ItemOf(log[n]) = x /\ TypeOf(log[n]) = "click"})
            + 3 * Cardinality({n \in DOMAIN log :
                            ItemOf(log[n]) = x /\ TypeOf(log[n]) = "cart"})
            + 5 * Cardinality({n \in DOMAIN log :
                            ItemOf(log[n]) = x /\ TypeOf(log[n]) = "purchase"})
  BY <1>1 DEF Total, Times, Mentions
<1> QED
  BY <1>13, <1>14, <1>15, <1>16, <1>17 DEF IsPopularity, ranked

-----------------------------------------------------------------------------
(* Two logs that tell the same in another order.                           *)
Reorders(at, a, b) ==
    /\ IsLog(a) /\ IsLog(b) /\ Len(a) = Len(b)
    /\ at \in Bijection(1..Len(a), 1..Len(a))
    /\ \A n \in 1..Len(a) : /\ ItemOf(a[n]) = ItemOf(b[at[n]])
                            /\ TypeOf(a[n]) = TypeOf(b[at[n]])

LEMMA OrderDoesNotMatter ==
  ASSUME NEW a, NEW b, NEW at, Reorders(at, a, b)
  PROVE  RankByPopularity(a) = RankByPopularity(b)
<1> DEFINE N == Len(a)
<1>1. /\ IsLog(a) /\ IsLog(b) /\ Len(b) = N /\ N \in Nat
      /\ at \in [1..N -> 1..N]
      /\ \A m, n \in 1..N : at[m] = at[n] => m = n
      /\ \A m \in 1..N : \E n \in 1..N : at[n] = m
      /\ \A n \in 1..N : /\ ItemOf(a[n]) = ItemOf(b[at[n]])
                         /\ TypeOf(a[n]) = TypeOf(b[at[n]])
  BY DEF Reorders, Bijection, Injection, Surjection, IsInjective, IsLog
<1> HIDE DEF N
<1>2. ItemsOf(a, N) = ItemsOf(b, N)
  <2>1. \A n \in 1..N : \E m \in 1..N : ItemOf(a[n]) = ItemOf(b[m])
    BY <1>1
  <2>2. \A m \in 1..N : \E n \in 1..N : ItemOf(b[m]) = ItemOf(a[n])
    BY <1>1
  <2> QED
    BY <2>1, <2>2 DEF ItemsOf
<1>3. ASSUME NEW x, NEW type
      PROVE  Times(a, N, x, type) = Times(b, N, x, type)
  <2> DEFINE A == Mentions(a, N, x, type)
             B == Mentions(b, N, x, type)
             part == [n \in A |-> at[n]]
  <2>1. \A n \in 1..N : n \in A <=> at[n] \in B
    BY <1>1 DEF Mentions
  <2>2. A \in SUBSET (1..N) /\ B \in SUBSET (1..N) /\ IsFiniteSet(A)
    <3>1. IsFiniteSet(A)
      BY <1>1, MentionsAreFinite
    <3> QED
      BY <3>1 DEF Mentions
  <2> HIDE DEF A, B
  <2>3. part \in [A -> B] /\ \A n \in A : part[n] = at[n]
    BY <2>1, <2>2
  <2>4. \A m, n \in A : part[m] = part[n] => m = n
    BY <1>1, <2>2
  <2>5. \A m \in B : \E n \in A : part[n] = m
    BY <1>1, <2>1, <2>2
  <2> HIDE DEF part
  <2>6. part \in Bijection(A, B)
    BY <2>3, <2>4, <2>5 DEF Bijection, Injection, Surjection, IsInjective
  <2>7. ExistsBijection(A, B)
    BY <2>6 DEF ExistsBijection
  <2>8. Cardinality(B) = Cardinality(A)
    BY <2>2, <2>7, FS_Bijection
  <2> QED
    BY <2>8 DEF Times, A, B
<1>4. Totals(a, N) = Totals(b, N)
  <2>1. \A x : Total(a, N, x) = Total(b, N, x)
    BY <1>3 DEF Total
  <2> QED
    BY <1>2, <2>1 DEF Totals
<1>5. Scores(a) = Scores(b)
  BY <1>1, <1>4, ScoresAre DEF N
<1> QED
  BY <1>5 DEF RankByPopularity

(* Whatever names an event carries its fields under, they are its own.     *)
LEMMA FormsAgree ==
  ASSUME NEW e \in Emission
  PROVE  /\ e.key[2] \in Nat /\ e.type \in Types
         /\ ItemOf(Wire(e)) = e.key[2] /\ TypeOf(Wire(e)) = e.type
         /\ ItemOf(Snake(e)) = e.key[2] /\ TypeOf(Snake(e)) = e.type
         /\ ItemOf(Mixed(e)) = e.key[2] /\ TypeOf(Mixed(e)) = e.type
<1>1. e.key[2] \in Items /\ e.type \in Types
  BY DEF Emission
<1>2. e.key[2] \in Nat /\ e.key[2] # EmptyId /\ e.key[2] # NoValue
  <2>1. e.key[2] \in Nat \ {EmptyId}
    BY <1>1, OfflineAssumption
  <2> QED
    BY <2>1, RecommenderAssumption
<1>3. e.type # ""
  BY <1>1 DEF Types
<1>4. /\ ItemOf(Wire(e)) = e.key[2] /\ TypeOf(Wire(e)) = e.type
      /\ ItemOf(Snake(e)) = e.key[2] /\ TypeOf(Snake(e)) = e.type
  BY <1>2, <1>3 DEF Wire, Snake, ItemOf, TypeOf
<1>5. /\ Mixed(e).item_id = EmptyId /\ Mixed(e).itemId = e.key[2]
      /\ Mixed(e).event_type = "" /\ Mixed(e).eventType = e.type
  BY DEF Mixed, Wire
<1>6. ItemOf(Mixed(e)) = e.key[2] /\ TypeOf(Mixed(e)) = e.type
  BY <1>5 DEF ItemOf, TypeOf
<1> QED
  BY <1>1, <1>2, <1>4, <1>6

(* The popularity of simulated traffic, as rank_by_popularity ranks it, is *)
(* the weighted sum of what happened, for whatever traffic there is, in    *)
(* whatever order the events come and under whichever names.               *)
THEOREM PopularityIsCounted == OfflineSpec => []PopularityIsASum
<1>1. IInv => PopularityIsASum
  <2> SUFFICES ASSUME IInv, Done
               PROVE  PopularityIsASum
    BY DEF PopularityIsASum
  <2> DEFINE n == config.n_events
             W == Log(Wire, result)
             S == Log(Snake, Reverse(result))
             M == Log(Mixed, FirstEvents(events))
             rev == [i \in 1..n |-> n - i + 1]
  <2>1. PICK at \in [1..n -> 1..n] :
           /\ n \in Nat /\ n <= Len(events) /\ Len(events) \in Nat
           /\ Len(result) = n /\ DOMAIN result = 1..n
           /\ \A i \in 1..n : result[i] = events[at[i]]
           /\ \A p \in 1..n : \E i \in 1..n : at[i] = p
           /\ \A i, j \in 1..n : i < j =>
                 \/ events[at[i]].ts < events[at[j]].ts
                 \/ events[at[i]].ts = events[at[j]].ts /\ at[i] < at[j]
    BY ResultIs
  <2>2. events \in Seq(Emission)
    BY DEF IInv, SimTypeOK
  <2> HIDE DEF n
  <2>3. \A i \in 1..n : events[i] \in Emission
    BY <2>1, <2>2
  <2>4. \A i \in 1..n : result[i] \in Emission
    <3> TAKE i \in 1..n
    <3>1. at[i] \in 1..n /\ result[i] = events[at[i]]
      BY <2>1
    <3> QED
      BY <2>3, <3>1
  <2>5. /\ DOMAIN W = 1..n /\ Len(W) = n
        /\ \A i \in 1..n : W[i] = Wire(result[i])
    <3>1. W = [i \in 1..n |-> Wire(result[i])]
      BY <2>1 DEF Log
    <3> HIDE DEF W
    <3> QED
      BY <2>1, <3>1
  <2>6. /\ DOMAIN S = 1..n /\ Len(S) = n
        /\ \A i \in 1..n : S[i] = Snake(result[n - i + 1])
    <3>1. Reverse(result) = [i \in 1..n |-> result[n - i + 1]]
      BY <2>1 DEF Reverse
    <3>2. S = [i \in 1..n |-> Snake(result[n - i + 1])]
      BY <3>1 DEF Log
    <3> HIDE DEF S
    <3> QED
      BY <2>1, <3>2
  <2>7. /\ DOMAIN M = 1..n /\ Len(M) = n
        /\ \A i \in 1..n : M[i] = Mixed(events[i])
    <3>1. FirstEvents(events) = SubSeq(events, 1, n)
      BY DEF FirstEvents, n
    <3>2. /\ SubSeq(events, 1, n) \in Seq(Emission)
          /\ Len(SubSeq(events, 1, n)) = IF 1 <= n THEN n - 1 + 1 ELSE 0
          /\ \A i \in 1..(n - 1 + 1) : SubSeq(events, 1, n)[i] = events[1 + i - 1]
      BY <2>1, <2>3, SubSeqProperties
    <3>3. Len(SubSeq(events, 1, n)) = n
      BY <2>1, <3>2
    <3>4. DOMAIN SubSeq(events, 1, n) = 1..n
      BY <3>2, <3>3
    <3>5. \A i \in 1..n : SubSeq(events, 1, n)[i] = events[i]
      BY <2>1, <3>2
    <3>6. M = [i \in 1..n |-> Mixed(events[i])]
      BY <3>1, <3>4, <3>5 DEF Log
    <3> HIDE DEF M
    <3> QED
      BY <2>1, <3>6
  <2> HIDE DEF W, S, M
  <2>8. \A i \in 1..n : n - i + 1 \in 1..n /\ n - (n - i + 1) + 1 = i
    BY <2>1
  <2>9. IsLog(W)
    <3>1. \A i \in 1..n : ItemOf(W[i]) \in Nat /\ TypeOf(W[i]) \in Types
      BY <2>4, <2>5, FormsAgree
    <3> QED
      BY <2>1, <2>5, <3>1 DEF IsLog
  <2>10. IsLog(S)
    <3>1. \A i \in 1..n : ItemOf(S[i]) \in Nat /\ TypeOf(S[i]) \in Types
      BY <2>4, <2>6, <2>8, FormsAgree
    <3> QED
      BY <2>1, <2>6, <3>1 DEF IsLog
  <2>11. IsLog(M)
    <3>1. \A i \in 1..n : ItemOf(M[i]) \in Nat /\ TypeOf(M[i]) \in Types
      BY <2>3, <2>7, FormsAgree
    <3> QED
      BY <2>1, <2>7, <3>1 DEF IsLog
  <2>12. Reorders(rev, W, S)
    <3>1. rev \in [1..n -> 1..n] /\ \A i \in 1..n : rev[i] = n - i + 1
      BY <2>8
    <3> HIDE DEF rev
    <3>2. \A i, j \in 1..n : rev[i] = rev[j] => i = j
      BY <2>1, <3>1
    <3>3. \A j \in 1..n : \E i \in 1..n : rev[i] = j
      BY <2>8, <3>1
    <3>4. rev \in Bijection(1..n, 1..n)
      BY <3>1, <3>2, <3>3 DEF Bijection, Injection, Surjection, IsInjective
    <3>5. ASSUME NEW i \in 1..n
          PROVE  ItemOf(W[i]) = ItemOf(S[rev[i]]) /\ TypeOf(W[i]) = TypeOf(S[rev[i]])
      <4>1. rev[i] \in 1..n /\ S[rev[i]] = Snake(result[i])
        BY <2>6, <2>8, <3>1
      <4> QED
        BY <2>4, <2>5, <4>1, FormsAgree
    <3> QED
      BY <2>5, <2>6, <2>9, <2>10, <3>4, <3>5 DEF Reorders
  <2>13. Reorders(at, W, M)
    <3>1. ASSUME NEW i \in 1..n, NEW j \in 1..n, at[i] = at[j]
          PROVE  i = j
      <4>1. at[i] \in Int /\ events[at[i]].ts \in Nat
        BY <2>3 DEF Emission
      <4>2. /\ ~(at[i] < at[j]) /\ ~(at[j] < at[i])
            /\ ~(events[at[i]].ts < events[at[j]].ts)
            /\ ~(events[at[j]].ts < events[at[i]].ts)
        BY <3>1, <4>1
      <4>3. ~(i < j) /\ ~(j < i)
        BY <2>1, <4>2
      <4> QED
        BY <4>3
    <3>2. at \in Bijection(1..n, 1..n)
      BY <2>1, <3>1 DEF Bijection, Injection, Surjection, IsInjective
    <3>3. ASSUME NEW i \in 1..n
          PROVE  ItemOf(W[i]) = ItemOf(M[at[i]]) /\ TypeOf(W[i]) = TypeOf(M[at[i]])
      <4>1. at[i] \in 1..n /\ M[at[i]] = Mixed(result[i])
        BY <2>1, <2>7
      <4> QED
        BY <2>4, <2>5, <4>1, FormsAgree
    <3> QED
      BY <2>5, <2>7, <2>9, <2>11, <3>2, <3>3 DEF Reorders
  <2>14. IsPopularity(RankByPopularity(W), W)
    BY <2>9, RankIs
  <2>15. /\ RankByPopularity(W) = RankByPopularity(S)
         /\ RankByPopularity(W) = RankByPopularity(M)
    BY <2>12, <2>13, OrderDoesNotMatter
  <2> QED
    BY <2>14, <2>15 DEF PopularityIsASum, W, S, M
<1>2. OfflineSpec => Spec
  <2>1. OfflineInit => Init
    BY DEF OfflineInit
  <2>2. [OfflineNext]_<<vars, scored>> => [Next]_vars
    BY DEF OfflineNext, Offer
  <2> QED
    BY <2>1, <2>2, PTL DEF OfflineSpec, Spec
<1> QED
  BY <1>1, <1>2, Invariance, PTL
=============================================================================
