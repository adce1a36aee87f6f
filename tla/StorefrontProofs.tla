-------------------------- MODULE StorefrontProofs --------------------------
(***************************************************************************)
(* What TLAPS proves about Storefront.tla and Tracker.tla, for any number  *)
(* of users, items, reloads and replies: the queue is always served by one *)
(* timer, a card's impression is recorded once per exposure, the rail      *)
(* shows the user's recommendations unless requests raced, an event is     *)
(* sent with the consent there was when it was made, a session speaks for  *)
(* one user, nothing overtakes what was made before it, and outcomes are   *)
(* of products that were clicked.                                          *)
(***************************************************************************)
EXTENDS Storefront, FiniteSetTheorems, TLAPS

-----------------------------------------------------------------------------
(* Type correctness                                                        *)

LEMMA IdentityStep ==
    ASSUME IdentityTypeOK, [Next]_vars
    PROVE  IdentityTypeOK'
<1> USE StorefrontAssumption DEF IdentityTypeOK, Identities
<1>1. ASSUME NEW u \in Users, SelectUser(u)
      PROVE  IdentityTypeOK'
  BY <1>1 DEF SelectUser, SwitchUser, Rendered, historyVars
<1>2. CASE ToggleConsent
  BY <1>2 DEF ToggleConsent, Rendered, historyVars
<1>3. CASE Render
  BY <1>3 DEF Render, Rendered, historyVars
<1>4. CASE OtherTabWrites
  <2>1. UNCHANGED <<session, identity, view, loads>> /\ otherTab' \in Nat
    BY <1>4 DEF OtherTabWrites
  <2>2. ASSUME NEW u \in Users, storage' = [storage EXCEPT !.user = u]
        PROVE  storage' \in [user : Users \cup {NoUser}, consent : BOOLEAN]
    BY <2>2
  <2>3. ASSUME storage' = [storage EXCEPT !.consent = ~@]
        PROVE  storage' \in [user : Users \cup {NoUser}, consent : BOOLEAN]
    BY <2>3
  <2> QED  BY <1>4, <2>1, <2>2, <2>3 DEF OtherTabWrites
<1>5. CASE UsersReply
  BY <1>5 DEF UsersReply, SwitchUser, historyVars
<1>6. CASE Load /\ otherTab' = otherTab
  BY <1>6 DEF Load, Loaded
<1>7. CASE UNCHANGED <<identityVars, loads, otherTab>>
  BY <1>7 DEF identityVars
<1>8. CASE Reload \/ Dies
  BY <1>6, <1>8 DEF Reload, Dies, Load
<1>9. CASE \/ UsersFail \/ ItemsReply \/ Close \/ Tick \/ Hidden
           \/ \E u \in Users \cup {Anonymous} : RecsReply(u)
  BY <1>7, <1>9 DEF UsersFail, ItemsReply, RecsReply, Close, Tick, Hidden,
     historyVars
<1>10. ASSUME NEW card, See(card) \/ Open(card)
       PROVE  IdentityTypeOK'
  BY <1>7, <1>10 DEF See, Open, historyVars
<1>11. ASSUME NEW type, Commerce(type)
       PROVE  IdentityTypeOK'
  BY <1>7, <1>11 DEF Commerce, historyVars
<1>12. CASE UNCHANGED vars
  BY <1>7, <1>12 DEF vars, historyVars
<1> QED
  BY <1>1, <1>2, <1>3, <1>4, <1>5, <1>8, <1>9, <1>10, <1>11, <1>12 DEF Next

(* A page that changes nothing but its pending requests.                   *)
LEMMA PageKept ==
    ASSUME PageTypeOK,
           UNCHANGED <<known, grid, rail, railItems, exposures, fired, modal>>,
           fetching' \in [users : Nat, items : Nat],
           asked' \in [Users \cup {Anonymous} -> Nat],
           railFor' \in Users \cup {Anonymous, NoUser}, raced' \in BOOLEAN
    PROVE  PageTypeOK'
BY DEF PageTypeOK, Cards

(* A render, whatever identity it is of.                                   *)
LEMMA RenderKept ==
    ASSUME PageTypeOK, NEW id \in Identities, Rendered(id),
           UNCHANGED <<fetching, known, grid, rail, exposures, fired, modal>>
    PROVE  PageTypeOK'
<1>1. id.user \in Users \cup {Anonymous}
  BY DEF Identities
<1>2. asked' \in [Users \cup {Anonymous} -> Nat] /\ raced' \in BOOLEAN
  <2>1. CASE id.user # view.user
    <3>1. asked' = [asked EXCEPT ![id.user] = @ + 1]
      BY <2>1 DEF Rendered
    <3>2. raced' = \E u \in DOMAIN asked \ {id.user} : asked[u] > 0
      BY <2>1 DEF Rendered
    <3>3. asked' \in [Users \cup {Anonymous} -> Nat]
      BY <1>1, <3>1 DEF PageTypeOK
    <3>4. raced' \in BOOLEAN
      BY <3>2
    <3> QED  BY <3>3, <3>4
  <2>2. CASE UNCHANGED <<asked, raced>>
    BY <2>2 DEF PageTypeOK
  <2> QED  BY <2>1, <2>2 DEF Rendered
<1> QED  BY <1>2, PageKept DEF Rendered, PageTypeOK

LEMMA PageStep ==
    ASSUME IdentityTypeOK, PageTypeOK, [Next]_vars
    PROVE  PageTypeOK'
<1> USE StorefrontAssumption
<1> DEFINE Fetches == [users : Nat, items : Nat]
<1>0. fetching \in Fetches
  BY DEF PageTypeOK
<1>1. ASSUME NEW u \in Users, SelectUser(u)
      PROVE  PageTypeOK'
  <2>1. identity' \in Identities
    BY <1>1, IdentityStep DEF Next, IdentityTypeOK
  <2> QED  BY <1>1, <2>1, RenderKept DEF SelectUser
<1>2. CASE ToggleConsent
  <2>1. [view EXCEPT !.consent = ~@] \in Identities
    BY DEF IdentityTypeOK, Identities
  <2> QED  BY <1>2, <2>1, RenderKept DEF ToggleConsent
<1>3. CASE Render
  <2>1. identity \in Identities
    BY DEF IdentityTypeOK
  <2> QED  BY <1>3, <2>1, RenderKept DEF Render
<1>4. CASE UsersReply
  <2>1. fetching' \in Fetches
    BY <1>0, <1>4 DEF UsersReply
  <2> QED  BY <2>1, <1>4 DEF UsersReply, PageTypeOK, Cards, railVars
<1>5. CASE UsersFail
  <2>1. fetching' \in Fetches
    BY <1>0, <1>5 DEF UsersFail
  <2> QED  BY <2>1, <1>5 DEF UsersFail, PageTypeOK, Cards, railVars
<1>6. CASE ItemsReply
  <2>1. fetching' \in Fetches
    BY <1>0, <1>6 DEF ItemsReply
  <2>2. grid' \in 0..exposures' /\ rail' \in 0..exposures'
    BY <1>6 DEF ItemsReply, NewExposure, PageTypeOK, None
  <2>3. exposures' \in 0..MaxExposures
    BY <1>6 DEF ItemsReply, NewExposure, PageTypeOK
  <2>4. grid' = rail' => grid' = None
    BY <1>6 DEF ItemsReply, NewExposure, PageTypeOK, None
  <2>5. grid' = None \/ grid' # grid
    BY <1>6 DEF ItemsReply, NewExposure, PageTypeOK
  <2>6. fired' \subseteq Cards'
    BY <1>6, <2>4, <2>5
       DEF ItemsReply, Remembered, Cards, PageTypeOK, None, railVars
  <2> QED
    BY <2>1, <2>2, <2>3, <2>4, <2>6, <1>6 DEF ItemsReply, PageTypeOK, railVars
<1>7. ASSUME NEW u \in Users \cup {Anonymous}, RecsReply(u)
      PROVE  PageTypeOK'
  <2>1. /\ asked' \in [Users \cup {Anonymous} -> Nat]
        /\ railFor' \in Users \cup {Anonymous, NoUser}
        /\ railItems' \subseteq RailItems
        /\ UNCHANGED <<fetching, raced, known, modal>>
    BY <1>7 DEF RecsReply, PageTypeOK
  <2>2. grid' \in 0..exposures' /\ rail' \in 0..exposures'
    BY <1>7 DEF RecsReply, NewExposure, PageTypeOK, None
  <2>3. exposures' \in 0..MaxExposures
    BY <1>7 DEF RecsReply, NewExposure, PageTypeOK
  <2>4. grid' = rail' => grid' = None
    BY <1>7 DEF RecsReply, NewExposure, PageTypeOK, None
  <2>5. rail' = None \/ rail' # rail
    BY <1>7 DEF RecsReply, NewExposure, PageTypeOK
  <2>6. fired' \subseteq Cards'
    BY <1>7, <2>4, <2>5 DEF RecsReply, Remembered, Cards, PageTypeOK, None
  <2> QED
    BY <2>1, <2>2, <2>3, <2>4, <2>6, <1>7 DEF RecsReply, PageTypeOK
<1>8. ASSUME NEW card \in Cards, See(card)
      PROVE  PageTypeOK'
  BY <1>8 DEF See, PageTypeOK, Cards, railVars
<1>9. ASSUME NEW card \in Cards, Open(card)
      PROVE  PageTypeOK'
  <2>1. card \in (1..MaxExposures) \X Items
    BY <1>9 DEF Cards, PageTypeOK, Items, None
  <2>2. modal.done \in BOOLEAN
    <3>1. CASE modal = NoModal
      BY <3>1 DEF NoModal
    <3> QED  BY <3>1 DEF PageTypeOK
  <2>3. modal' \in [open : {TRUE}, card : (1..MaxExposures) \X Items,
                    priced : BOOLEAN, done : BOOLEAN]
    BY <1>9, <2>1, <2>2 DEF Open
  <2> QED  BY <1>9, <2>3 DEF Open, PageTypeOK, Cards, railVars
<1>10. ASSUME NEW type, Commerce(type)
       PROVE  PageTypeOK'
  <2>1. modal # NoModal
    BY <1>10 DEF Commerce, Offers, NoModal
  <2>2. modal' \in [open : {TRUE}, card : (1..MaxExposures) \X Items,
                    priced : BOOLEAN, done : BOOLEAN]
    BY <1>10, <2>1 DEF Commerce, PageTypeOK
  <2> QED  BY <1>10, <2>2 DEF Commerce, PageTypeOK, Cards, railVars
<1>11. CASE Close
  BY <1>11 DEF Close, PageTypeOK, Cards, railVars
<1>12. CASE Load
  <2>1. /\ fetching' \in Fetches
        /\ asked' \in [Users \cup {Anonymous} -> Nat]
        /\ railFor' = NoUser /\ railItems' = {} /\ raced' = FALSE
    BY <1>12 DEF Load, MountFetches, MountAsks
  <2>2. grid' \in 0..exposures' /\ rail' \in 0..exposures' /\ grid' = None
    BY <1>12 DEF Load, PageTypeOK, None
  <2> QED  BY <1>12, <2>1, <2>2 DEF Load, PageTypeOK
<1>13. CASE OtherTabWrites \/ Tick \/ Hidden \/ UNCHANGED vars
  <2>1. UNCHANGED pageVars
    BY <1>13 DEF OtherTabWrites, Tick, Hidden, vars
  <2> QED  BY <2>1, PageKept DEF pageVars, railVars, PageTypeOK
<1> QED
  BY <1>1, <1>2, <1>3, <1>4, <1>5, <1>6, <1>7, <1>8, <1>9, <1>10, <1>11, <1>12,
     <1>13 DEF Next, Reload, Dies

(* An envelope of the rendered identity and a card of the screen, or of    *)
(* the modal, is well-formed.                                              *)
LEMMA BuildTyped ==
    ASSUME EventsTypeOK, IdentityTypeOK,
           NEW type \in {"impression", "click", "cart", "purchase"},
           NEW card \in (1..MaxExposures) \X Items,
           Build(type, view, card)
    PROVE  /\ made' \in Seq(Envelopes)
           /\ Len(made') \in Nat
<1>1. Envelope(type, view, card) \in Envelopes
  BY DEF IdentityTypeOK, Identities, Envelope, Envelopes
<1> QED  BY <1>1 DEF Build, EventsTypeOK

LEMMA FlushTyped ==
    ASSUME EventsTypeOK, NEW events \in Seq(Nat), Flush(events)
    PROVE  /\ queue' \in Seq(Nat)
           /\ handle' \in BOOLEAN
           /\ ticking' \in Nat
           /\ sent' \in Seq(Seq(Nat))
<1> DEFINE Batches == Seq(Nat)
<1>1. sent \in Seq(Batches) /\ events \in Batches
  BY DEF EventsTypeOK
<1>2. queue' \in Seq(Nat) /\ handle' \in BOOLEAN
  <2>1. queue' = <<>> /\ handle' = FALSE
    BY DEF Flush
  <2>2. <<>> \in Seq(Nat)
    OBVIOUS
  <2> QED  BY <2>1, <2>2
<1>3. ticking' \in Nat
  <2>1. ticking \in Nat
    BY DEF EventsTypeOK
  <2>2. ticking' = IF handle /\ ticking > 0 THEN ticking - 1 ELSE ticking
    BY DEF Flush
  <2> QED  BY <2>1, <2>2
<1> HIDE DEF Batches
<1>4. Append(sent, events) \in Seq(Batches)
  BY <1>1
<1>5. sent' \in Seq(Batches)
  BY <1>1, <1>4 DEF Flush
<1> QED  BY <1>2, <1>3, <1>5 DEF Batches

LEMMA ImpressionTyped ==
    ASSUME EventsTypeOK, NEW e \in Nat, Impression(e)
    PROVE  /\ queue' \in Seq(Nat)
           /\ handle' \in BOOLEAN
           /\ ticking' \in Nat
           /\ sent' \in Seq(Seq(Nat))
<1>1. Append(queue, e) \in Seq(Nat)
  BY DEF EventsTypeOK
<1>2. CASE Flush(Append(queue, e))
  BY <1>1, <1>2, FlushTyped
<1>3. CASE /\ queue' = Append(queue, e)
           /\ handle' = TRUE
           /\ ticking' = IF handle THEN ticking ELSE ticking + 1
           /\ sent' = sent
  <2>1. ticking' \in Nat
    BY <1>3 DEF EventsTypeOK
  <2>2. sent' \in Seq(Seq(Nat))
    BY <1>3 DEF EventsTypeOK
  <2> QED  BY <1>1, <1>3, <2>1, <2>2
<1> QED  BY <1>2, <1>3 DEF Impression

(* Cards of the screen, and the card of an open modal.                     *)
LEMMA CardsTyped ==
    ASSUME PageTypeOK
    PROVE  /\ Cards \subseteq (1..MaxExposures) \X Items
           /\ modal.open => modal.card \in (1..MaxExposures) \X Items
<1>1. Cards \subseteq (1..MaxExposures) \X Items
  <2>1. /\ grid # None => grid \in 1..MaxExposures
        /\ rail # None => rail \in 1..MaxExposures
    BY StorefrontAssumption DEF PageTypeOK, None
  <2>2. GridItems \subseteq Items /\ railItems \subseteq Items
    BY DEF Items, PageTypeOK
  <2> QED  BY <2>1, <2>2 DEF Cards
<1>2. ASSUME modal.open
      PROVE  modal.card \in (1..MaxExposures) \X Items
  <2>1. modal # NoModal
    BY <1>2 DEF NoModal
  <2> QED  BY <2>1 DEF PageTypeOK
<1> QED  BY <1>1, <1>2

LEMMA EventsStep ==
    ASSUME TypeOK, [Next]_vars
    PROVE  EventsTypeOK'
<1> USE DEF TypeOK
<1>1. ASSUME NEW card \in Cards, See(card)
      PROVE  EventsTypeOK'
  BY <1>1, BuildTyped, ImpressionTyped, CardsTyped
     DEF See, historyVars, EventsTypeOK
<1>2. ASSUME NEW card \in Cards, Open(card)
      PROVE  EventsTypeOK'
  <2>1. made' \in Seq(Envelopes) /\ Len(made') \in Nat
    BY <1>2, BuildTyped, CardsTyped DEF Open
  <2>2. Append(queue, Len(made')) \in Seq(Nat)
    BY <2>1 DEF EventsTypeOK
  <2> QED
    BY <1>2, <2>1, <2>2, FlushTyped DEF Open, Action, historyVars, EventsTypeOK
<1>3. ASSUME NEW type \in {"cart", "purchase"}, Commerce(type)
      PROVE  EventsTypeOK'
  <2>1. made' \in Seq(Envelopes) /\ Len(made') \in Nat
    BY <1>3, BuildTyped, CardsTyped DEF Commerce, Offers
  <2>2. Append(queue, Len(made')) \in Seq(Nat)
    BY <2>1 DEF EventsTypeOK
  <2> QED
    BY <1>3, <2>1, <2>2, FlushTyped
       DEF Commerce, Action, historyVars, EventsTypeOK
<1>4. CASE Tick \/ Hidden \/ Reload
  <2>1. Flush(queue) /\ UNCHANGED <<made, died>>
    BY <1>4 DEF Tick, TimerFires, Hidden, Hide, Reload, Load, historyVars
  <2> QED  BY <2>1, FlushTyped DEF EventsTypeOK
<1>5. CASE Dies
  <2>1. {queue[i] : i \in DOMAIN queue} \subseteq Nat
    BY DEF EventsTypeOK
  <2>2. died' \subseteq Nat
    BY <1>5, <2>1 DEF Dies, EventsTypeOK
  <2>3. made' = made /\ sent' = sent
    BY <1>5 DEF Dies, Load
  <2>4. queue' \in Seq(Nat) /\ handle' \in BOOLEAN /\ ticking' \in Nat
    <3>1. queue' = <<>> /\ handle' = FALSE /\ ticking' = 0
      BY <1>5 DEF Dies
    <3>2. <<>> \in Seq(Nat)
      OBVIOUS
    <3> QED  BY <3>1, <3>2
  <2> QED  BY <2>2, <2>3, <2>4 DEF EventsTypeOK
<1>6. CASE UNCHANGED <<trackerVars, made, died>>
  BY <1>6 DEF trackerVars, EventsTypeOK
<1>7. ASSUME NEW u \in Users, SelectUser(u)
      PROVE  EventsTypeOK'
  BY <1>6, <1>7 DEF SelectUser, historyVars
<1>8. CASE ToggleConsent \/ Render \/ OtherTabWrites \/ UsersReply \/ UsersFail
           \/ ItemsReply \/ Close \/ UNCHANGED vars
           \/ \E u \in Users \cup {Anonymous} : RecsReply(u)
  BY <1>6, <1>8 DEF ToggleConsent, Render, OtherTabWrites, UsersReply,
     UsersFail, ItemsReply, RecsReply, Close, vars, historyVars
<1> QED
  BY <1>1, <1>2, <1>3, <1>4, <1>5, <1>7, <1>8 DEF Next

LEMMA InitTyped == Init => TypeOK
<1> SUFFICES ASSUME Init PROVE TypeOK
  OBVIOUS
<1> USE StorefrontAssumption
<1>1. EventsTypeOK
  <2>1. made = <<>> /\ queue = <<>> /\ sent = <<>> /\ died = {}
    BY DEF Init, InitTracker
  <2>2. handle \in BOOLEAN /\ ticking \in Nat
    BY DEF Init, InitTracker
  <2>3. made \in Seq(Envelopes) /\ queue \in Seq(Nat) /\ sent \in Seq(Seq(Nat))
    BY <2>1
  <2> QED  BY <2>1, <2>2, <2>3 DEF EventsTypeOK
<1>2. IdentityTypeOK
  <2>1. storage.user \in {NoUser, FirstUser} /\ storage.consent = TRUE
    BY DEF Init
  <2>2. storage \in [user : Users \cup {NoUser}, consent : BOOLEAN]
    BY DEF Init
  <2>3. session \in 1..MaxSessions /\ loads \in Nat /\ otherTab \in Nat
    BY DEF Init
  <2>4. Loaded \in Identities
    BY <2>1, <2>3 DEF Loaded, Identities
  <2>5. identity \in Identities /\ view \in Identities
    BY <2>4 DEF Init
  <2> QED  BY <2>2, <2>3, <2>5 DEF IdentityTypeOK
<1>3. PageTypeOK
  <2>1. /\ fetching \in [users : Nat, items : Nat]
        /\ asked \in [Users \cup {Anonymous} -> Nat]
        /\ railFor = NoUser /\ railItems = {} /\ raced = FALSE
    BY DEF Init, MountFetches, MountAsks
  <2>2. grid = None /\ rail = None /\ exposures = 0 /\ fired = {}
        /\ modal = NoModal /\ known \in BOOLEAN
    BY DEF Init
  <2>3. /\ grid \in 0..exposures /\ rail \in 0..exposures
        /\ exposures \in 0..MaxExposures
    BY <2>2 DEF None
  <2>4. raced \in BOOLEAN /\ railFor \in Users \cup {Anonymous, NoUser}
    BY <2>1
  <2> QED  BY <2>1, <2>2, <2>3, <2>4 DEF PageTypeOK
<1> QED  BY <1>1, <1>2, <1>3 DEF TypeOK

(* The types of the state, for every set of users and items.               *)
THEOREM TypeCorrect == Spec => []TypeOK
<1>1. ASSUME TypeOK, [Next]_vars
      PROVE  TypeOK'
  BY <1>1, EventsStep, IdentityStep, PageStep DEF TypeOK
<1> QED  BY <1>1, InitTyped, PTL DEF Spec

-----------------------------------------------------------------------------
(* The queue                                                               *)

(* A flush leaves an empty queue and no timer behind.                      *)
LEMMA FlushServes ==
    ASSUME EventsTypeOK, QueueIsServed, NEW events, Flush(events)
    PROVE  QueueIsServed'
<1>1. queue' = <<>> /\ handle' = FALSE
  BY DEF Flush
<1>2. ticking' = 0
  <2>1. CASE queue = <<>>
    BY <2>1 DEF Flush, QueueIsServed
  <2>2. CASE queue # <<>>
    BY <2>2 DEF Flush, QueueIsServed
  <2> QED  BY <2>1, <2>2
<1>3. Len(queue') < FlushMax
  BY <1>1, FlushMaxAssumption
<1> QED  BY <1>1, <1>2, <1>3 DEF QueueIsServed

LEMMA ImpressionServes ==
    ASSUME EventsTypeOK, QueueIsServed, NEW e \in Nat, Impression(e)
    PROVE  QueueIsServed'
<1>1. CASE Flush(Append(queue, e))
  BY <1>1, FlushServes
<1>2. CASE /\ Len(Append(queue, e)) < FlushMax
           /\ queue' = Append(queue, e)
           /\ handle' = TRUE
           /\ ticking' = IF handle THEN ticking ELSE ticking + 1
  <2>1. Append(queue, e) # <<>>
    BY DEF EventsTypeOK
  <2>2. ticking' = 1
    BY <1>2 DEF QueueIsServed
  <2> QED  BY <1>2, <2>1, <2>2 DEF QueueIsServed
<1> QED  BY <1>1, <1>2 DEF Impression

(* One timer is set exactly while an event waits, and the queue stays      *)
(* below its limit, through reloads and tabs that die.                     *)
THEOREM QueueServed == Spec => []QueueIsServed
<1>1. Init => QueueIsServed
  <2> SUFFICES ASSUME Init PROVE QueueIsServed
    OBVIOUS
  <2>1. queue = <<>> /\ handle = FALSE /\ ticking = 0
    BY DEF Init, InitTracker
  <2> QED  BY <2>1, FlushMaxAssumption DEF QueueIsServed
<1>2. ASSUME TypeOK, QueueIsServed, [Next]_vars
      PROVE  QueueIsServed'
  <2> USE <1>2 DEF TypeOK
  <2>1. ASSUME NEW card \in Cards, See(card)
        PROVE  QueueIsServed'
    BY <2>1, BuildTyped, CardsTyped, ImpressionServes DEF See
  <2>2. CASE \E events : Flush(events)
    BY <2>2, FlushServes
  <2>3. ASSUME NEW card \in Cards, Open(card)
        PROVE  QueueIsServed'
    BY <2>2, <2>3 DEF Open, Action
  <2>4. ASSUME NEW type, Commerce(type)
        PROVE  QueueIsServed'
    BY <2>2, <2>4 DEF Commerce, Action
  <2>5. CASE Tick \/ Hidden \/ Reload
    BY <2>2, <2>5 DEF Tick, TimerFires, Hidden, Hide, Reload
  <2>6. CASE Dies
    <3>1. queue' = <<>> /\ handle' = FALSE /\ ticking' = 0
      BY <2>6 DEF Dies
    <3> QED  BY <3>1, FlushMaxAssumption DEF QueueIsServed
  <2>7. CASE UNCHANGED trackerVars
    BY <2>7 DEF trackerVars, QueueIsServed
  <2>8. ASSUME NEW u \in Users, SelectUser(u)
        PROVE  QueueIsServed'
    BY <2>7, <2>8 DEF SelectUser
  <2>9. CASE ToggleConsent \/ Render \/ OtherTabWrites \/ UsersReply
             \/ UsersFail \/ ItemsReply \/ Close \/ UNCHANGED vars
             \/ \E u \in Users \cup {Anonymous} : RecsReply(u)
    BY <2>7, <2>9 DEF ToggleConsent, Render, OtherTabWrites, UsersReply,
       UsersFail, ItemsReply, RecsReply, Close, vars
  <2> QED
    BY <2>1, <2>3, <2>4, <2>5, <2>6, <2>8, <2>9 DEF Next
<1> QED  BY <1>1, <1>2, TypeCorrect, PTL DEF Spec

-----------------------------------------------------------------------------
(* Impressions                                                             *)

(* OncePerExposure is not inductive: it needs that a card of the screen    *)
(* whose impression was recorded remembers it, and that an exposure is     *)
(* new when it comes onto the screen.                                      *)
Remember ==
    \A n \in DOMAIN made : made[n].type = "impression" =>
        /\ made[n].exposure \in 1..exposures
        /\ made[n].exposure \in {grid, rail} =>
              <<made[n].exposure, made[n].item>> \in fired

OnceInv == Remember /\ OncePerExposure

(* A step that records no impression, and neither forgets one of the       *)
(* screen nor brings back an exposure, keeps the invariant.                *)
LEMMA NoNewImpression ==
    ASSUME OnceInv, exposures \in Nat, exposures' \in Nat,
           exposures <= exposures',
           \A n \in DOMAIN made' : made'[n].type = "impression" =>
               n \in DOMAIN made /\ made'[n] = made[n],
           \A card : card[1] \in {grid', rail'} /\ card[1] \in 1..exposures
                         /\ card \in fired => card \in fired',
           \A x \in 1..exposures : x \in {grid', rail'} => x \in {grid, rail}
    PROVE  OnceInv'
<1>1. Remember'
  <2> SUFFICES ASSUME NEW n \in DOMAIN made', made'[n].type = "impression"
               PROVE  /\ made'[n].exposure \in 1..exposures'
                      /\ made'[n].exposure \in {grid', rail'} =>
                            <<made'[n].exposure, made'[n].item>> \in fired'
    BY DEF Remember
  <2>1. n \in DOMAIN made /\ made'[n] = made[n]
    OBVIOUS
  <2>2. /\ made[n].exposure \in 1..exposures
        /\ made[n].exposure \in {grid, rail} =>
              <<made[n].exposure, made[n].item>> \in fired
    BY <2>1 DEF OnceInv, Remember
  <2>3. made'[n].exposure \in 1..exposures'
    BY <2>1, <2>2
  <2>4. ASSUME made'[n].exposure \in {grid', rail'}
        PROVE  <<made'[n].exposure, made'[n].item>> \in fired'
    BY <2>1, <2>2, <2>4
  <2> QED  BY <2>3, <2>4
<1>2. OncePerExposure'
  BY DEF OnceInv, OncePerExposure
<1> QED  BY <1>1, <1>2 DEF OnceInv

LEMMA SeeOnce ==
    ASSUME TypeOK, OnceInv, NEW card \in Cards, See(card)
    PROVE  OnceInv'
<1> DEFINE last == Len(made) + 1
<1>1. /\ card \in (1..MaxExposures) \X Items
      /\ card[1] \in {grid, rail}
      /\ card[1] \in 1..exposures
  <2>1. card \in (1..MaxExposures) \X Items
    BY CardsTyped DEF TypeOK
  <2>2. card[1] \in {grid, rail}
    BY DEF Cards
  <2>3. card[1] \in 1..exposures
    BY <2>1, <2>2 DEF TypeOK, PageTypeOK
  <2> QED  BY <2>1, <2>2, <2>3
<1>2. /\ DOMAIN made' = 1..last /\ DOMAIN made = 1..Len(made)
      /\ Len(made) \in Nat
      /\ \A n \in DOMAIN made : made'[n] = made[n]
      /\ made'[last].exposure = card[1] /\ made'[last].item = card[2]
      /\ card = <<card[1], card[2]>>
  <2>1. made \in Seq(Envelopes)
    BY DEF TypeOK, EventsTypeOK
  <2>2. made' = Append(made, Envelope("impression", view, card))
    BY DEF See, Build
  <2>3. /\ DOMAIN made' = 1..last /\ DOMAIN made = 1..Len(made)
        /\ Len(made) \in Nat
        /\ \A n \in DOMAIN made : made'[n] = made[n]
        /\ made'[last] = Envelope("impression", view, card)
    BY <2>1, <2>2
  <2> QED  BY <1>1, <2>3 DEF Envelope
<1>3. card \notin fired /\ fired' = fired \cup {card}
      /\ UNCHANGED <<grid, rail, exposures>>
  BY DEF See
<1>4. Remember'
  <2> SUFFICES ASSUME NEW n \in DOMAIN made', made'[n].type = "impression"
               PROVE  /\ made'[n].exposure \in 1..exposures
                      /\ made'[n].exposure \in {grid, rail} =>
                            <<made'[n].exposure, made'[n].item>> \in fired'
    BY <1>3 DEF Remember
  <2>1. CASE n = last
    BY <1>1, <1>2, <1>3, <2>1
  <2>2. CASE n \in DOMAIN made
    BY <1>2, <1>3, <2>2 DEF OnceInv, Remember
  <2> QED  BY <1>2, <2>1, <2>2
<1>5. ASSUME NEW m \in DOMAIN made, made[m].type = "impression"
      PROVE  ~(made[m].exposure = card[1] /\ made[m].item = card[2])
  BY <1>1, <1>2, <1>3, <1>5 DEF OnceInv, Remember
<1>6. OncePerExposure'
  <2> SUFFICES ASSUME NEW m \in DOMAIN made', NEW n \in DOMAIN made',
                      made'[m].type = "impression", made'[n].type = "impression",
                      made'[m].exposure = made'[n].exposure,
                      made'[m].item = made'[n].item
               PROVE  m = n
    BY DEF OncePerExposure
  <2>1. CASE m \in DOMAIN made /\ n \in DOMAIN made
    BY <1>2, <2>1 DEF OnceInv, OncePerExposure
  <2>2. CASE m = last /\ n \in DOMAIN made
    BY <1>2, <1>5, <2>2
  <2>3. CASE n = last /\ m \in DOMAIN made
    BY <1>2, <1>5, <2>3
  <2> QED  BY <1>2, <2>1, <2>2, <2>3
<1> QED  BY <1>4, <1>6 DEF OnceInv

(* The same of a click, cart or purchase.                                  *)
LEMMA OutcomeOnce ==
    ASSUME TypeOK, OnceInv, NEW type, type # "impression", NEW id, NEW card,
           Build(type, id, card), UNCHANGED <<grid, rail, exposures, fired>>
    PROVE  OnceInv'
<1>1. made \in Seq(Envelopes) /\ exposures \in Nat
  BY StorefrontAssumption DEF TypeOK, EventsTypeOK, PageTypeOK
<1>2. made' = Append(made, Envelope(type, id, card))
  BY DEF Build
<1>3. Envelope(type, id, card).type # "impression"
  BY DEF Envelope
<1>4. ASSUME NEW n \in DOMAIN made', made'[n].type = "impression"
      PROVE  n \in DOMAIN made /\ made'[n] = made[n]
  <2>1. /\ DOMAIN made' = 1..(Len(made) + 1) /\ DOMAIN made = 1..Len(made)
        /\ Len(made) \in Nat
        /\ \A i \in DOMAIN made : made'[i] = made[i]
        /\ made'[Len(made) + 1] = Envelope(type, id, card)
    BY <1>1, <1>2
  <2> QED  BY <1>3, <1>4, <2>1
<1> QED  BY <1>1, <1>4, NoNewImpression

(* However the page is reloaded, rendered and answered, a card's           *)
(* impression is recorded once per exposure.                               *)
THEOREM ImpressedOnce == Spec => []OncePerExposure
<1>1. Init => OnceInv
  <2> SUFFICES ASSUME Init PROVE OnceInv
    OBVIOUS
  <2>1. made = <<>>
    BY DEF Init
  <2> QED  BY <2>1 DEF OnceInv, Remember, OncePerExposure
<1>2. ASSUME TypeOK, OnceInv, [Next]_vars
      PROVE  OnceInv'
  <2> USE <1>2
  <2>0. exposures \in Nat /\ grid \in 0..exposures /\ rail \in 0..exposures
    BY StorefrontAssumption DEF TypeOK, PageTypeOK
  <2>1. ASSUME NEW card \in Cards, See(card)
        PROVE  OnceInv'
    BY <2>1, SeeOnce
  <2>2. ASSUME NEW card \in Cards, Open(card)
        PROVE  OnceInv'
    BY <2>2, OutcomeOnce DEF Open
  <2>3. ASSUME NEW type \in {"cart", "purchase"}, Commerce(type)
        PROVE  OnceInv'
    BY <2>3, OutcomeOnce DEF Commerce
  <2>4. CASE ItemsReply
    <3>1. \/ exposures' = exposures + 1 /\ grid' = exposures'
          \/ exposures' = exposures /\ grid' = None
      BY <2>4 DEF ItemsReply, NewExposure
    <3>2. made' = made /\ rail' = rail /\ fired' = Remembered(grid', rail)
      BY <2>4 DEF ItemsReply
    <3> QED
      BY <2>0, <3>1, <3>2, NoNewImpression DEF Remembered, None
  <2>5. ASSUME NEW u \in Users \cup {Anonymous}, RecsReply(u)
        PROVE  OnceInv'
    <3>1. \/ exposures' = exposures + 1 /\ rail' = exposures'
          \/ exposures' = exposures /\ rail' = None
      BY <2>5 DEF RecsReply, NewExposure
    <3>2. made' = made /\ grid' = grid /\ fired' = Remembered(grid, rail')
      BY <2>5 DEF RecsReply
    <3> QED
      BY <2>0, <3>1, <3>2, NoNewImpression DEF Remembered, None
  <2>6. CASE Load
    <3>1. made' = made /\ grid' = None /\ rail' = None /\ exposures' = exposures
      BY <2>6 DEF Load
    <3> QED  BY <2>0, <3>1, NoNewImpression DEF None
  <2>7. CASE UNCHANGED <<made, grid, rail, exposures, fired>>
    BY <2>0, <2>7, NoNewImpression
  <2>8. ASSUME NEW u \in Users, SelectUser(u)
        PROVE  OnceInv'
    BY <2>7, <2>8 DEF SelectUser
  <2>9. CASE ToggleConsent \/ Render \/ OtherTabWrites \/ UsersReply
             \/ UsersFail \/ Close \/ Tick \/ Hidden \/ UNCHANGED vars
    BY <2>7, <2>9 DEF ToggleConsent, Render, OtherTabWrites, UsersReply,
       UsersFail, Close, Tick, Hidden, vars, pageVars
  <2> QED
    BY <2>1, <2>2, <2>3, <2>4, <2>5, <2>6, <2>8, <2>9 DEF Next, Reload, Dies
<1>3. OnceInv => OncePerExposure
  BY DEF OnceInv
<1> QED  BY <1>1, <1>2, <1>3, TypeCorrect, PTL DEF Spec

-----------------------------------------------------------------------------
(* The rail                                                                *)

(* RailIsOfUser is not inductive: it needs that without a race the only    *)
(* requests under way are the ones of the user on the screen.              *)
RailInv ==
    /\ ~raced => \A u \in DOMAIN asked \ {view.user} : asked[u] = 0
    /\ RailIsOfUser

LEMMA RenderKeepsRail ==
    ASSUME PageTypeOK, RailInv, NEW id \in Identities, Rendered(id),
           UNCHANGED rail
    PROVE  RailInv'
<1>1. id.user \in Users \cup {Anonymous} /\ view' = id
      /\ asked \in [Users \cup {Anonymous} -> Nat]
  BY DEF Identities, Rendered, PageTypeOK
<1>2. CASE id.user = view.user
  BY <1>1, <1>2 DEF Rendered, RailInv, RailIsOfUser
<1>3. CASE id.user # view.user
  <2>1. /\ asked' = [asked EXCEPT ![id.user] = @ + 1]
        /\ raced' = \E u \in DOMAIN asked \ {id.user} : asked[u] > 0
    BY <1>3 DEF Rendered
  <2>2. ~raced' => \A u \in DOMAIN asked' \ {id.user} : asked'[u] = 0
    <3> SUFFICES ASSUME ~raced', NEW u \in DOMAIN asked', u # id.user
                 PROVE  asked'[u] = 0
      OBVIOUS
    <3>1. ~(asked[u] > 0) /\ asked[u] \in Nat
      BY <1>1, <2>1
    <3> QED  BY <1>1, <2>1, <3>1
  <2>3. asked'[id.user] # 0
    BY <1>1, <2>1
  <2> QED  BY <1>1, <2>2, <2>3 DEF RailInv, RailIsOfUser
<1> QED  BY <1>2, <1>3

(* However users are switched and requests answered, the rail shows the    *)
(* recommendations of the user of the page, unless requests of two users   *)
(* were under way at once.                                                 *)
THEOREM RailOfUser == Spec => []RailIsOfUser
<1>1. Init => RailInv
  <2> SUFFICES ASSUME Init PROVE RailInv
    OBVIOUS
  <2>1. rail = None /\ view = identity /\ asked = MountAsks(identity.user)
    BY DEF Init
  <2> QED  BY <2>1 DEF RailInv, RailIsOfUser, MountAsks
<1>2. ASSUME TypeOK, RailInv, [Next]_vars
      PROVE  RailInv'
  <2> USE <1>2 DEF TypeOK
  <2>0. asked \in [Users \cup {Anonymous} -> Nat]
    BY DEF PageTypeOK
  <2>1. ASSUME NEW u \in Users, SelectUser(u)
        PROVE  RailInv'
    <3>1. identity' \in Identities
      BY <2>1, IdentityStep DEF Next, IdentityTypeOK
    <3> QED  BY <2>1, <3>1, RenderKeepsRail DEF SelectUser
  <2>2. CASE ToggleConsent
    <3>1. [view EXCEPT !.consent = ~@] \in Identities
      BY DEF IdentityTypeOK, Identities
    <3> QED  BY <2>2, <3>1, RenderKeepsRail DEF ToggleConsent
  <2>3. CASE Render
    <3>1. identity \in Identities
      BY DEF IdentityTypeOK
    <3> QED  BY <2>3, <3>1, RenderKeepsRail DEF Render
  <2>4. ASSUME NEW u \in Users \cup {Anonymous}, RecsReply(u)
        PROVE  RailInv'
    <3>1. /\ asked[u] > 0 /\ asked' = [asked EXCEPT ![u] = @ - 1]
          /\ view' = view /\ raced' = raced
          /\ rail' = None \/ railFor' = u
      BY <2>4 DEF RecsReply, identityVars
    <3>2. ~raced => u = view.user
      BY <2>0, <3>1 DEF RailInv
    <3>3. ~raced' => \A v \in DOMAIN asked' \ {view'.user} : asked'[v] = 0
      <4> SUFFICES ASSUME ~raced', NEW v \in DOMAIN asked', v # view'.user
                   PROVE  asked'[v] = 0
        OBVIOUS
      <4>1. v \in DOMAIN asked /\ v # u /\ asked[v] = 0
        BY <2>0, <3>1, <3>2 DEF RailInv
      <4> QED  BY <2>0, <3>1, <4>1
    <3>4. RailIsOfUser'
      BY <3>1, <3>2 DEF RailIsOfUser
    <3> QED  BY <3>3, <3>4 DEF RailInv
  <2>5. CASE Load
    <3>1. /\ rail' = None /\ view' = Loaded
          /\ asked' = MountAsks(Loaded.user)
      BY <2>5 DEF Load
    <3> QED  BY <3>1 DEF RailInv, RailIsOfUser, MountAsks
  <2>6. CASE UNCHANGED <<view, rail, railVars>>
    BY <2>6 DEF railVars, RailInv, RailIsOfUser
  <2>7. ASSUME NEW card, See(card) \/ Open(card)
        PROVE  RailInv'
    BY <2>6, <2>7 DEF See, Open, identityVars
  <2>8. ASSUME NEW type, Commerce(type)
        PROVE  RailInv'
    BY <2>6, <2>8 DEF Commerce, identityVars
  <2>9. CASE OtherTabWrites \/ UsersReply \/ UsersFail \/ ItemsReply \/ Close
             \/ Tick \/ Hidden \/ UNCHANGED vars
    BY <2>6, <2>9 DEF OtherTabWrites, UsersReply, UsersFail, ItemsReply, Close,
       Tick, Hidden, vars, pageVars, identityVars
  <2> QED
    BY <2>1, <2>2, <2>3, <2>4, <2>5, <2>7, <2>8, <2>9 DEF Next, Reload, Dies
<1>3. RailInv => RailIsOfUser
  BY DEF RailInv
<1> QED  BY <1>1, <1>2, <1>3, TypeCorrect, PTL DEF Spec

-----------------------------------------------------------------------------
(* Consent                                                                 *)

(* As long as no other tab writes, the identity of the page and the one of *)
(* its handlers have the stored consent.                                   *)
ConsentInv ==
    otherTab = 0 => /\ identity.consent = storage.consent
                    /\ view.consent = storage.consent

LEMMA ConsentStep ==
    ASSUME IdentityTypeOK, ConsentInv, [Next]_vars
    PROVE  ConsentInv'
<1>1. ASSUME NEW u \in Users, SelectUser(u)
      PROVE  ConsentInv'
  BY <1>1 DEF SelectUser, SwitchUser, Rendered, historyVars, ConsentInv,
     IdentityTypeOK
<1>2. CASE ToggleConsent
  BY <1>2 DEF ToggleConsent, Rendered, ConsentInv, IdentityTypeOK, Identities
<1>3. CASE Render
  BY <1>3 DEF Render, Rendered, historyVars, ConsentInv
<1>4. CASE OtherTabWrites
  <2>1. otherTab' # 0
    BY <1>4 DEF OtherTabWrites, IdentityTypeOK
  <2> QED  BY <2>1 DEF ConsentInv
<1>5. CASE UsersReply
  <2>1. otherTab' = otherTab /\ view' = view
    BY <1>5 DEF UsersReply, historyVars
  <2>2. CASE SwitchUser(FirstUser)
    BY <2>1, <2>2 DEF SwitchUser, ConsentInv, IdentityTypeOK
  <2>3. CASE UNCHANGED <<storage, session, identity>>
    BY <2>1, <2>3 DEF ConsentInv
  <2> QED  BY <1>5, <2>2, <2>3 DEF UsersReply
<1>6. CASE Load
  BY <1>6 DEF Load, Loaded, ConsentInv
<1>7. CASE UNCHANGED <<identityVars, otherTab>>
  BY <1>7 DEF identityVars, ConsentInv
<1>8. CASE \/ UsersFail \/ ItemsReply \/ Close \/ Tick \/ Hidden
           \/ \E u \in Users \cup {Anonymous} : RecsReply(u)
           \/ \E card \in Cards : See(card) \/ Open(card)
           \/ \E type \in {"cart", "purchase"} : Commerce(type)
           \/ UNCHANGED vars
  BY <1>7, <1>8 DEF UsersFail, ItemsReply, RecsReply, Close, Tick, Hidden,
     See, Open, Commerce, historyVars, vars
<1> QED
  BY <1>1, <1>2, <1>3, <1>4, <1>5, <1>6, <1>8 DEF Next, Reload, Dies

(* An event is added at the end of made.                                   *)
LEMMA BuiltLast ==
    ASSUME EventsTypeOK, NEW type, NEW id, NEW card, Build(type, id, card)
    PROVE  /\ DOMAIN made = 1..Len(made) /\ Len(made) \in Nat
           /\ DOMAIN made' = 1..(Len(made) + 1) /\ Len(made') = Len(made) + 1
           /\ \A n \in DOMAIN made : made'[n] = made[n]
           /\ made'[Len(made) + 1] = Envelope(type, id, card)
<1>1. made \in Seq(Envelopes)
  BY DEF EventsTypeOK
<1> QED  BY <1>1 DEF Build

(* The steps that make an event, and those that make none.                 *)
LEMMA EventsAreBuilt ==
    ASSUME [Next]_vars
    PROVE  \/ made' = made
           \/ \E type \in {"impression", "click", "cart", "purchase"} : \E card :
                 Build(type, view, card)
<1>1. CASE \E card \in Cards : See(card) \/ Open(card)
  BY <1>1 DEF See, Open
<1>2. CASE \E type \in {"cart", "purchase"} : Commerce(type)
  BY <1>2 DEF Commerce
<1>3. CASE \/ ToggleConsent \/ Render \/ OtherTabWrites
           \/ \E u \in Users : SelectUser(u)
           \/ UsersReply \/ UsersFail \/ ItemsReply
           \/ \E u \in Users \cup {Anonymous} : RecsReply(u)
           \/ Close \/ Tick \/ Hidden \/ Reload \/ Dies \/ UNCHANGED vars
  BY <1>3 DEF ToggleConsent, Render, OtherTabWrites, SelectUser, UsersReply,
     UsersFail, ItemsReply, RecsReply, Close, Tick, Hidden, Reload, Dies, Load,
     vars
<1> QED  BY <1>1, <1>2, <1>3 DEF Next

(* Whatever was rendered when, an event carries the consent stored when it *)
(* is made.                                                                *)
THEOREM ConsentIsTheTruth == Spec => ConsentRespected
<1>1. Init => ConsentInv
  BY DEF Init, Loaded, ConsentInv
<1>2. TypeOK /\ ConsentInv /\ [Next]_vars => ConsentInv'
  BY ConsentStep DEF TypeOK
<1>3. TypeOK /\ ConsentInv /\ [Next]_vars
         => [\/ made' = made
             \/ made'[Len(made')].consent = storage.consent
             \/ otherTab > 0]_vars
  <2> SUFFICES ASSUME TypeOK, ConsentInv, [Next]_vars
               PROVE  \/ made' = made
                      \/ made'[Len(made')].consent = storage.consent
                      \/ otherTab > 0
    OBVIOUS
  <2>1. otherTab = 0 \/ otherTab > 0
    BY DEF TypeOK, IdentityTypeOK
  <2>2. ASSUME NEW type, NEW card, Build(type, view, card)
        PROVE  made'[Len(made')].consent = view.consent
    <3>1. made'[Len(made')] = Envelope(type, view, card)
      BY <2>2, BuiltLast DEF TypeOK
    <3> QED  BY <3>1 DEF Envelope
  <2> QED  BY <2>1, <2>2, EventsAreBuilt DEF ConsentInv
<1> QED
  BY <1>1, <1>2, <1>3, TypeCorrect, PTL DEF Spec, ConsentRespected

-----------------------------------------------------------------------------
(* Sessions                                                                *)

(* OneUserPerSession is not inductive: whoever may still speak, and the    *)
(* next load, must agree with the events of the session.                   *)
Speaks ==
    {<<session, Loaded.user>>, <<identity.session, identity.user>>,
     <<view.session, view.user>>}
       \cup {<<made[n].session, made[n].user>> : n \in DOMAIN made}

SessionInv ==
    otherTab = 0 =>
        /\ \A p \in Speaks : p[1] \in 1..session
        /\ \A p, q \in Speaks : p[1] = q[1] => p[2] = q[2]

(* Nobody new speaks, or the user of a new session.                        *)
LEMMA SessionGoesOn ==
    ASSUME SessionInv, UNCHANGED <<otherTab, session>>, Speaks' \subseteq Speaks
    PROVE  SessionInv'
BY DEF SessionInv

LEMMA SessionBegins ==
    ASSUME IdentityTypeOK, SessionInv, NEW u,
           otherTab' = otherTab, session' = session + 1,
           Speaks' \subseteq Speaks \cup {<<session + 1, u>>}
    PROVE  SessionInv'
<1> SUFFICES ASSUME otherTab = 0
             PROVE  /\ \A p \in Speaks' : p[1] \in 1..session'
                    /\ \A p, q \in Speaks' : p[1] = q[1] => p[2] = q[2]
  BY DEF SessionInv
<1>1. session \in Nat
  BY DEF IdentityTypeOK
<1>2. \A p \in Speaks : p[1] \in 1..session' /\ p[1] # session + 1
  BY <1>1 DEF SessionInv
<1>3. \A p \in Speaks' : p \in Speaks \/ p = <<session + 1, u>>
  OBVIOUS
<1>4. session + 1 \in 1..session'
  BY <1>1
<1> QED  BY <1>2, <1>3, <1>4 DEF SessionInv

LEMMA SwitchSpeaks ==
    ASSUME IdentityTypeOK, NEW u \in Users, SwitchUser(u), made' = made,
           view' \in {view, identity'}
    PROVE  /\ session' = session + 1
           /\ Speaks' \subseteq Speaks \cup {<<session + 1, u>>}
<1>1. /\ session' = session + 1
      /\ identity'.user = u /\ identity'.session = session + 1
  BY DEF SwitchUser
<1>2. Loaded'.user = u
  <2>1. storage'.user = u /\ u # NoUser
    BY StorefrontAssumption DEF SwitchUser, IdentityTypeOK
  <2> QED  BY <2>1 DEF Loaded
<1> QED  BY <1>1, <1>2 DEF Speaks

LEMMA SessionStep ==
    ASSUME TypeOK, SessionInv, [Next]_vars
    PROVE  SessionInv'
<1>0. IdentityTypeOK /\ EventsTypeOK
  BY DEF TypeOK
<1>1. ASSUME NEW u \in Users, SelectUser(u)
      PROVE  SessionInv'
  <2>1. SwitchUser(u) /\ view' = identity' /\ made' = made /\ otherTab' = otherTab
    BY <1>1 DEF SelectUser, Rendered, historyVars
  <2> QED  BY <1>0, <2>1, SwitchSpeaks, SessionBegins
<1>2. CASE ToggleConsent
  <2>1. /\ identity'.user = view.user /\ identity'.session = view.session
        /\ view' = identity' /\ storage'.user = storage.user
        /\ UNCHANGED <<session, made, otherTab>>
    BY <1>0, <1>2 DEF ToggleConsent, Rendered, historyVars, IdentityTypeOK,
       Identities
  <2>2. Speaks' \subseteq Speaks
    BY <2>1 DEF Speaks, Loaded
  <2> QED  BY <2>1, <2>2, SessionGoesOn
<1>3. CASE Render
  <2>1. /\ view' = identity
        /\ UNCHANGED <<storage, session, identity, made, otherTab>>
    BY <1>3 DEF Render, Rendered, historyVars
  <2>2. Speaks' \subseteq Speaks
    BY <2>1 DEF Speaks, Loaded
  <2> QED  BY <2>1, <2>2, SessionGoesOn
<1>4. CASE OtherTabWrites
  <2>1. otherTab' # 0
    BY <1>0, <1>4 DEF OtherTabWrites, IdentityTypeOK
  <2> QED  BY <2>1 DEF SessionInv
<1>5. CASE UsersReply
  <2>1. view' = view /\ made' = made /\ otherTab' = otherTab
    BY <1>5 DEF UsersReply, historyVars
  <2>2. CASE SwitchUser(FirstUser)
    BY <1>0, <2>1, <2>2, SwitchSpeaks, SessionBegins, StorefrontAssumption
  <2>3. CASE UNCHANGED <<storage, session, identity>>
    BY <2>1, <2>3, SessionGoesOn DEF Speaks, Loaded
  <2> QED  BY <1>5, <2>2, <2>3 DEF UsersReply
<1>6. CASE Load
  <2>1. identity' = Loaded /\ view' = Loaded
        /\ UNCHANGED <<storage, session, made, otherTab>>
    BY <1>6 DEF Load
  <2>2. Loaded.session = session /\ Loaded' = Loaded
    BY <2>1 DEF Loaded
  <2>3. Speaks' \subseteq Speaks
    BY <2>1, <2>2 DEF Speaks
  <2> QED  BY <2>1, <2>3, SessionGoesOn
<1>7. ASSUME UNCHANGED <<identityVars, otherTab>>
      PROVE  SessionInv'
  <2>1. UNCHANGED <<storage, session, identity, view, otherTab>>
    BY <1>7 DEF identityVars
  <2>2. CASE made' = made
    BY <2>1, <2>2, SessionGoesOn DEF Speaks, Loaded
  <2>3. ASSUME NEW type, NEW card, Build(type, view, card)
        PROVE  SessionInv'
    <3>1. Envelope(type, view, card).user = view.user
          /\ Envelope(type, view, card).session = view.session
      BY DEF Envelope
    <3>2. \A n \in DOMAIN made' : n \in DOMAIN made \/ n = Len(made) + 1
      BY <1>0, <2>3, BuiltLast
    <3>3. Speaks' \subseteq Speaks
      BY <1>0, <2>1, <2>3, <3>1, <3>2, BuiltLast DEF Speaks, Loaded
    <3> QED  BY <2>1, <3>3, SessionGoesOn
  <2> QED  BY <2>2, <2>3, EventsAreBuilt
<1>8. CASE \/ UsersFail \/ ItemsReply \/ Close \/ Tick \/ Hidden
           \/ \E u \in Users \cup {Anonymous} : RecsReply(u)
           \/ \E card \in Cards : See(card) \/ Open(card)
           \/ \E type \in {"cart", "purchase"} : Commerce(type)
           \/ UNCHANGED vars
  BY <1>7, <1>8 DEF UsersFail, ItemsReply, RecsReply, Close, Tick, Hidden,
     See, Open, Commerce, historyVars, vars
<1> QED
  BY <1>1, <1>2, <1>3, <1>4, <1>5, <1>6, <1>8 DEF Next, Reload, Dies

(* Without another tab, no session has events of two users: not through    *)
(* reloads, nor when the user list's reply switches the user under a       *)
(* handler.                                                                *)
THEOREM SessionIsOfOneUser == Spec => []OneUserPerSession
<1>1. Init => SessionInv
  <2> SUFFICES ASSUME Init PROVE SessionInv
    OBVIOUS
  <2>1. identity = Loaded /\ view = Loaded /\ made = <<>> /\ session = 1
    BY DEF Init
  <2>2. Loaded.session = 1
    BY <2>1 DEF Loaded
  <2>3. Speaks = {<<1, Loaded.user>>}
    BY <2>1, <2>2 DEF Speaks
  <2> QED  BY <2>1, <2>3 DEF SessionInv
<1>2. TypeOK /\ SessionInv /\ [Next]_vars => SessionInv'
  BY SessionStep
<1>3. SessionInv => OneUserPerSession
  <2> SUFFICES ASSUME SessionInv, otherTab = 0,
                      NEW m \in DOMAIN made, NEW n \in DOMAIN made,
                      made[m].session = made[n].session
               PROVE  made[m].user = made[n].user
    BY DEF OneUserPerSession
  <2>1. /\ <<made[m].session, made[m].user>> \in Speaks
        /\ <<made[n].session, made[n].user>> \in Speaks
    BY DEF Speaks
  <2>2. <<made[m].session, made[m].user>>[2] = <<made[n].session, made[n].user>>[2]
    BY <2>1 DEF SessionInv
  <2> QED  BY <2>2
<1> QED  BY <1>1, <1>2, <1>3, TypeCorrect, PTL DEF Spec

-----------------------------------------------------------------------------
(* The order in which events leave                                         *)

(* NothingOvertakes is not inductive: it needs that no event was mislaid   *)
(* between being made and being sent, and that the queue is in order.      *)
IsSent(e) == \E b \in DOMAIN sent : \E i \in DOMAIN sent[b] : sent[b][i] = e
InOrder(events) ==
    \A i \in DOMAIN events : \A e \in 1..(events[i] - 1) :
        \/ e \in died \/ IsSent(e)
        \/ \E j \in 1..(i - 1) : events[j] = e
NoneMislaid ==
    \A e \in 1..Len(made) :
        e \in died \/ IsSent(e) \/ \E i \in DOMAIN queue : queue[i] = e

OrderInv == NoneMislaid /\ InOrder(queue) /\ NothingOvertakes

(* What is sent stays sent.                                                *)
LEMMA FlushSends ==
    ASSUME EventsTypeOK, NEW events \in Seq(Nat), Flush(events)
    PROVE  /\ DOMAIN sent \subseteq DOMAIN sent'
           /\ \A b \in DOMAIN sent : sent'[b] = sent[b]
           /\ \A b \in DOMAIN sent' \ DOMAIN sent :
                 sent'[b] = events /\ \A c \in DOMAIN sent : c \in 1..(b - 1)
           /\ events # <<>> => \E b \in DOMAIN sent' : sent'[b] = events
           /\ DOMAIN sent' \subseteq Nat
<1> DEFINE Batches == Seq(Nat)
<1>1. sent \in Seq(Batches) /\ events \in Batches
  BY DEF EventsTypeOK
<1> HIDE DEF Batches
<1>2. CASE events = <<>>
  BY <1>1, <1>2 DEF Flush
<1>3. CASE events # <<>>
  <2>1. sent' = Append(sent, events)
    BY <1>3 DEF Flush
  <2>2. /\ Len(sent) \in Nat /\ DOMAIN sent = 1..Len(sent)
        /\ DOMAIN sent' = 1..(Len(sent) + 1)
        /\ \A b \in DOMAIN sent : sent'[b] = sent[b]
        /\ sent'[Len(sent) + 1] = events
    BY <1>1, <2>1
  <2>3. \A b \in DOMAIN sent' \ DOMAIN sent : b = Len(sent) + 1
    BY <2>2
  <2>4. \A c \in DOMAIN sent : c \in 1..(Len(sent) + 1 - 1)
    BY <2>2
  <2>5. DOMAIN sent \subseteq DOMAIN sent' /\ DOMAIN sent' \subseteq Nat
        /\ Len(sent) + 1 \in DOMAIN sent'
    BY <2>2
  <2> QED  BY <2>2, <2>3, <2>4, <2>5
<1> QED  BY <1>2, <1>3

LEMMA FlushKeepsOrder ==
    ASSUME EventsTypeOK, NothingOvertakes, NEW events \in Seq(Nat),
           InOrder(events), Flush(events), died' = died
    PROVE  /\ NothingOvertakes'
           /\ \A e : IsSent(e) => IsSent(e)'
           /\ \A i \in DOMAIN events : \A e : e = events[i] => IsSent(e)'
<1>1. /\ DOMAIN sent \subseteq DOMAIN sent'
      /\ \A b \in DOMAIN sent : sent'[b] = sent[b]
      /\ \A b \in DOMAIN sent' \ DOMAIN sent :
            sent'[b] = events /\ \A c \in DOMAIN sent : c \in 1..(b - 1)
      /\ events # <<>> => \E b \in DOMAIN sent' : sent'[b] = events
      /\ DOMAIN sent' \subseteq Nat
  BY FlushSends
<1>2. \A e : IsSent(e) => IsSent(e)'
  BY <1>1 DEF IsSent
<1>3. \A i \in DOMAIN events : \A e : e = events[i] => IsSent(e)'
  <2> SUFFICES ASSUME NEW i \in DOMAIN events, NEW e, e = events[i]
               PROVE  IsSent(e)'
    OBVIOUS
  <2>1. events # <<>>
    OBVIOUS
  <2> QED  BY <1>1, <2>1 DEF IsSent
<1>4. NothingOvertakes'
  <2> SUFFICES ASSUME NEW b \in DOMAIN sent', NEW i \in DOMAIN sent'[b],
                      NEW e \in 1..(sent'[b][i] - 1), e \notin died
               PROVE  \E c \in 1..b : \E j \in DOMAIN sent'[c] :
                         sent'[c][j] = e /\ (c = b => j < i)
    BY DEF NothingOvertakes
  <2>1. CASE b \in DOMAIN sent
    <3>1. PICK c \in 1..b : \E j \in DOMAIN sent[c] :
             sent[c][j] = e /\ (c = b => j < i)
      BY <1>1, <2>1 DEF NothingOvertakes
    <3>2. c \in DOMAIN sent
      <4> DEFINE Batches == Seq(Nat)
      <4>1. sent \in Seq(Batches)
        BY DEF EventsTypeOK
      <4> HIDE DEF Batches
      <4>2. DOMAIN sent = 1..Len(sent) /\ Len(sent) \in Nat
        BY <4>1
      <4> QED  BY <2>1, <4>2
    <3> QED  BY <1>1, <3>1, <3>2
  <2>2. CASE b \notin DOMAIN sent
    <3>1. sent'[b] = events /\ b \in Nat
          /\ \A c \in DOMAIN sent : c \in 1..(b - 1)
      BY <1>1, <2>2
    <3>2. IsSent(e) \/ \E j \in 1..(i - 1) : events[j] = e
      BY <3>1 DEF InOrder
    <3>3. CASE IsSent(e)
      <4>1. PICK c \in DOMAIN sent : \E j \in DOMAIN sent[c] : sent[c][j] = e
        BY <3>3 DEF IsSent
      <4>2. c \in 1..b /\ c # b /\ sent'[c] = sent[c]
        BY <1>1, <3>1, <4>1
      <4> QED  BY <4>1, <4>2
    <3>4. ASSUME NEW j \in 1..(i - 1), events[j] = e
          PROVE  \E c \in 1..b : \E k \in DOMAIN sent'[c] :
                    sent'[c][k] = e /\ (c = b => k < i)
      <4>1. DOMAIN events = 1..Len(events) /\ Len(events) \in Nat
        OBVIOUS
      <4>2. j \in DOMAIN events /\ j < i
        BY <3>1, <4>1
      <4>3. b \in 1..b
        <5> DEFINE Batches == Seq(Nat)
        <5>1. sent' \in Seq(Batches)
          BY FlushTyped
        <5> HIDE DEF Batches
        <5> QED  BY <3>1, <5>1
      <4> QED  BY <3>1, <3>4, <4>2, <4>3
    <3> QED  BY <3>2, <3>3, <3>4
  <2> QED  BY <2>1, <2>2
<1> QED  BY <1>2, <1>3, <1>4

(* The queue is flushed as it is.                                          *)
LEMMA FlushQueueInOrder ==
    ASSUME EventsTypeOK, OrderInv, Flush(queue), UNCHANGED <<made, died>>
    PROVE  OrderInv'
<1>1. queue \in Seq(Nat) /\ queue' = <<>>
  BY DEF EventsTypeOK, Flush
<1>2. /\ NothingOvertakes'
      /\ \A e : IsSent(e) => IsSent(e)'
      /\ \A i \in DOMAIN queue : \A e : e = queue[i] => IsSent(e)'
  BY <1>1, FlushKeepsOrder DEF OrderInv
<1>3. NoneMislaid'
  BY <1>2 DEF OrderInv, NoneMislaid
<1>4. InOrder(queue)'
  BY <1>1 DEF InOrder
<1> QED  BY <1>2, <1>3, <1>4 DEF OrderInv

(* An event joins the queue: all earlier ones are accounted for.           *)
LEMMA NewcomerInOrder ==
    ASSUME EventsTypeOK, OrderInv
    PROVE  InOrder(Append(queue, Len(made) + 1))
<1> DEFINE new == Len(made) + 1
           events == Append(queue, new)
<1>1. /\ queue \in Seq(Nat) /\ made \in Seq(Envelopes) /\ Len(made) \in Nat
  BY DEF EventsTypeOK
<1>2. /\ Len(queue) \in Nat /\ DOMAIN queue = 1..Len(queue)
      /\ DOMAIN events = 1..(Len(queue) + 1)
      /\ \A i \in DOMAIN queue : events[i] = queue[i]
      /\ events[Len(queue) + 1] = new
  BY <1>1
<1> HIDE DEF events
<1> SUFFICES ASSUME NEW i \in DOMAIN events, NEW e \in 1..(events[i] - 1)
             PROVE  \/ e \in died \/ IsSent(e)
                    \/ \E j \in 1..(i - 1) : events[j] = e
  BY DEF InOrder, events
<1>3. CASE i \in DOMAIN queue
  <2>1. \/ e \in died \/ IsSent(e)
        \/ \E j \in 1..(i - 1) : queue[j] = e
    BY <1>2, <1>3 DEF OrderInv, InOrder
  <2>2. \A j \in 1..(i - 1) : j \in DOMAIN queue
    BY <1>2, <1>3
  <2> QED  BY <1>2, <2>1, <2>2
<1>4. CASE i = Len(queue) + 1
  <2>1. e \in 1..Len(made)
    BY <1>1, <1>2, <1>4
  <2>2. e \in died \/ IsSent(e) \/ \E j \in DOMAIN queue : queue[j] = e
    BY <2>1 DEF OrderInv, NoneMislaid
  <2>3. \A j \in DOMAIN queue : j \in 1..(i - 1)
    BY <1>2, <1>4
  <2> QED  BY <1>2, <2>2, <2>3
<1> QED  BY <1>2, <1>3, <1>4

LEMMA BuildInOrder ==
    ASSUME EventsTypeOK, OrderInv, NEW type, NEW id, NEW card,
           Build(type, id, card), died' = died,
           Impression(Len(made')) \/ Action(Len(made'))
    PROVE  OrderInv'
<1> DEFINE new == Len(made) + 1
           events == Append(queue, new)
<1>1. Len(made) \in Nat /\ Len(made') = new /\ queue \in Seq(Nat)
  BY BuiltLast DEF EventsTypeOK
<1>2. /\ events \in Seq(Nat) /\ Len(queue) \in Nat
      /\ DOMAIN queue = 1..Len(queue) /\ DOMAIN events = 1..(Len(queue) + 1)
      /\ \A i \in DOMAIN queue : events[i] = queue[i]
      /\ events[Len(queue) + 1] = new
  BY <1>1
<1>3. InOrder(events)
  BY NewcomerInOrder
<1>4. \A e \in 1..new : e \in 1..Len(made) \/ e = new
  BY <1>1
<1> HIDE DEF events
<1>5. \A i \in DOMAIN queue : i \in DOMAIN events /\ Len(queue) + 1 \in DOMAIN events
  BY <1>2
<1>6. CASE Flush(events)
  <2>1. /\ NothingOvertakes' /\ queue' = <<>>
        /\ \A e : IsSent(e) => IsSent(e)'
        /\ \A i \in DOMAIN events : \A e : e = events[i] => IsSent(e)'
    BY <1>2, <1>3, <1>6, FlushKeepsOrder DEF OrderInv, Flush
  <2>3. NoneMislaid'
    <3> SUFFICES ASSUME NEW e \in 1..Len(made')
                 PROVE  e \in died \/ IsSent(e)'
      BY DEF NoneMislaid
    <3>1. CASE e = new
      <4>1. \A x : x = new => IsSent(x)'
        BY <1>2, <2>1
      <4> QED  BY <3>1, <4>1
    <3>2. CASE e \in 1..Len(made)
      <4>1. e \in died \/ IsSent(e) \/ \E i \in DOMAIN queue : queue[i] = e
        BY <3>2 DEF OrderInv, NoneMislaid
      <4> QED  BY <1>2, <1>5, <2>1, <4>1
    <3> QED  BY <1>1, <1>4, <3>1, <3>2
  <2>4. InOrder(queue)'
    BY <2>1 DEF InOrder
  <2> QED  BY <2>1, <2>3, <2>4 DEF OrderInv
<1>7. CASE queue' = events /\ sent' = sent
  <2>1. NothingOvertakes' /\ InOrder(queue)'
    BY <1>3, <1>7 DEF OrderInv, NothingOvertakes, InOrder, IsSent
  <2>2. NoneMislaid'
    <3> SUFFICES ASSUME NEW e \in 1..Len(made')
                 PROVE  \/ e \in died \/ IsSent(e)
                        \/ \E i \in DOMAIN events : events[i] = e
      BY <1>7 DEF NoneMislaid, IsSent
    <3>1. CASE e = new
      BY <1>2, <3>1
    <3>2. CASE e \in 1..Len(made)
      BY <1>2, <1>5, <3>2 DEF OrderInv, NoneMislaid
    <3> QED  BY <1>1, <1>4, <3>1, <3>2
  <2> QED  BY <2>1, <2>2 DEF OrderInv
<1> QED  BY <1>1, <1>6, <1>7 DEF Impression, Action, events

(* Through full queues, timers, hidden tabs and reloads, no event is       *)
(* handed to fetch before an earlier one that is still alive.              *)
THEOREM OrderIsKept == Spec => []NothingOvertakes
<1>1. Init => OrderInv
  <2> SUFFICES ASSUME Init PROVE OrderInv
    OBVIOUS
  <2>1. made = <<>> /\ queue = <<>> /\ sent = <<>>
    BY DEF Init, InitTracker
  <2> QED  BY <2>1 DEF OrderInv, NoneMislaid, InOrder, NothingOvertakes
<1>2. ASSUME TypeOK, OrderInv, [Next]_vars
      PROVE  OrderInv'
  <2> USE <1>2 DEF TypeOK
  <2>1. ASSUME NEW card \in Cards, See(card) \/ Open(card)
        PROVE  OrderInv'
    BY <2>1, BuildInOrder DEF See, Open, historyVars
  <2>2. ASSUME NEW type, Commerce(type)
        PROVE  OrderInv'
    BY <2>2, BuildInOrder DEF Commerce, historyVars
  <2>3. CASE Tick \/ Hidden \/ Reload
    <3>1. Flush(queue) /\ UNCHANGED <<made, died>>
      BY <2>3 DEF Tick, TimerFires, Hidden, Hide, Reload, Load, historyVars
    <3> QED  BY <3>1, FlushQueueInOrder
  <2>4. CASE Dies
    <3>1. /\ died' = died \cup {queue[i] : i \in DOMAIN queue}
          /\ queue' = <<>> /\ sent' = sent /\ made' = made
      BY <2>4 DEF Dies, Load
    <3>2. NoneMislaid'
      BY <3>1 DEF OrderInv, NoneMislaid, IsSent
    <3>3. NothingOvertakes' /\ InOrder(queue)'
      BY <3>1 DEF OrderInv, NothingOvertakes, InOrder
    <3> QED  BY <3>2, <3>3 DEF OrderInv
  <2>5. ASSUME UNCHANGED <<trackerVars, made, died>>
        PROVE  OrderInv'
    BY <2>5 DEF trackerVars, OrderInv, NoneMislaid, IsSent, InOrder,
       NothingOvertakes
  <2>6. ASSUME NEW u \in Users, SelectUser(u)
        PROVE  OrderInv'
    BY <2>5, <2>6 DEF SelectUser, historyVars
  <2>7. CASE ToggleConsent \/ Render \/ OtherTabWrites \/ UsersReply
             \/ UsersFail \/ ItemsReply \/ Close \/ UNCHANGED vars
             \/ \E u \in Users \cup {Anonymous} : RecsReply(u)
    BY <2>5, <2>7 DEF ToggleConsent, Render, OtherTabWrites, UsersReply,
       UsersFail, ItemsReply, RecsReply, Close, vars, historyVars
  <2> QED
    BY <2>1, <2>2, <2>3, <2>4, <2>6, <2>7 DEF Next
<1>3. OrderInv => NothingOvertakes
  BY DEF OrderInv
<1> QED  BY <1>1, <1>2, <1>3, TypeCorrect, PTL DEF Spec

-----------------------------------------------------------------------------
(* Outcomes                                                                *)

(* Events of a type and a card among the first n.                          *)
Upto(type, card, n) == Cardinality(Numbers(type, card) \cap 1..n)
Outcomes(card, n) == Upto("cart", card, n) + Upto("purchase", card, n)

(* OutcomesFollowClicks is not inductive: the modal, as long as it offers  *)
(* its buttons, stands for a click that had no outcome yet.                *)
OutcomesInv ==
    /\ OutcomesFollowClicks
    /\ \A card \in (1..MaxExposures) \X Items :
          Outcomes(card, Len(made)) <= Upto("click", card, Len(made))
    /\ modal.open /\ ~modal.done =>
          Outcomes(modal.card, Len(made)) < Upto("click", modal.card, Len(made))

LEMMA UptoType ==
    ASSUME NEW type, NEW card, NEW n \in Nat
    PROVE  /\ IsFiniteSet(Numbers(type, card) \cap 1..n)
           /\ Upto(type, card, n) \in Nat
<1>1. IsFiniteSet(1..n) /\ Numbers(type, card) \cap 1..n \subseteq 1..n
  BY FS_Interval
<1>2. IsFiniteSet(Numbers(type, card) \cap 1..n)
  BY <1>1, FS_Subset
<1> QED  BY <1>2, FS_CardinalityType DEF Upto

(* What an event adds to the tallies.                                      *)
LEMMA Tally ==
    ASSUME EventsTypeOK, NEW type, NEW id, NEW card \in (1..MaxExposures) \X Items,
           Build(type, id, card), NEW t, NEW c
    PROVE  /\ \A n \in 1..Len(made) : Upto(t, c, n)' = Upto(t, c, n)
           /\ Len(made') = Len(made) + 1
           /\ t = type /\ c = card =>
                 Upto(t, c, Len(made))' = Upto(t, c, Len(made)) + 1
           /\ ~(t = type /\ c = card) =>
                 Upto(t, c, Len(made))' = Upto(t, c, Len(made))
<1> DEFINE last == Len(made) + 1
           Old == Numbers(t, c) \cap 1..Len(made)
<1>1. /\ DOMAIN made = 1..Len(made) /\ Len(made) \in Nat
      /\ DOMAIN made' = 1..last /\ Len(made') = last
      /\ \A n \in DOMAIN made : made'[n] = made[n]
      /\ made'[last] = Envelope(type, id, card)
  BY BuiltLast
<1>2. /\ made'[last].type = type
      /\ <<made'[last].exposure, made'[last].item>> = card
  BY <1>1 DEF Envelope
<1> HIDE DEF last
<1>3. \A n \in 1..Len(made) : Numbers(t, c)' \cap 1..n = Numbers(t, c) \cap 1..n
  BY <1>1 DEF Numbers, last
<1>4. \A n \in 1..Len(made) : Upto(t, c, n)' = Upto(t, c, n)
  BY <1>3 DEF Upto
<1>5. Numbers(t, c)' \cap 1..last
         = IF t = type /\ c = card THEN Old \cup {last} ELSE Old
  <2>1. ASSUME NEW n \in 1..Len(made)
        PROVE  n \in Numbers(t, c)' <=> n \in Numbers(t, c)
    BY <1>1 DEF Numbers, last
  <2>2. last \in Numbers(t, c)' <=> t = type /\ c = card
    <3>1. last \in DOMAIN made'
      BY <1>1 DEF last
    <3>2. last \in Numbers(t, c)'
             <=> /\ made'[last].type = t
                 /\ <<made'[last].exposure, made'[last].item>> = c
      BY <3>1 DEF Numbers
    <3> QED  BY <1>2, <3>2
  <2>3. /\ \A n : n \in 1..last <=> n \in 1..Len(made) \/ n = last
        /\ last \notin 1..Len(made)
    BY <1>1 DEF last
  <2>4. \A n : n \in Numbers(t, c)' \cap 1..last
                <=> n \in Old \/ (n = last /\ t = type /\ c = card)
    BY <2>1, <2>2, <2>3
  <2> HIDE DEF Old
  <2> QED  BY <2>4
<1>6. IsFiniteSet(Old) /\ last \notin Old
  <2>1. IsFiniteSet(Old)
    BY <1>1, UptoType
  <2>2. last \notin 1..Len(made)
    BY <1>1 DEF last
  <2> QED  BY <2>1, <2>2
<1>7. t = type /\ c = card => Upto(t, c, Len(made))' = Cardinality(Old) + 1
  <2>1. Cardinality(Old \cup {last}) = Cardinality(Old) + 1
    <3> HIDE DEF Old
    <3> QED  BY <1>6, FS_AddElement
  <2> QED  BY <1>1, <1>5, <2>1 DEF Upto
<1>8. ~(t = type /\ c = card) => Upto(t, c, Len(made))' = Cardinality(Old)
  BY <1>1, <1>5 DEF Upto
<1> QED  BY <1>1, <1>4, <1>7, <1>8 DEF Upto, last

(* A step that makes no event and opens no modal.                          *)
LEMMA NoOutcome ==
    ASSUME OutcomesInv, made' = made,
           modal' = modal \/ ~modal'.open
    PROVE  OutcomesInv'
<1>1. \A type, card : Numbers(type, card)' = Numbers(type, card)
  BY DEF Numbers
<1>2. OutcomesFollowClicks'
  BY <1>1 DEF OutcomesInv, OutcomesFollowClicks
<1>3. (\A card \in (1..MaxExposures) \X Items :
          Outcomes(card, Len(made)) <= Upto("click", card, Len(made)))'
  BY <1>1 DEF OutcomesInv, Outcomes, Upto
<1>4. (modal.open /\ ~modal.done =>
          Outcomes(modal.card, Len(made)) < Upto("click", modal.card, Len(made)))'
  BY <1>1 DEF OutcomesInv, Outcomes, Upto
<1> QED  BY <1>2, <1>3, <1>4 DEF OutcomesInv

(* An impression changes no tally, a click comes with a modal that offers  *)
(* its buttons, and an outcome with a modal that withdraws them.           *)
LEMMA OutcomeBuilt ==
    ASSUME EventsTypeOK, OutcomesInv,
           NEW type \in {"impression", "click", "cart", "purchase"},
           NEW card \in (1..MaxExposures) \X Items, Build(type, view, card),
           \/ type = "impression" /\ modal' = modal
           \/ type = "click" /\ modal'.card = card
           \/ /\ type \in {"cart", "purchase"} /\ card = modal.card
              /\ modal.open /\ ~modal.done /\ modal'.done
    PROVE  OutcomesInv'
<1> DEFINE L == Len(made)
           Typed == (1..MaxExposures) \X Items
<1>1. /\ DOMAIN made = 1..L /\ L \in Nat
      /\ DOMAIN made' = 1..(L + 1) /\ Len(made') = L + 1
      /\ \A n \in DOMAIN made : made'[n] = made[n]
      /\ made'[L + 1] = Envelope(type, view, card)
  BY BuiltLast
<1>2. \A t, c : Upto(t, c, L) \in Nat
  BY <1>1, UptoType
<1>3. ASSUME NEW t, NEW c
      PROVE  /\ t = type /\ c = card =>
                   Upto(t, c, Len(made))' = Upto(t, c, Len(made)) + 1
             /\ ~(t = type /\ c = card) =>
                   Upto(t, c, Len(made))' = Upto(t, c, Len(made))
             /\ \A n \in 1..Len(made) : Upto(t, c, n)' = Upto(t, c, n)
  BY Tally
<1>4. ASSUME NEW c \in Typed
      PROVE  /\ Outcomes(c, Len(made))' <= Upto("click", c, Len(made))'
             /\ type = "click" /\ c = card =>
                   Outcomes(c, Len(made))' < Upto("click", c, Len(made))'
             /\ type = "impression" =>
                   /\ Outcomes(c, Len(made))' = Outcomes(c, Len(made))
                   /\ Upto("click", c, Len(made))' = Upto("click", c, Len(made))
  <2>1. /\ Upto("cart", c, L) \in Nat /\ Upto("purchase", c, L) \in Nat
        /\ Upto("click", c, L) \in Nat
    BY <1>2
  <2>2. Outcomes(c, L) = Upto("cart", c, L) + Upto("purchase", c, L)
        /\ Outcomes(c, Len(made))' = Upto("cart", c, Len(made))'
                                        + Upto("purchase", c, Len(made))'
    BY DEF Outcomes
  <2>3. Outcomes(c, L) <= Upto("click", c, L)
    BY DEF OutcomesInv
  <2>4. CASE c # card \/ type = "impression"
    BY <1>3, <2>1, <2>2, <2>3, <2>4
  <2>5. CASE c = card /\ type = "click"
    <3>1. /\ Upto("cart", c, Len(made))' = Upto("cart", c, L)
          /\ Upto("purchase", c, Len(made))' = Upto("purchase", c, L)
          /\ Upto("click", c, Len(made))' = Upto("click", c, L) + 1
      BY <1>3, <2>5
    <3> QED  BY <2>1, <2>2, <2>3, <2>5, <3>1
  <2>6. CASE c = card /\ type \in {"cart", "purchase"}
    <3>1. Outcomes(c, L) < Upto("click", c, L)
      BY <2>6 DEF OutcomesInv
    <3>2. /\ Upto("cart", c, Len(made))' =
                Upto("cart", c, L) + IF type = "cart" THEN 1 ELSE 0
          /\ Upto("purchase", c, Len(made))' =
                Upto("purchase", c, L) + IF type = "purchase" THEN 1 ELSE 0
          /\ Upto("click", c, Len(made))' = Upto("click", c, L)
      <4>1. /\ type = "cart" => Upto("cart", c, Len(made))' = Upto("cart", c, L) + 1
            /\ type # "cart" => Upto("cart", c, Len(made))' = Upto("cart", c, L)
        BY <1>3, <2>6
      <4>2. /\ type = "purchase" =>
                  Upto("purchase", c, Len(made))' = Upto("purchase", c, L) + 1
            /\ type # "purchase" =>
                  Upto("purchase", c, Len(made))' = Upto("purchase", c, L)
        BY <1>3, <2>6
      <4>3. Upto("click", c, Len(made))' = Upto("click", c, L)
        BY <1>3, <2>6
      <4> QED  BY <2>1, <4>1, <4>2, <4>3
    <3> QED  BY <2>1, <2>2, <2>6, <3>1, <3>2
  <2> QED  BY <2>4, <2>5, <2>6
<1>5. OutcomesFollowClicks'
  <2> SUFFICES ASSUME NEW n \in DOMAIN made',
                      NEW c, c = <<made'[n].exposure, made'[n].item>>
               PROVE  Upto("cart", c, n)' + Upto("purchase", c, n)'
                         <= Upto("click", c, n)'
    BY DEF OutcomesFollowClicks, Upto
  <2>1. CASE n \in 1..L
    <3>1. c = <<made[n].exposure, made[n].item>>
      BY <1>1, <2>1
    <3>2. Upto("cart", c, n) + Upto("purchase", c, n) <= Upto("click", c, n)
      BY <1>1, <2>1, <3>1 DEF OutcomesInv, OutcomesFollowClicks, Upto
    <3>3. \A t : Upto(t, c, n)' = Upto(t, c, n)
      BY <1>3, <2>1
    <3> QED  BY <3>2, <3>3
  <2>2. CASE n = L + 1
    <3>1. c = card
      BY <1>1, <2>2 DEF Envelope
    <3>2. \A t : Upto(t, c, n)' = Upto(t, c, Len(made))'
      BY <1>1, <2>2 DEF Upto
    <3> QED  BY <1>4, <3>1, <3>2 DEF Outcomes
  <2> QED  BY <1>1, <2>1, <2>2
<1>6. (\A c \in (1..MaxExposures) \X Items :
          Outcomes(c, Len(made)) <= Upto("click", c, Len(made)))'
  BY <1>4
<1>7. (modal.open /\ ~modal.done =>
          Outcomes(modal.card, Len(made)) < Upto("click", modal.card, Len(made)))'
  <2> SUFFICES ASSUME modal'.open, ~modal'.done
               PROVE  \A c : c = modal'.card =>
                         Outcomes(c, Len(made))' < Upto("click", c, Len(made))'
    OBVIOUS
  <2>1. CASE type = "click" /\ modal'.card = card
    BY <1>4, <2>1
  <2>2. CASE type = "impression" /\ modal' = modal
    <3>1. \A t \in {"click", "cart", "purchase"} : \A c :
             Upto(t, c, Len(made))' = Upto(t, c, L)
      <4> SUFFICES ASSUME NEW t \in {"click", "cart", "purchase"}, NEW c
                   PROVE  Upto(t, c, Len(made))' = Upto(t, c, L)
        OBVIOUS
      <4>1. ~(t = type /\ c = card) => Upto(t, c, Len(made))' = Upto(t, c, L)
        BY <1>3
      <4>2. t = type /\ c = card => FALSE
        BY <2>2
      <4> QED  BY <4>1, <4>2
    <3>2. Outcomes(modal.card, L) < Upto("click", modal.card, L)
      BY <2>2 DEF OutcomesInv
    <3>3. \A c : Outcomes(c, Len(made))' = Outcomes(c, L)
      BY <3>1 DEF Outcomes
    <3> QED  BY <2>2, <3>1, <3>2, <3>3
  <2> QED  BY <2>1, <2>2
<1> QED  BY <1>5, <1>6, <1>7 DEF OutcomesInv

(* A modal, its twin that the keyboard opened behind it, and the cards of  *)
(* two surfaces: a card never has more outcomes than clicks.               *)
THEOREM OutcomesAreClicked == Spec => []OutcomesFollowClicks
<1>1. Init => OutcomesInv
  <2> SUFFICES ASSUME Init PROVE OutcomesInv
    OBVIOUS
  <2>1. made = <<>> /\ ~modal.open
    BY DEF Init, NoModal
  <2>2. \A type, card : Upto(type, card, Len(made)) = 0
    BY <2>1, FS_EmptySet DEF Upto, Numbers
  <2> QED  BY <2>1, <2>2 DEF OutcomesInv, OutcomesFollowClicks, Outcomes
<1>2. ASSUME TypeOK, OutcomesInv, [Next]_vars
      PROVE  OutcomesInv'
  <2> USE <1>2 DEF TypeOK
  <2>1. ASSUME NEW card \in Cards, See(card)
        PROVE  OutcomesInv'
    BY <2>1, CardsTyped, OutcomeBuilt DEF See
  <2>2. ASSUME NEW card \in Cards, Open(card)
        PROVE  OutcomesInv'
    <3>1. modal'.card = card
      BY <2>2 DEF Open
    <3> QED  BY <2>2, <3>1, CardsTyped, OutcomeBuilt DEF Open
  <2>3. ASSUME NEW type \in {"cart", "purchase"}, Commerce(type)
        PROVE  OutcomesInv'
    <3>1. modal.open /\ ~modal.done /\ modal' = [modal EXCEPT !.done = TRUE]
      BY <2>3 DEF Commerce, Offers
    <3>2. modal'.done
      <4>1. modal # NoModal
        BY <3>1 DEF NoModal
      <4> QED  BY <3>1, <4>1 DEF PageTypeOK
    <3> QED  BY <2>3, <3>1, <3>2, CardsTyped, OutcomeBuilt DEF Commerce
  <2>4. CASE Close \/ Reload \/ Dies
    <3>1. made' = made /\ ~modal'.open
      BY <2>4 DEF Close, Reload, Dies, Load, NoModal
    <3> QED  BY <3>1, NoOutcome
  <2>5. ASSUME made' = made, modal' = modal
        PROVE  OutcomesInv'
    BY <2>5, NoOutcome
  <2>6. ASSUME NEW u \in Users, SelectUser(u)
        PROVE  OutcomesInv'
    BY <2>5, <2>6 DEF SelectUser
  <2>7. CASE ToggleConsent \/ Render \/ OtherTabWrites \/ UsersReply
             \/ UsersFail \/ ItemsReply \/ Tick \/ Hidden \/ UNCHANGED vars
             \/ \E u \in Users \cup {Anonymous} : RecsReply(u)
    BY <2>5, <2>7 DEF ToggleConsent, Render, OtherTabWrites, UsersReply,
       UsersFail, ItemsReply, RecsReply, Tick, Hidden, vars, pageVars
  <2> QED
    BY <2>1, <2>2, <2>3, <2>4, <2>6, <2>7 DEF Next
<1>3. OutcomesInv => OutcomesFollowClicks
  BY DEF OutcomesInv
<1> QED  BY <1>1, <1>2, <1>3, TypeCorrect, PTL DEF Spec
=============================================================================
