----------------------------- MODULE Storefront -----------------------------
(***************************************************************************)
(* apps/web: one tab of the demo store.  App.tsx with identity.ts,         *)
(* useImpression.ts, the product card and the product modal; Tracker.tla   *)
(* is its tracker.                                                         *)
(*                                                                         *)
(* A handler or an observer speaks for the identity it was rendered with   *)
(* (`view`).  Updates made by an event of the user are rendered before the *)
(* next event; one made by a fetch reply is rendered some time later.      *)
(***************************************************************************)
EXTENDS Tracker, FiniteSets

CONSTANTS
    Users,        \* the seed users; the first one is the default
    FirstUser,
    GridItems,    \* what /api/items lists
    RailItems,    \* what /api/recommendations may list
    EffectRuns,   \* times a mount effect runs: 2 under StrictMode's development
                  \* mode, else 1
    MaxEvents, MaxSessions, MaxExposures,     \* bounds
    MaxUpsets     \* bound: further page loads, and writes of another tab

Anonymous == "anonymous"
NoUser == "no user"
None == 0             \* no exposure: nothing on the screen

ASSUME StorefrontAssumption ==
    /\ FirstUser \in Users
    /\ {Anonymous, NoUser} \cap Users = {}
    /\ EffectRuns \in 1..2
    /\ {MaxEvents, MaxExposures, MaxUpsets} \subseteq Nat
    /\ MaxSessions \in Nat \ {0}

VARIABLES
    storage,      \* localStorage, shared by all tabs: user, consent
    session,      \* sessionStorage: reco.sessionId; ids are numbered
    identity,     \* the identity state
    view,         \* the identity that was rendered last
    fetching,     \* requests under way: users, items
    asked,        \* recommendation requests under way, per user
    railFor,      \* whose recommendations the rail shows
    railItems,    \* and which items
    raced,        \* history: when the last one was asked for, another user's
                  \* were still under way
    known,        \* userIds is loaded
    grid, rail,   \* the exposure on the screen, or None
    exposures,    \* requestIds made so far
    fired,        \* the cards whose impression was recorded
    modal,        \* the product modal: none, or one product
    made,         \* history: every envelope built
    died,         \* history: events that were queued in a tab that died
    loads,        \* further page loads so far
    otherTab      \* writes of another tab to localStorage so far

railVars == <<asked, railFor, railItems, raced>>
pageVars == <<fetching, railVars, known, grid, rail, exposures, fired, modal>>
identityVars == <<storage, session, identity, view>>
historyVars == <<died, loads, otherTab>>
vars == <<trackerVars, identityVars, pageVars, made, historyVars>>

Cards == (IF grid = None THEN {} ELSE {grid} \X GridItems)
           \cup (IF rail = None THEN {} ELSE {rail} \X railItems)

NoModal == [open |-> FALSE, card |-> <<None, None>>, priced |-> FALSE,
            done |-> FALSE]

(* What a mount of App fetches.                                            *)
MountFetches == [users |-> EffectRuns, items |-> EffectRuns]
MountAsks(user) ==
    [u \in Users \cup {Anonymous} |-> IF u = user THEN EffectRuns ELSE 0]

(* loadIdentity('anonymous')                                               *)
Loaded == [user |-> IF storage.user = NoUser THEN Anonymous ELSE storage.user,
           session |-> session, consent |-> storage.consent]

Init ==
    /\ InitTracker
    /\ storage \in [user : {NoUser, FirstUser}, consent : {TRUE}]
    /\ session = 1
    /\ identity = Loaded
    /\ view = identity
    /\ fetching = MountFetches
    /\ asked = MountAsks(identity.user)
    /\ railFor = NoUser
    /\ railItems = {}
    /\ raced = FALSE
    /\ known = FALSE
    /\ grid = None
    /\ rail = None
    /\ exposures = 0
    /\ fired = {}
    /\ modal = NoModal
    /\ made = <<>>
    /\ died = {}
    /\ loads = 0
    /\ otherTab = 0

-----------------------------------------------------------------------------
(* Identity                                                                *)

(* Wrong on purpose: the session goes on.                                  *)
SwitchUserInSession(u) ==
    /\ storage' = [storage EXCEPT !.user = u]
    /\ identity' = [user |-> u, session |-> session, consent |-> storage.consent]
    /\ UNCHANGED session

(* switchUser: storage and session storage are written at once; the caller *)
(* passes the result to setIdentity.                                       *)
SwitchUser(u) ==
    /\ session < MaxSessions
    /\ session' = session + 1
    /\ storage' = [storage EXCEPT !.user = u]
    /\ identity' = [user |-> u, session |-> session', consent |-> storage.consent]

(* Wrong on purpose: the recommendations are fetched at the mount only.    *)
RenderedAlone(id) ==
    /\ view' = id
    /\ UNCHANGED railVars

(* A render with the identity `id`, and the effect of identity.userId.     *)
(* Nothing cancels a request that is under way.                            *)
Rendered(id) ==
    /\ view' = id
    /\ UNCHANGED <<railFor, railItems>>
    /\ \/ /\ id.user # view.user
          /\ asked' = [asked EXCEPT ![id.user] = @ + 1]
          /\ raced' = \E u \in DOMAIN asked \ {id.user} : asked[u] > 0
       \/ id.user = view.user /\ UNCHANGED <<asked, raced>>

SelectUser(u) ==
    /\ known
    /\ u # view.user
    /\ SwitchUser(u)
    /\ Rendered(identity')
    /\ UNCHANGED <<trackerVars, fetching, known, grid, rail, exposures, fired,
                   modal, made, historyVars>>

(* The check box.  setConsent spreads the identity of the handler: one     *)
(* that a reply has set and that is not rendered yet is overwritten.       *)
ToggleConsent ==
    LET id == [view EXCEPT !.consent = ~@]
    IN  /\ storage' = [storage EXCEPT !.consent = id.consent]
        /\ identity' = id
        /\ Rendered(id)
        /\ UNCHANGED <<trackerVars, session, fetching, known, grid, rail,
                       exposures, fired, modal, made, historyVars>>

(* The render that follows a reply.                                        *)
Render ==
    /\ view # identity
    /\ Rendered(identity)
    /\ UNCHANGED <<trackerVars, storage, session, identity, fetching, known,
                   grid, rail, exposures, fired, modal, made, historyVars>>

OtherTabWrites ==
    /\ loads + otherTab < MaxUpsets
    /\ otherTab' = otherTab + 1
    /\ \/ \E u \in Users \ {storage.user} : storage' = [storage EXCEPT !.user = u]
       \/ storage' = [storage EXCEPT !.consent = ~@]
    /\ UNCHANGED <<trackerVars, session, identity, view, pageVars,
                   made, died, loads>>

-----------------------------------------------------------------------------
(* Replies: in any order, each a success or a failure.                     *)

UsersReply ==
    /\ fetching.users > 0
    /\ fetching' = [fetching EXCEPT !.users = @ - 1]
    /\ known' = TRUE
    /\ \/ storage.user = NoUser /\ SwitchUser(FirstUser)
       \/ /\ storage.user # NoUser
          /\ UNCHANGED <<storage, session, identity>>
    /\ UNCHANGED <<trackerVars, view, railVars, grid, rail, exposures, fired,
                   modal, made, historyVars>>

UsersFail ==
    /\ fetching.users > 0
    /\ fetching' = [fetching EXCEPT !.users = @ - 1]
    /\ known' = FALSE
    /\ UNCHANGED <<trackerVars, identityVars, railVars, grid, rail, exposures,
                   fired, modal, made, historyVars>>

(* The cards of an exposure that leaves the screen are unmounted, and with *)
(* them what they remember.                                                *)
Remembered(g, r) == {card \in fired : card[1] \in {g, r}}

NewExposure ==
    /\ exposures < MaxExposures
    /\ exposures' = exposures + 1

ItemsReply ==
    /\ fetching.items > 0
    /\ fetching' = [fetching EXCEPT !.items = @ - 1]
    /\ \/ NewExposure /\ grid' = exposures'
       \/ grid' = None /\ UNCHANGED exposures
    /\ fired' = Remembered(grid', rail)
    /\ UNCHANGED <<trackerVars, identityVars, railVars, known, rail, modal,
                   made, historyVars>>

(* A reply lists whatever items it likes, each once: the key of a card is  *)
(* its requestId and item, and React shows two cards of one key as it      *)
(* pleases.                                                                *)
RecsReply(u) ==
    /\ asked[u] > 0
    /\ asked' = [asked EXCEPT ![u] = @ - 1]
    /\ \/ /\ NewExposure
          /\ rail' = exposures'
          /\ railFor' = u
          /\ railItems' \in SUBSET RailItems
       \/ /\ rail' = None
          /\ railFor' = NoUser
          /\ railItems' = {}
          /\ UNCHANGED exposures
    /\ fired' = Remembered(grid, rail')
    /\ UNCHANGED <<trackerVars, identityVars, fetching, raced, known, grid,
                   modal, made, historyVars>>

-----------------------------------------------------------------------------
(* Events                                                                  *)

Envelope(type, id, card) ==
    [type |-> type, user |-> id.user, session |-> id.session,
     consent |-> id.consent, exposure |-> card[1], item |-> card[2]]

(* buildEnvelope: the event becomes number Len(made').                     *)
Build(type, id, card) ==
    /\ Len(made) < MaxEvents
    /\ made' = Append(made, Envelope(type, id, card))

(* Wrong on purpose: the card does not remember that it was seen.          *)
SeeAgain(card) ==
    /\ card \in Cards
    /\ Build("impression", view, card)
    /\ Impression(Len(made'))
    /\ UNCHANGED <<identityVars, pageVars, historyVars>>

(* Wrong on purpose: the observer keeps the consent it began with.         *)
SeeStale(card) ==
    /\ card \in Cards \ fired
    /\ fired' = fired \cup {card}
    /\ Build("impression", [view EXCEPT !.consent = TRUE], card)
    /\ Impression(Len(made'))
    /\ UNCHANGED <<identityVars, fetching, railVars, known, grid, rail,
                   exposures, modal, historyVars>>

(* useImpression: half of the card is on the screen.                       *)
See(card) ==
    /\ card \in Cards \ fired
    /\ fired' = fired \cup {card}
    /\ Build("impression", view, card)
    /\ Impression(Len(made'))
    /\ UNCHANGED <<identityVars, fetching, railVars, known, grid, rail,
                   exposures, modal, historyVars>>

(* A card is clicked, or entered by the keyboard even behind an open       *)
(* modal, whose component then keeps its state.  A product has its price   *)
(* from the grid.                                                          *)
Open(card) ==
    /\ card \in Cards
    /\ Build("click", view, card)
    /\ Action(Len(made'))
    /\ modal' = [open |-> TRUE, card |-> card,
                 priced |-> grid # None /\ card[2] \in GridItems,
                 done |-> modal.done]
    /\ UNCHANGED <<identityVars, fetching, railVars, known, grid, rail,
                   exposures, fired, historyVars>>

(* Wrong on purpose: the buttons stay.                                     *)
OffersAgain(type) ==
    /\ modal.open
    /\ type = "purchase" => modal.priced

(* The buttons of the modal: gone once one was used, and no purchase of a  *)
(* product without a price.                                                *)
Offers(type) ==
    /\ modal.open
    /\ ~modal.done
    /\ type = "purchase" => modal.priced

Commerce(type) ==
    /\ Offers(type)
    /\ Build(type, view, modal.card)
    /\ Action(Len(made'))
    /\ modal' = [modal EXCEPT !.done = TRUE]
    /\ UNCHANGED <<identityVars, fetching, railVars, known, grid, rail,
                   exposures, fired, historyVars>>

Close ==
    /\ modal.open
    /\ modal' = NoModal
    /\ UNCHANGED <<trackerVars, identityVars, fetching, railVars, known, grid,
                   rail, exposures, fired, made, historyVars>>

Tick ==
    /\ TimerFires
    /\ UNCHANGED <<identityVars, pageVars, made, historyVars>>

Hidden ==
    /\ queue # <<>>
    /\ Hide
    /\ UNCHANGED <<identityVars, pageVars, made, historyVars>>

-----------------------------------------------------------------------------
(* A new page in the tab: sessionStorage survives.                         *)
Load ==
    /\ loads + otherTab < MaxUpsets
    /\ loads' = loads + 1
    /\ identity' = Loaded
    /\ view' = Loaded
    /\ fetching' = MountFetches
    /\ asked' = MountAsks(Loaded.user)
    /\ railFor' = NoUser
    /\ railItems' = {}
    /\ raced' = FALSE
    /\ known' = FALSE
    /\ grid' = None
    /\ rail' = None
    /\ fired' = {}
    /\ modal' = NoModal
    /\ UNCHANGED <<storage, session, exposures, made, otherTab>>

Reload ==
    /\ Load
    /\ Hide
    /\ UNCHANGED died

(* The tab dies without notice and is restored.                            *)
Dies ==
    /\ Load
    /\ died' = died \cup {queue[i] : i \in DOMAIN queue}
    /\ queue' = <<>>
    /\ handle' = FALSE
    /\ ticking' = 0
    /\ UNCHANGED sent

Next ==
    \/ \E u \in Users : SelectUser(u)
    \/ ToggleConsent \/ Render \/ OtherTabWrites
    \/ UsersReply \/ UsersFail \/ ItemsReply
    \/ \E u \in Users \cup {Anonymous} : RecsReply(u)
    \/ \E card \in Cards : See(card) \/ Open(card)
    \/ \E type \in {"cart", "purchase"} : Commerce(type)
    \/ Close \/ Tick \/ Hidden \/ Reload \/ Dies

Spec == Init /\ [][Next]_vars

-----------------------------------------------------------------------------
Identities == [user : Users \cup {Anonymous}, session : 1..MaxSessions,
               consent : BOOLEAN]
Items == GridItems \cup RailItems

Envelopes == [type : {"impression", "click", "cart", "purchase"},
              user : Users \cup {Anonymous}, session : 1..MaxSessions,
              consent : BOOLEAN, exposure : 1..MaxExposures, item : Items]

EventsTypeOK ==
    /\ made \in Seq(Envelopes)
    /\ queue \in Seq(Nat)
    /\ handle \in BOOLEAN
    /\ ticking \in Nat
    /\ sent \in Seq(Seq(Nat))
    /\ died \subseteq Nat

IdentityTypeOK ==
    /\ storage \in [user : Users \cup {NoUser}, consent : BOOLEAN]
    /\ session \in 1..MaxSessions
    /\ identity \in Identities
    /\ view \in Identities
    /\ loads \in Nat
    /\ otherTab \in Nat

PageTypeOK ==
    /\ fetching \in [users : Nat, items : Nat]
    /\ asked \in [Users \cup {Anonymous} -> Nat]
    /\ railFor \in Users \cup {Anonymous, NoUser}
    /\ railItems \subseteq RailItems
    /\ raced \in BOOLEAN
    /\ known \in BOOLEAN
    /\ grid \in 0..exposures
    /\ rail \in 0..exposures
    /\ exposures \in 0..MaxExposures
    /\ grid = rail => grid = None
    /\ fired \subseteq Cards
    /\ \/ modal = NoModal
       \/ modal \in [open : {TRUE}, card : (1..MaxExposures) \X Items,
                     priced : BOOLEAN, done : BOOLEAN]

TypeOK == EventsTypeOK /\ IdentityTypeOK /\ PageTypeOK

Numbers(type, card) ==
    {n \in DOMAIN made : /\ made[n].type = type
                         /\ <<made[n].exposure, made[n].item>> = card}

(* ui-event-flow.md, "once per card and requestId": however often the page *)
(* re-renders, replies arrive twice or the identity changes, a card's      *)
(* impression is recorded once per exposure.                               *)
OncePerExposure ==
    \A m, n \in DOMAIN made :
        /\ made[m].type = "impression" /\ made[n].type = "impression"
        /\ made[m].exposure = made[n].exposure /\ made[m].item = made[n].item
        => m = n

(* A modal gives one cart or purchase at most, and only the product that   *)
(* was opened: so among the first n events, the outcomes of a card are     *)
(* never more than its clicks.                                             *)
OutcomesFollowClicks ==
    \A n \in DOMAIN made :
        LET card == <<made[n].exposure, made[n].item>>
            Upto(type) == Cardinality(Numbers(type, card) \cap 1..n)
        IN  Upto("cart") + Upto("purchase") <= Upto("click")

(* tracker.ts, action(), "keeps the order": when an event is handed to     *)
(* fetch, so is, before it, every earlier event that did not die with its  *)
(* tab.                                                                    *)
NothingOvertakes ==
    \A b \in DOMAIN sent : \A i \in DOMAIN sent[b] :
        \A e \in 1..(sent[b][i] - 1) :
            \/ e \in died
            \/ \E c \in 1..b : \E j \in DOMAIN sent[c] :
                  sent[c][j] = e /\ (c = b => j < i)

(* App.tsx, the heading over the rail names the identity's user: when no   *)
(* recommendations are under way, those on the screen are of that user,    *)
(* unless his were asked for while another user's were under way.  Then    *)
(* the other reply may come last, and stays.                               *)
RailIsOfUser ==
    /\ rail # None
    /\ ~raced
    /\ asked[view.user] = 0
    => railFor = view.user

(* identity.ts, "a session is a stretch of one user's behaviour": no two   *)
(* events of a session are of different users, as long as no other tab     *)
(* changes the user under this one.                                        *)
OneUserPerSession ==
    otherTab = 0 =>
        \A m, n \in DOMAIN made :
            made[m].session = made[n].session => made[m].user = made[n].user

(* tracker.ts, header: the consent field is the truth.  No handler or      *)
(* observer that was rendered before a change speaks after it.             *)
ConsentRespected ==
    [][\/ made' = made
       \/ made'[Len(made')].consent = storage.consent
       \/ otherTab > 0]_vars

(* tracker.ts:8, of requestId: the clicks, carts and purchases that come   *)
(* of an exposure share it, so that they can be joined with its            *)
(* impressions; and the join needs the same session.                       *)
OutcomesJoinImpressions ==
    \A m, n \in DOMAIN made :
        /\ m < n /\ made[m].type = "impression" /\ made[n].type = "click"
        /\ made[m].exposure = made[n].exposure /\ made[m].item = made[n].item
        => made[m].session = made[n].session
=============================================================================
