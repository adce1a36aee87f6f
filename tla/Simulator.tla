----------------------------- MODULE Simulator -----------------------------
(***************************************************************************)
(* apps/pipelines/simulator.py: the traffic `reco-pipelines seed` makes.   *)
(* Sessions are opened until there are enough events; a session shows a    *)
(* list of items, and each may go down the funnel impression, click, cart, *)
(* purchase.  At the end the list is cut to the size asked for and sorted  *)
(* by time.  Items come from the catalog or, with --from-api, from the     *)
(* recommendation API.                                                     *)
(*                                                                         *)
(* Every draw of the generator is a choice from a set; probabilities,      *)
(* users, devices, pages and prices are left out, and a session is named   *)
(* by the place of the first event it may make.                            *)
(***************************************************************************)
EXTENDS Integers, Sequences, FiniteSets, Sorting

CONSTANTS
    Items,          \* item ids
    Configs,        \* runs tried: a source, "catalog" or "api", and n_events
    DrawSizes,      \* how many items a session asks for
    ApiLists,       \* what the recommendation API may answer
    WindowEnd,      \* end_ts - base_ts; times count from base_ts
    HeldBack,       \* what session starts keep from the end of the window
    StartOffsets,   \* session starts tried, before WindowEnd - HeldBack
    ImpressionGaps, ClickGaps, CartGaps, PurchaseGaps,
    PurchaseWindow  \* _PURCHASE_WINDOW of label.py

Longest(gaps) == CHOOSE g \in gaps : \A h \in gaps : h <= g
LongestFunnel == Longest(ImpressionGaps) + Longest(ClickGaps)
                     + Longest(CartGaps) + Longest(PurchaseGaps)

ASSUME SimulatorAssumption ==
    /\ Configs \subseteq [source : {"catalog", "api"}, n_events : Nat]
    /\ DrawSizes \subseteq Nat \ {0}
    /\ ApiLists \subseteq Seq(Items)
    /\ WindowEnd \in Nat /\ HeldBack \in 0..WindowEnd
    /\ StartOffsets \subseteq 0..(WindowEnd - HeldBack)
    /\ \A gaps \in {ImpressionGaps, ClickGaps, CartGaps, PurchaseGaps} :
          /\ gaps \subseteq Nat \ {0}
          /\ \E g \in gaps : \A h \in gaps : h <= g
    /\ PurchaseWindow \in Nat

VARIABLES
    config,   \* the size asked for and where exposures come from
    pc,       \* where generate_events is
    session,  \* session_id and request_id of the session at hand
    shown,    \* its exposures
    slot,     \* the exposure at hand
    ts,       \* its clock
    events,   \* the events emitted so far
    result    \* the list generate_events returned

vars == <<config, pc, session, shown, slot, ts, events, result>>

Types == {"impression", "click", "cart", "purchase"}

-----------------------------------------------------------------------------
(* _run_seed: --events and --from-api.                                     *)
Init ==
    /\ config \in Configs
    /\ pc = "open"
    /\ session = 0
    /\ shown = <<>>
    /\ slot = 1
    /\ ts = 0
    /\ events = <<>>
    /\ result = <<>>

(* catalog_exposure: popular items are drawn again and again, and          *)
(* dict.fromkeys keeps the first of each.                                  *)
Firsts(s) == {i \in DOMAIN s : \A j \in 1..(i - 1) : s[j] # s[i]}
Ascending(D) == {p \in D \X D : p[1] < p[2]}
Distinct(s) ==
    [n \in 1..Cardinality(Firsts(s)) |->
        s[Place(Firsts(s), Ascending(Firsts(s)), n)]]

Draws == UNION {[1..k -> Items] : k \in DrawSizes}

(* Wrong on purpose: the draws are shown as they are.                      *)
DrawsAsShown ==
    IF config.source = "catalog" THEN Draws ELSE ApiLists

(* The API's list is shown as it is, whatever its length.                  *)
Exposures ==
    IF config.source = "catalog" THEN {Distinct(draw) : draw \in Draws}
                                 ELSE ApiLists

OpenSession ==
    /\ pc = "open"
    /\ Len(events) < config.n_events
    /\ \E start \in StartOffsets, list \in Exposures :
          /\ ts' = start
          /\ shown' = list
    /\ session' = Len(events) + 1
    /\ slot' = 1
    /\ pc' = "show"
    /\ UNCHANGED <<config, events, result>>

(* fetch_recommended_items raises: nothing of the generation is kept.      *)
ApiFails ==
    /\ pc = "open"
    /\ Len(events) < config.n_events
    /\ config.source = "api"
    /\ pc' = "failed"
    /\ events' = <<>>
    /\ UNCHANGED <<config, session, shown, slot, ts, result>>

-----------------------------------------------------------------------------
(* The funnel of one exposure.                                             *)

EventAt(type, t) ==
    [type |-> type, key |-> <<session, shown[slot]>>, slot |-> slot, ts |-> t]

Emit(type, t) == events' = Append(events, EventAt(type, t))

GoOn(next) ==
    \/ /\ pc' = next
       /\ UNCHANGED slot
    \/ /\ pc' = "show"
       /\ slot' = slot + 1

Show ==
    /\ pc = "show"
    /\ slot <= Len(shown)
    /\ Emit("impression", ts)
    /\ \E gap \in ImpressionGaps : ts' = ts + gap
    /\ GoOn("click")
    /\ UNCHANGED <<config, session, shown, result>>

Click ==
    /\ pc = "click"
    /\ \E gap \in ClickGaps : ts' = ts + gap
    /\ Emit("click", ts')
    /\ GoOn("cart")
    /\ UNCHANGED <<config, session, shown, result>>

Cart ==
    /\ pc = "cart"
    /\ \E gap \in CartGaps : ts' = ts + gap
    /\ Emit("cart", ts')
    /\ GoOn("purchase")
    /\ UNCHANGED <<config, session, shown, result>>

Purchase ==
    /\ pc = "purchase"
    /\ \E gap \in PurchaseGaps : ts' = ts + gap
    /\ Emit("purchase", ts')
    /\ pc' = "show"
    /\ slot' = slot + 1
    /\ UNCHANGED <<config, session, shown, result>>

(* Wrong on purpose: a session that showed one item only is thrown away.   *)
EndSessionOrDiscard ==
    /\ pc = "show"
    /\ slot > Len(shown)
    /\ pc' = "open"
    /\ events' = IF Len(shown) > 1 THEN events ELSE SubSeq(events, 1, session - 1)
    /\ UNCHANGED <<config, session, shown, slot, ts, result>>

EndSession ==
    /\ pc = "show"
    /\ slot > Len(shown)
    /\ pc' = "open"
    /\ UNCHANGED <<config, session, shown, slot, ts, events, result>>

-----------------------------------------------------------------------------
(* sorted(key=ts) is stable; ISO strings in UTC sort as times do.          *)
Earlier(s) ==
    {p \in (DOMAIN s) \X (DOMAIN s) :
        \/ s[p[1]].ts < s[p[2]].ts
        \/ s[p[1]].ts = s[p[2]].ts /\ p[1] < p[2]}

SortedByTs(s) == SortedBy(s, Earlier(s))

(* Wrong on purpose: what the first session made goes.                     *)
LastEvents(s) == SubSeq(s, Len(s) - config.n_events + 1, Len(s))

(* events[: config.n_events]: what the last session made too many of goes, *)
(* in the order of emission, and only then the list is sorted.             *)
FirstEvents(s) == SubSeq(s, 1, config.n_events)

Finish ==
    /\ pc = "open"
    /\ Len(events) >= config.n_events
    /\ result' = SortedByTs(FirstEvents(events))
    /\ pc' = "done"
    /\ UNCHANGED <<config, session, shown, slot, ts, events>>

Next ==
    \/ OpenSession \/ ApiFails
    \/ Show \/ Click \/ Cart \/ Purchase
    \/ EndSession \/ Finish

Spec == Init /\ [][Next]_vars

(* The loop runs on; and it leaves the answers to the API.                 *)
FairSpec == Spec /\ WF_vars(Next)

-----------------------------------------------------------------------------
Done == pc = "done"
Funnel == <<"impression", "click", "cart", "purchase">>
Stage(type) == CHOOSE n \in 1..4 : Funnel[n] = type

SameExposure(i, j) ==
    result[i].key = result[j].key /\ result[i].slot = result[j].slot

(* test_simulator_contract.py: the list has the size asked for, is sorted, *)
(* and no outcome comes before its impression.  More than that: although   *)
(* sessions overlap in time and the cut may fall in the middle of a        *)
(* funnel, what is left of every exposure is the beginning of the funnel,  *)
(* in order and strictly in time, and no exposure is left out between two. *)
FunnelInOrder ==
    /\ Len(result) = config.n_events
    /\ \A i \in 1..(config.n_events - 1) : result[i].ts <= result[i + 1].ts
    /\ \A i, j \in 1..config.n_events : SameExposure(i, j) /\ i < j =>
          /\ Stage(result[i].type) < Stage(result[j].type)
          /\ result[i].ts < result[j].ts
    /\ \A i \in 1..config.n_events : Stage(result[i].type) > 1 =>
          \E j \in 1..config.n_events :
              /\ SameExposure(i, j)
              /\ Stage(result[j].type) = Stage(result[i].type) - 1
    /\ \A i \in 1..config.n_events : result[i].slot > 1 =>
          \E j \in 1..config.n_events :
              /\ result[j].key[1] = result[i].key[1]
              /\ result[j].slot = result[i].slot - 1

PlausibleTraffic == Done => FunnelInOrder

(* SimConfig.end_ts is the end of the window, "the most recent time", and  *)
(* test_backdated_within_window asserts of one seed that no event is after *)
(* it.                                                                     *)
InWindow == Done => \A i \in DOMAIN result : result[i].ts <= WindowEnd

(* The hour held back covers one complete funnel only: the exposure in     *)
(* slot n may overrun by n times the longest funnel less that hour, and    *)
(* the first one never does.                                               *)
OverrunIsBounded ==
    Done => \A i \in DOMAIN result :
        result[i].ts <= WindowEnd - HeldBack + result[i].slot * LongestFunnel

(* What label.py makes of the traffic once it is in bronze.                *)
Labels == INSTANCE Attribution
    WITH FullKeys <- Nat \X Items, PartialKeys <- {},
         Window <- PurchaseWindow, Amounts <- {}, MaxTs <- 0,
         MaxEvents <- 0, Arriving <- {},
         bronze <- result

(* The labels tell how far the simulated users went: an impression gets    *)
(* the deepest stage that its item reached in this session from that       *)
(* exposure on, and nothing of any other session.  For the catalog that is *)
(* the exposure's own stage; a list with an item twice, as the API may     *)
(* answer, makes the label batch credit one outcome to both.               *)
Reached(i) ==
    LET own == {j \in DOMAIN result :
                  /\ result[j].key = result[i].key
                  /\ result[j].slot >= result[i].slot
                  /\ config.source = "catalog" =>
                        result[j].slot = result[i].slot}
        stages == {Stage(result[j].type) : j \in own}
    IN  CHOOSE n \in stages : \A m \in stages : m <= n

LabelsTellTheTruth ==
    Done => \A i \in Labels!Impressions(result) :
                Labels!Label(result, i) = Reached(i) - 1

(* Generation ends, in a list or in the API's failure, unless from some    *)
(* time on the API answers with empty lists only: then it goes on asking.  *)
GenerationEnds ==
    \/ <>(pc \in {"done", "failed"})
    \/ config.source = "api" /\ <>[](shown = <<>>)
=============================================================================
