------------------------------- MODULE Intake -------------------------------
(***************************************************************************)
(* How events get into the table that is labelled, and what is credited    *)
(* then: bronze of Attribution holds the events that iter_events hands     *)
(* over, and those come through EventContract.  Some events are followed   *)
(* through the contract, one at a time; the others, before and between     *)
(* them, are any events.                                                   *)
(***************************************************************************)
EXTENDS Attribution, EventContract

CONSTANT MaxFollowed    \* bound: events are followed into that many rows

ASSUME IntakeAssumption == MaxFollowed \in Nat

intakeVars == <<bronze, contractVars>>

IntakeInit == Init /\ ContractInit

(* An event that nobody looks at on its way.                               *)
Unfollowed ==
    /\ at = "nowhere"
    /\ Next
    /\ UNCHANGED contractVars

Followed ==
    /\ Len(bronze) < MaxFollowed
    /\ ContractNext
    /\ UNCHANGED bronze

FollowAnother == event' = "none" /\ at' = "nowhere" /\ throughApi' = FALSE

(* What the batch has made of the event: its type, a key with or without a *)
(* part missing, a time and an amount.                                     *)
MayBe(e) ==
    /\ e.type = "impression" <=> event.eventType = "impression"
    /\ e.key \in IF Lacks(AttributionKey) THEN PartialKeys ELSE FullKeys

(* iter_events hands it over to build_label_rows.                          *)
Collect ==
    /\ at \in {"partial", "filed"}
    /\ \E e \in Arriving : MayBe(e) /\ Arrive(e)
    /\ FollowAnother

(* It got no further; of a fatal one the batch dies, now and in every run. *)
Lost ==
    /\ at \in {"refused", "skipped", "broken"}
    /\ FollowAnother
    /\ UNCHANGED bronze

IntakeNext == Unfollowed \/ Followed \/ Collect \/ Lost

IntakeSpec == IntakeInit /\ [][IntakeNext]_intakeVars

-----------------------------------------------------------------------------
(* An event that is followed into the table is an impression there if it   *)
(* was sent as one, and it has a complete key there, so that it can be     *)
(* joined, exactly if the sink saw one: if it was posted, and its context, *)
(* if any, names requestId as the contract does, a null included.          *)
JoinableAsTheSinkSawIt ==
    [][ Len(bronze) < Len(bronze') /\ at # "nowhere" =>
          LET e == bronze'[Len(bronze')]
          IN  /\ e.type = "impression" <=> event.eventType = "impression"
              /\ /\ throughApi
                 /\ event.context = "object" => event.requestId # "absent"
                 => (e.key \in FullKeys <=> ~Lacks(KotlinKey)) ]_intakeVars
=============================================================================
