--------------------------- MODULE EventContract ---------------------------
(***************************************************************************)
(* The event contract is written four times: EventEnvelope (what POST      *)
(* /events binds), Event.kt (what the sink parses), events_raw (what it    *)
(* stores, the payload as it was received) and py_common/event.py (what    *)
(* the label batch reads from that payload).  One event goes through all   *)
(* of them; it comes from a client, or from someone who writes to the      *)
(* topic.                                                                  *)
(*                                                                         *)
(* A field is the form of its JSON value.  sessionId stands for all        *)
(* optional strings of the top level, requestId for those of the context,  *)
(* session_id and request_id for the snake_case names that only Python     *)
(* reads.                                                                  *)
(***************************************************************************)
EXTENDS Naturals

CONSTANTS
    Sent,       \* events tried, from clients
    Written,    \* events tried, from other producers of the topic
    OrdinalsAreTypes,   \* Jackson takes the number of an enum constant
    TakesHour24         \* this Python's fromisoformat takes 24:00

(* eventId: "fraction" is a number not written as plain digits.            *)
(* eventType: "ordinal" is 0 to 3 or its digit, "outcome" a click, cart or *)
(* purchase.                                                               *)
(* ts: "zoned" has an offset or Z, "naive" has none, "lower" ends in z,    *)
(* "epoch" is a number or its digits, "padded" has spaces around it,       *)
(* "hour24" is 24:00:00, "leapSecond" 23:59:60, and "farYear" is a year    *)
(* outside 1..9999.                                                        *)
WireEvent ==
    [eventId : {"absent", "blank", "text", "zero", "number", "fraction",
                "false", "true", "list"},
     eventType : {"absent", "unknown", "ordinal", "impression", "outcome"},
     ts : {"absent", "blank", "naive", "zoned", "lower", "epoch", "padded",
           "hour24", "leapSecond", "farYear"},
     sessionId : {"absent", "null", "text", "number", "list"},
     session_id : {"absent", "text", "list"},
     context : {"null", "object", "list"},
     requestId : {"absent", "null", "text", "number", "list"},
     request_id : {"absent", "text", "list"}]

ASSUME ContractAssumption ==
    /\ Sent \cup Written \subseteq WireEvent
    /\ OrdinalsAreTypes \in BOOLEAN
    /\ TakesHour24 \in BOOLEAN

VARIABLES
    event,      \* the event, as it is now, once there is one
    at,         \* where it is, or how it ended
    throughApi  \* it was posted

contractVars == <<event, at, throughApi>>

ContractInit == event = "none" /\ at = "nowhere" /\ throughApi = FALSE

Post ==
    /\ at = "nowhere"
    /\ event' \in Sent
    /\ at' = "client"
    /\ throughApi' = TRUE

WriteToTopic ==
    /\ at = "nowhere"
    /\ event' \in Written
    /\ at' = "topic"
    /\ UNCHANGED throughApi

-----------------------------------------------------------------------------
(* EventEnvelope: Jackson binds a number or a boolean to a string, but not *)
(* a list, and it needs eventType; the context is any object, as a Map.    *)
Binds ==
    /\ event.eventType # "absent"
    /\ "list" \notin {event.eventId, event.sessionId, event.context}

(* What is not in the envelope is lost, nulls and what was bound are       *)
(* written out as strings, and eventId and ts are filled in if they are    *)
(* null; the context is passed on.                                         *)
Bound(value) ==
    CASE value = "absent" -> "null"
      [] value = "number" -> "text"
      [] OTHER -> value

Enriched ==
    [event EXCEPT !.eventId = IF @ = "blank" THEN @ ELSE "text",
                  !.ts = IF @ = "absent" THEN "zoned" ELSE @,
                  !.sessionId = Bound(@),
                  !.session_id = "absent"]

Refuse ==
    /\ at = "client"
    /\ ~Binds
    /\ at' = "refused"
    /\ UNCHANGED <<event, throughApi>>

Ingest ==
    /\ at = "client"
    /\ Binds
    /\ event' = Enriched
    /\ at' = "topic"
    /\ UNCHANGED throughApi

-----------------------------------------------------------------------------
(* Event.kt, in EventsListener.onMessage: an id that is not null, a type   *)
(* of the enum, a time that is an Instant, typed context.                  *)
Parses ==
    /\ event.eventId \notin {"absent", "list"}
    /\ \/ event.eventType \in {"impression", "outcome"}
       \/ event.eventType = "ordinal" /\ OrdinalsAreTypes
    /\ event.ts \notin {"absent", "blank", "naive"}
    /\ event.sessionId # "list"
    /\ event.context # "list"
    /\ event.context = "object" => event.requestId # "list"

SinkSkips ==
    /\ at = "topic"
    /\ ~Parses
    /\ at' = "skipped"
    /\ UNCHANGED <<event, throughApi>>

SinkStores ==
    /\ at = "topic"
    /\ Parses
    /\ at' = "bronze"
    /\ UNCHANGED <<event, throughApi>>

(* Event.attributionKey, without the item.                                 *)
AsString(value) ==
    CASE value \in {"absent", "null"} -> "none"
      [] value = "number" -> "text"
      [] OTHER -> value
KotlinKey ==
    <<AsString(event.sessionId),
      IF event.context = "object" THEN AsString(event.requestId) ELSE "none">>

-----------------------------------------------------------------------------
(* Wrong on purpose: raw.get(camel) or raw.get(snake).                     *)
GetEither(camel, snake) ==
    LET value == IF camel \in {"absent", "null"} THEN snake ELSE camel
    IN  IF value \in {"absent", "null"} THEN "none" ELSE value

(* _get: the camelCase name counts if it is there, even with a null.       *)
Get(camel, snake) ==
    LET value == IF camel = "absent" THEN snake ELSE camel
    IN  IF value \in {"absent", "null"} THEN "none" ELSE value

(* Event.attribution_key: whatever value is there is part of the key.      *)
AttributionKey ==
    <<Get(event.sessionId, event.session_id),
      IF event.context = "object"
      THEN Get(event.requestId, event.request_id) ELSE "none">>

(* parse_event: an id that Python does not take for false, the code of a   *)
(* type, a zoned time that datetime.fromisoformat takes.                   *)
ParseEvent ==
    /\ event.eventId \notin {"absent", "blank", "zero", "false"}
    /\ event.eventType \in {"impression", "outcome"}
    /\ event.ts = "zoned" \/ (event.ts = "hour24" /\ TakesHour24)

(* impression_id, str(event_id), where event_id of events_raw is the value *)
(* as it was written.                                                      *)
ImpressionId ==
    CASE event.eventId = "true" -> "True"
      [] event.eventId = "fraction" -> "as Python prints it"
      [] OTHER -> event.eventId

(* iter_events skips what does not parse; build_label_rows skips an        *)
(* impression with a part of its key missing, and files the rest under its *)
(* key, which raises if a part of it is a list.                            *)
Lacks(key) == "none" \in {key[1], key[2]}
Unhashable(key) == "list" \in {key[1], key[2]}

Fate ==
    IF ~ParseEvent THEN "broken"
    ELSE IF event.eventType = "impression" /\ Lacks(AttributionKey) THEN "partial"
    ELSE IF Unhashable(AttributionKey) THEN "fatal"
    ELSE "filed"

BatchReads ==
    /\ at = "bronze"
    /\ at' = Fate
    /\ UNCHANGED <<event, throughApi>>

ContractNext ==
    \/ Post \/ WriteToTopic
    \/ Refuse \/ Ingest
    \/ SinkSkips \/ SinkStores
    \/ BatchReads

-----------------------------------------------------------------------------
(* The two event classes call themselves mirror images.  Of what the sink  *)
(* has stored, the batch skips as broken just the events with an empty or  *)
(* false id or a zero for one, with the number of a type, or with a time   *)
(* that only Instant takes; it files the others under the id that the sink *)
(* has, unless that is true or a fraction, and under the key that the      *)
(* sink's Event has, unless a context carries its requestId as a number or *)
(* under the other name only, or an event that bypassed the API does so    *)
(* with its sessionId; and it dies of no event that was posted except for  *)
(* a list under context.request_id.                                        *)
OnlyInstantTakes ==
    \/ event.ts \in {"lower", "epoch", "padded", "leapSecond", "farYear"}
    \/ event.ts = "hour24" /\ ~TakesHour24
TwiceNamed(camel, snake) == camel = "absent" /\ snake # "absent"
Reconciled ==
    LET plain(camel, snake) == ~TwiceNamed(camel, snake) /\ camel # "number"
        request == event.context = "object" =>
                      plain(event.requestId, event.request_id)
        session == plain(event.sessionId, event.session_id)
    IN  /\ at = "broken" <=>
              \/ event.eventId \in {"blank", "zero", "false"}
              \/ event.eventType = "ordinal"
              \/ OnlyInstantTakes
        /\ at # "broken" =>
              (ImpressionId = event.eventId
                 <=> throughApi \/ event.eventId \notin {"true", "fraction"})
        /\ request /\ (throughApi \/ session) => AttributionKey = KotlinKey
        /\ at = "fatal" => ~request \/ ~session
        /\ at = "fatal" /\ throughApi =>
              event.requestId = "absent" /\ event.request_id = "list"

Read == at \in {"broken", "partial", "fatal", "filed"}
ContractMirrored == Read => Reconciled
=============================================================================
