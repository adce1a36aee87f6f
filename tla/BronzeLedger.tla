---------------------------- MODULE BronzeLedger ----------------------------
(***************************************************************************)
(* What the bronze sink promises, without consumers, rebalances, retries   *)
(* or crashes: the records of the `events` topic are entered one by one,   *)
(* in topic order, into events_raw, each event once, and the ledger never  *)
(* moves past a record it has not settled.  A record is settled when it    *)
(* breaks the event contract, when its event is in the table, or when it   *)
(* has been declared lost.  BronzeSink.tla implements this module.         *)
(***************************************************************************)
EXTENDS Naturals, Sequences

CONSTANTS
    Messages,     \* raw values a Kafka record of the topic can carry
    EventIds,     \* values of the events_raw.event_id column
    IdOf,         \* the eventId in each message
    Accepted      \* the messages that satisfy the Event contract

VARIABLES
    topic,        \* the records of the `events` partition, in offset order
    rows,         \* events_raw: the messages stored, in insertion order
    cursor,       \* how many records have been dealt with for good
    lost          \* offsets of the records declared lost and not in rows

vars == <<topic, rows, cursor, lost>>

Entered(id) == \E i \in 1..Len(rows) : IdOf[rows[i]] = id

Settled(o) ==
    \/ topic[o + 1] \notin Accepted
    \/ Entered(IdOf[topic[o + 1]])
    \/ o \in lost

Init ==
    /\ topic = <<>>
    /\ rows = <<>>
    /\ cursor = 0
    /\ lost = {}

Publish(m) ==
    /\ topic' = Append(topic, m)
    /\ UNCHANGED <<rows, cursor, lost>>

(* Row m enters; what had been declared lost of that event has turned up.  *)
EnterRow(m) ==
    /\ m \in Accepted
    /\ ~Entered(IdOf[m])
    /\ rows' = Append(rows, m)
    /\ lost' = {o \in lost : IdOf[topic[o + 1]] # IdOf[m]}
    /\ UNCHANGED <<topic, cursor>>

(* The record at the cursor enters the table.                              *)
Enter ==
    /\ cursor < Len(topic)
    /\ EnterRow(topic[cursor + 1])

Advance ==
    /\ cursor < Len(topic)
    /\ Settled(cursor)
    /\ cursor' = cursor + 1
    /\ UNCHANGED <<topic, rows, lost>>

DeclareLost ==
    /\ cursor < Len(topic)
    /\ topic[cursor + 1] \in Accepted
    /\ ~Entered(IdOf[topic[cursor + 1]])
    /\ lost' = lost \cup {cursor}
    /\ UNCHANGED <<topic, rows, cursor>>

(* A record that was declared lost may still turn up, out of order.        *)
EnterLate(o) ==
    /\ o \in lost
    /\ EnterRow(topic[o + 1])

Next ==
    \/ \E m \in Messages : Publish(m)
    \/ Enter
    \/ Advance
    \/ DeclareLost
    \/ \E o \in 0..(cursor - 1) : EnterLate(o)

Spec == Init /\ [][Next]_vars
=============================================================================
