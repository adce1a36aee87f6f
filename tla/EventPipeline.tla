--------------------------- MODULE EventPipeline ---------------------------
(***************************************************************************)
(* The hot path from end to end: the client and the ingest API of          *)
(* IngestApi.tla put records into the topic, and the sink, here as what it *)
(* promises in BronzeLedger.tla, enters them into events_raw.  BronzeSink  *)
(* implements that promise (BronzeSinkProofs, SinkImplementsLedger).       *)
(***************************************************************************)
EXTENDS IngestApi

CONSTANT
    Contract      \* the events the sink's parser accepts; the API checks none

ASSUME PipelineAssumption == Contract \subseteq Events

VARIABLES
    rows,         \* events_raw, in insertion order
    cursor,       \* records the sink has dealt with for good
    lost          \* offsets the sink has given up

sinkVars == <<rows, cursor, lost>>
vars == <<ingestVars, sinkVars>>

(* A record is identified by its event and by where its id was made up.    *)
Bronze == INSTANCE BronzeLedger
    WITH Messages <- Records, EventIds <- Records,
         IdOf <- [r \in Records |-> r],
         Accepted <- {r \in Records : r.event \in Contract}

Init ==
    /\ InitIngest
    /\ rows = <<>>
    /\ cursor = 0
    /\ lost = {}

Ingest == IngestNext /\ UNCHANGED sinkVars

(* The sink stores or passes the record at its cursor.                     *)
SinkStep ==
    /\ Bronze!Enter \/ Bronze!Advance
    /\ UNCHANGED <<client, request, buffer, dropped, faults>>

(* The sink's error handler gives a record up.                             *)
SinkGivesUp ==
    /\ Bronze!DeclareLost
    /\ Fault
    /\ UNCHANGED <<client, request, buffer, dropped>>

SinkStoresLate ==
    /\ \E o \in 0..(cursor - 1) : Bronze!EnterLate(o)
    /\ UNCHANGED <<client, request, buffer, dropped, faults>>

Next == Ingest \/ SinkStep \/ SinkGivesUp \/ SinkStoresLate

(* Processes go on with what they have begun; nothing forces a fault.      *)
Fairness ==
    /\ WF_vars(ClientStep /\ UNCHANGED sinkVars)
    /\ \A p \in Posts : WF_vars(ServerStep(p) /\ UNCHANGED sinkVars)
    /\ WF_vars(Deliver /\ UNCHANGED sinkVars)
    /\ WF_vars(SinkStep)

Spec == Init /\ [][Next]_vars /\ Fairness

-----------------------------------------------------------------------------
TypeOK ==
    /\ IngestTypeOK
    /\ rows \in Seq(Records)
    /\ cursor \in 0..Len(topic)
    /\ lost \subseteq 0..(Len(topic) - 1)

RowsOf(e) == {i \in DOMAIN rows : rows[i].event = e}

(* test_seed_e2e's resend and the dashboards' counts rely on it: however   *)
(* often a batch is posted and a record delivered, an event that carries   *)
(* its eventId has one row at most, and one that does not has two only if  *)
(* the client repeated a batch.                                            *)
RowsPerEvent ==
    \A e \in Events :
        /\ e \in OwnId => Cardinality(RowsOf(e)) <= 1
        /\ Cardinality(RowsOf(e)) > 1 => client.retried > 0
        /\ RowsOf(e) # {} => e \in Contract

(* test_seed_e2e waits until every event sent is in the table: it is right *)
(* to, unless the producer dropped the record after the 202 or the sink    *)
(* gave it up.                                                             *)
EverySentEventArrives ==
    \A e \in Events : client.sent >= e ~>
        \/ e \notin Contract
        \/ RowsOf(e) # {}
        \/ \E i \in DOMAIN dropped : dropped[i].event = e
        \/ \E o \in lost : topic[o + 1].event = e
=============================================================================
