----------------------------- MODULE IngestApi -----------------------------
(***************************************************************************)
(* The way of events into the topic: apps/pipelines/ingest_client.py posts *)
(* them in batches and repeats a batch that failed once; every POST is a   *)
(* run of EventIngestController.ingest in apps/serving, which hands one    *)
(* event after the other to the Kafka producer, does not wait for it, and  *)
(* answers 202; the producer delivers in the background.                   *)
(*                                                                         *)
(* A request that the client has given up on goes on in the server, next   *)
(* to its repetition.                                                      *)
(***************************************************************************)
EXTENDS Integers, Sequences, FiniteSets

CONSTANTS
    NumEvents,    \* the client's list is 1..NumEvents
    BatchSize,    \* events per POST
    OwnId,        \* the events that carry an eventId
    MaxFaults     \* bound: time-outs, lost requests, errors and crashes

ASSUME IngestAssumption ==
    /\ NumEvents \in Nat
    /\ BatchSize \in Nat \ {0}
    /\ OwnId \subseteq 1..NumEvents
    /\ MaxFaults \in Nat

VARIABLES
    client,       \* post_events: where it is and what it has counted
    request,      \* per POST: how far the server is with it
    buffer,       \* records in the producer's memory
    topic,        \* records in the `events` partition
    dropped,      \* records that the producer had and never delivered
    faults        \* faults so far

serverVars == <<request, buffer, topic, dropped>>
ingestVars == <<client, serverVars, faults>>

Events == 1..NumEvents
NumBatches == (NumEvents + BatchSize - 1) \div BatchSize
Attempts == 1..2
Posts == (1..NumBatches) \X Attempts

First(b) == (b - 1) * BatchSize + 1
Last(b) == IF b * BatchSize < NumEvents THEN b * BatchSize ELSE NumEvents

(* A record of the topic: an event and the request that its id was made up *)
(* in, or NoPost if the event came with its id.                            *)
NoPost == <<0, 0>>

(* Wrong on purpose: the server always makes up an id.                     *)
RecordWithNewId(e, p) == [event |-> e, idFrom |-> p]
Record(e, p) == [event |-> e, idFrom |-> IF e \in OwnId THEN NoPost ELSE p]
Records == {Record(e, p) : e \in Events, p \in Posts}

InitIngest ==
    /\ client = [pc |-> "posting", batch |-> 1, attempt |-> 1,
                 sent |-> 0, batches |-> 0, retried |-> 0]
    /\ request = [p \in Posts |-> [pc |-> "none", next |-> 0]]
    /\ buffer = <<>>
    /\ topic = <<>>
    /\ dropped = <<>>
    /\ faults = 0

Fault ==
    /\ faults < MaxFaults
    /\ faults' = faults + 1

-----------------------------------------------------------------------------
(* post_events                                                             *)

Current == <<client.batch, client.attempt>>

Post ==
    /\ client.pc = "posting"
    /\ client.batch <= NumBatches
    /\ client' = [client EXCEPT !.pc = "waiting"]
    /\ request' = [request EXCEPT ![Current].pc = "sent"]
    /\ UNCHANGED <<buffer, topic, dropped, faults>>

Got202 ==
    /\ client.pc = "waiting"
    /\ request[Current].pc = "accepted"
    /\ client' = [client EXCEPT
          !.pc = "posting", !.batch = @ + 1, !.attempt = 1,
          !.sent = @ + Last(client.batch) - First(client.batch) + 1,
          !.batches = @ + 1]
    /\ UNCHANGED <<serverVars, faults>>

(* Wrong on purpose: a batch that failed twice is skipped; and a retry is  *)
(* not counted.                                                            *)
GoOnAfterError ==
    client' = [client EXCEPT
        !.pc = "posting",
        !.batch = IF client.attempt = 1 THEN @ ELSE @ + 1,
        !.attempt = 3 - @,
        !.retried = @ + (2 - client.attempt)]

GotErrorUncounted ==
    \/ /\ client.attempt = 1
       /\ client' = [client EXCEPT !.pc = "posting", !.attempt = 2]
    \/ /\ client.attempt = 2
       /\ client' = [client EXCEPT !.pc = "failed"]

(* The first httpx.HTTPError, and the second: IngestError.                 *)
GotError ==
    \/ /\ client.attempt = 1
       /\ client' = [client EXCEPT !.pc = "posting", !.attempt = 2,
                                   !.retried = @ + 1]
    \/ /\ client.attempt = 2
       /\ client' = [client EXCEPT !.pc = "failed"]

(* An answer that is not 202, or no connection.                            *)
ErrorAnswer ==
    /\ client.pc = "waiting"
    /\ request[Current].pc = "error"
    /\ GotError
    /\ UNCHANGED <<serverVars, faults>>

(* No answer in time, although the request may be under way, in progress   *)
(* or answered.                                                            *)
TimeOut ==
    /\ client.pc = "waiting"
    /\ request[Current].pc # "error"
    /\ Fault
    /\ GotError
    /\ UNCHANGED serverVars

Return ==
    /\ client.pc = "posting"
    /\ client.batch > NumBatches
    /\ client' = [client EXCEPT !.pc = "done"]
    /\ UNCHANGED <<serverVars, faults>>

-----------------------------------------------------------------------------
(* EventIngestController.ingest                                            *)

Receive(p) ==
    /\ request[p].pc = "sent"
    /\ request' = [request EXCEPT ![p] = [pc |-> "handling",
                                          next |-> First(p[1])]]
    /\ UNCHANGED <<client, buffer, topic, dropped, faults>>

RequestLost(p) ==
    /\ request[p].pc = "sent"
    /\ Fault
    /\ request' = [request EXCEPT ![p].pc = "error"]
    /\ UNCHANGED <<client, buffer, topic, dropped>>

(* kafkaTemplate.send of the next event of the list.                       *)
Send(p) ==
    /\ request[p].pc = "handling"
    /\ request[p].next <= Last(p[1])
    /\ request' = [request EXCEPT ![p].next = @ + 1]
    /\ buffer' = Append(buffer, Record(request[p].next, p))
    /\ UNCHANGED <<client, topic, dropped, faults>>

(* send throws, as it does when the producer's buffer stays full: a 500    *)
(* in the middle of the list.                                              *)
SendThrows(p) ==
    /\ request[p].pc = "handling"
    /\ request[p].next <= Last(p[1])
    /\ Fault
    /\ request' = [request EXCEPT ![p].pc = "error"]
    /\ UNCHANGED <<client, buffer, topic, dropped>>

(* Wrong on purpose: 202 before the loop, which goes on in the background. *)
AcceptEarly(p) ==
    /\ request[p].pc = "handling"
    /\ request' = [request EXCEPT ![p].pc = "accepted"]
    /\ UNCHANGED <<client, buffer, topic, dropped, faults>>

Accept(p) ==
    /\ request[p].pc = "handling"
    /\ request[p].next > Last(p[1])
    /\ request' = [request EXCEPT ![p].pc = "accepted"]
    /\ UNCHANGED <<client, buffer, topic, dropped, faults>>

-----------------------------------------------------------------------------
(* The producer and the process around it.                                 *)

Deliver ==
    /\ buffer # <<>>
    /\ topic' = Append(topic, Head(buffer))
    /\ buffer' = Tail(buffer)
    /\ UNCHANGED <<client, request, dropped, faults>>

(* delivery.timeout.ms is over; nobody looks at the future.                *)
Expire ==
    /\ buffer # <<>>
    /\ Fault
    /\ dropped' = Append(dropped, Head(buffer))
    /\ buffer' = Tail(buffer)
    /\ UNCHANGED <<client, request, topic>>

ServingCrash ==
    /\ Fault
    /\ dropped' = dropped \o buffer
    /\ buffer' = <<>>
    /\ request' = [p \in Posts |->
          IF request[p].pc \in {"sent", "handling"}
          THEN [request[p] EXCEPT !.pc = "error"] ELSE request[p]]
    /\ UNCHANGED <<client, topic>>

-----------------------------------------------------------------------------
ClientStep == Post \/ Got202 \/ ErrorAnswer \/ TimeOut \/ Return
ServerStep(p) == Receive(p) \/ Send(p) \/ SendThrows(p) \/ Accept(p)

IngestNext ==
    \/ ClientStep
    \/ \E p \in Posts : ServerStep(p) \/ RequestLost(p)
    \/ Deliver
    \/ Expire
    \/ ServingCrash

IngestTypeOK ==
    /\ client \in [pc : {"posting", "waiting", "done", "failed"},
                   batch : 1..(NumBatches + 1), attempt : Attempts,
                   sent : 0..NumEvents, batches : 0..NumBatches,
                   retried : 0..NumBatches]
    /\ request \in [Posts ->
          [pc : {"none", "sent", "handling", "accepted", "error"},
           next : 0..(NumEvents + 1)]]
    /\ {buffer, topic, dropped} \subseteq Seq(Records)
    /\ faults \in 0..MaxFaults

-----------------------------------------------------------------------------
(* Everything the producer was ever given, delivered records first.        *)
Given == topic \o buffer \o dropped
Copies(e) == {i \in DOMAIN Given : Given[i].event = e}

(* What was handed to the producer is a prefix of the client's list, and   *)
(* the client's count lies within it: IngestReport.sent never counts an    *)
(* event that was not handed over, an IngestError leaves no hole behind    *)
(* it, and a 202 is never given for half a batch.                          *)
SentIsHandedOver ==
    /\ \A e \in 2..NumEvents : Copies(e) # {} => Copies(e - 1) # {}
    /\ \A e \in 1..client.sent : Copies(e) # {}
    /\ client.pc = "done" => client.sent = NumEvents

(* A second copy of an event is the work of a retry the report counts: no  *)
(* event is produced more than twice, and no more of them than the         *)
(* repeated batches hold.                                                  *)
DuplicatesComeFromRetries ==
    /\ \A e \in Events : Cardinality(Copies(e)) <= 2
    /\ Cardinality({e \in Events : Cardinality(Copies(e)) = 2})
          <= client.retried * BatchSize

(* As long as the producer dropped nothing, the first copies of the events *)
(* are in the client's order, even while an abandoned request goes on      *)
(* beside its repetition and later batches.                                *)
FirstCopiesInOrder ==
    dropped = <<>> =>
        \A i \in DOMAIN Given :
            \A e \in 1..(Given[i].event - 1) :
                \E j \in 1..(i - 1) : Given[j].event = e
=============================================================================
