----------------------------- MODULE BronzeSink -----------------------------
(***************************************************************************)
(* apps/bronze-sink: the consumers of group `bronze-sink` read the single  *)
(* partition of topic `events`, check each record against the contract,    *)
(* insert it into events_raw and then commit its offset (ack-mode record). *)
(*                                                                         *)
(* The listener and the writer are the repository's; the container around  *)
(* them (poll, default error handler, rebalances, offset commits) is       *)
(* Spring Kafka and is modelled from how the listener relies on it.  A     *)
(* consumer that loses the partition while a record is in its hands        *)
(* finishes that record and has its commit refused.                        *)
(***************************************************************************)
EXTENDS Integers, Sequences

CONSTANTS
    Messages,     \* raw values a Kafka record of the topic can carry
    EventIds,     \* values of the events_raw.event_id column
    IdOf,         \* the eventId in each message
    Accepted,     \* messages that objectMapper.readValue turns into an Event
    Storable,     \* accepted messages that PostgreSQL can store as jsonb
    Consumers,    \* instances of the sink in the consumer group
    NoOne,        \* the owner of a partition that is not assigned
    MaxAttempts,  \* deliveries before the error handler gives a record up
    MaxTopic,     \* bound: records published
    MaxFaults,    \* bound: crashes and evictions
    MaxDbErrors   \* bound: database failures that are not the record's fault

ASSUME SinkAssumption ==
    /\ Storable \subseteq Accepted
    /\ Accepted \subseteq Messages
    /\ IdOf \in [Messages -> EventIds]
    /\ NoOne \notin Consumers
    /\ MaxAttempts \in Nat \ {0}
    /\ MaxTopic \in Nat
    /\ MaxFaults \in Nat
    /\ MaxDbErrors \in Nat

VARIABLES
    topic,        \* the records of the partition; offset o is topic[o + 1]
    rows,         \* events_raw: the payloads stored, in insertion order
    committed,    \* the group's committed offset: the next record to read
    owner,        \* the consumer the partition is assigned to
    pc,           \* what each consumer is doing
    pos,          \* the offset each consumer is at
    attempts,     \* failed deliveries of the record at pos
    gaveUp,       \* offsets that the error handler logged and skipped
    faults,       \* crashes and evictions so far
    dbErrors      \* database failures so far

consumerVars == <<pc, pos, attempts>>
faultVars == <<faults, dbErrors>>
vars == <<topic, rows, committed, owner, consumerVars, gaveUp, faultVars>>

Record(o) == topic[o + 1]

(* The unique index on event_id finds a row of this event.                 *)
Stored(id) == \E i \in 1..Len(rows) : IdOf[rows[i]] = id

Init ==
    /\ topic = <<>>
    /\ rows = <<>>
    /\ committed = 0
    /\ owner = NoOne
    /\ pc = [c \in Consumers |-> "idle"]
    /\ pos = [c \in Consumers |-> 0]
    /\ attempts = [c \in Consumers |-> 0]
    /\ gaveUp = {}
    /\ faults = 0
    /\ dbErrors = 0

-----------------------------------------------------------------------------
(* The surroundings: the serving app's producer and the group coordinator. *)

Publish(m) ==
    /\ Len(topic) < MaxTopic
    /\ topic' = Append(topic, m)
    /\ UNCHANGED <<rows, committed, owner, consumerVars, gaveUp, faultVars>>

Assign(c) ==
    /\ owner = NoOne
    /\ pc[c] = "idle"
    /\ owner' = c
    /\ pos' = [pos EXCEPT ![c] = committed]
    /\ attempts' = [attempts EXCEPT ![c] = 0]
    /\ UNCHANGED <<topic, rows, committed, pc, gaveUp, faultVars>>

(* A rebalance, or max.poll.interval.ms exceeded: c keeps what it holds.   *)
Evict(c) ==
    /\ owner = c
    /\ faults < MaxFaults
    /\ owner' = NoOne
    /\ faults' = faults + 1
    /\ UNCHANGED <<topic, rows, committed, consumerVars, gaveUp, dbErrors>>

(* The process dies; it comes back with nothing in memory.                 *)
Crash(c) ==
    /\ faults < MaxFaults
    /\ faults' = faults + 1
    /\ owner' = IF owner = c THEN NoOne ELSE owner
    /\ pc' = [pc EXCEPT ![c] = "idle"]
    /\ attempts' = [attempts EXCEPT ![c] = 0]
    /\ UNCHANGED <<topic, rows, committed, pos, gaveUp, dbErrors>>

-----------------------------------------------------------------------------
(* One record in the hands of consumer c.                                  *)

(* Wrong on purpose: the offset is committed when the record is handed out.*)
PollAutoCommit(c) ==
    /\ owner = c
    /\ pc[c] = "idle"
    /\ pos[c] < Len(topic)
    /\ pc' = [pc EXCEPT ![c] = "handling"]
    /\ committed' = pos[c] + 1
    /\ UNCHANGED <<topic, rows, owner, pos, attempts, gaveUp, faultVars>>

Poll(c) ==
    /\ owner = c
    /\ pc[c] = "idle"
    /\ pos[c] < Len(topic)
    /\ pc' = [pc EXCEPT ![c] = "handling"]
    /\ UNCHANGED <<topic, rows, committed, owner, pos, attempts, gaveUp,
                   faultVars>>

(* onMessage: JacksonException or IllegalArgumentException, normal return. *)
SkipBad(c) ==
    /\ pc[c] = "handling"
    /\ Record(pos[c]) \notin Accepted
    /\ pc' = [pc EXCEPT ![c] = "acking"]
    /\ UNCHANGED <<topic, rows, committed, owner, pos, attempts, gaveUp,
                   faultVars>>

(* Wrong on purpose: no ON CONFLICT; and DO UPDATE SET payload.            *)
RowsAfterPlainInsert(m) == Append(rows, m)
RowsAfterUpsert(m) ==
    IF Stored(IdOf[m])
    THEN [i \in DOMAIN rows |-> IF IdOf[rows[i]] = IdOf[m] THEN m ELSE rows[i]]
    ELSE Append(rows, m)

(* INSERT ... ON CONFLICT (event_id) DO NOTHING.                           *)
RowsAfterInsert(m) ==
    IF Stored(IdOf[m]) THEN rows ELSE Append(rows, m)

(* Wrong on purpose: the payload column is text, which stores anything.    *)
InsertAsText(c) ==
    /\ pc[c] = "handling"
    /\ Record(pos[c]) \in Accepted
    /\ rows' = RowsAfterInsert(Record(pos[c]))
    /\ pc' = [pc EXCEPT ![c] = "acking"]
    /\ UNCHANGED <<topic, committed, owner, pos, attempts, gaveUp, faultVars>>

(* onMessage: writer.insert returned true or false.                        *)
Insert(c) ==
    /\ pc[c] = "handling"
    /\ Record(pos[c]) \in Storable
    /\ rows' = RowsAfterInsert(Record(pos[c]))
    /\ pc' = [pc EXCEPT ![c] = "acking"]
    /\ UNCHANGED <<topic, committed, owner, pos, attempts, gaveUp, faultVars>>

(* Wrong on purpose: the listener catches every exception and returns; and *)
(* an error handler that retries for ever.                                 *)
SwallowError(c) ==
    /\ pc' = [pc EXCEPT ![c] = "acking"]
    /\ UNCHANGED <<attempts, gaveUp>>
RetryForEver(c) ==
    /\ pc' = [pc EXCEPT ![c] = "idle"]
    /\ UNCHANGED <<attempts, gaveUp>>

(* The default error handler: the record is fetched again, or after        *)
(* MaxAttempts deliveries it is logged and treated as processed.           *)
HandleError(c) ==
    \/ /\ attempts[c] + 1 < MaxAttempts
       /\ pc' = [pc EXCEPT ![c] = "idle"]
       /\ attempts' = [attempts EXCEPT ![c] = @ + 1]
       /\ UNCHANGED gaveUp
    \/ /\ attempts[c] + 1 >= MaxAttempts
       /\ pc' = [pc EXCEPT ![c] = "acking"]
       /\ gaveUp' = gaveUp \cup {pos[c]}
       /\ UNCHANGED attempts

(* writer.insert throws: the record cannot be stored, or the database is   *)
(* failing.                                                                *)
InsertFails(c) ==
    /\ pc[c] = "handling"
    /\ Record(pos[c]) \in Accepted
    /\ \/ /\ Record(pos[c]) \notin Storable
          /\ UNCHANGED dbErrors
       \/ /\ Record(pos[c]) \in Storable
          /\ dbErrors < MaxDbErrors
          /\ dbErrors' = dbErrors + 1
    /\ HandleError(c)
    /\ UNCHANGED <<topic, rows, committed, owner, pos, faults>>

(* The INSERT committed, but the connection broke before the answer.       *)
InsertReplyLost(c) ==
    /\ pc[c] = "handling"
    /\ Record(pos[c]) \in Storable
    /\ dbErrors < MaxDbErrors
    /\ dbErrors' = dbErrors + 1
    /\ rows' = RowsAfterInsert(Record(pos[c]))
    /\ HandleError(c)
    /\ UNCHANGED <<topic, committed, owner, pos, faults>>

(* Wrong on purpose: nobody fences the commit of a former owner.           *)
AckUnfenced(c) ==
    /\ pc[c] = "acking"
    /\ pc' = [pc EXCEPT ![c] = "idle"]
    /\ attempts' = [attempts EXCEPT ![c] = 0]
    /\ committed' = pos[c] + 1
    /\ pos' = [pos EXCEPT ![c] = @ + 1]
    /\ UNCHANGED <<topic, rows, owner, gaveUp, faultVars>>

(* ack-mode record: the container commits offset pos + 1; the coordinator  *)
(* refuses the commit of a consumer that no longer owns the partition.     *)
Ack(c) ==
    /\ pc[c] = "acking"
    /\ pc' = [pc EXCEPT ![c] = "idle"]
    /\ attempts' = [attempts EXCEPT ![c] = 0]
    /\ \/ /\ owner = c
          /\ committed' = pos[c] + 1
          /\ pos' = [pos EXCEPT ![c] = @ + 1]
       \/ /\ owner # c
          /\ UNCHANGED <<committed, pos>>
    /\ UNCHANGED <<topic, rows, owner, gaveUp, faultVars>>

-----------------------------------------------------------------------------
Step(c) ==
    \/ Poll(c)
    \/ SkipBad(c)
    \/ Insert(c)
    \/ InsertFails(c)
    \/ InsertReplyLost(c)
    \/ Ack(c)

Next ==
    \/ \E m \in Messages : Publish(m)
    \/ \E c \in Consumers : Assign(c) \/ Evict(c) \/ Crash(c) \/ Step(c)

(* The container's poll loop never stops and the coordinator never leaves  *)
(* a partition unassigned; nobody has to publish, crash or be evicted.     *)
Fairness ==
    /\ WF_vars(\E c \in Consumers : Assign(c))
    /\ \A c \in Consumers : WF_vars(Step(c))

Spec == Init /\ [][Next]_vars
FairSpec == Spec /\ Fairness

-----------------------------------------------------------------------------
TypeOK ==
    /\ topic \in Seq(Messages)
    /\ rows \in Seq(Storable)
    /\ committed \in Nat
    /\ owner \in Consumers \cup {NoOne}
    /\ pc \in [Consumers -> {"idle", "handling", "acking"}]
    /\ pos \in [Consumers -> Nat]
    /\ attempts \in [Consumers -> Nat]
    /\ gaveUp \subseteq Nat
    /\ faults \in 0..MaxFaults
    /\ dbErrors \in 0..MaxDbErrors

Resolved(o) ==
    \/ Record(o) \notin Accepted
    \/ Stored(IdOf[Record(o)])
    \/ o \in gaveUp

(* However consumers crash, lose the partition or retry, an offset the     *)
(* group has committed past belongs to a record that broke the contract,   *)
(* whose event is in events_raw, or that the error handler gave up in the  *)
(* log: EventsListener skips no good record in silence.                    *)
NothingSkippedSilently == \A o \in 0..(committed - 1) : Resolved(o)

(* Why: the owner is always at the committed offset, a consumer that lost  *)
(* the partition holds a record the group has reached, and a consumer that *)
(* is about to commit holds a resolved one.  NothingSkippedSilently is not *)
(* inductive without it.                                                   *)
HandOK(c) ==
    /\ pc[c] # "idle" => pos[c] < Len(topic) /\ pos[c] <= committed
    /\ pc[c] = "acking" => Resolved(pos[c])
    /\ owner = c => pos[c] = committed

HandsInv ==
    /\ committed <= Len(topic)
    /\ \A o \in gaveUp : o < Len(topic)
    /\ \A c \in Consumers : HandOK(c)

(* Redelivery after a crash, a lost reply, a rebalance or a client retry   *)
(* never makes a second row of an event in events_raw                      *)
(* (BronzeWriter's ON CONFLICT).                                           *)
OneRowPerEvent ==
    \A i, j \in 1..Len(rows) : IdOf[rows[i]] = IdOf[rows[j]] => i = j

(* While no record was given up, events_raw holds exactly the accepted     *)
(* events of a prefix of the topic, in topic order, each in the payload    *)
(* it had on its first arrival, and the prefix is at most the one record   *)
(* in hand longer than what the group has committed.                       *)
FirstArrival(o) ==
    /\ Record(o) \in Accepted
    /\ \A p \in 0..(o - 1) :
          Record(p) \in Accepted => IdOf[Record(p)] # IdOf[Record(o)]

RowsMatchPrefix(n) ==
    LET first == {o \in 0..(n - 1) : FirstArrival(o)}
    IN  /\ \A o \in first :
              \E i \in 1..Len(rows) : rows[i] = Record(o)
        /\ \A i \in 1..Len(rows) :
              \E o \in first : rows[i] = Record(o)
        /\ \A o, p \in first, i, j \in 1..Len(rows) :
              (rows[i] = Record(o) /\ rows[j] = Record(p) /\ i < j) => o < p

RowsFollowTopic ==
    gaveUp = {} =>
        \E n \in {committed, committed + 1} :
            n <= Len(topic) /\ RowsMatchPrefix(n)

(* BronzeSinkApplication: at-least-once and ON CONFLICT DO NOTHING make    *)
(* the sink exactly-once in effect, so an offset committed past is stored  *)
(* if the database can store it at all.                                    *)
AtLeastOnce ==
    \A o \in 0..(committed - 1) :
        Record(o) \in Storable => Stored(IdOf[Record(o)])

(* The condition under which it is: fewer database failures so far than    *)
(* the error handler has attempts, wherever the failures fell, on which    *)
(* consumer and on which side of the INSERT's commit.                      *)
StoredWhileFailuresAreFew == dbErrors < MaxAttempts => AtLeastOnce

(* Why: the attempts charged to a record that can be stored are database   *)
(* failures, so until there were as many failures as attempts, only records*)
(* that cannot be stored are given up.                                     *)
AttemptsInv ==
    /\ \A c \in Consumers :
          \/ attempts[c] <= dbErrors
          \/ pos[c] < Len(topic) /\ Record(pos[c]) \notin Storable
    /\ dbErrors < MaxAttempts => \A o \in gaveUp : Record(o) \notin Storable

(* The committed offset never rewinds, not even when a consumer that lost  *)
(* the partition commits late, and bronze is append-only.                  *)
NeverRewinds ==
    [][ /\ committed' >= committed
        /\ Len(rows') >= Len(rows)
        /\ \A i \in 1..Len(rows) : rows'[i] = rows[i] ]_vars

(* Neither a bad message, nor one the database refuses, nor a bounded      *)
(* number of failures stops consumption: every record is passed at last.   *)
EveryRecordIsPassed ==
    \A n \in 1..MaxTopic : (Len(topic) >= n) ~> (committed >= n)

(* The sink implements the ledger: its cursor is the committed offset, and *)
(* what the error handler gave up is lost unless it was stored before that *)
(* or is stored after.                                                     *)
Lost == {o \in gaveUp : ~Stored(IdOf[Record(o)])}
Ledger == INSTANCE BronzeLedger WITH cursor <- committed, lost <- Lost
LedgerSpec == Ledger!Spec
=============================================================================
