# A formal model of personalized-reco

TLA+ modules for the event path of personalized-reco: from the storefront's
tracker and the ingest client through the ingest API, the topic `events` and the
bronze sink into `events_raw`, and from there through the label batch into
`impression_label`; and for what lies beside that path: the traffic simulator,
the baseline recommender and the ranking metrics. TLC checks the modules on
small instances, TLAPS proves the main theorems for every instance.
`PROJECT.json` is the index: runs, mutants, the lines of code each definition
stands for, findings, hazards and theorems.

## The system

| Part | Code | State it keeps | What it does | Here |
|---|---|---|---|---|
| Web storefront | `apps/web/src/App.tsx`, `identity.ts`, `useImpression.ts` | user, session, consent; grid and rail, each with the `requestId` of its exposure | shows items, logs impressions once per exposure, clicks, carts, purchases | `Storefront` |
| Web tracker | `apps/web/src/tracker.ts` | queue, flush timer | batches impressions (50 or 800 ms), sends actions at once, drops what fails | `Tracker` |
| Ingest client | `apps/pipelines/.../ingest_client.py` | position in the list of events | posts batches, one retry each | `IngestApi` |
| Ingest API | `apps/serving/.../EventIngestController.kt` | none (the Kafka producer has a buffer) | fills in eventId and ts, sends without waiting, answers 202 | `IngestApi` |
| Topic `events` | `infra/docker-compose.yml` (one partition) | log of records, committed offset of the group | external | in `BronzeSink` |
| Bronze sink | `apps/bronze-sink` | offset, record in hand, delivery attempts | contract check, `INSERT ... ON CONFLICT DO NOTHING`, commit of the offset | `BronzeSink`, `BronzeLedger` |
| Event contract | `EventEnvelope.kt`, `packages/event-contract`, `events_raw.payload`, `packages/py-common/.../event.py` | none | what is an event, written four times | `EventContract` |
| Bronze reader | `apps/pipelines/.../bronze.py` | `after_id` | pages through `events_raw` by id, skips broken rows | `BronzeReader`, `Paging` |
| Attribution | `apps/pipelines/.../label.py`, `build_label_rows` | none | credits click, cart, purchase to impressions | `Attribution` |
| Label batch | `apps/pipelines/.../label.py`, `run_label` | rows to write, counters | read all, build, upsert in chunks, fall back to rows, report losses | `LabelBatch` |
| Traffic simulator | `apps/pipelines/.../simulator.py`, `cli.py` seed | events so far, clock and exposure of the session at hand | makes sessions with impressions and funnels, cuts and sorts the list | `Simulator` |
| Baseline recommender | `apps/pipelines/.../recommender.py` | none | ranks by popularity or genre, cuts to k | `Recommender` |
| Ranking metrics | `packages/py-common/.../metrics.py` | none | precision, recall, nDCG at k | `Metrics` |
| Catalog, recommendation stub, health, domain types | `apps/serving/...` | none | read-only | not modelled |
| Migrations, seed | SQL | schema | set-up | only the indexes and limits the others rely on |
| Sample generator, dev scripts | `data/samples`, `scripts/dev-up.sh` | none | write files, start containers | not modelled |
| Gold batch, evaluation, protobuf | documents only | | | not implemented in the repository |

How they interact: browser and ingest client call `POST /events`; the API's
producer appends to the topic; the sink turns records into rows of
`events_raw`; the label batch reads these rows while the sink goes on
inserting, and writes `impression_label`. Everything between two of these parts
is asynchronous, may be repeated, and may stop half-way. These are the
behaviours the models are about; each is a hazard in `PROJECT.json`, at its
line. The simulator makes events for the ingest client, out of a catalog of its
own or of the answers of the recommendation API; the recommender reads such
events, and the metrics are meant for lists that the recommender makes.

## Modules

* `Tracker` - class Tracker: `queue`, `handle` (is `this.timer` set), `ticking`
  (time-outs the browser holds), `sent` (batches given to fetch). `Flush` is
  shared by `Impression`, `Action`, `TimerFires` and `Hide`, as in the code.
* `Storefront` - one tab of the store. `storage` and `session` are localStorage
  and sessionStorage; `identity` is the React state and `view` the identity of
  the last render, the one that every handler and observer holds. A change by an
  event of the user is rendered at once (`SelectUser`, `ToggleConsent`), one by
  a reply later (`UsersReply`, then `Render`). `fetching` counts requests under
  way, `asked` those for recommendations by the user they are for; each may
  fail, and none is ever cancelled. `railFor` is the user whose recommendations
  the rail shows and `railItems` what they are, any set of items with each
  reply; the history `raced` remembers whether the last request was
  sent while another user's was under way. `grid` and `rail` are the requestIds on the
  screen; `fired` is what the cards remember; `modal` the open product.
  `Reload`, `Dies` and `OtherTabWrites` come from outside the page.
* `StorefrontProofs` - theorems about both.
* `IngestApi` - the client's loop (`Post`, `Got202`, `GotError`, `Return`), the
  server's run of each request (`Receive`, `Send`, `SendThrows`, `Accept`) and
  the producer's buffer (`Deliver`, `Expire`, `ServingCrash`). A request is a
  batch and an attempt; one that timed out keeps running beside its repetition.
* `EventPipeline` - `IngestApi` with the sink behind the same topic. The sink is
  taken as its specification `BronzeLedger`, which `BronzeSink` is proved to
  implement, so that the composition stays small enough to check.
  `EventPipelineProofs` - theorems about the composition.
* `BronzeLedger` - the abstract specification of the sink: records are entered
  one by one in topic order, each event once, and the cursor never passes a
  record that is not settled (bad, stored or declared lost).
* `BronzeSink` - the consumers of group `bronze-sink`. `topic` is the partition,
  `committed` the group's offset, `owner` the consumer the partition is
  assigned to; per consumer, `pc`, `pos` and `attempts` are what the Spring
  container knows of the record in hand. `Poll`, `SkipBad`, `Insert`,
  `InsertFails`, `Ack` are one delivery through `EventsListener.onMessage`,
  `BronzeWriter.insert` and ack-mode `record`. `Evict` leaves the evicted
  consumer with its record in hand: it finishes that record and its commit is
  refused. `InsertReplyLost` commits the row and reports a failure all the same.
* `BronzeSinkProofs` - its theorems.
* `Attribution` - `build_label_rows` as operators on a bronze table that grows
  event by event, in any order of timestamps.
* `EventContract` - one event on its way through the four versions of the
  contract: `Ingest` binds it to EventEnvelope and fills it in, `SinkStores`
  parses it as Event.kt and keeps the payload as it was, `BatchReads` parses the
  payload as event.py and files it as `build_label_rows` does (`Fate`). A field
  is the form of its JSON value: for an eventId also blank, zero, fraction and
  the booleans; for a ts the formats on which `Instant` and `fromisoformat`
  differ. What depends on a version rather than on this code are constants:
  whether Jackson takes the number of an enum constant (`OrdinalsAreTypes`) and
  whether `fromisoformat` takes 24:00 (`TakesHour24`).
* `Intake` - `EventContract` in front of `Attribution`: an event that is
  followed through the contract is handed over by `iter_events` and becomes an
  event of bronze (`Collect`) or is `Lost`; others arrive without being followed
  (`Unfollowed`). `MaxFollowed` bounds the rows of bronze among which an event is
  followed. `AttributionProofs` - theorems about all three.
* `Simulator` - `generate_events`: `OpenSession`, then `Show`, `Click`, `Cart`,
  `Purchase` down the funnel of each exposure, `EndSession`, and `Finish`, which
  cuts and sorts. Every draw is a choice. `ApiFails` is an exception of
  `fetch_recommended_items`. `Labels` is `Attribution` over the list it returns.
* `Sorting` - Python's `sorted`, as a definition of its result: the n-th element
  is the one that n - 1 others come before. `Simulator` and `Recommender` give
  the order.
* `Recommender`, `Metrics` - the functions of the two files as operators;
  floats are integers or fractions with the same order and the same zeros. A
  loop is the function of its states: `ScoresAfter(log)[n]` are the scores after
  n events, `TakenAfter(...)[n]` is the list after n candidates.
* `Offline` - the three together: popularity of simulated traffic, the top-k
  contract over every list of candidates (`Offer` adds one), metrics of the
  lists recommended. `OfflineProofs` - theorems about all of this.
* `Paging` - the keyset query; `BronzeReader` - `iter_events` against sessions
  that insert; ids are drawn at the INSERT and rows seen at the COMMIT.
  `BronzeReaderProofs`.
* `CommonLemmas` - what several of the proofs need: sets of ids and pages of
  them, places in a sorted list, the states of a loop.
* `LabelBatch` - runs of `reco-pipelines label`: pages, chunks, the row by row
  fallback and the `LabelReport`, with several runs that may overlap, die
  half-way and meet rows that `impression_label` refuses. A label row is
  represented by the set of outcomes it was computed from; that dates and label
  depend on nothing else, and the amount only on which of two tied purchases was
  stored first, is what `Attribution` shows (`ArrivalOrderOnlySettlesTies`). A
  row may be refused for itself or for the amount of the purchase it is credited
  with (`Fits`). `LabelBatchProofs`.
* `MC...` - constants for TLC. An operator whose comment begins "Wrong on
  purpose" is a mutant: the mutated form of the definition that follows it.
  TLC finds the property named in `PROJECT.json` violated when it takes the
  definition's place.

### Where the model abstracts

* Messages are model values with an event id; what matters is whether Kotlin's
  parser takes them and whether jsonb can store them. A resend of an event is
  another message with the same id.
* The error handler is Spring Kafka's default one: a bounded number of
  deliveries back to back, then the record is logged and passed. That it starts
  counting anew when the kind of exception changes is left out; it only adds
  retries. The number is a constant (10 in the code's version, 2 in the runs).
* An evicted consumer finishes the record in its hands, not the rest of its
  poll; the rest would be more of the same steps.
* `iter_events` hands over one page at a time; its only caller drains it.
* A lost database connection makes `rollback` raise, so the run ends: `Crash`.
  Errors that leave the connection usable are bounded by `MaxErrors`.
* The tab's history of envelopes carries what the properties speak of: type,
  identity, consent, exposure and item. Quantity, price, position and the
  header's counter are left out. All items of an exposure can be on the screen.
* An answer about recommendations lists every item once, as the server in
  `src/` does. React takes requestId and item for the key of a card, and what it
  does with two cards of one key is not defined.
* Of an event's context `Attribution` keeps the purchase's amount, the one value
  that goes into a label row from an outcome besides its time. The other values
  of a row are copied from the impression itself.
* Timestamps are small numbers; a window of 24 hours is a window of 1. Those of
  the simulator are milliseconds, with the extremes of the code's draws.
* In the contract one optional string of the top level (`sessionId`) stands for
  all of them, the item included, and one of the context (`requestId`) for all of
  those; they are the ones that make the attribution key. Malformed numbers in
  the context are left out there; `LabelBatch` has the one that gets as far as
  the label table (`costly`). A ts so late that a day after it is beyond year
  9999, which `label.py:73` cannot add, is left out.
* `Gain` stands for 1/log2(place + 1): positive and strictly falling, which is
  all the properties of nDCG need. It is as long as any list that is measured.

## Runs

| Run | Question | Instance | Result |
|---|---|---|---|
| `storefront` | Whose recommendations does a tab show, which events does it make, for whom, and do they all leave? | 2 users and anonymous, 2 exposures of 1 item, which a reply may leave out, 3 events, queue limit 2, 1 change of session, 1 reload, crash or write of another tab | holds |
| `storefront_join` | Do the outcomes of an exposure join its impressions, as `tracker.ts:7` says? | the same, effects run twice | violated |
| `event_pipeline` | What do a 202 and the client's report mean for `events_raw`? | 3 events in 2 batches, one without eventId, one against the contract, 2 faults of any kind | holds |
| `sink_safety` | What may `events_raw` and the offset look like, which good records may be missing, does consumption go on? | 2 consumers, 3 records out of 5 messages (an event, its resend with other contents, another event, a contract breach, one jsonb refuses), 2 crashes or evictions, 2 database failures, 2 attempts | holds |
| `sink_outage_loss` | Is delivery at-least-once, as `BronzeSinkApplication.kt:11` says? | no crash, 2 failures | violated |
| `attribution` | Can the batch read what the sink stored, and are credits right for every table? | every form of one event, posted or written to the topic; every sequence of up to 4 events, 4 types, a complete and an incomplete key, 4 instants, a purchase with or without an amount | holds |
| `reader_pass` | Does a pass see what was there? | 2 writers, 5 ids, pages of 2 | holds |
| `reader_resume` | May a pass resume, as `bronze.py:47` says? | 2 writers, 3 ids | violated |
| `label_batch` | Are losses isolated and reported, does a run end, and what do runs that overlap or die leave behind? | 2 processes that run again and again, 3 rows of 7 kinds, pages and chunks of 2, 1 error, 1 crash; runs overlap where the rows are impressions and outcomes and nothing crashes | holds |
| `offline` | Is simulated traffic plausible, and are ranking, cut and metrics right? | 0 or 4 events of a catalog of 2 items, 8 of an API that answers with nothing or with one item twice; earliest and latest session starts, longest gaps; up to 3 candidates with 3 ids, 2 scores, 2 genres; k from 1 to 3 | holds |
| `simulator_window` | Is no simulated event after `end_ts`, as `simulator.py:55` and a test say? | the same, an API list of two items | violated |
| `recommend_at_most_k` | Does `recommend` return at most k items, as `recommender.py:46` says? | the same, k from 0 | violated |

Why the bounds are enough: a rebalance in the sink needs two consumers and one
record, a repeat of an event needs two records and something between them a
third, giving up needs as many failures as attempts. Eight simulated events are
two complete funnels of one session, the least that overruns the window; four
let the cut fall anywhere in a funnel; three candidates hold a repetition with
another between. One event through the contract shows all there is to see of it,
as events do not meet there, so the run follows events into the first row only. In the tab
three events are a click with two outcomes, or a full queue and one more, and
a change of session needs one event before and one after it. In the pipeline two
faults let a batch be posted twice with a loss in either copy, or fail for
good, and two batches let an abandoned request run beside a later one.
Attribution looks at one
impression and at most one click, cart and purchase of its key, so four events
contain every shape, and four instants leave room before, in and after a window
of one. Pages and chunks of two out of three (or five) rows give a full and a
partial page, a boundary with a late row on either side, and a chunk with one
bad row and one good one.

Deadlock checking is off in every run: when the bounds on records, faults and
rows are used up and everything is handled, the system is idle for good.

### Fairness

* Client, server, producer: weak fairness of the client's loop, of each request
  and of the producer's sender thread; with the sink's step, each is a process
  that goes on with what it has begun. No fault is ever forced.
* Sink: weak fairness of assignment (the coordinator does not leave a partition
  without an owner) and of each consumer's own steps (the container polls in a
  loop). Publishing, crashing and evicting are never forced. Which of the
  several outcomes of an INSERT occurs is not under fairness; faults and
  failures are finite in number by their bounds, which stands for "failures
  stop in the end".
* Simulator: weak fairness of its loop. Nothing is assumed of the draws: that
  generation ends (`GenerationEnds`) holds because every session with an exposure
  makes an event. The draws' probabilities are not needed, and no fairness makes
  the API answer with a list that is not empty.
* Reader and label batch: a pass or run that has begun goes on, because it is
  a loop of one process. Nothing is assumed of who begins one.

### What holds, and how far

* `RailIsOfUser`: no request is cancelled, so the rail may show, and its
  impressions be logged under, the wrong user - but only after two users'
  requests were under way at once.
* `StoredWhileFailuresAreFew`: a good record that was passed is in the table as
  long as there were fewer database failures than attempts.
* `ContractMirrored` is the exact list of what the two event classes, which call
  themselves mirror images, do not agree on, over the forms of `WireEvent`. Of
  what the sink stored, the batch finds broken the events with an id that is
  empty, 0 or false, with an eventType given by its number, with a lower-case z,
  an epoch time, a leap second, a year outside 1..9999 or spaces around the time,
  and with 24:00 where Python does not take it. It files the rest under the key
  that the Kotlin class has, unless a key field is a number or comes under its
  snake_case name only, and under the id of the row, unless that was written to
  the topic as true or as a fraction. An event that was posted can end the batch
  only by a list under `context.request_id`, because the envelope drops unknown
  fields of the top level and passes the context on. One that ends it contradicts
  `bronze.py:9`, by which a broken row kills no batch; both disagreements are
  listed as findings of this run.
* `ArrivalOrderOnlySettlesTies`: the order in which events were stored matters to
  `purchase_amount` and to nothing else of a label row, and there only if two
  purchases of a key have the same time: `min` takes the one that was stored
  first.
* `PlausibleTraffic`: the list is cut before it is sorted, so what the cut
  takes is always the end of one session, and every exposure keeps the
  beginning of its funnel.
* `LabelsTellTheTruth`: an API list with an item twice gives two impressions
  with one key, and an outcome of the second is credited to the first as well.
* `TopKContract` is about k from 1; for a smaller one see `recommend_at_most_k`.
* `MetricsBounded` is about lists
  without duplicates, which `recommend` guarantees; with duplicates recall could
  exceed 1, and a negative k cuts from the end for recall alone.

### What the violations show

1. `storefront_join`: a change of user (by hand, or by the first reply of
   `/api/users` on a first visit) starts a new session, while the grid keeps its
   requestId and its cards, once seen, stay silent. The label batch joins on
   session, request and item, so what the new session does with those cards is
   credited to no impression. What does hold is that a session has one user
   (`OneUserPerSession`), unless another tab changes the user and this one is
   reloaded: then the session goes on with the new user.
2. `sink_outage_loss`: exceptions of the database go to the default error
   handler, which gives up after its attempts, logs, and lets the offset be
   committed. An outage longer than ten attempts without back-off loses events
   that are acknowledged to the client. `StoredWhenFailuresAreFew` proves the
   other half: with fewer failures than attempts nothing is lost.
3. `reader_resume`: a row that commits late with a smaller id is never read by a
   reader that resumes after the largest id it saw. `run_label` starts at 0 each
   time and is not affected (`FullPassCovers`); the incremental reading that
   `bronze.py:47` and the TODO in `label.py:86` speak of would be, unless one
   session inserts at a time (`OneWriterMayResume`).
4. `simulator_window`: sessions start an hour before `end_ts` at the latest, one
   funnel takes 36.5 minutes at most, and a session may have ten. Only the first
   exposure is sure to stay inside the window; by how much the others may run
   over is `OverrunBounded`, a theorem without a run. The default `end_ts` is now, so such
   events lie in the future.
5. `recommend_at_most_k`: the code looks at k after it took an item, so k = 0
   gives one. The repository's tests try 1, 2, 3 and 10.

## Theorems

Every theorem is for arbitrary constants that satisfy the module's `ASSUME`.

* Storefront. `TypeCorrect` is inductive with the clauses that the two exposures
  on the screen differ and are among those made. `QueueServed` needs no more.
  `OncePerExposure` is not inductive: `OnceInv` adds `Remember`, that a card on
  the screen whose impression was recorded remembers it and that recorded
  exposures are old ones, so that a reply cannot bring one back.
  `RailOfUser` needs `RailInv`: without a race, the only recommendations under
  way are those of the user on the screen. `ConsentIsTheTruth` follows from what
  page and handlers believe being what is stored (`ConsentInv`).
  `SessionIsOfOneUser` is about whoever may speak next: `SessionInv` lets the
  storage, the page, its handlers and the events made so far agree on the user
  of each session. `OrderIsKept` needs that no event is mislaid between being
  made and being sent, and that the queue is in order; `OutcomesAreClicked` that
  an open modal stands for a click that had no outcome yet.
* Ingest pipeline. The core of `IInv` is `CopiesInv`: of every event, topic,
  buffer and dropped records together hold as many copies as there are requests
  of its batch that have got past it. With the client's bookkeeping
  (`ClientInv`: a batch is left behind only when a request of it was accepted)
  that is `SentWasHandedOver`, and as a batch has two requests at most,
  `RetriesExplainDuplicates`. `OrderSurvivesRetries` is inductive beside these.
  `OwnIdsMakeResendsSafe` uses that a record tells which request it came from
  (`OriginsInv`) and that no record has two rows (`RowsInv`).
  `PipelineKeepsALedger` shows that the composition drives `BronzeLedger` by its
  own steps only, so that it can stand for the sink.
* Sink. `SafeInv == TypeOK /\ HandsInv /\ NothingSkippedSilently` is inductive.
  `NothingSkippedSilently` alone is not: committing needs to know that the
  record in hand is resolved and is the one at the committed offset. `HandOK`
  says so: the owner is always at the committed offset, a consumer that lost
  the partition holds a record the group has reached, a consumer about to
  commit holds a resolved one. `OneRowPerEvent` and `NeverRewinds` follow with
  it. `TableFollowsTopic` is inductive next to `SafeInv`: an insert that adds a
  row must be of the record at the committed offset, because whatever lies
  before it has a first arrival whose row is there. `StoredWhenFailuresAreFew`
  needs `AttemptsInv`: as long as there were fewer
  failures than attempts, the attempts charged to a record that can be stored
  are failures of the database, and no such record was given up.
  `SinkImplementsLedger` maps the cursor to the committed offset and the lost
  records to those given up and not in the table; a step of the sink is a step
  of the ledger or leaves it alone.
* Attribution. Every label row is causal and in its window (`CreditCorrect`), no
  signal is dropped (`SignalsKept`), and a late event changes rows only of its
  key, never takes a click or cart back, and lowers a label only from purchase
  and only by becoming the anchor (`LateEventsHarmless`). They rest on what
  `Earliest` returns: a smallest element exists (`CommonLemmas`, by well-founded
  induction) and precedes all others. `ArrivalOrderSettlesTies` is proved from
  more than it says: dates and label of an impression depend only on which
  events there are (`DatesDependOnEvents`); and of tied purchases `Precedes` ranks
  the earlier row first, so that swapping those two moves the credit.
* Contract. `ContractInv` records what each of the four versions has established
  when it hands the event on; `ContractsAgree` is then a matter of cases, for
  both values of `OrdinalsAreTypes` and `TakesHour24`. `IntakeFillsBronze`: every
  behaviour of `Intake`, in which the contract fills bronze, is one of
  `Attribution`, and a followed event that was posted, with its requestId
  under the contract's name, is joinable in bronze exactly if the sink saw a
  complete key (`JoinableAsTheSinkSawIt`, which is proved and has no run).
* Reader. A page is a contiguous stretch after the cursor (`PageIs`), hence
  `NoRowTwice` and, from id 0, `FullPassCovers`. `OneWriterMayResume` adds the
  invariant `InOrder`: the one row being inserted has the newest id and the
  cursor is short of it.
* Label batch. `IInv` says of each run what it has read (`ReadsInOrder`: every
  row that was there at its start and that its cursor passed is read or counted
  as skipped), what is left to write (`WorkLeft`) and what it has settled
  (`Accounted`: the rows that are through are a set it gave up, which `failed`
  counts and all rows that do not fit belong to, and those it labelled, which
  `labeled` counts). `ReportAddsUp` and `OnlyPoisonFails` follow.
  `LabelsAreComplete` and `LabelsGrow` need `RunsInTurn` besides: runs that do
  not overlap follow one another, so that the later one knows every outcome a
  label was computed from.
* Simulator. `IInv` is about the events in the order in which they are made:
  two of one session ascend in slot, time and stage (`MadeInOrder`), each has
  before it the stage and the slot that it presumes (`NothingLeftOut`), and none
  is later than its slot allows (`InBounds`). It is inductive with what the
  generator has at hand, program counter, slot and clock, in step with what it
  emitted last (`AtHand`). All of this survives the cut, because it looks back
  only, and the sort, because a sorted list has every element of the other in
  some place (`PlacesInOrder`): `TrafficIsPlausible`, and `OverrunBounded` with it. `LabelsAreTruthful` has the
  hypothesis `SessionsFitWindow`, that the funnels of a session together take
  less than the window of attribution: 37 minutes for each of ten items against
  24 hours. In a list so long that it does not, an item may come again after the
  window, and its first impression is not credited with what the second led to;
  a funnel longer than the window would lose its purchase.

* Loops. What a loop over a list computes takes an induction over the list,
  and the library's rules of induction cannot be instantiated here. So there is
  `RangeInduction` for sets instead: a set with 0, and with n whenever it has
  n - 1, has all of 0..N, because otherwise there would be a smallest number that
  it lacks. By it there is a function that has a loop's first state and follows
  its step (`LoopHasHistory`); `ScoresAfter`, `TakenAfter` and `GainsUpTo` are
  therefore such functions, and what they compute is proved by `RangeInduction`.
* Recommender. The invariant of the loop of `recommend` (`TakeKeeps`) is that
  what was taken are the first mentions of items that were not seen, in their
  order and cut off at the end; the length of the result is that cut, at k or,
  for a smaller k, at 1 (`RecommendIs`). `TopKIsKept` is in two parts. For any
  candidates, the order of first mentions is what the contract asks for. For
  candidates sorted by genre, the first mention of an item carries the genre of
  it that the user likes best (`AffinityIs`), so that the first mentions are
  sorted by that and by id, and a list that ascends in a strict order has every
  element in its place (`ListInOrder`).
* Popularity. The loop counts: after n events the score of an item is the
  weighted number of its events among the first n (`ScoresAre`). Counts do not
  depend on the order: where the events of one list are those of another,
  reached by a one-to-one map of places, each item has as many of each type
  (`OrderDoesNotMatter`). The sorted list and the order of emission are related
  by such a map (`ResultIs`), a list and its reverse by another; the three
  spellings of a name are read as the same item and type (`FormsAgree`).
* Metrics. A list without duplicates has no more hits than k and than there are
  relevant items (`HitsAreFew`). `IdealIsBest`: no set of so many places gains
  more than the first ones, and none but the first ones as much; it is proved
  by putting the last place of the set after the others. Hence nDCG is a share
  and is 1 for ideal rankings alone. `ExchangeRaisesNdcg` follows the one hit
  that moves when neighbours change places: within the cut, over it, or beyond.
  `MetricsAreBounded` puts them together with `RecommendIsRanking`: the
  recommender's lists have no duplicates, and without that none of it holds.

### Only model-checked

* Liveness (`EveryRecordIsPassed`, `PassEnds`, `RunEnds`, `EverySentEventArrives`,
  `GenerationEnds`): the prover has no rules for fairness. Every other property
  that a run finds to hold is proved.
* The properties that the code violates have no theorem; the theorems next to
  them are their exact conditions.

## Not modelled

* Recommendation endpoint, catalog endpoint, health endpoint: constant answers
  and read-only queries, without state or decisions. That they fail, answer late
  or with other items is part of `Storefront` and `Simulator`.
* Sample data generator: `generate.py` is the ancestor of the simulator, run
  once; `to_seed_sql.py` formats its output as SQL.
* Parsing of arguments and settings, and printing: `cli.py` and `config.py`.
* Flyway, seed rows, gold tables (nothing reads or writes them in this commit),
  gold batch, evaluation and protobuf, which exist as documents only.
* `dev-up.sh` and the containers.

## Plan

What the system decides is modelled, every property of it that holds is checked,
and every one that is not about liveness is proved. From here the project
follows the code:

1. The gold batch and the evaluation, once they exist: they will read
   `impression_label` while the label batch writes it, and feed `Recommender`
   and `Metrics`.
2. Incremental labelling (the TODO in `label.py:86`): a label batch whose pass
   resumes. `reader_resume` shows what it may not rely on, and
   `OneWriterMayResume` what it could.
3. The recommendation endpoint, when it takes decisions. `Storefront` assumes of
   its answers that no item is listed twice.
