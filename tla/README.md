# Verification of the order system (kafka-sqs)

TLA+ models of the order application in `src/order_app`: a FastAPI producer, a Kafka consumer
group, SQS workers, and the PostgreSQL store both of them write to. TLC checks the models on small
instances; TLAPS proves every safety property of the passing runs – invariants, action properties and
refinements – for every value of the constants, some of them under a stated assumption (section 5).

Paths below are relative to the repository. `PROJECT.json` maps every definition to its lines.

## 1. The system

| Component | State | Operations | Hard behaviour |
|---|---|---|---|
| Order API and publishers (`order_api/http_api.py`, `messaging/event_publishers.py`) | one shared librdkafka producer: its queue, its unserved delivery reports; the SQS publisher keeps none | `create_order` → `publish_order_created`: produce, flush, look at the reports, 202 or 503; or one `SendMessage` | requests are threads; `flush` waits for everybody's records and runs everybody's callbacks; timeouts race late acknowledgements; boto3 sends again |
| Kafka order consumer (`order_processing/kafka_order_consumer.py`) | group offsets and assignment (broker), the client's position, the locals of `process_one` | poll, parse, store, notify, mark_completed, retry, discard, dead-letter, commit | every call may fail before or after it took effect; crashes; rebalances without a callback; duplicates |
| Retry policy, dead-letter publisher (`retry_and_dead_letter.py`) | dead-letter topic | `is_retryable`, `publish_failure` | bounded attempts; late delivery after a failed flush |
| Notification client (`notification_client.py`) | the downstream service | `notify` | a failed call may have been acted on |
| Order store (`postgres_order_store.py`) | tables `orders`, `processed_events` | `initialize`, `store`, `mark_completed`, `discard`, queries | READ COMMITTED transactions interleave statement by statement |
| SQS order consumer (`sqs_order_consumer.py`) | queue: visibility, receive counts, dead-letter queue | receive, parse, store, mark_completed, delete | visibility timeout shorter than the work; stale receipt handles; redrive |
| Lab workers (`local_lab/consumer_worker.py`) | stop flag | the loops around `process_one`, the pause check | what happens to the consumer after an exception |
| Pause control, dashboard (`consumer_control_store.py`, `dashboard_api.py`, `static/index.html`) | one row per broker | pause, resume, read-only views | the flag is read before a two-second poll; every process initializes the rows when it starts |
| Topic administration, resource setup (`kafka_topic_admin.py`, `resource_setup.py`) | broker metadata, queues, schemas | create, describe, delete, ensure | list-then-create; metadata that lags behind; `IF NOT EXISTS` looks before it creates; deaths and reruns |
| Event contract (`messaging/contracts/`) | none | build, validate, parse | stated in four places; what one accepts and another refuses |

Interaction: the API appends events to a topic (or sends them to a queue). Kafka consumers fetch
records in partition order, SQS workers receive messages in any order. Both call the same store,
each against a schema of its own. A Kafka record is acknowledged by committing the offset behind it,
an SQS message by deleting it; both only after the store says `completed` (or, in Kafka, after the
record is in the dead-letter topic). Processes are restarted by compose (`restart: unless-stopped`).

What makes each component correct:

* consumer group – an acknowledged record is complete or dead-lettered; no record overtakes a failed
  one of its partition; one fresh result per event; completion only after notification; nothing
  stays half done; everything is handled in the end;
* store – an order and its marker come and go together; order ids stay unique; the transactions
  behave like atomic steps;
* SQS – a deleted message is a complete order; a pending one keeps its message; an order answered
  with 202 is never lost; all settle;
* API – 202 means published; every request is answered; what the request model accepts never fails
  further down, and what is published can be stored;
* pause – a confirmed pause lasts, and lets at most one more message through per worker;
* provisioning – who ends well leaves everything there; a rerun on a complete lab does not fail by
  itself; reruns succeed in the end.

The hazards behind these properties are listed in `PROJECT.json`, each at its line.

## 2. Modules

```
PostgresOrderStore ─┬─ KafkaOrderConsumer ── MCKafkaOrderConsumer
   (atomic store)   │     │  └ INSTANCE OrderDelivery (the promise)
                    │     └─ KafkaOrderConsumerProofs ── KafkaDeliveryProofs ── KafkaEffectProofs
                    ├─ SqsOrderConsumer ─┬─ MCSqsOrderConsumer
                    │                    ├─ SqsOrderConsumerProofs
                    │                    └─ SqsLab (with ConsumerControls) ─┬─ MCSqsLab
                    │                                                       └─ SqsLabProofs
                    └─ PostgresTransactions (INSTANCE as Store) ─┬─ MCPostgresTransactions
                                                                 └─ PostgresTransactionsProofs
OrderContract ── OrderApi ─┬─ MCOrderApi
                           └─ OrderApiProofs
KafkaTopicAdmin ── LabProvisioning ─┬─ MCLabProvisioning
                                    └─ LabProvisioningProofs
```

**PostgresOrderStore** – the two tables and the committed outcomes of `store`, `mark_completed` and
`discard`. A row of `orders` is its event; `marker[e]` is the status of `e`, `"absent"` without a row.
The consumers use these operators as the effect of one step.

**PostgresTransactions** – the same three methods statement by statement. A session's uncommitted
writes are also its row locks; a statement that must wait is disabled. `DiscardsOverlap` says whether
a discard may run beside another call for its event. With it `FALSE`, every transaction is one step
of `PostgresOrderStore` (`AtomicStore`): that is the ground the consumer models stand on. Not
modelled: a row that is deleted *and* inserted again while a statement waits for it.

**KafkaOrderConsumer** – one action per call of `process_one`; `pc[c]` is the call that comes next,
`msg`, `attempts`, `isNew`, `error` are its locals.

| Code | Model |
|---|---|
| `poll` and parse (175–217) | `PollValid`, `PollMalformed`, `PollRefused`, `PollTimeout`, `PollError` |
| `store.store` (224–231) | `Store`, then `Stored` |
| `downstream.notify`, `mark_completed` (228–230) | `Notify`, `Mark` |
| the `except` block (232–254) | `Raise`: `Retry`, `GiveUp` or `Abort` |
| `store.discard` (241) | `DiscardEvent` |
| `_dead_letter` (284–322) | `PublishDeadLetter`, then the commit |
| `_commit` (267–282) | `CommitSucceeds`, `CommitFails` |
| `with KafkaOrderConsumer(...)`, or the worker's loop | `Abort` by `ContinueAfterError` |
| the consumer group (external) | `Assign`, `Rebalance`, `Crash`, `Restart` |

`owner` and `position` are the group's assignment and the owner's fetch position; a consumer that lost
its partition keeps executing its call with the record it holds, because no rebalance callback stops
it. A commit of a former owner may be refused or – if it has rejoined – taken. Every call with an
outside effect can fail with the effect or without it.

**OrderDelivery** – the promise of a consumer group, without consumers: records are acknowledged in
order and only when handled; a handled record may be withdrawn only while no acknowledged record relies
on it. `DeliverySpec` is the refinement: `done` is the completed events, `dead` the dead-lettered
records, `acked` the committed offsets.

**SqsOrderConsumer** – one action per call of `process_one`, the queue's timeouts and redrive, stale
receipt handles (`handle[w] # receives[m]`). A message is `"unsent"` until some publisher sends it.

**ConsumerControls** – the pause rows: `initialize`, `set_paused`, `is_paused`, each one committed
transaction.

**SqsLab** – the SQS half of the local lab composed: `create_order` over the SQS publisher, the queue and
its workers (`SqsOrderConsumer`), the loop of `run_sqs_worker`, the dashboard's pause and resume.
`loop[w]` is where the worker is in its loop: at `is_paused`, in `process_one`, or not running.

| Code | Model |
|---|---|
| `is_paused`, then `process_one` or half a second of waiting (`consumer_worker.py` 92–96) | `Check`, `Wait` |
| `process_one` goes on, returns, raises (96–103) | `CallGoesOn`, `CallEnds` |
| signal, kill, `is_paused` raising; the container's restart | `Exit`, `Start` |
| `SendMessage`, sent again by boto3 when unanswered | `Deliver`, any number of messages with one body |
| 202, 503 (`http_api.py` 101–114) | `Accept` (some send reached the queue), `Refuse` (at any time) |
| `change_consumer_state` | `ChangeControl`; `ChangeFails`, before or after the COMMIT |
| `controls.initialize()` of every process that starts | in `Start` for the workers, `StartOther` for lab-init, the dashboard, the Kafka worker |

`confirmed` and `late` are history: what the last click was answered, and how many messages each worker
has received since. The lab starts without control rows; whichever process starts first inserts them. Every
step of the lab is written as a step of `SqsOrderConsumer` beside the lab's own state, so the queue's
invariants carry over. The lab-wide fairness differs, so the liveness properties are checked again there.

`docs/local-lab.md:83` shows "Consumer: paused · message will wait" after a pause. That holds for a message
sent once the long poll of each worker that was open at the pause has ended: the flag is read before the
poll of two seconds and not during it, and a poll still finds a message that is sent meanwhile. The model
follows the code, and `PauseLetsOneThrough` says exactly how much that is: one message for each worker.

**OrderContract** – the contract as its four statements in the code: request model, event model, schema,
table. An order is what they can tell apart: three kinds of customer id, the amount in thousandths, three
kinds of currency. `SchemaAccepts` takes a currency with a final line feed, because Python's `$` matches
before one; the two pydantic models do not. `Cents` is the rounding of `NUMERIC(18, 2)`.

**OrderApi** – requests over the shared Kafka producer. `order[r]` is the body, `record[r]` the record
inside librdkafka, `report[r]` what `on_delivery` wrote. Any thread in `flush` may serve any report. A body
the request model refuses is answered 422; one that only the event model or the schema refuses would
raise in the handler (500). `produce` refuses a record when the queue is full, or for any other reason of the
client's (`ProduceRefused`).

**KafkaTopicAdmin** – `create_topic` and `delete_topic` for any number of callers. `exists` is what the
controller knows, `listed` what the metadata says; `Propagate` lets the second follow the first, and a new
topic is listed before all its partitions are. A request may time out with its effect or without it, and
every wait may reach its deadline.

**LabProvisioning** – `initialize_lab` as a program over the items of `Plan`, run by any number of
processes, each of which may die anywhere and be run again, and the integration tests' topic fixture as the
caller that deletes. `CREATE ... IF NOT EXISTS` is two steps, `ReadSchema` and `CommitSchema`: between them
another transaction may create the same thing, and the second collides. `clean[i]` is history: the lab was
complete when this process started. The tests start a broker of their own; one broker for fixtures and
initialisers only adds interleavings.

Operators under a "Mutant of" comment are never used by the specifications: each is a
plausible mistake in the definition it varies, and the property it is paired with in `PROJECT.json`
fails under it.

## 3. Runs

| Run | Instance | Question and answer |
|---|---|---|
| `KafkaStopOnError` | 2 consumers, 2 partitions, one event in both, a poison record between two orders and a duplicate, no dead-letter topic, 2 faults, 1 rebalance | offsets, order, notification, one fresh result, `DeliverySpec`; what precedes the poison record is handled in the end, and nothing passes it: **hold** |
| `KafkaDeadLetter` | poison record, two orders with one order id, retries, 2 faults, no rebalance | the above with dead-lettering; no partial state; attempts counted right; all acknowledged: **hold** |
| `KafkaWorkerSkips` | 1 consumer that goes on after an exception, 1 fault | `AcknowledgedMeansHandled`: **violated**, finding 1 |
| `KafkaDiscardsCompleted` | an event published twice, 1 fault | `AcknowledgedOrderStays`: **violated**, finding 2 |
| `SqsQueue` | 2 workers, 3 messages (two exclusive orders, one poison), 3 receives, 1 fault | **hold** |
| `SqsLab` | 2 workers, one request that leaves two messages, 2 receives; deaths, clicks and failing clicks without bound | pauses last and let one message through; a 202 order is never lost, although its messages are duplicates; messages settle and 202 orders end when the workers run: **hold** |
| `StoreTransactions` | 2 sessions, 2 events with one order id, 1 failing connection, no overlapping discard | atomicity and table invariants: **hold** |
| `StoreOverlappingCalls` | 3 sessions, 1 event, everything overlaps | the status read is current; no session waits forever: **hold** |
| `StoreDiscardOverlaps` | 2 sessions, overlapping discard | `OrderHasMarker`: **violated**, finding 3 |
| `OrderApiRequests` | 3 requests, 4 sets of bodies, a queue of 2, 2 faults | 202 means published; a valid request does not fail; what is published can be stored but for three cases; all are answered: **hold** |
| `OrderApiSharedFlush` | 2 requests, no fault | `RefusedMeansUnacknowledged`: **violated**, finding 4 |
| `Provisioning` | 2 initialisers, 1 fixture, the 7 items of the lab, 1 fault | complete when done, idempotent, succeeds in the end; a test owns its topic: **hold** |

Bounds, and why they are enough:

* `MaxFaults` bounds crashes and failing calls together. Two faults give a crash or a lost response
  during the recovery from another one; the retry loop (`MaxAttempts = 2`) is exhausted by two.
* `MaxRebalances` bounds reassignments away from a *live* owner. One is enough for a former owner to
  work beside its successor on every call of `process_one`.
* Logs of two to five records hold a duplicate, a poison record and a successor of each; two
  partitions let the same event be processed by two consumers at once.
* The two sessions of `StoreTransactions` cover pairwise conflicts; three sessions on one event cover
  a lock passed on among waiters.
* `MaxReceives = 3` is the code's own value; `SqsLab` takes 2, enough for a redelivery and a redrive. Its
  two workers and two messages are the least for a duplicate receive beside a long poll of the other. Deaths,
  restarts and clicks need no bound: they leave the state finite. `MaxFaults = 0` there takes no behaviour
  of the tables or the queue away: a database call that fails before or after its COMMIT leaves what a call that
  ends (`CallEnds`) just before or after it leaves. `SqsQueue` has the failing calls, and the poison message.
* `CentsLimit = 30000` stands for 10^18, which TLC's integers do not hold; the bodies lie on both sides of
  every boundary (half a cent, both halves of the rounding, the limit, zero), and the theorems hold for any
  limit and any amount.
* `MaxFaults = 1` in `Provisioning` counts requests that time out and deaths; missed deadlines and collisions
  are not counted and happen any number of times. One fault leaves a topic nobody knows of behind a failed
  run, whose rerun meets the other initialiser.
* In the API run the queue is shorter than the number of
  requests, so that `BufferError` happens.
* No run uses symmetry (most check liveness). `CHECK_DEADLOCK FALSE` appears only in the API runs, where
  all requests have been answered in the end.

Findings:

1. `local_lab/consumer_worker.py:61` – the worker keeps its consumer after an exception. The client's
   position is past the failed record, so the next commit covers it.
2. `kafka_order_consumer.py:241` – `discard` does not look at the status: a failing redelivery of a
   completed event deletes the order. (The same happens between two consumers when a rebalance leaves a
   former owner at work with a dead-letter topic configured; therefore `KafkaDeadLetter` has no rebalance.)
3. `postgres_order_store.py:198` – a `store` that commits between discard's two statements leaves an
   order without a marker.
4. `event_publishers.py:203` – `flush` counts the records of all threads, so a request whose event was
   acknowledged can be refused with 503.

## 4. Fairness

* Consumers: weak fairness of `Restart` (compose restarts the container) and of `ProcessOne` (a live
  process goes on). `ProcessOne` contains no fault, so faults never have to happen, and they are bounded:
  `EventuallyHandled` speaks of what follows when they have come to an end. Weak fairness of assigning a
  free partition is the group coordinator's job.
* SQS: workers poll, visibility timeouts expire, the queue redrives. Crashes of workers are unbounded;
  the receive count bounds the work.
* SQS lab: workers are restarted (weak fairness of `Start`; compose), timeouts and redrive as above. Strong
  fairness of `Check` and `CallGoesOn`: a worker that dies and restarts again and again, or polls again and
  again, still gets on in some of its lives – a long poll does not miss a visible message for ever, and the
  process does not die each time before it has done anything. The lab's liveness properties are conditional
  on the consumers not being paused for good.
* Provisioning: an initialiser that runs goes on, and the metadata follows the controller. A failed one is
  started again: compose has `restart: "no"` for `lab-init`, so this assumes that somebody runs it again
  (`docker compose up`), and `EventuallyProvisioned` says only that reruns lead there.
* Transactions: strong fairness of a session's statements. A waiter in PostgreSQL queues for its lock and
  gets it when its turn comes, even if others take the same lock again and again.
* API (`OrderApi`): weak fairness of the request threads only. `flush` has a timeout, so a silent broker is allowed.

## 5. Proofs

"–" stands for the constants' own assumptions only. Theorems in *italics* state no property of a run.

| Theorem | Statement | Assumes |
|---|---|---|
| **Kafka consumer group** | | |
| `TypeCorrect` | `Spec => []TypeOK` | – |
| `OffsetsCoverHandledRecords` | `Spec => []AcknowledgedMeansHandled` | `SafeMode` |
| `PartitionsAreHandledInOrder` | `Spec => []EarlierRecordsHandled` | `SafeMode` |
| `AcknowledgedOrdersStay` | `Spec => AcknowledgedOrderStays` | `SafeMode` |
| `ConsumersKeepThePromise` | `Spec => DeliverySpec` (refinement of `OrderDelivery`) | `SafeMode` |
| `CompletionFollowsNotification` | `Spec => []CompletedMeansNotified` | – |
| `DeadLettersAreRetriedFirst` | `Spec => []DeadLetterAfterRetries` | – |
| `NothingIsLeftPending` | `Spec => []PendingIsUnderWay` | `SafeMode` |
| `OneResultIsFresh` | `Spec => []OneFreshResult` | `HasDeadLetter => SafeMode` |
| *`OffsetsNeverMoveBack`* | no step lowers a committed offset | `SafeMode`, `MaxRebalances = 0` |
| *`DiscardsAreAlone`* | `Spec => []AloneToDiscard` | `HasDeadLetter => SafeMode` |
| *`RowsStayTogether`* | `Spec => [](AloneToDiscard /\ OrderHasMarker /\ OrderIdsDistinct)` | `HasDeadLetter => SafeMode` |
| *`AcknowledgedOrdersAreDelivered`* | `Spec => []AcknowledgedMeansDelivered` | `SafeMode` |
| **Store** | | |
| *`StoreRowsFit`* | `StoreSpec => [](OrderHasMarker /\ OrderIdsDistinct)` | atomic calls, as `StoreSpec` has them |
| `TypeCorrect` | `Spec => []TypeOK` (transactions) | – |
| `ReadStaysCurrent` | `Spec => []ReadIsCurrent` | – |
| `OrderKeysHold` | `Spec => []OrderIdsDistinct` | – |
| *`LockWaitsNeverCycle`* | `Spec => [](WaitsAscend /\ SomeTransactionRuns)` | – |
| `RowsTogether` | `Spec => []OrderHasMarker` | `~DiscardsOverlap` |
| `TransactionsAreAtomic` | `Spec => AtomicStore` (refinement of `PostgresOrderStore`) | `~DiscardsOverlap` |
| **SQS** | | |
| `QueueTypeCorrect` | `Spec => []TypeOK` | – |
| `DeletedOrdersAreComplete` | `Spec => []DeletedMeansCompleted` | – |
| `PendingOrdersKeepAMessage` | `Spec => []PendingHasMessage` | – |
| *`WorkersUseTheStore`* | `Spec => StoreSpec` | – |
| *`OrdersAreNeverTakenBack`* | no step removes an order or a completion | – |
| *`DeletedOrdersAreStored`* | `Spec => []DeletedMeansStored` | – |
| **SQS lab** | | |
| `AcceptedOrdersAreKept` | `LabSpec => []AcceptedOrderIsKept` | – |
| `ConfirmedPausesStay` | `LabSpec => []ConfirmedPauseStays` | – |
| `PausesLetOneThrough` | `LabSpec => []PauseLetsOneThrough` | – |
| `LabTypeCorrect` | `LabSpec => []LabTypeOK` | – |
| **API** | | |
| `AcceptedOrdersArePublished` | `Spec => []AcceptedMeansPublished` | – |
| `ApiTypeCorrect` | `Spec => []TypeOK` | – |
| `ValidRequestsNeverFail` | `Spec => []ValidRequestsDoNotFail` | – |
| `PublishedOrdersAreStorable` | `Spec => []PublishedOrdersCanBeStored` | – |
| **Provisioning** | | |
| `ProvisioningTypeCorrect` | `ProvisioningSpec => []ProvisioningTypeOK` | – |
| `InitializedLabsAreComplete` | `ProvisioningSpec => []InitializedMeansProvisioned` | – |
| `RerunsFailOnlyByFault` | `ProvisioningSpec => RerunFailsOnlyByFault` | – |
| `FixturesOwnTheirTopics` | `ProvisioningSpec => []FixtureOwnsItsTopic` | – |

`SafeMode` excludes what findings 1 and 2 show to be wrong: the consumer is closed after an exception,
and with a dead-letter topic no partition is taken from a live owner and no event is in the log twice.
Without it properties that assume it can fail, as those two violation runs show. `~DiscardsOverlap` excludes
finding 3 in the same way.

How the theorems fit together. The consumer models take `store`, `mark_completed` and `discard` as atomic
steps. The SQL statements implement these steps while no discard overlaps a call for its event
(`TransactionsAreAtomic`); the SQS workers never discard, and the Kafka consumers discard alone when they have
no dead-letter topic or are in a safe configuration (`DiscardsAreAlone`). There the rows of an order stay
together (`RowsStayTogether`; `WorkersUseTheStore` for SQS). In the remaining configurations the code's discard
is not atomic (finding 3) and nothing is claimed of the rows; the theorems that need no assumption,
`TypeCorrect`, `CompletionFollowsNotification` and `DeadLettersAreRetriedFirst`, take the three calls as
atomic there.
`AcknowledgedOrdersAreDelivered` puts offsets, tables and notifications into one statement: an
acknowledged record that is not dead-lettered has its order in the table, and the service accepted it.

The Kafka argument. `AcknowledgedMeansHandled` is not inductive: a commit preserves it only if the record
and all earlier ones of its partition are handled. `DeliveryInv` adds why they are. `CommitHandled`: a
consumer about to commit has handled its record. `EarlierRecordsHandled`: and the ones before it, because
(`FetchedHandled`) whatever the owner has fetched is handled or in its hands – a fetch starts at the
committed offset and goes one record at a time, and an exception gives the partition back. Completions
are taken back by `discard` alone; `NoGiveUp` says that there is none without a dead-letter topic, and
`Exclusive` that with one (and no rebalances) only the partition's owner holds a record, which is not
committed yet. `TypeInv` strengthens `TypeOK` by what the locals are at each `pc`. The steps are grouped
by what they do to the group (`WithinCall`, `LeavingCall`, `CommitCall`, `ReceiveCall`, `AssignStep`), so
that each conjunct is argued once. `DeliveryInv` was also checked by TLC on the instances of
`KafkaStopOnError` and `KafkaDeadLetter`, and so were the invariants below.

Its consequences for steps. `EffectOfStep` lists the five calls by which a step changes tables, dead letters
or offsets (`Effect`); a property of steps is then an argument about five cases. Only a discard deletes an
order, and the record it discards is not acknowledged (`DiscardIsUnacknowledged`): hence
`AcknowledgedOrderStays`. For the refinement of `OrderDelivery`, each effect is one of its actions or leaves
`done`, `dead` and `acked` alone (`EffectIsPromised`).

The effects hold in every configuration, those of the findings included. A notification survives
until `mark_completed` in the program counter (`MarkNotified`), although the event may be completed,
discarded or stored again by another consumer in between. A dead letter is written two calls after the last
attempt, so `GivenUp` keeps exception and attempt count from the last `Raise`, or the failed parse, on.

Nothing is left pending. `PendingIsUnderWay` counts a consumer at work as well as a record to be delivered;
what is inductive is stronger: a pending event has a record that is *not committed* (`PendingUncommitted`),
for no commit moves past one (`CommitsNoPending`): at `commit` the event is completed or discarded
(`LateNotPending`), and with a dead-letter topic a partition's position is its committed offset, or one
ahead while its owner works on that record (`InStep`). The event became pending under a worker whose record
was not committed either (`UnfinishedUncommitted`).

One fresh result. A call with `isNew = "new"` and no error is going to report a new order: it holds the claim
of its event (`Claims`). `ClaimsHeld`: while somebody holds the claim, or after it was reported, the event
has its row, so nobody else can claim it. Only a discard could remove the row, and then the claim is
neither held (`OneWorker`) nor reported, because a reported event is acknowledged (`FreshAcknowledged`). Without
a dead-letter topic there is no discard, and the argument needs nothing of the group.

The transaction argument. `LockInv` holds whatever overlaps: what a session has buffered is what the
statements before its `pc` wrote (`BufferOf`); two sessions never hold the same row of `processed_events`
nor the same order key (`MarkerLocked`, `OrderKeyLocked`); and what is buffered still fits the committed
rows (`MarkerWriteFits`, `OrderWriteFits`), because whoever would change those needs the same lock. `AloneInv`
adds, for discards that do not overlap, that both rows are there or neither (`DiscardAlone`, `OrderHasMarker`):
that is what makes its two DELETEs one step. Every step but a COMMIT is a stutter of the atomic store, and
a COMMIT is the action its buffer describes (`CommitIsAtomic`). `WaitsFor` is the wait graph of the locks:
a session that waits for nobody passes the guard of its statement (`WaitingIsTheGuard`), and waits ascend
in `Rank`, so the furthest session always goes on.

The SQS argument. No worker discards, so a completed event stays completed (`CompletedStays`); `HeldOK`
says that a worker at `delete` holds a completed event. A pending event then keeps a message because a
deleted one would make it completed. The same absence of discards gives `OrdersAreNeverTakenBack`, and with
the rows together (`RowsKept`) a deleted message has its order in the table.

The lab argument. A step of the lab is a step of the queue or leaves it alone (`LabStepIsQueueStep`), so
`DeletedMeansCompleted` holds in the lab. `AcceptedOrderIsKept` follows from it and `AcceptedMeansSent`: a 202
is given only after some message of the order was sent, what is sent stays sent (`SentStaysSent`), and a message
that is neither in the queue nor dead-lettered was deleted by a worker at `delete`, whose event is completed.
`PauseLetsOneThrough` needs `LateOnce`: a worker that has received since the pause is not in a long poll any
more, for every receive is followed by a look at the control, which is paused while the pause is confirmed
(`ConfirmedPauseStays`).

The API argument. A positive report, served or not, is about a record in the topic
(`ReportedMeansPublished`), whichever thread serves it. A body that is produced is `Publishable`;
`RequestsAreEvents` and `PublishableIsStored` are facts of the contract alone, the second by the
arithmetic of rounding (`CentsNearest`).

The provisioning argument. Only fixtures delete, and only their own topics, so what an initialiser has found
or made stays (`Progress`: every item before `step` is provided; a returned create is listed). A complete
lab thus stays complete while a rerun is under way (`CleanInv`), and the rerun never creates a topic
nor collides. A fixture's name is nobody else's, so its topic and the metadata move through one cycle
(`FixtureState`).

Only model-checked: liveness – `EventuallyHandled`, `EventuallyAcknowledged`, `EventuallySettled`,
`RunningSettles`, `AcceptedOrdersEnd`, `CallsEnd`, `EveryRequestAnswered`, `EventuallyProvisioned` – because
the proof system has neither `ENABLED` nor fairness here. `LockWaitsNeverCycle` is the part of `CallsEnd`
that can be proved: nobody waits in a ring; that each waiter's turn comes is the fairness.

## 6. Not modelled

* Message formats, headers, keys and validation messages; the broker's replication; clock values; the
  HTTP attempts inside `notify`.
* The read-only queries, views and endpoints; the dashboard page; configuration; the test harness, but for
  the topic fixture.
* In the consumer models `initialize` is an initial state: compose starts the workers after `lab-init`.
  For the same reason an existing queue with attributes of its own is not modelled.
* `auto.offset.reset = "latest"`, which `ConsumerSettings` allows and nothing in the repository's application
  uses: a group without a committed offset starts at the first record.
* Amounts that are not finite, and JSON numbers with more than three decimals.
* Two clicks on the dashboard at the same time, for which "confirmed" has no single answer.
* The pause of the Kafka worker: a paused worker is one that does not poll, which `KafkaOrderConsumer` allows
  at any time (its loss of partitions is `Rebalance`).
* A database error that repeats for ever (an amount that rounds to 0.00) is, in the consumer models, not
  distinguished from an order id conflict; which orders meet it is `PublishedOrdersCanBeStored`.
* How often the downstream service is notified of one event: `docs/decisions.md:332` lets a pending duplicate
  repeat the call, and `notified` is a set.
* Starvation beside a poison record: without a dead-letter topic the exception closes the consumer of all its
  partitions, and if poll always returns the poison record first, an order in *another* partition of the
  same consumer is never reached. The model allows it; no document promises otherwise.
* Loss of messages inside the queue service.

## 7. Plan

Done: the store, the consumer group and its promise, SQS, transactions, the publishers, the contract, the
lab around the SQS workers, topic administration and provisioning; theorems for all safety properties. Left:

1. The HTTP attempts of `notify` as steps of their own.
2. The safety half of the liveness properties: a measure of the calls `process_one` has left (attempts, `pc`)
   that every step of a consumer without a fault lowers, and of the receives a message has left.
