-------------------------------- MODULE OrderApi --------------------------------
(***************************************************************************)
(* POST /orders (order_api/http_api.py) over the Kafka publisher           *)
(* (messaging/event_publishers.py).  FastAPI runs each request on a thread *)
(* of its own; all of them share one librdkafka producer, whose queue and  *)
(* delivery reports belong to nobody: flush waits for the records of every *)
(* thread, and serves the callbacks of every thread.                       *)
(*                                                                         *)
(* A request stands for the event it publishes: the order id and the event *)
(* id are made afresh for each.  order[r] is its body (OrderContract).     *)
(***************************************************************************)
EXTENDS OrderContract, FiniteSets

CONSTANTS
    Requests,
    Bodies,         \* the assignments of bodies to requests that are examined
    QueueLimit,     \* records the producer's queue takes (queue.buffering.max)
    MaxFaults       \* bound on refused and expired records and on crashes

ASSUME OrderApiAssumption ==
    /\ Bodies \subseteq [Requests -> Order]
    /\ QueueLimit \in Nat \ {0}
    /\ MaxFaults \in Nat

VARIABLES
    order,      \* the body of each request
    pc,         \* the call create_order makes next
    record,     \* the event's record in the producer; a report is "delivered" or
                \*     "failed" until some flush serves it
    report,     \* what on_delivery has put down for the request
    topic,      \* events in the order topic
    response,   \* HTTP status of the answer
    faults

vars == <<order, pc, record, report, topic, response, faults>>

TypeOK ==
    /\ order \in Bodies
    /\ pc \in [Requests -> {"produce", "flush", "done"}]
    /\ record \in [Requests -> {"none", "queued", "delivered", "failed"}]
    /\ report \in [Requests -> {"none", "delivered", "failed"}]
    /\ topic \in SUBSET Requests
    /\ response \in [Requests -> {"none", "202", "422", "500", "503", "reset"}]
    /\ faults \in 0 .. MaxFaults
    \* An answer ends its request.
    /\ \A r \in Requests : response[r] # "none" <=> pc[r] = "done"

Init ==
    /\ order \in Bodies
    /\ pc = [r \in Requests |-> "produce"]
    /\ record = [r \in Requests |-> "none"]
    /\ report = [r \in Requests |-> "none"]
    /\ topic = {}
    /\ response = [r \in Requests |-> "none"]
    /\ faults = 0

Fault == faults < MaxFaults /\ faults' = faults + 1

\* What Producer.flush counts: records on their way and reports not yet served.
Outstanding == {r \in Requests : record[r] # "none"}

Respond(r, status) ==
    /\ pc' = [pc EXCEPT ![r] = "done"]
    /\ response' = [response EXCEPT ![r] = status]

\* The request is refused by its model; a body that only the event model or the
\* schema refuses raises in the handler.
Reject(r) ==
    /\ pc[r] = "produce"
    /\ ~Publishable(order[r])
    /\ Respond(r, IF RequestAccepts(order[r]) THEN "500" ELSE "422")
    /\ UNCHANGED <<order, record, report, topic, faults>>

(***************************************************************************)
(* publish_order_created.                                                  *)
(***************************************************************************)

Produce(r) ==
    /\ pc[r] = "produce"
    /\ Publishable(order[r])
    /\ Cardinality(Outstanding) < QueueLimit
    /\ record' = [record EXCEPT ![r] = "queued"]
    /\ pc' = [pc EXCEPT ![r] = "flush"]
    /\ UNCHANGED <<order, report, topic, response, faults>>

\* Mutant of ProduceRefused: the error is reported, and the thread goes on to flush.
ProduceRefusedStays(r) ==
    /\ pc[r] = "produce"
    /\ Publishable(order[r])
    /\ \/ Cardinality(Outstanding) >= QueueLimit /\ UNCHANGED faults
       \/ Fault
    /\ pc' = [pc EXCEPT ![r] = "flush"]
    /\ response' = [response EXCEPT ![r] = "503"]
    /\ UNCHANGED <<order, record, report, topic>>

\* BufferError: the records of the other threads fill the queue.  Or a KafkaException:
\* the client refuses the record although there is room.
ProduceRefused(r) ==
    /\ pc[r] = "produce"
    /\ Publishable(order[r])
    /\ \/ Cardinality(Outstanding) >= QueueLimit /\ UNCHANGED faults
       \/ Fault
    /\ Respond(r, "503")
    /\ UNCHANGED <<order, record, report, topic>>

\* A thread inside flush runs on_delivery for any request's report.
ServeReport(r) ==
    /\ \E t \in Requests : pc[t] = "flush"
    /\ record[r] \in {"delivered", "failed"}
    /\ report' = [report EXCEPT ![r] = record[r]]
    /\ record' = [record EXCEPT ![r] = "none"]
    /\ UNCHANGED <<order, pc, topic, response, faults>>

\* Mutant of FlushEmpty: a flush that leaves nothing behind has delivered.
FlushEmptyAccepts(r) ==
    /\ pc[r] = "flush"
    /\ Outstanding = {}
    /\ Respond(r, "202")
    /\ UNCHANGED <<order, record, report, topic, faults>>

\* flush returns 0, and the request looks at its own reports.
FlushEmpty(r) ==
    /\ pc[r] = "flush"
    /\ Outstanding = {}
    /\ Respond(r, IF report[r] = "delivered" THEN "202" ELSE "503")
    /\ UNCHANGED <<order, record, report, topic, faults>>

\* Mutant of FlushTimeout: flush without a timeout.
FlushTimeoutNever(r) == pc[r] = "flush" /\ Outstanding # {} /\ UNCHANGED vars

\* delivery_timeout_seconds pass with records outstanding, whoever's they are.
FlushTimeout(r) ==
    /\ pc[r] = "flush"
    /\ Outstanding # {}
    /\ Respond(r, "503")
    /\ UNCHANGED <<order, record, report, topic, faults>>

(***************************************************************************)
(* librdkafka and the broker.                                              *)
(***************************************************************************)

\* The broker appends the record; the idempotent producer never appends it twice.
Append(r) ==
    /\ record[r] = "queued"
    /\ topic' = topic \cup {r}
    /\ UNCHANGED <<order, pc, record, report, response, faults>>

Acknowledged(r) ==
    /\ record[r] = "queued"
    /\ r \in topic
    /\ record' = [record EXCEPT ![r] = "delivered"]
    /\ UNCHANGED <<order, pc, report, topic, response, faults>>

\* delivery.timeout.ms: never sent, or sent and its acknowledgement lost.
Expire(r) ==
    /\ record[r] = "queued"
    /\ Fault
    /\ record' = [record EXCEPT ![r] = "failed"]
    /\ UNCHANGED <<order, pc, report, topic, response>>

\* The API process dies with its queue; the requests under way lose their
\* connection.
Crash ==
    /\ Fault
    /\ \E r \in Requests : pc[r] = "flush"
    /\ record' = [r \in Requests |-> "none"]
    /\ pc' = [r \in Requests |-> IF pc[r] = "flush" THEN "done" ELSE pc[r]]
    /\ response' = [r \in Requests |-> IF pc[r] = "flush" THEN "reset" ELSE response[r]]
    /\ UNCHANGED <<order, report, topic>>

CreateOrder(r) ==
    \/ Reject(r)
    \/ Produce(r)
    \/ ProduceRefused(r)
    \/ FlushEmpty(r)
    \/ FlushTimeout(r)

Next ==
    \/ \E r \in Requests :
        \/ CreateOrder(r)
        \/ ServeReport(r)
        \/ Append(r)
        \/ Acknowledged(r)
        \/ Expire(r)
    \/ Crash

Spec == Init /\ [][Next]_vars

\* Threads run, and flush is bounded by its timeout.  Nothing is assumed of the
\* broker: it need not answer.
FairSpec == Spec /\ \A r \in Requests : WF_vars(CreateOrder(r))

(***************************************************************************)
(* Properties.                                                             *)
(***************************************************************************)

\* "an accepted response must mean Kafka acknowledged the record"
\* (docs/decisions.md:254): an order answered with 202 is in the topic, although
\* another thread's flush may have run its delivery callback
\* (event_publishers.py:183-218).
AcceptedMeansPublished ==
    \A r \in Requests : response[r] = "202" => r \in topic

\* The request model, the event model and the schema are written separately
\* (http_api.py:27-29, models.py:36-39, order-created-v1.json:58-73): a body the
\* first lets through never fails the others, which the handler does not catch.
ValidRequestsDoNotFail == \A r \in Requests : response[r] # "500"

\* An order in the topic parses, and the table takes it and changes its amount by
\* half a cent at most, unless the amount is below half a cent or beyond
\* NUMERIC(18, 2), or the customer id holds U+0000: those three the contract lets
\* through and the table refuses (postgres_order_store.py:69-72, 148-156).
PublishedOrdersCanBeStored ==
    \A r \in topic :
        /\ Parses(order[r])
        /\ \/ order[r].amount < 5
           \/ order[r].amount >= 10 * CentsLimit - 5
           \/ order[r].customer = "nul"
           \/ /\ TableAccepts(order[r])
              /\ 10 * Cents(order[r].amount) - order[r].amount \in -5 .. 5

\* Every request is answered or loses its connection, even when the broker is
\* silent and other threads keep the shared queue from draining (197).
EveryRequestAnswered == <>(\A r \in Requests : response[r] # "none")

\* "EventPublishError: If Kafka rejects or does not acknowledge the event"
\* (event_publishers.py:172): a request is refused only while its own event is not
\* acknowledged (197-208).
RefusedMeansUnacknowledged ==
    [][\A r \in Requests :
        response'[r] = "503" /\ response[r] # "503" => report[r] # "delivered"]_vars
=============================================================================
