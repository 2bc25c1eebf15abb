----------------------------- MODULE OrderApiProofs -----------------------------
(***************************************************************************)
(* An accepted order is in the topic, and what is in the topic keeps the   *)
(* contract, for any number of concurrent requests and any orders.         *)
(***************************************************************************)
EXTENDS OrderApi, TLAPS

\* A positive report, served or not, is about a record the broker has.
ReportedMeansPublished ==
    \A r \in Requests :
        report[r] = "delivered" \/ record[r] = "delivered" => r \in topic

AcceptedInv == TypeOK /\ ReportedMeansPublished /\ AcceptedMeansPublished

LEMMA AcceptedInit == Init => AcceptedInv
BY OrderApiAssumption
   DEF Init, AcceptedInv, TypeOK, ReportedMeansPublished, AcceptedMeansPublished

LEMMA AcceptedStep == AcceptedInv /\ [Next]_vars => AcceptedInv'
<1> SUFFICES ASSUME AcceptedInv, [Next]_vars
             PROVE  AcceptedInv'
  OBVIOUS
<1> USE OrderApiAssumption
    DEF AcceptedInv, TypeOK, ReportedMeansPublished, AcceptedMeansPublished
<1>1. CASE Crash
  BY <1>1 DEF Crash, Fault
<1>11. ASSUME NEW r \in Requests, Reject(r)
      PROVE  AcceptedInv'
  BY <1>11 DEF Reject, Respond
<1>2. ASSUME NEW r \in Requests, Produce(r)
      PROVE  AcceptedInv'
  BY <1>2 DEF Produce
<1>3. ASSUME NEW r \in Requests, ProduceRefused(r)
      PROVE  AcceptedInv'
  BY <1>3 DEF ProduceRefused, Respond, Fault
<1>4. ASSUME NEW r \in Requests, FlushEmpty(r)
      PROVE  AcceptedInv'
  BY <1>4 DEF FlushEmpty, Respond
<1>5. ASSUME NEW r \in Requests, FlushTimeout(r)
      PROVE  AcceptedInv'
  BY <1>5 DEF FlushTimeout, Respond
<1>6. ASSUME NEW r \in Requests, ServeReport(r)
      PROVE  AcceptedInv'
  BY <1>6 DEF ServeReport
<1>7. ASSUME NEW r \in Requests, Append(r)
      PROVE  AcceptedInv'
  BY <1>7 DEF Append
<1>8. ASSUME NEW r \in Requests, Acknowledged(r)
      PROVE  AcceptedInv'
  BY <1>8 DEF Acknowledged
<1>9. ASSUME NEW r \in Requests, Expire(r)
      PROVE  AcceptedInv'
  BY <1>9 DEF Expire, Fault
<1>10. CASE UNCHANGED vars
  BY <1>10 DEF vars
<1> QED
  BY <1>1, <1>2, <1>3, <1>4, <1>5, <1>6, <1>7, <1>8, <1>9, <1>10, <1>11
     DEF Next, CreateOrder

\* A 202 is backed by the topic, whoever's flush served the delivery report
\* (http_api.py:101-114, event_publishers.py:183-218).
THEOREM AcceptedOrdersArePublished == Spec => []AcceptedMeansPublished
<1>1. AcceptedInv => AcceptedMeansPublished
  BY DEF AcceptedInv
<1> QED
  BY AcceptedInit, AcceptedStep, <1>1, PTL DEF Spec

THEOREM ApiTypeCorrect == Spec => []TypeOK
<1>1. AcceptedInv => TypeOK
  BY DEF AcceptedInv
<1> QED
  BY AcceptedInit, AcceptedStep, <1>1, PTL DEF Spec

(***************************************************************************)
(* The contract.                                                           *)
(***************************************************************************)

\* The three statements of the contract before the table agree on every request.
LEMMA RequestsAreEvents ==
    ASSUME NEW o \in Order, RequestAccepts(o)
    PROVE  ModelAccepts(o) /\ SchemaAccepts(o)
BY DEF RequestAccepts, ModelAccepts, SchemaAccepts

\* An amount from half a cent up is stored as a positive number of cents, and what
\* rounding changes is half a cent at most.
LEMMA CentsNearest ==
    ASSUME NEW amount \in Int, amount >= 5
    PROVE  /\ Cents(amount) \in Nat \ {0}
           /\ 10 * Cents(amount) - amount \in -5 .. 5
           /\ amount < 10 * CentsLimit - 5 => Cents(amount) < CentsLimit
BY OrderContractAssumption DEF Cents

\* What the table does with an order the schema and both models accept.
LEMMA PublishableIsStored ==
    ASSUME NEW o \in Order, Publishable(o)
    PROVE  \/ o.amount < 5
           \/ o.amount >= 10 * CentsLimit - 5
           \/ o.customer = "nul"
           \/ /\ TableAccepts(o)
              /\ 10 * Cents(o.amount) - o.amount \in -5 .. 5
<1> SUFFICES ASSUME o.amount >= 5, o.amount < 10 * CentsLimit - 5, o.customer # "nul"
             PROVE  TableAccepts(o) /\ 10 * Cents(o.amount) - o.amount \in -5 .. 5
  BY OrderContractAssumption DEF Order
<1>1. o.amount \in Int
  BY DEF Order
<1> QED
  BY <1>1, CentsNearest, OrderContractAssumption DEF TableAccepts

\* What is on its way to the topic, or there, was publishable; no valid request has
\* failed.
ContractInv ==
    /\ AcceptedInv
    /\ \A r \in Requests : record[r] # "none" => Publishable(order[r])
    /\ \A r \in topic : Publishable(order[r])
    /\ ValidRequestsDoNotFail

LEMMA ContractInit == Init => ContractInv
BY AcceptedInit DEF Init, ContractInv, ValidRequestsDoNotFail

LEMMA ContractStep == ContractInv /\ [Next]_vars => ContractInv'
<1> SUFFICES ASSUME ContractInv, [Next]_vars
             PROVE  ContractInv'
  OBVIOUS
<1>0. AcceptedInv'
  BY AcceptedStep DEF ContractInv
<1>o. \A r \in Requests : order[r] \in Order
  BY OrderApiAssumption DEF ContractInv, AcceptedInv, TypeOK
<1> USE <1>0 DEF ContractInv, AcceptedInv, TypeOK, ValidRequestsDoNotFail
<1>1. CASE Crash
  BY <1>1 DEF Crash, Fault
<1>2. ASSUME NEW r \in Requests, Reject(r)
      PROVE  ContractInv'
  BY <1>2, <1>o, RequestsAreEvents DEF Reject, Respond, Publishable
<1>3. ASSUME NEW r \in Requests, Produce(r)
      PROVE  ContractInv'
  BY <1>3 DEF Produce
<1>4. ASSUME NEW r \in Requests, ProduceRefused(r)
      PROVE  ContractInv'
  BY <1>4 DEF ProduceRefused, Respond
<1>5. ASSUME NEW r \in Requests, FlushEmpty(r) \/ FlushTimeout(r)
      PROVE  ContractInv'
  BY <1>5 DEF FlushEmpty, FlushTimeout, Respond
<1>6. ASSUME NEW r \in Requests, ServeReport(r)
      PROVE  ContractInv'
  BY <1>6 DEF ServeReport
<1>7. ASSUME NEW r \in Requests, Append(r)
      PROVE  ContractInv'
  BY <1>7 DEF Append
<1>8. ASSUME NEW r \in Requests, Acknowledged(r)
      PROVE  ContractInv'
  BY <1>8 DEF Acknowledged
<1>9. ASSUME NEW r \in Requests, Expire(r)
      PROVE  ContractInv'
  BY <1>9 DEF Expire, Fault
<1>10. CASE UNCHANGED vars
  BY <1>10 DEF vars
<1> QED
  BY <1>1, <1>2, <1>3, <1>4, <1>5, <1>6, <1>7, <1>8, <1>9, <1>10
     DEF Next, CreateOrder

\* A request the API's model accepts never fails the event model or the schema
\* (http_api.py:27-29, models.py:36-39, validation.py:60-86).
THEOREM ValidRequestsNeverFail == Spec => []ValidRequestsDoNotFail
<1>1. ContractInv => ValidRequestsDoNotFail
  BY DEF ContractInv
<1> QED
  BY ContractInit, ContractStep, <1>1, PTL DEF Spec

\* A published order parses and, outside three cases, is stored with its amount to
\* the nearest cent (postgres_order_store.py:69-72, 148-156), whatever the amount.
THEOREM PublishedOrdersAreStorable == Spec => []PublishedOrdersCanBeStored
<1>1. ContractInv => PublishedOrdersCanBeStored
  <2> SUFFICES ASSUME ContractInv, NEW r \in topic
               PROVE  /\ Parses(order[r])
                      /\ \/ order[r].amount < 5
                         \/ order[r].amount >= 10 * CentsLimit - 5
                         \/ order[r].customer = "nul"
                         \/ /\ TableAccepts(order[r])
                            /\ 10 * Cents(order[r].amount) - order[r].amount \in -5 .. 5
    BY DEF PublishedOrdersCanBeStored
  <2>1. order[r] \in Order /\ Publishable(order[r])
    BY OrderApiAssumption DEF ContractInv, AcceptedInv, TypeOK
  <2>2. Parses(order[r])
    BY <2>1 DEF Publishable, Parses
  <2> QED
    BY <2>1, <2>2, PublishableIsStored
<1> QED
  BY ContractInit, ContractStep, <1>1, PTL DEF Spec
=============================================================================
