------------------------- MODULE SqsOrderConsumerProofs -------------------------
(***************************************************************************)
(* Theorems about SqsOrderConsumer: a deleted message's order is complete  *)
(* and stored, for any number of workers, messages and receives.           *)
(***************************************************************************)
EXTENDS SqsOrderConsumer, TLAPS

\* What a worker knows at each call of process_one.
HeldOK ==
    \A w \in Workers :
        /\ pc[w] # "receive" => held[w] \in Messages /\ Body[held[w]] \in Events
        /\ pc[w] = "delete" => Completed(Body[held[w]])

DeletedInv == TypeOK /\ HeldOK /\ DeletedMeansCompleted

LEMMA DeletedInit == Init => DeletedInv
BY SqsAssumption
   DEF Init, StoreInit, DeletedInv, TypeOK, StoreTypeOK, Status, HeldOK,
       DeletedMeansCompleted

\* The steps of the store a worker takes: no discard among them.
StoreStep(e) ==
    \/ ClaimAndInsert(e)
    \/ InsertRefused(e)
    \/ SeenAgain(e)
    \/ MarkCompleted(e)
    \/ MarkRefused(e)
    \/ UNCHANGED storeVars

LEMMA StoreStepTyped ==
  ASSUME StoreTypeOK, NEW e \in Events, StoreStep(e)
  PROVE  StoreTypeOK'
BY DEF StoreTypeOK, Status, StoreStep, ClaimAndInsert, InsertRefused, SeenAgain,
       MarkCompleted, MarkRefused, storeVars

\* Without discard, nothing takes a completion back.
LEMMA CompletedStays ==
  ASSUME StoreTypeOK, NEW e \in Events, StoreStep(e),
         NEW f \in Events, Completed(f)
  PROVE  Completed(f)'
BY DEF StoreTypeOK, Status, Completed, StoreStep, ClaimAndInsert, InsertRefused,
       SeenAgain, MarkCompleted, MarkRefused, storeVars

\* A step of the store that leaves the queue alone, after which the worker is
\* either done or goes on with what HeldOK lets it rely on.
LEMMA StoreStepKeepsInv ==
  ASSUME DeletedInv,
         NEW w \in Workers, pc[w] # "receive",
         NEW e \in Events, e = Body[held[w]], StoreStep(e),
         UNCHANGED queueVars,
         faults' \in 0 .. MaxFaults,
         \/ EndCall(w)
         \/ Goto(w, "mark")
         \/ Goto(w, "delete") /\ Completed(e)'
  PROVE  DeletedInv'
<1>1. held[w] \in Messages /\ Body[held[w]] \in Events
  BY DEF DeletedInv, HeldOK
<1>2. StoreTypeOK'
  BY StoreStepTyped DEF DeletedInv, TypeOK
<1>3. \A f \in Events : Completed(f) => marker'[f] = "completed"
  BY CompletedStays DEF DeletedInv, TypeOK, Completed
<1>4. TypeOK'
  <2>1. 0 \in 0 .. MaxReceives
    BY SqsAssumption
  <2> QED
    BY <1>2, <2>1 DEF DeletedInv, TypeOK, queueVars, EndCall, Goto
<1>5. HeldOK'
  <2> SUFFICES ASSUME NEW v \in Workers
               PROVE  /\ pc'[v] # "receive" =>
                           held'[v] \in Messages /\ Body[held'[v]] \in Events
                      /\ pc'[v] = "delete" => marker'[Body[held'[v]]] = "completed"
    BY DEF HeldOK, Completed
  <2>1. CASE v # w
    <3>1. pc'[v] = pc[v] /\ held'[v] = held[v]
      BY <2>1 DEF DeletedInv, TypeOK, EndCall, Goto
    <3> QED
      BY <3>1, <1>3 DEF DeletedInv, HeldOK, Completed
  <2>2. CASE v = w
    <3>1. CASE EndCall(w)
      BY <2>2, <3>1 DEF DeletedInv, TypeOK, EndCall
    <3>2. CASE Goto(w, "mark")
      BY <2>2, <3>2, <1>1 DEF DeletedInv, TypeOK, Goto
    <3>3. CASE Goto(w, "delete") /\ Completed(e)'
      BY <2>2, <3>3, <1>1 DEF DeletedInv, TypeOK, Completed, Goto
    <3> QED
      BY <3>1, <3>2, <3>3
  <2> QED
    BY <2>1, <2>2
<1>6. DeletedMeansCompleted'
  BY <1>3, SqsAssumption
     DEF DeletedInv, DeletedMeansCompleted, Completed, queueVars
<1> QED
  BY <1>4, <1>5, <1>6 DEF DeletedInv

LEMMA DeletedStep == DeletedInv /\ [Next]_vars => DeletedInv'
<1> SUFFICES ASSUME DeletedInv, [Next]_vars
             PROVE  DeletedInv'
  OBVIOUS
<1>1. ASSUME NEW w \in Workers, NEW m \in Messages, ReceiveValid(w, m)
      PROVE  DeletedInv'
  <2>1. storeVars' = storeVars /\ Body[m] \in Events
    BY <1>1, SqsAssumption DEF ReceiveValid
  <2>2. receives[m] + 1 \in 0 .. MaxReceives
    BY <1>1, SqsAssumption DEF DeletedInv, TypeOK, ReceiveValid, Hand
  <2>3. TypeOK'
    BY <1>1, <2>1, <2>2
       DEF DeletedInv, TypeOK, StoreTypeOK, storeVars, ReceiveValid, Hand
  <2>4. HeldOK'
    BY <1>1, <2>1
       DEF DeletedInv, TypeOK, HeldOK, Completed, storeVars, ReceiveValid
  <2>5. DeletedMeansCompleted'
    BY <1>1, <2>1
       DEF DeletedInv, TypeOK, DeletedMeansCompleted, Completed, storeVars,
           ReceiveValid, Hand
  <2> QED
    BY <2>3, <2>4, <2>5 DEF DeletedInv
<1>2. ASSUME NEW w \in Workers, NEW m \in Messages, ReceiveMalformed(w, m)
      PROVE  DeletedInv'
  <2>1. receives[m] + 1 \in 0 .. MaxReceives
    BY <1>2, SqsAssumption DEF DeletedInv, TypeOK, ReceiveMalformed, Hand
  <2> QED
    BY <1>2, <2>1
       DEF DeletedInv, TypeOK, StoreTypeOK, HeldOK, DeletedMeansCompleted,
           Completed, storeVars, ReceiveMalformed, Hand
<1>3. ASSUME NEW w \in Workers, Store(w)
      PROVE  DeletedInv'
  <2>0. PICK e \in Events : e = Body[held[w]]
    BY <1>3 DEF DeletedInv, HeldOK, Store
  <2>1. /\ pc[w] # "receive"
        /\ StoreStep(e) /\ UNCHANGED queueVars
    BY <1>3, <2>0 DEF DeletedInv, HeldOK, Store, EventOf, StoreStep
  <2>2. faults' \in 0 .. MaxFaults
    BY <1>3, SqsAssumption DEF DeletedInv, TypeOK, Store, Fault
  <2>3. \/ EndCall(w)
        \/ Goto(w, "mark")
        \/ Goto(w, "delete") /\ Completed(e)'
    <3>1. CASE (ClaimAndInsert(e) \/ SeenAgain(e)) /\ Stored(w, e)
      <4>1. CASE DownstreamRequired(e)
        BY <3>1, <4>1 DEF Stored
      <4>2. CASE ~DownstreamRequired(e)
        <5>1. Completed(e)
          BY <4>2 DEF DownstreamRequired, Completed
        <5>2. Completed(e)'
          BY <5>1, <2>1, CompletedStays DEF DeletedInv, TypeOK
        <5> QED
          BY <3>1, <4>2, <5>2 DEF Stored
      <4> QED
        BY <4>1, <4>2
    <3> QED
      BY <1>3, <2>0, <3>1 DEF Store, EventOf
  <2> QED
    BY <2>0, <2>1, <2>2, <2>3, StoreStepKeepsInv
<1>4. ASSUME NEW w \in Workers, Mark(w)
      PROVE  DeletedInv'
  <2>0. PICK e \in Events : e = Body[held[w]]
    BY <1>4 DEF DeletedInv, HeldOK, Mark
  <2>1. /\ pc[w] # "receive"
        /\ StoreStep(e) /\ UNCHANGED queueVars
    BY <1>4, <2>0 DEF DeletedInv, HeldOK, Mark, EventOf, StoreStep
  <2>2. faults' \in 0 .. MaxFaults
    BY <1>4, SqsAssumption DEF DeletedInv, TypeOK, Mark, Fault
  <2>3. MarkCompleted(e) => Completed(e)'
    BY <2>1 DEF DeletedInv, TypeOK, StoreTypeOK, MarkCompleted, Completed
  <2>4. EndCall(w) \/ (Goto(w, "delete") /\ Completed(e)')
    BY <1>4, <2>0, <2>3 DEF Mark, EventOf
  <2> QED
    BY <2>0, <2>1, <2>2, <2>4, StoreStepKeepsInv
<1>5. ASSUME NEW w \in Workers, Delete(w)
      PROVE  DeletedInv'
  <2>1. held[w] \in Messages /\ Body[held[w]] \in Events /\ Completed(Body[held[w]])
    BY <1>5 DEF Delete, DeletedInv, HeldOK
  <2> QED
    BY <1>5, <2>1, SqsAssumption
       DEF DeletedInv, TypeOK, StoreTypeOK, HeldOK, DeletedMeansCompleted,
           Completed, storeVars, Delete, EndCall
<1>6. ASSUME NEW w \in Workers, Crash(w)
      PROVE  DeletedInv'
  BY <1>6, SqsAssumption
     DEF DeletedInv, TypeOK, StoreTypeOK, HeldOK, DeletedMeansCompleted, Completed,
         storeVars, queueVars, Crash, EndCall
<1>7. ASSUME NEW m \in Messages, Send(m) \/ VisibilityTimeout(m) \/ Redrive(m)
      PROVE  DeletedInv'
  BY <1>7
     DEF DeletedInv, TypeOK, StoreTypeOK, HeldOK, DeletedMeansCompleted, Completed,
         storeVars, Send, VisibilityTimeout, Redrive
<1>8. CASE UNCHANGED vars
  BY <1>8
     DEF DeletedInv, TypeOK, StoreTypeOK, HeldOK, DeletedMeansCompleted, Completed,
         vars, storeVars, queueVars
<1> QED
  BY <1>1, <1>2, <1>3, <1>4, <1>5, <1>6, <1>7, <1>8
     DEF Next, ProcessOne, ReceiveNothing

\* "Delete is SQS acknowledgement": no schedule of workers, visibility timeouts,
\* crashes and database faults deletes a message whose order is not complete
\* (sqs_order_consumer.py:49-56).
THEOREM DeletedOrdersAreComplete == Spec => []DeletedMeansCompleted
<1>1. DeletedInv => DeletedMeansCompleted
  BY DEF DeletedInv
<1> QED
  BY DeletedInit, DeletedStep, <1>1, PTL DEF Spec

\* A step changes the tables by one call of the worker that holds a message.
LEMMA StepOfStore ==
  ASSUME DeletedInv, [Next]_vars
  PROVE  \/ UNCHANGED storeVars
         \/ \E w \in Workers :
               /\ pc[w] # "receive" /\ held[w] \in Messages
               /\ Body[held[w]] \in Events /\ StoreStep(Body[held[w]])
<1>1. ASSUME NEW w \in Workers, Store(w) \/ Mark(w)
      PROVE  /\ pc[w] # "receive" /\ held[w] \in Messages
             /\ Body[held[w]] \in Events /\ StoreStep(Body[held[w]])
  BY <1>1 DEF DeletedInv, HeldOK, Store, Mark, EventOf, StoreStep
<1> QED
  BY <1>1
     DEF Next, ProcessOne, ReceiveValid, ReceiveMalformed, ReceiveNothing, Delete,
         Crash, Send, VisibilityTimeout, Redrive, vars, storeVars

\* An event reaches the store through a message that was sent, and a message in a
\* worker's hands was.
StoredHasMessage ==
    /\ \A w \in Workers : pc[w] # "receive" => place[held[w]] # "unsent"
    /\ \A e \in Events : marker[e] # "absent" =>
            \E m \in Messages : Body[m] = e /\ place[m] # "unsent"

LEMMA StoredStep == DeletedInv /\ StoredHasMessage /\ [Next]_vars => StoredHasMessage'
<1> SUFFICES ASSUME DeletedInv, StoredHasMessage, [Next]_vars
             PROVE  StoredHasMessage'
  OBVIOUS
<1>1. \A m \in Messages : place[m] # "unsent" => place'[m] # "unsent"
  BY DEF DeletedInv, TypeOK, Next, ProcessOne, ReceiveValid, ReceiveMalformed, Hand,
         ReceiveNothing, Store, Mark, Delete, Crash, Send, VisibilityTimeout, Redrive,
         queueVars, vars
<1>2. \A w \in Workers : pc'[w] # "receive" => place'[held'[w]] # "unsent"
  <2>1. ASSUME NEW w \in Workers, pc[w] # "receive"
        PROVE  place'[held[w]] # "unsent"
    BY <1>1, <2>1 DEF DeletedInv, HeldOK, StoredHasMessage
  <2>2. ASSUME NEW w \in Workers, NEW m \in Messages, ReceiveValid(w, m)
        PROVE  \A v \in Workers : pc'[v] # "receive" => place'[held'[v]] # "unsent"
    BY <2>1, <2>2 DEF DeletedInv, TypeOK, ReceiveValid, Hand
  <2>3. ASSUME NEW w \in Workers, Store(w) \/ Mark(w) \/ Delete(w) \/ Crash(w)
        PROVE  \A v \in Workers :
                  pc'[v] # "receive" => pc[v] # "receive" /\ held'[v] = held[v]
    BY <2>3
       DEF DeletedInv, TypeOK, Store, Mark, Delete, Crash, Stored, Goto, EndCall
  <2>4. CASE UNCHANGED <<pc, held>>
    BY <2>1, <2>4
  <2> QED
    BY <2>1, <2>2, <2>3, <2>4
       DEF Next, ProcessOne, ReceiveMalformed, ReceiveNothing, Send,
           VisibilityTimeout, Redrive, vars
<1>3. \/ UNCHANGED storeVars
      \/ \E m \in Messages :
            Body[m] \in Events /\ place[m] # "unsent" /\ StoreStep(Body[m])
  BY StepOfStore DEF StoredHasMessage
<1>4. CASE UNCHANGED storeVars
  BY <1>1, <1>2, <1>4 DEF StoredHasMessage, storeVars
<1>5. ASSUME NEW m \in Messages, Body[m] \in Events, place[m] # "unsent",
             StoreStep(Body[m])
      PROVE  StoredHasMessage'
  <2>1. \A e \in Events : e # Body[m] => marker'[e] = marker[e]
    BY <1>5
       DEF DeletedInv, TypeOK, StoreTypeOK, StoreStep, ClaimAndInsert, InsertRefused,
           SeenAgain, MarkCompleted, MarkRefused, storeVars
  <2> QED
    BY <1>1, <1>2, <1>5, <2>1 DEF StoredHasMessage
<1> QED
  BY <1>3, <1>4, <1>5

\* A pending order keeps a message that has not been deleted: what a worker left
\* half done is delivered again or ends in the dead-letter queue
\* (sqs_order_consumer.py:50-56).
THEOREM PendingOrdersKeepAMessage == Spec => []PendingHasMessage
<1>1. Init => StoredHasMessage
  BY DEF Init, StoreInit, StoredHasMessage
<1>2. DeletedInv /\ StoredHasMessage => PendingHasMessage
  BY DEF DeletedInv, DeletedMeansCompleted, StoredHasMessage, PendingHasMessage, Completed
<1> QED
  BY DeletedInit, DeletedStep, StoredStep, <1>1, <1>2, PTL DEF Spec

\* Every variable stays in its type; receives never pass MaxReceives.
THEOREM QueueTypeCorrect == Spec => []TypeOK
<1>1. DeletedInv => TypeOK
  BY DEF DeletedInv
<1> QED
  BY DeletedInit, DeletedStep, <1>1, PTL DEF Spec

(***************************************************************************)
(* The tables under the workers.                                           *)
(***************************************************************************)

\* The workers reach the tables through store and mark_completed only: what they
\* do to them is a behaviour of PostgresOrderStore.
THEOREM WorkersUseTheStore == Spec => StoreSpec
<1>1. Init => StoreInit
  BY DEF Init
<1>2. DeletedInv /\ [Next]_vars => [StoreNext]_storeVars
  BY StepOfStore DEF StoreStep, StoreNext
<1> QED
  BY DeletedInit, DeletedStep, <1>1, <1>2, PTL DEF Spec, StoreSpec

LEMMA RowsKept ==
  ASSUME StoreTypeOK, OrderHasMarker, NEW e \in Events, StoreStep(e)
  PROVE  /\ OrderHasMarker'
         /\ orders \subseteq orders'
         /\ \A f \in Events : Completed(f) => Completed(f)'
<1>1. OrderHasMarker'
  BY DEF StoreTypeOK, OrderHasMarker, StoreStep, ClaimAndInsert, InsertRefused,
         SeenAgain, MarkCompleted, MarkRefused, storeVars
<1>2. orders \subseteq orders'
  BY DEF StoreStep, ClaimAndInsert, InsertRefused, SeenAgain, MarkCompleted,
         MarkRefused, storeVars
<1>3. \A f \in Events : Completed(f) => Completed(f)'
  BY CompletedStays
<1> QED
  BY <1>1, <1>2, <1>3

RowsGrow ==
    /\ orders \subseteq orders'
    /\ \A e \in Events : Completed(e) => Completed(e)'

LEMMA RowsStep ==
  ASSUME DeletedInv, OrderHasMarker, [Next]_vars
  PROVE  OrderHasMarker' /\ RowsGrow
<1>1. CASE UNCHANGED storeVars
  BY <1>1 DEF storeVars, OrderHasMarker, RowsGrow, Completed
<1>2. ASSUME NEW e \in Events, StoreStep(e)
      PROVE  OrderHasMarker' /\ RowsGrow
  BY <1>2, RowsKept DEF DeletedInv, TypeOK, RowsGrow
<1> QED
  BY <1>1, <1>2, StepOfStore

LEMMA RowsInit == Init => OrderHasMarker
  BY DEF Init, StoreInit, OrderHasMarker

\* Nothing a worker does takes back an order or its completion: a message that
\* fails until the queue dead-letters it discards nothing, unlike a record the
\* Kafka consumer gives up (no call of discard in sqs_order_consumer.py:25-56).
THEOREM OrdersAreNeverTakenBack == Spec => [][RowsGrow]_vars
<1>1. DeletedInv /\ OrderHasMarker /\ [Next]_vars => OrderHasMarker' /\ [RowsGrow]_vars
  BY RowsStep
<1> QED
  BY DeletedInit, DeletedStep, RowsInit, <1>1, PTL DEF Spec

\* The order of a deleted message is in the table, not only marked completed: the
\* acknowledgement of the queue implies the row (sqs_order_consumer.py:49-56).
DeletedMeansStored ==
    \A m \in Messages : place[m] = "deleted" => Body[m] \in orders

\* ... for any number of workers, messages, receives and faults.
THEOREM DeletedOrdersAreStored == Spec => []DeletedMeansStored
<1>1. DeletedInv /\ OrderHasMarker /\ [Next]_vars => OrderHasMarker'
  BY RowsStep
<1>2. DeletedInv /\ OrderHasMarker => DeletedMeansStored
  BY DEF DeletedInv, DeletedMeansCompleted, OrderHasMarker, Completed, DeletedMeansStored
<1> QED
  BY DeletedInit, DeletedStep, RowsInit, <1>1, <1>2, PTL DEF Spec
=============================================================================
