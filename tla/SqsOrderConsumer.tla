---------------------------- MODULE SqsOrderConsumer ----------------------------
(***************************************************************************)
(* The workers of the order queue (order_processing/sqs_order_consumer.py) *)
(* against a standard SQS queue with a redrive policy                      *)
(* (local_lab/resource_setup.py) and one PostgreSQL store.                 *)
(*                                                                         *)
(* Receiving a message hides it until its visibility timeout, which knows  *)
(* nothing of the worker: a slow worker and its successor may both hold    *)
(* the message.  Deleting it is the acknowledgement.  An exception is not  *)
(* handled at all; the message comes back, and after MaxReceives receives  *)
(* the queue moves it to the dead-letter queue.                            *)
(*                                                                         *)
(* A message is one SendMessage that reached the queue.  Several may carry  *)
(* the same event: the client sends again when an answer is lost.          *)
(***************************************************************************)
EXTENDS PostgresOrderStore

CONSTANTS
    Workers,
    Messages,     \* message ids
    Body,         \* the event a message carries, or Malformed
    Malformed,    \* a body that fails parse_order_created_event
    NoMessage,
    MaxReceives,  \* RedrivePolicy.maxReceiveCount
    MaxFaults     \* bound on failing database calls

ASSUME SqsAssumption ==
    /\ Malformed \notin Events
    /\ Body \in [Messages -> Events \cup {Malformed}]
    /\ NoMessage \notin Messages
    /\ MaxReceives \in Nat \ {0}
    /\ MaxFaults \in Nat

VARIABLES
    place,        \* per message: where it is; "dead" is the dead-letter queue
    receives,     \* per message: ApproximateReceiveCount
    pc,           \* the call process_one makes next
    held,         \* the message process_one works on
    handle,       \* receive count of its receipt handle
    faults

queueVars == <<place, receives>>
vars == <<storeVars, queueVars, pc, held, handle, faults>>

TypeOK ==
    /\ StoreTypeOK
    /\ place \in [Messages -> {"unsent", "visible", "inflight", "deleted", "dead"}]
    /\ receives \in [Messages -> 0 .. MaxReceives]
    /\ pc \in [Workers -> {"receive", "store", "mark", "delete"}]
    /\ held \in [Workers -> Messages \cup {NoMessage}]
    /\ handle \in [Workers -> 0 .. MaxReceives]
    /\ faults \in 0 .. MaxFaults

Init ==
    /\ StoreInit
    /\ place = [m \in Messages |-> "unsent"]
    /\ receives = [m \in Messages |-> 0]
    /\ pc = [w \in Workers |-> "receive"]
    /\ held = [w \in Workers |-> NoMessage]
    /\ handle = [w \in Workers |-> 0]
    /\ faults = 0

(***************************************************************************)
(* The queue.                                                              *)
(***************************************************************************)

\* SendMessage reaches the queue, whether or not its sender hears of it.
Send(m) ==
    /\ place[m] = "unsent"
    /\ place' = [place EXCEPT ![m] = "visible"]
    /\ UNCHANGED <<storeVars, receives, pc, held, handle, faults>>

\* The visibility timeout of a received message runs out.
VisibilityTimeout(m) ==
    /\ place[m] = "inflight"
    /\ place' = [place EXCEPT ![m] = "visible"]
    /\ UNCHANGED <<storeVars, receives, pc, held, handle, faults>>

\* Mutant of Redrive: the queue is created without its RedrivePolicy.
RedriveNever(m) ==
    /\ place[m] = "visible"
    /\ receives[m] = MaxReceives
    /\ UNCHANGED vars

\* The queue refuses one receive more and moves the message away.
Redrive(m) ==
    /\ place[m] = "visible"
    /\ receives[m] = MaxReceives
    /\ place' = [place EXCEPT ![m] = "dead"]
    /\ UNCHANGED <<storeVars, receives, pc, held, handle, faults>>

(***************************************************************************)
(* process_one.                                                            *)
(***************************************************************************)

EndCall(w) ==
    /\ pc' = [pc EXCEPT ![w] = "receive"]
    /\ held' = [held EXCEPT ![w] = NoMessage]
    /\ handle' = [handle EXCEPT ![w] = 0]

Goto(w, label) ==
    /\ pc' = [pc EXCEPT ![w] = label]
    /\ UNCHANGED <<held, handle>>

\* Mutant of Hand: one receive too many.
HandOnceMore(m) ==
    /\ place[m] = "visible"
    /\ receives[m] <= MaxReceives
    /\ place' = [place EXCEPT ![m] = "inflight"]
    /\ receives' = [receives EXCEPT ![m] = @ + 1]

\* receive_message makes the message this worker's.
Hand(m) ==
    /\ place[m] = "visible"
    /\ receives[m] < MaxReceives
    /\ place' = [place EXCEPT ![m] = "inflight"]
    /\ receives' = [receives EXCEPT ![m] = @ + 1]

ReceiveValid(w, m) ==
    /\ pc[w] = "receive"
    /\ Body[m] # Malformed
    /\ Hand(m)
    /\ pc' = [pc EXCEPT ![w] = "store"]
    /\ held' = [held EXCEPT ![w] = m]
    /\ handle' = [handle EXCEPT ![w] = receives[m] + 1]
    /\ UNCHANGED <<storeVars, faults>>

\* Mutant of ReceiveMalformed: a body that does not parse is deleted.
ReceiveMalformedDeletes(w, m) ==
    /\ pc[w] = "receive"
    /\ Body[m] = Malformed
    /\ place[m] = "visible"
    /\ place' = [place EXCEPT ![m] = "deleted"]
    /\ UNCHANGED <<storeVars, receives, pc, held, handle, faults>>

\* ContractValidationError: process_one raises, the message stays in flight.
ReceiveMalformed(w, m) ==
    /\ pc[w] = "receive"
    /\ Body[m] = Malformed
    /\ Hand(m)
    /\ UNCHANGED <<storeVars, pc, held, handle, faults>>

\* The long poll ends empty: TimeoutError.
ReceiveNothing(w) ==
    /\ pc[w] = "receive"
    /\ UNCHANGED vars

EventOf(w) == Body[held[w]]

\* Mutant of Stored: the message is deleted before its event is completed.
StoredDeletesFirst(w, e) == Goto(w, "delete")

Stored(w, e) ==
    Goto(w, IF DownstreamRequired(e) THEN "mark" ELSE "delete")

\* A database call fails before its COMMIT, or after it.
Fault == faults < MaxFaults /\ faults' = faults + 1

Store(w) ==
    LET e == EventOf(w) IN
    /\ pc[w] = "store"
    /\ \/ (ClaimAndInsert(e) \/ SeenAgain(e)) /\ Stored(w, e) /\ UNCHANGED faults
       \/ InsertRefused(e) /\ EndCall(w) /\ UNCHANGED faults
       \/ Fault /\ UNCHANGED storeVars /\ EndCall(w)
       \/ Fault /\ ClaimAndInsert(e) /\ EndCall(w)
    /\ UNCHANGED queueVars

Mark(w) ==
    LET e == EventOf(w) IN
    /\ pc[w] = "mark"
    /\ \/ MarkCompleted(e) /\ Goto(w, "delete") /\ UNCHANGED faults
       \/ MarkRefused(e) /\ EndCall(w) /\ UNCHANGED faults
       \/ Fault /\ UNCHANGED storeVars /\ EndCall(w)
       \/ Fault /\ MarkCompleted(e) /\ EndCall(w)
    /\ UNCHANGED queueVars

\* delete_message: the handle of the latest receive deletes the message; with an
\* older one SQS reports success and may or may not delete it.
Delete(w) ==
    LET m == held[w] IN
    /\ pc[w] = "delete"
    /\ EndCall(w)
    /\ \/ /\ place[m] \in {"visible", "inflight"}
          /\ place' = [place EXCEPT ![m] = "deleted"]
       \/ /\ place[m] \in {"deleted", "dead"} \/ handle[w] # receives[m]
          /\ UNCHANGED place
    /\ UNCHANGED <<storeVars, receives, faults>>

\* The process dies and is restarted, or the SQS call fails.
Crash(w) ==
    /\ pc[w] # "receive"
    /\ EndCall(w)
    /\ UNCHANGED <<storeVars, queueVars, faults>>

ProcessOne(w) ==
    \/ \E m \in Messages : ReceiveValid(w, m) \/ ReceiveMalformed(w, m)
    \/ Store(w)
    \/ Mark(w)
    \/ Delete(w)

Next ==
    \/ \E w \in Workers : ProcessOne(w) \/ ReceiveNothing(w) \/ Crash(w)
    \/ \E m \in Messages : Send(m) \/ VisibilityTimeout(m) \/ Redrive(m)

Spec == Init /\ [][Next]_vars

\* Workers keep polling, timeouts expire, and the queue redrives.  Nobody has to
\* send.
Fairness ==
    /\ \A w \in Workers : WF_vars(ProcessOne(w))
    /\ \A m \in Messages : WF_vars(VisibilityTimeout(m)) /\ WF_vars(Redrive(m))

FairSpec == Spec /\ Fairness

(***************************************************************************)
(* Properties.                                                             *)
(***************************************************************************)

\* "Delete is SQS acknowledgement" (docs/decisions.md:394): a deleted message was
\* a valid event whose order is stored and completed, also when a worker deletes
\* with the handle of a receive that has timed out (sqs_order_consumer.py:49-56).
DeletedMeansCompleted ==
    \A m \in Messages : place[m] = "deleted" => Body[m] \in Events /\ Completed(Body[m])

\* An event left pending is not forgotten: a message of it is still in the queue,
\* in a worker's hands, or in the dead-letter queue as evidence.
PendingHasMessage ==
    \A e \in Events : marker[e] = "pending" =>
        \E m \in Messages : Body[m] = e /\ place[m] \notin {"unsent", "deleted"}

\* Every message sent is acknowledged or in the dead-letter queue in the end, however
\* often its workers fail: the receive count is the bound of the retries.
EventuallySettled ==
    <>[](\A m \in Messages : place[m] \in {"unsent", "deleted", "dead"})
=============================================================================
