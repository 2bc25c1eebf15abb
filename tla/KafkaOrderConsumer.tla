--------------------------- MODULE KafkaOrderConsumer ---------------------------
(***************************************************************************)
(* The consumer group of the order topic                                   *)
(* (order_processing/kafka_order_consumer.py): any number of consumers run *)
(* process_one in a loop against one PostgreSQL store.                     *)
(*                                                                         *)
(* One action is one call process_one makes: poll, store, notify,          *)
(* mark_completed, discard, publish_failure, commit.  Consumers interleave *)
(* between any two calls, die between any two calls, and lose or get back  *)
(* a partition between any two calls: there is no rebalance callback, so   *)
(* librdkafka changes the assignment without asking process_one.           *)
(***************************************************************************)
EXTENDS PostgresOrderStore, Sequences

CONSTANTS
    Consumers,          \* members of the consumer group
    Partitions,         \* partitions of the order topic
    Log,                \* the records of each partition, in offset order
    Malformed,          \* a record value that fails parse_order_created_event
    NoOwner,            \* owner of an unassigned partition
    NoMessage,          \* process_one holds no record
    HasDownstream,      \* a notification client was given
    HasDeadLetter,      \* a dead-letter publisher and topic were given
    ContinueAfterError, \* the caller keeps the consumer after an exception
                        \*   (run_kafka_worker), or closes it (with ... as)
    MaxAttempts,        \* RetryPolicy.max_attempts
    Retryable,          \* RetryPolicy.retryable_errors
    MaxFaults,          \* bound on crashes and failing calls
    MaxRebalances       \* bound on reassignments away from a live owner

\* The exceptions process_one tells apart: a database call that fails, the
\* unique violation of an order id, an unknown event in mark_completed, a
\* DownstreamNotificationError, a contract validation error.
ProcessingErrors == {"database", "conflict", "unknown", "downstream"}
Errors == ProcessingErrors \cup {"invalid"}

ASSUME ConsumerAssumption ==
    /\ Malformed \notin Events
    /\ Log \in [Partitions -> Seq(Events \cup {Malformed})]
    /\ NoOwner \notin Consumers
    /\ HasDownstream \in BOOLEAN
    /\ HasDeadLetter \in BOOLEAN
    /\ ContinueAfterError \in BOOLEAN
    /\ MaxAttempts \in Nat \ {0}
    /\ Retryable \subseteq ProcessingErrors
    /\ MaxFaults \in Nat
    /\ MaxRebalances \in Nat

Offsets(p) == 0 .. Len(Log[p]) - 1
Value(p, o) == Log[p][o + 1]
Messages == {m \in [part : Partitions, off : Nat] : m.off < Len(Log[m.part])}

ASSUME NoMessageAssumption == NoMessage \notin Messages

VARIABLES
    \* the broker's consumer group
    committed,   \* committed offset per partition
    owner,       \* consumer each partition is assigned to
    position,    \* next offset the owner's client fetches
    \* one process_one call per consumer
    pc,          \* the call it makes next
    msg,         \* message
    attempts,    \* attempts
    isNew,       \* initial_is_new: "unset", "new" or "seen"
    error,       \* the exception being dead-lettered
    \* the outside world
    notified,    \* events the downstream service has accepted
    dlq,         \* records in the dead-letter topic
    fresh,       \* per event, results returned with duplicate=False
    \* budgets
    faults, rebalances

groupVars == <<committed, owner, position>>
callVars  == <<msg, attempts, isNew, error>>
worldVars == <<notified, dlq, fresh>>
budgets   == <<faults, rebalances>>
vars == <<storeVars, groupVars, pc, callVars, worldVars, budgets>>

DeadLetters ==
    [part : Partitions, off : Nat, error : Errors, attempts : 1 .. MaxAttempts]

TypeOK ==
    /\ StoreTypeOK
    /\ committed \in [Partitions -> Nat]
    /\ owner \in [Partitions -> Consumers \cup {NoOwner}]
    /\ position \in [Partitions -> Nat]
    /\ pc \in [Consumers -> {"down", "idle", "store", "notify", "mark",
                             "discard", "dlq", "commit"}]
    /\ msg \in [Consumers -> Messages \cup {NoMessage}]
    /\ attempts \in [Consumers -> 0 .. MaxAttempts]
    /\ isNew \in [Consumers -> {"unset", "new", "seen"}]
    /\ error \in [Consumers -> Errors \cup {"none"}]
    /\ notified \in SUBSET Events
    /\ dlq \in SUBSET DeadLetters
    /\ fresh \in [Events -> Nat]
    /\ faults \in 0 .. MaxFaults
    /\ rebalances \in 0 .. MaxRebalances

Busy(c) == pc[c] \notin {"down", "idle"}
EventOf(c) == Value(msg[c].part, msg[c].off)

Init ==
    /\ StoreInit
    /\ committed = [p \in Partitions |-> 0]
    /\ owner = [p \in Partitions |-> NoOwner]
    /\ position = [p \in Partitions |-> 0]
    /\ pc = [c \in Consumers |-> "down"]
    /\ msg = [c \in Consumers |-> NoMessage]
    /\ attempts = [c \in Consumers |-> 0]
    /\ isNew = [c \in Consumers |-> "unset"]
    /\ error = [c \in Consumers |-> "none"]
    /\ notified = {}
    /\ dlq = {}
    /\ fresh = [e \in Events |-> 0]
    /\ faults = 0
    /\ rebalances = 0

NoFault == UNCHANGED faults
Fault == faults < MaxFaults /\ faults' = faults + 1

(***************************************************************************)
(* The consumer group: joining, assignment, loss of a member.              *)
(***************************************************************************)

\* A process starts, or is restarted, and subscribes.
Restart(c) ==
    /\ pc[c] = "down"
    /\ pc' = [pc EXCEPT ![c] = "idle"]
    /\ UNCHANGED <<storeVars, groupVars, callVars, worldVars, budgets>>

\* Mutant of AssignTo: the new owner starts behind the committed offset.
AssignToNextOffset(p, c) ==
    /\ pc[c] # "down"
    /\ owner' = [owner EXCEPT ![p] = c]
    /\ position' = [position EXCEPT ![p] = committed[p] + 1]

\* The group assigns p to c, which fetches from the committed offset, or from the first
\* one while there is none: auto.offset.reset is "earliest" wherever the settings are
\* used; "latest", which they also allow, is not modelled.
AssignTo(p, c) ==
    /\ pc[c] # "down"
    /\ owner' = [owner EXCEPT ![p] = c]
    /\ position' = [position EXCEPT ![p] = committed[p]]

Assign(p, c) ==
    /\ owner[p] = NoOwner
    /\ AssignTo(p, c)
    /\ UNCHANGED <<storeVars, committed, pc, callVars, worldVars, budgets>>

\* The group takes p from a live member; that member may be inside process_one.
Rebalance(p, c) ==
    /\ owner[p] # NoOwner
    /\ rebalances < MaxRebalances
    /\ AssignTo(p, c)
    /\ rebalances' = rebalances + 1
    /\ UNCHANGED <<storeVars, committed, pc, callVars, worldVars, faults>>

LeaveGroup(c) ==
    /\ owner' = [p \in Partitions |-> IF owner[p] = c THEN NoOwner ELSE owner[p]]
    /\ position' = [p \in Partitions |-> IF owner[p] = c THEN 0 ELSE position[p]]

\* process_one returns or raises: its locals are gone.
EndCall(c) ==
    /\ msg' = [msg EXCEPT ![c] = NoMessage]
    /\ attempts' = [attempts EXCEPT ![c] = 0]
    /\ isNew' = [isNew EXCEPT ![c] = "unset"]
    /\ error' = [error EXCEPT ![c] = "none"]

\* The process dies between two calls.
Crash(c) ==
    /\ pc[c] # "down"
    /\ Fault
    /\ EndCall(c)
    /\ LeaveGroup(c)
    /\ pc' = [pc EXCEPT ![c] = "down"]
    /\ UNCHANGED <<storeVars, committed, worldVars, rebalances>>

(***************************************************************************)
(* How a call of process_one ends in an exception, or tries again.         *)
(***************************************************************************)

\* Mutant of Abort: the exception goes past close.
AbortWithoutClose(c) ==
    /\ EndCall(c)
    /\ pc' = [pc EXCEPT ![c] = "down"]
    /\ UNCHANGED <<owner, position>>

\* process_one raises.  The caller goes on with the same client, whose position
\* is already past the record, or closes it and leaves the group.
Abort(c) ==
    /\ EndCall(c)
    /\ IF ContinueAfterError
       THEN /\ pc' = [pc EXCEPT ![c] = "idle"]
            /\ UNCHANGED <<owner, position>>
       ELSE /\ pc' = [pc EXCEPT ![c] = "down"]
            /\ LeaveGroup(c)

\* Mutants of CanRetry: one attempt too many, one too few.
CanRetryOnceMore(c, err) == err \in Retryable /\ attempts[c] <= MaxAttempts
CanRetryOnceLess(c, err) == err \in Retryable /\ attempts[c] + 1 < MaxAttempts

CanRetry(c, err) == err \in Retryable /\ attempts[c] < MaxAttempts

Retry(c) ==
    /\ pc' = [pc EXCEPT ![c] = "store"]
    /\ attempts' = [attempts EXCEPT ![c] = @ + 1]
    /\ UNCHANGED <<msg, isNew, error, owner, position>>

\* Mutant of GiveUp: the rows of the failed event stay.
GiveUpWithoutDiscard(c, err) ==
    /\ pc' = [pc EXCEPT ![c] = "dlq"]
    /\ error' = [error EXCEPT ![c] = err]
    /\ UNCHANGED <<msg, attempts, isNew, owner, position>>

GiveUp(c, err) ==
    /\ pc' = [pc EXCEPT ![c] = "discard"]
    /\ error' = [error EXCEPT ![c] = err]
    /\ UNCHANGED <<msg, attempts, isNew, owner, position>>

\* An effect of the current attempt raised err.
Raise(c, err) ==
    \/ CanRetry(c, err) /\ Retry(c)
    \/ ~CanRetry(c, err) /\ HasDeadLetter /\ GiveUp(c, err)
    \/ ~CanRetry(c, err) /\ ~HasDeadLetter /\ Abort(c)

Goto(c, label) ==
    /\ pc' = [pc EXCEPT ![c] = label]
    /\ UNCHANGED <<owner, position>>

(***************************************************************************)
(* process_one.                                                            *)
(***************************************************************************)

\* poll returns the record at the client's position, which moves past it.
\* attempts counts the attempt under way, so it is 1 from here on.
Fetch(c, p) ==
    /\ pc[c] = "idle"
    /\ owner[p] = c
    /\ position[p] \in Offsets(p)

Receive(c, p, label, err) ==
    /\ pc' = [pc EXCEPT ![c] = label]
    /\ msg' = [msg EXCEPT ![c] = [part |-> p, off |-> position[p]]]
    /\ attempts' = [attempts EXCEPT ![c] = 1]
    /\ error' = [error EXCEPT ![c] = err]
    /\ position' = [position EXCEPT ![p] = @ + 1]
    /\ UNCHANGED <<storeVars, committed, owner, isNew, worldVars, budgets>>

PollValid(c, p) ==
    /\ Fetch(c, p)
    /\ Value(p, position[p]) # Malformed
    /\ Receive(c, p, "store", "none")

\* Mutant of PollMalformed: the record is committed, not dead-lettered.
PollMalformedSkipped(c, p) ==
    /\ Fetch(c, p)
    /\ Value(p, position[p]) = Malformed
    /\ HasDeadLetter
    /\ Receive(c, p, "commit", "invalid")

\* A value that is no order event goes to the dead-letter topic at once.
PollMalformed(c, p) ==
    /\ Fetch(c, p)
    /\ Value(p, position[p]) = Malformed
    /\ HasDeadLetter
    /\ Receive(c, p, "dlq", "invalid")

\* Mutant of PollRefused: the record is ignored.
PollRefusedIgnored(c, p) ==
    /\ Fetch(c, p)
    /\ Value(p, position[p]) = Malformed
    /\ ~HasDeadLetter
    /\ position' = [position EXCEPT ![p] = @ + 1]
    /\ UNCHANGED <<storeVars, committed, owner, pc, callVars, worldVars, budgets>>

\* ... or, without a dead-letter topic, raises.
PollRefused(c, p) ==
    /\ Fetch(c, p)
    /\ Value(p, position[p]) = Malformed
    /\ ~HasDeadLetter
    /\ EndCall(c)
    /\ IF ContinueAfterError
       THEN /\ position' = [position EXCEPT ![p] = @ + 1]
            /\ UNCHANGED <<pc, owner>>
       ELSE /\ pc' = [pc EXCEPT ![c] = "down"]
            /\ LeaveGroup(c)
    /\ UNCHANGED <<storeVars, committed, worldVars, budgets>>

\* No record before the deadline, whether or not one is in the partition:
\* OrderConsumerTimeout, and the caller polls again.
PollTimeout(c) ==
    /\ pc[c] = "idle"
    /\ UNCHANGED vars

\* poll returns an error event instead of a record.
PollError(c) ==
    /\ pc[c] = "idle"
    /\ Fault
    /\ Abort(c)
    /\ UNCHANGED <<storeVars, committed, worldVars, rebalances>>

\* Mutants of Stored: only the consumer that stored the event notifies; an event
\* that is not completed counts as new.
StoredNotifiesIfNew(c, e, seen) ==
    /\ isNew' = [isNew EXCEPT ![c] = IF @ = "unset" THEN seen ELSE @]
    /\ Goto(c, IF ~DownstreamRequired(e) THEN "commit"
               ELSE IF HasDownstream /\ seen = "new" THEN "notify" ELSE "mark")
    /\ UNCHANGED <<msg, attempts, error>>

StoredNewUntilCompleted(c, e, seen) ==
    /\ isNew' = [isNew EXCEPT ![c] = IF DownstreamRequired(e) THEN "new" ELSE "seen"]
    /\ Goto(c, IF ~DownstreamRequired(e) THEN "commit"
               ELSE IF HasDownstream THEN "notify" ELSE "mark")
    /\ UNCHANGED <<msg, attempts, error>>

\* What follows a store call that returned.
Stored(c, e, seen) ==
    /\ isNew' = [isNew EXCEPT ![c] = IF @ = "unset" THEN seen ELSE @]
    /\ Goto(c, IF ~DownstreamRequired(e) THEN "commit"
               ELSE IF HasDownstream THEN "notify" ELSE "mark")
    /\ UNCHANGED <<msg, attempts, error>>

Store(c) ==
    LET e == EventOf(c) IN
    /\ pc[c] = "store"
    /\ \/ ClaimAndInsert(e) /\ Stored(c, e, "new") /\ NoFault
       \/ SeenAgain(e) /\ Stored(c, e, "seen") /\ NoFault
       \/ InsertRefused(e) /\ Raise(c, "conflict") /\ NoFault
       \* The connection fails before the COMMIT, or after it.
       \/ Fault /\ UNCHANGED storeVars /\ Raise(c, "database")
       \/ Fault /\ ClaimAndInsert(e) /\ Raise(c, "database")
    /\ UNCHANGED <<committed, worldVars, rebalances>>

\* NotificationClient.notify: the service accepts, or every attempt fails --
\* which the service may have acted on nevertheless.
Notify(c) ==
    /\ pc[c] = "notify"
    /\ \/ /\ notified' = notified \cup {EventOf(c)}
          /\ Goto(c, "mark")
          /\ NoFault
          /\ UNCHANGED callVars
       \/ /\ Fault
          /\ notified' \in {notified, notified \cup {EventOf(c)}}
          /\ Raise(c, "downstream")
    /\ UNCHANGED <<storeVars, committed, dlq, fresh, rebalances>>

Mark(c) ==
    LET e == EventOf(c) IN
    /\ pc[c] = "mark"
    /\ \/ MarkCompleted(e) /\ Goto(c, "commit") /\ NoFault /\ UNCHANGED callVars
       \/ MarkRefused(e) /\ Raise(c, "unknown") /\ NoFault
       \/ Fault /\ UNCHANGED storeVars /\ Raise(c, "database")
       \/ Fault /\ MarkCompleted(e) /\ Raise(c, "database")
    /\ UNCHANGED <<committed, worldVars, rebalances>>

\* The failed event's rows are removed before the record is dead-lettered; an
\* exception here leaves process_one.
DiscardEvent(c) ==
    LET e == EventOf(c) IN
    /\ pc[c] = "discard"
    /\ \/ Discard(e) /\ Goto(c, "dlq") /\ NoFault /\ UNCHANGED callVars
       \/ Fault /\ UNCHANGED storeVars /\ Abort(c)
       \/ Fault /\ Discard(e) /\ Abort(c)
    /\ UNCHANGED <<committed, worldVars, rebalances>>

DeadLetter(c) ==
    [part |-> msg[c].part, off |-> msg[c].off,
     error |-> error[c], attempts |-> attempts[c]]

\* Mutant of PublishDeadLetter: a publication that raised is ignored.
PublishDeadLetterUnchecked(c) ==
    /\ pc[c] = "dlq"
    /\ \/ dlq' = dlq \cup {DeadLetter(c)} /\ NoFault
       \/ Fault /\ UNCHANGED dlq
    /\ Goto(c, "commit")
    /\ UNCHANGED <<storeVars, committed, callVars, notified, fresh, rebalances>>

\* publish_failure: acknowledged by the broker, or raised although the broker
\* may have the envelope (delivered after the flush timed out).
PublishDeadLetter(c) ==
    /\ pc[c] = "dlq"
    /\ \/ /\ dlq' = dlq \cup {DeadLetter(c)}
          /\ Goto(c, "commit")
          /\ NoFault
          /\ UNCHANGED callVars
       \/ /\ Fault
          /\ dlq' \in {dlq, dlq \cup {DeadLetter(c)}}
          /\ Abort(c)
    /\ UNCHANGED <<storeVars, committed, notified, fresh, rebalances>>

\* Mutant of CommitOffset: the offset of the record, not the one after it.
CommitOffsetOfRecord(c) ==
    committed' = [committed EXCEPT ![msg[c].part] = msg[c].off]

\* The broker takes the offset after the record, also from a member that no
\* longer owns the partition if it has rejoined: it checks the generation only.
CommitOffset(c) ==
    committed' = [committed EXCEPT ![msg[c].part] = msg[c].off + 1]

\* process_one returns: duplicate is initial_is_new is False.
CommitSucceeds(c) ==
    /\ pc[c] = "commit"
    /\ CommitOffset(c)
    /\ fresh' = IF error[c] = "none" /\ isNew[c] = "new"
                THEN [fresh EXCEPT ![EventOf(c)] = @ + 1]
                ELSE fresh
    /\ Goto(c, "idle")
    /\ EndCall(c)
    /\ UNCHANGED <<storeVars, notified, dlq, budgets>>

\* The commit raises: refused to a former owner, or failed with or without
\* having reached the broker.
CommitFails(c) ==
    /\ pc[c] = "commit"
    /\ \/ owner[msg[c].part] # c /\ UNCHANGED committed /\ NoFault
       \/ Fault /\ (UNCHANGED committed \/ CommitOffset(c))
    /\ Abort(c)
    /\ UNCHANGED <<storeVars, worldVars, rebalances>>

ProcessOne(c) ==
    \/ \E p \in Partitions :
        PollValid(c, p) \/ PollMalformed(c, p) \/ PollRefused(c, p)
    \/ Store(c)
    \/ Notify(c)
    \/ Mark(c)
    \/ DiscardEvent(c)
    \/ PublishDeadLetter(c)
    \/ CommitSucceeds(c)
    \/ CommitFails(c)

Next ==
    \/ \E c \in Consumers :
        \/ Restart(c)
        \/ ProcessOne(c)
        \/ PollTimeout(c)
        \/ PollError(c)
        \/ Crash(c)
    \/ \E p \in Partitions, c \in Consumers : Assign(p, c) \/ Rebalance(p, c)

Spec == Init /\ [][Next]_vars

\* A process is restarted, a live process keeps executing, and the group leaves
\* no partition unassigned while it has a member.  Faults need not happen.
Fairness ==
    /\ \A c \in Consumers : WF_vars(Restart(c)) /\ WF_vars(ProcessOne(c))
    /\ \A p \in Partitions : WF_vars(\E c \in Consumers : Assign(p, c))

FairSpec == Spec /\ Fairness

(***************************************************************************)
(* Properties.                                                             *)
(***************************************************************************)

DeadLettered(p, o) == \E d \in dlq : d.part = p /\ d.off = o

\* What became of a record: its event's effects are complete, or it is in the
\* dead-letter topic.
Handled(p, o) ==
    \/ Value(p, o) \in Events /\ Completed(Value(p, o))
    \/ DeadLettered(p, o)

\* "Kafka offset committed only after successful processing"
\* (docs/architecture.md:96): no committed offset covers a record whose effects
\* are incomplete and that is not dead-lettered, whatever the crashes, retries
\* and rebalances before it (kafka_order_consumer.py:219-282).
AcknowledgedMeansHandled ==
    \A p \in Partitions : \A o \in Offsets(p) : o < committed[p] => Handled(p, o)

\* While process_one works on a record, every earlier record of its partition
\* is handled: no order overtakes a failed one of the same key
\* (the exception at 250-254 must stop the partition).
EarlierRecordsHandled ==
    \A c \in Consumers : \A p \in Partitions : \A o \in Offsets(p) :
        Busy(c) /\ msg[c].part = p /\ o < msg[c].off => Handled(p, o)

\* An event is completed only after the downstream service accepted it, although
\* the consumer that completes it need not be the one that stored it (226-230).
CompletedMeansNotified ==
    HasDownstream => \A e \in Events : Completed(e) => e \in notified

\* One result per event reports duplicate=False, however many consumers receive
\* it and however often (225-226, 263).
OneFreshResult == \A e \in Events : fresh[e] <= 1

\* A retryable error reaches the dead-letter topic only after the last attempt,
\* and the envelope reports the attempts made (233-249).
DeadLetterAfterRetries ==
    \A d \in dlq :
        /\ d.error \in Retryable => d.attempts = MaxAttempts
        /\ d.error = "invalid" => d.attempts = 1

\* A dead-lettered and committed record leaves "no partial business state"
\* (docs/decisions.md:352): a pending event still has a record to be delivered or
\* a consumer at work on it.
PendingIsUnderWay ==
    \A e \in Events : marker[e] = "pending" =>
        \/ \E p \in Partitions : \E o \in Offsets(p) :
            Value(p, o) = e /\ committed[p] <= o
        \/ \E c \in Consumers : Busy(c) /\ EventOf(c) = e

\* The order of an acknowledged record is not deleted afterwards: discard removes
\* "the event's pending order/marker" (docs/decisions.md:351).
AcknowledgedOrderStays ==
    [][\A p \in Partitions : \A o \in Offsets(p) :
        (o < committed[p] /\ ~DeadLettered(p, o) /\ Value(p, o) \in orders)
            => Value(p, o) \in orders']_vars

\* Every step is a step of the promise in OrderDelivery, or invisible to it.
Delivery == INSTANCE OrderDelivery WITH
    done  <- {e \in Events : Completed(e)},
    dead  <- {<<d.part, d.off>> : d \in dlq},
    acked <- committed

DeliverySpec == Delivery!Spec

\* Every record is handled in the end, if faults and rebalances come to an end:
\* the retry loop is finite and a failed record is delivered again.  Without a
\* dead-letter topic a poison record blocks the rest of its partition.
EventuallyHandled ==
    <>[](\A p \in Partitions : \A o \in Offsets(p) :
            HasDeadLetter \/ (\A k \in 0 .. o : Value(p, k) # Malformed)
                => Handled(p, o))

\* ... and acknowledged, if in addition no partition is taken from a live owner.
EventuallyAcknowledged ==
    <>[](\A p \in Partitions : committed[p] = Len(Log[p]))

=============================================================================
