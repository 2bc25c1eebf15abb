--------------------------- MODULE KafkaEffectProofs ---------------------------
(***************************************************************************)
(* What the effects of an event, its dead letter and its result say.  The  *)
(* first two invariants hold in every configuration of the consumers:      *)
(* whatever the caller does after an exception, with or without a          *)
(* downstream service and a dead-letter topic, under any number of faults  *)
(* and rebalances.  The last two rest on KafkaDeliveryProofs and its safe  *)
(* configurations, where discard undoes nothing another record relies on.  *)
(***************************************************************************)
EXTENDS KafkaDeliveryProofs

(***************************************************************************)
(* CompletedMeansNotified.  The program counter carries the fact from the  *)
(* notification to mark_completed; another consumer may complete, discard  *)
(* or store the event in between.                                          *)
(***************************************************************************)

MarkNotified ==
    HasDownstream => \A c \in Consumers : pc[c] = "mark" => EventOf(c) \in notified

NotifiedInv == TypeInv /\ CompletedMeansNotified /\ MarkNotified

\* A step of c that keeps the record of every other consumer and completes no
\* event but a notified one.
LEMMA NotifiedKept ==
    ASSUME NotifiedInv, TypeInv', NEW c \in Consumers,
           \A d \in Consumers \ {c} : pc'[d] = pc[d] /\ msg'[d] = msg[d],
           HasDownstream /\ pc'[c] = "mark" => EventOf(c)' \in notified',
           notified \subseteq notified',
           \A e \in Events : Completed(e)' =>
               Completed(e) \/ (pc[c] = "mark" /\ e = EventOf(c))
    PROVE  NotifiedInv'
<1>1. CompletedMeansNotified'
  BY DEF NotifiedInv, CompletedMeansNotified, MarkNotified
<1>2. MarkNotified'
  BY DEF NotifiedInv, MarkNotified, EventOf
<1> QED BY <1>1, <1>2 DEF NotifiedInv

\* What an exception does to the record its consumer holds.
LEMMA RaiseLeavesMark ==
    ASSUME TypeInv, NEW c \in Consumers,
           \/ \E err \in Errors : Raise(c, err)
           \/ Abort(c)
    PROVE  /\ \A d \in Consumers \ {c} : pc'[d] = pc[d] /\ msg'[d] = msg[d]
           /\ pc'[c] \in {"store", "discard", "idle", "down"}
  BY DEF Raise, Retry, GiveUp, Abort, EndCall, TypeInv, TypeOK

LEMMA StoreOpsComplete ==
    ASSUME StoreTypeOK, NEW e \in Events, NEW f \in Events,
           \/ ClaimAndInsert(e) \/ InsertRefused(e) \/ SeenAgain(e)
           \/ MarkRefused(e) \/ Discard(e) \/ UNCHANGED storeVars
    PROVE  Completed(f)' => Completed(f)
  BY DEF StoreTypeOK, Status, Completed, ClaimAndInsert, InsertRefused, SeenAgain,
         MarkRefused, Discard, storeVars

LEMMA StepNotifiedInv ==
    ASSUME NotifiedInv, [Next]_vars
    PROVE  NotifiedInv'
<1> TypeInv /\ TypeInv'
  BY StepTypeInv DEF NotifiedInv
<1> StoreTypeOK
  BY DEF TypeInv, TypeOK
<1>1. CASE UNCHANGED vars
  BY <1>1
  DEF vars, storeVars, callVars, worldVars, NotifiedInv, CompletedMeansNotified,
      MarkNotified, Completed, EventOf
<1>2. ASSUME NEW c \in Consumers, Restart(c) \/ Crash(c) \/ PollError(c)
      PROVE  NotifiedInv'
  <2>1. UNCHANGED <<marker, notified>> /\ pc'[c] # "mark"
    BY <1>2, RaiseLeavesMark
    DEF Restart, Crash, PollError, storeVars, worldVars, TypeInv, TypeOK
  <2>2. \A d \in Consumers \ {c} : pc'[d] = pc[d] /\ msg'[d] = msg[d]
    BY <1>2, RaiseLeavesMark
    DEF Restart, Crash, PollError, callVars, EndCall, TypeInv, TypeOK
  <2> QED BY <2>1, <2>2, NotifiedKept DEF Completed
<1>3. ASSUME NEW c \in Consumers, NEW p \in Partitions,
             PollValid(c, p) \/ PollMalformed(c, p) \/ PollRefused(c, p)
      PROVE  NotifiedInv'
  <2>1. UNCHANGED <<marker, notified>> /\ pc'[c] # "mark"
    BY <1>3
    DEF PollValid, PollMalformed, PollRefused, Fetch, Receive, storeVars, worldVars,
        TypeInv, TypeOK
  <2>2. \A d \in Consumers \ {c} : pc'[d] = pc[d] /\ msg'[d] = msg[d]
    BY <1>3
    DEF PollValid, PollMalformed, PollRefused, Receive, EndCall, TypeInv, TypeOK
  <2> QED BY <2>1, <2>2, NotifiedKept DEF Completed
<1>4. ASSUME NEW c \in Consumers, Store(c)
      PROVE  NotifiedInv'
  <2>1. EventOf(c) \in Events /\ UNCHANGED notified
    BY <1>4 DEF Store, worldVars, TypeInv, CallOK
  <2>2. \A e \in Events : Completed(e)' => Completed(e)
    BY <1>4, <2>1, StoreOpsComplete DEF Store
  <2>3. ASSUME NEW err \in {"conflict", "database"}, Raise(c, err)
        PROVE  NotifiedInv'
    BY <2>1, <2>2, <2>3, RaiseLeavesMark, NotifiedKept DEF Errors, ProcessingErrors
  <2>4. ASSUME NEW seen \in {"new", "seen"}, Stored(c, EventOf(c), seen)
        PROVE  NotifiedInv'
    <3>1. \A d \in Consumers \ {c} : pc'[d] = pc[d] /\ msg'[d] = msg[d]
      BY <2>4 DEF Stored, Goto, TypeInv, TypeOK
    <3>2. HasDownstream => pc'[c] # "mark"
      BY <2>4 DEF Stored, Goto, TypeInv, TypeOK
    <3> QED BY <2>1, <2>2, <3>1, <3>2, NotifiedKept
  <2> QED BY <1>4, <2>3, <2>4 DEF Store
<1>5. ASSUME NEW c \in Consumers, Notify(c)
      PROVE  NotifiedInv'
  <2>1. UNCHANGED marker /\ notified \subseteq notified'
    BY <1>5 DEF Notify, storeVars
  <2>2. CASE Raise(c, "downstream")
    BY <2>1, <2>2, RaiseLeavesMark, NotifiedKept
    DEF Completed, Errors, ProcessingErrors
  <2>3. ASSUME EventOf(c) \in notified', Goto(c, "mark"), UNCHANGED msg
        PROVE  NotifiedInv'
    <3>1. \A d \in Consumers \ {c} : pc'[d] = pc[d] /\ msg'[d] = msg[d]
      BY <2>3 DEF Goto, TypeInv, TypeOK
    <3>2. EventOf(c)' \in notified'
      BY <2>3 DEF EventOf
    <3> QED BY <2>1, <3>1, <3>2, NotifiedKept DEF Completed
  <2> QED BY <1>5, <2>2, <2>3 DEF Notify, callVars
<1>6. ASSUME NEW c \in Consumers, Mark(c)
      PROVE  NotifiedInv'
  <2>1. EventOf(c) \in Events /\ UNCHANGED notified
    BY <1>6 DEF Mark, worldVars, TypeInv, CallOK
  <2>2. \A e \in Events : Completed(e)' => Completed(e) \/ e = EventOf(c)
    <3>1. CASE MarkCompleted(EventOf(c))
      BY <2>1, <3>1 DEF MarkCompleted, Completed, StoreTypeOK
    <3>2. CASE MarkRefused(EventOf(c)) \/ UNCHANGED storeVars
      BY <2>1, <3>2, StoreOpsComplete
    <3> QED BY <1>6, <3>1, <3>2 DEF Mark
  <2>3. /\ \A d \in Consumers \ {c} : pc'[d] = pc[d] /\ msg'[d] = msg[d]
        /\ pc'[c] # "mark"
    BY <1>6, RaiseLeavesMark
    DEF Mark, Goto, callVars, Errors, ProcessingErrors, TypeInv, TypeOK
  <2>4. pc[c] = "mark"
    BY <1>6 DEF Mark
  <2> QED BY <2>1, <2>2, <2>3, <2>4, NotifiedKept
<1>7. ASSUME NEW c \in Consumers,
             \/ DiscardEvent(c) \/ PublishDeadLetter(c)
             \/ CommitSucceeds(c) \/ CommitFails(c)
      PROVE  NotifiedInv'
  <2>1. UNCHANGED notified
    BY <1>7 DEF DiscardEvent, PublishDeadLetter, CommitSucceeds, CommitFails, worldVars
  <2>2. \A e \in Events : Completed(e)' => Completed(e)
    <3>1. CASE DiscardEvent(c)
      BY <3>1, StoreOpsComplete DEF DiscardEvent, TypeInv, CallOK
    <3>2. CASE UNCHANGED storeVars
      BY <3>2 DEF storeVars, Completed
    <3> QED
      BY <1>7, <3>1, <3>2 DEF PublishDeadLetter, CommitSucceeds, CommitFails
  <2>3. CASE Abort(c)
    BY <2>1, <2>2, <2>3, RaiseLeavesMark, NotifiedKept
  <2>4. ASSUME NEW label \in {"dlq", "commit", "idle"}, Goto(c, label),
               EndCall(c) \/ UNCHANGED callVars
        PROVE  NotifiedInv'
    <3>1. /\ \A d \in Consumers \ {c} : pc'[d] = pc[d] /\ msg'[d] = msg[d]
          /\ pc'[c] # "mark"
      BY <2>4 DEF Goto, EndCall, callVars, TypeInv, TypeOK
    <3> QED BY <2>1, <2>2, <3>1, NotifiedKept
  <2> QED
    BY <1>7, <2>3, <2>4 DEF DiscardEvent, PublishDeadLetter, CommitSucceeds, CommitFails
<1>8. ASSUME NEW c \in Consumers, NEW p \in Partitions, Assign(p, c) \/ Rebalance(p, c)
      PROVE  NotifiedInv'
  BY <1>8
  DEF Assign, Rebalance, storeVars, callVars, worldVars, NotifiedInv,
      CompletedMeansNotified, MarkNotified, Completed, EventOf
<1>9. ASSUME NEW c \in Consumers, PollTimeout(c)
      PROVE  NotifiedInv'
  BY <1>1, <1>9 DEF PollTimeout
<1> QED
  BY <1>1, <1>2, <1>3, <1>4, <1>5, <1>6, <1>7, <1>8, <1>9 DEF Next, ProcessOne

\* An event is completed only after the downstream service accepted it,
\* whichever consumer stored it, notified the service or died in between.
THEOREM CompletionFollowsNotification == Spec => []CompletedMeansNotified
<1>1. Init => NotifiedInv
  BY InitTypeInv
  DEF Init, StoreInit, NotifiedInv, CompletedMeansNotified, MarkNotified, Completed
<1>2. NotifiedInv /\ [Next]_vars => NotifiedInv'
  BY StepNotifiedInv
<1>3. NotifiedInv => CompletedMeansNotified
  BY DEF NotifiedInv
<1> QED BY <1>1, <1>2, <1>3, PTL DEF Spec

(***************************************************************************)
(* DeadLetterAfterRetries.  The envelope is written two calls after the    *)
(* last attempt; until then the consumer keeps its exception and its       *)
(* attempt count.                                                          *)
(***************************************************************************)

GivenUp ==
    \A c \in Consumers : pc[c] \in {"discard", "dlq"} =>
        /\ error[c] \in Retryable => attempts[c] = MaxAttempts
        /\ error[c] = "invalid" => attempts[c] = 1

RetryInv == TypeInv /\ DeadLetterAfterRetries /\ GivenUp

\* A step of c that writes no dead letter but its own.
LEMMA RetryKept ==
    ASSUME RetryInv, TypeInv', NEW c \in Consumers,
           \A d \in Consumers \ {c} :
               pc'[d] = pc[d] /\ error'[d] = error[d] /\ attempts'[d] = attempts[d],
           pc'[c] \in {"discard", "dlq"} =>
               /\ error'[c] \in Retryable => attempts'[c] = MaxAttempts
               /\ error'[c] = "invalid" => attempts'[c] = 1,
           dlq' \in {dlq, dlq \cup {DeadLetter(c)}},
           dlq' # dlq => pc[c] = "dlq"
    PROVE  RetryInv'
<1>1. GivenUp'
  BY DEF RetryInv, GivenUp
<1>2. DeadLetterAfterRetries'
  <2>1. CASE dlq' = dlq
    BY <2>1 DEF RetryInv, DeadLetterAfterRetries
  <2>2. CASE dlq' = dlq \cup {DeadLetter(c)} /\ pc[c] = "dlq"
    BY <2>2 DEF RetryInv, DeadLetterAfterRetries, GivenUp, DeadLetter
  <2> QED BY <2>1, <2>2
<1> QED BY <1>1, <1>2 DEF RetryInv

\* A consumer that gives up has no attempt left, or its error is not retried.
LEMMA RaiseRetries ==
    ASSUME TypeInv, NEW c \in Consumers,
           \/ \E err \in ProcessingErrors : Raise(c, err)
           \/ Abort(c)
    PROVE  /\ \A d \in Consumers \ {c} :
               pc'[d] = pc[d] /\ error'[d] = error[d] /\ attempts'[d] = attempts[d]
           /\ pc'[c] \in {"discard", "dlq"} =>
               /\ error'[c] \in Retryable => attempts'[c] = MaxAttempts
               /\ error'[c] # "invalid"
<1>1. CASE Abort(c)
  BY <1>1 DEF Abort, EndCall, TypeInv, TypeOK
<1>2. ASSUME NEW err \in ProcessingErrors, CanRetry(c, err), Retry(c)
      PROVE  /\ \A d \in Consumers \ {c} :
                 pc'[d] = pc[d] /\ error'[d] = error[d] /\ attempts'[d] = attempts[d]
             /\ pc'[c] = "store"
  BY <1>2 DEF Retry, TypeInv, TypeOK
<1>3. ASSUME NEW err \in ProcessingErrors, ~CanRetry(c, err), GiveUp(c, err)
      PROVE  /\ \A d \in Consumers \ {c} :
                 pc'[d] = pc[d] /\ error'[d] = error[d] /\ attempts'[d] = attempts[d]
             /\ error'[c] \in Retryable => attempts'[c] = MaxAttempts
             /\ error'[c] # "invalid"
  <2>1. error'[c] = err /\ attempts' = attempts
    BY <1>3 DEF GiveUp, TypeInv, TypeOK
  <2>2. err \in Retryable => attempts[c] = MaxAttempts
    BY <1>3, ConsumerAssumption DEF CanRetry, TypeInv, TypeOK
  <2> QED BY <1>3, <2>1, <2>2 DEF GiveUp, ProcessingErrors, TypeInv, TypeOK
<1> QED BY <1>1, <1>2, <1>3 DEF Raise

LEMMA StepRetryInv ==
    ASSUME RetryInv, [Next]_vars
    PROVE  RetryInv'
<1> TypeInv /\ TypeInv'
  BY StepTypeInv DEF RetryInv
<1>1. CASE UNCHANGED vars
  BY <1>1
  DEF vars, callVars, worldVars, RetryInv, DeadLetterAfterRetries, GivenUp
<1>2. ASSUME NEW c \in Consumers, Restart(c) \/ Crash(c) \/ PollError(c)
      PROVE  RetryInv'
  <2>1. UNCHANGED dlq /\ pc'[c] \notin {"discard", "dlq"}
    BY <1>2 DEF Restart, Crash, PollError, Abort, worldVars, TypeInv, TypeOK
  <2>2. \A d \in Consumers \ {c} :
            pc'[d] = pc[d] /\ error'[d] = error[d] /\ attempts'[d] = attempts[d]
    BY <1>2, RaiseRetries
    DEF Restart, Crash, PollError, callVars, EndCall, TypeInv, TypeOK
  <2> QED BY <2>1, <2>2, RetryKept
<1>3. ASSUME NEW c \in Consumers, NEW p \in Partitions,
             PollValid(c, p) \/ PollMalformed(c, p) \/ PollRefused(c, p)
      PROVE  RetryInv'
  <2>1. UNCHANGED dlq
    BY <1>3 DEF PollValid, PollMalformed, PollRefused, Receive, worldVars
  <2>2. \A d \in Consumers \ {c} :
            pc'[d] = pc[d] /\ error'[d] = error[d] /\ attempts'[d] = attempts[d]
    BY <1>3
    DEF PollValid, PollMalformed, PollRefused, Receive, EndCall, TypeInv, TypeOK
  <2>3. pc'[c] \in {"discard", "dlq"} => error'[c] = "invalid" /\ attempts'[c] = 1
    BY <1>3
    DEF PollValid, PollMalformed, PollRefused, Fetch, Receive, TypeInv, TypeOK
  <2>4. "invalid" \notin Retryable
    BY ConsumerAssumption DEF ProcessingErrors
  <2> QED BY <2>1, <2>2, <2>3, <2>4, RetryKept
<1>4. ASSUME NEW c \in Consumers, Store(c) \/ Notify(c) \/ Mark(c)
      PROVE  RetryInv'
  <2>1. UNCHANGED dlq
    BY <1>4 DEF Store, Notify, Mark, worldVars
  <2>2. ASSUME NEW err \in {"conflict", "database", "downstream", "unknown"},
               Raise(c, err)
        PROVE  RetryInv'
    BY <2>1, <2>2, RaiseRetries, RetryKept DEF ProcessingErrors
  <2>3. ASSUME NEW label \in {"notify", "mark", "commit"}, Goto(c, label),
               UNCHANGED <<error, attempts>>
        PROVE  RetryInv'
    <3>1. /\ \A d \in Consumers \ {c} : pc'[d] = pc[d]
          /\ pc'[c] \notin {"discard", "dlq"}
      BY <2>3 DEF Goto, TypeInv, TypeOK
    <3> QED BY <2>1, <2>3, <3>1, RetryKept
  <2> QED BY <1>4, <2>2, <2>3 DEF Store, Stored, Notify, Mark, callVars
<1>5. ASSUME NEW c \in Consumers,
             \/ DiscardEvent(c) \/ PublishDeadLetter(c)
             \/ CommitSucceeds(c) \/ CommitFails(c)
      PROVE  RetryInv'
  <2>1. dlq' \in {dlq, dlq \cup {DeadLetter(c)}} /\ (dlq' # dlq => pc[c] = "dlq")
    BY <1>5 DEF DiscardEvent, PublishDeadLetter, CommitSucceeds, CommitFails, worldVars
  <2>2. CASE Abort(c)
    BY <2>1, <2>2, RaiseRetries, RetryKept DEF Abort, TypeInv, TypeOK
  <2>3. CASE pc[c] = "discard" /\ Goto(c, "dlq") /\ UNCHANGED callVars
    <3>1. \A d \in Consumers \ {c} : pc'[d] = pc[d]
      BY <2>3 DEF Goto, TypeInv, TypeOK
    <3>2. /\ error[c] \in Retryable => attempts[c] = MaxAttempts
          /\ error[c] = "invalid" => attempts[c] = 1
      BY <2>3 DEF RetryInv, GivenUp
    <3> QED BY <2>1, <2>3, <3>1, <3>2, RetryKept DEF callVars
  <2>4. ASSUME NEW label \in {"commit", "idle"}, Goto(c, label),
               EndCall(c) \/ UNCHANGED callVars
        PROVE  RetryInv'
    <3>1. /\ \A d \in Consumers \ {c} :
                 pc'[d] = pc[d] /\ error'[d] = error[d] /\ attempts'[d] = attempts[d]
          /\ pc'[c] \notin {"discard", "dlq"}
      BY <2>4 DEF Goto, EndCall, callVars, TypeInv, TypeOK
    <3> QED BY <2>1, <3>1, RetryKept
  <2> QED
    BY <1>5, <2>2, <2>3, <2>4
    DEF DiscardEvent, PublishDeadLetter, CommitSucceeds, CommitFails
<1>6. ASSUME NEW c \in Consumers, NEW p \in Partitions, Assign(p, c) \/ Rebalance(p, c)
      PROVE  RetryInv'
  BY <1>6
  DEF Assign, Rebalance, callVars, worldVars, RetryInv, DeadLetterAfterRetries, GivenUp
<1>7. ASSUME NEW c \in Consumers, PollTimeout(c)
      PROVE  RetryInv'
  BY <1>1, <1>7 DEF PollTimeout
<1> QED
  BY <1>1, <1>2, <1>3, <1>4, <1>5, <1>6, <1>7 DEF Next, ProcessOne

\* A retryable error reaches the dead-letter topic only after the last attempt,
\* and the envelope of a record no retry can help counts one attempt.
THEOREM DeadLettersAreRetriedFirst == Spec => []DeadLetterAfterRetries
<1>1. Init => RetryInv
  BY InitTypeInv DEF Init, RetryInv, DeadLetterAfterRetries, GivenUp
<1>2. RetryInv /\ [Next]_vars => RetryInv'
  BY StepRetryInv
<1>3. RetryInv => DeadLetterAfterRetries
  BY DEF RetryInv
<1> QED BY <1>1, <1>2, <1>3, PTL DEF Spec

(***************************************************************************)
(* How a step moves the calls under way.                                   *)
(***************************************************************************)

\* A call goes on with its record, or it ends.
LEMMA CallGoesOn ==
    ASSUME TypeInv, [Next]_vars, NEW d \in Consumers, Busy(d)
    PROVE  ~Busy(d)' \/ msg'[d] = msg[d]
<1>1. CASE UNCHANGED vars
  BY <1>1 DEF vars, callVars
<1>2. ASSUME NEW c \in Consumers,
             Restart(c) \/ PollTimeout(c) \/ PollError(c) \/ Crash(c)
      PROVE  ~Busy(d)' \/ msg'[d] = msg[d]
  BY <1>2
  DEF Restart, PollTimeout, PollError, Crash, Abort, EndCall, Busy, vars, callVars,
      TypeInv, TypeOK
<1>3. ASSUME NEW c \in Consumers, NEW p \in Partitions,
             PollValid(c, p) \/ PollMalformed(c, p) \/ PollRefused(c, p)
      PROVE  ~Busy(d)' \/ msg'[d] = msg[d]
  BY <1>3
  DEF PollValid, PollMalformed, PollRefused, Fetch, Receive, EndCall, Busy,
      TypeInv, TypeOK
<1>4. ASSUME NEW c \in Consumers, Abort(c)
      PROVE  ~Busy(d)' \/ msg'[d] = msg[d]
  BY <1>4 DEF Abort, EndCall, Busy, TypeInv, TypeOK
<1>5. ASSUME NEW c \in Consumers, Store(c) \/ Notify(c) \/ Mark(c)
      PROVE  ~Busy(d)' \/ msg'[d] = msg[d]
  BY <1>4, <1>5
  DEF Store, Stored, Notify, Mark, Raise, Retry, GiveUp, callVars
<1>6. ASSUME NEW c \in Consumers,
             DiscardEvent(c) \/ PublishDeadLetter(c) \/ CommitFails(c)
      PROVE  ~Busy(d)' \/ msg'[d] = msg[d]
  BY <1>4, <1>6 DEF DiscardEvent, PublishDeadLetter, CommitFails, callVars
<1>7. ASSUME NEW c \in Consumers, CommitSucceeds(c)
      PROVE  ~Busy(d)' \/ msg'[d] = msg[d]
  BY <1>7 DEF CommitSucceeds, EndCall, Goto, Busy, TypeInv, TypeOK
<1>8. ASSUME NEW c \in Consumers, NEW p \in Partitions, Assign(p, c) \/ Rebalance(p, c)
      PROVE  ~Busy(d)' \/ msg'[d] = msg[d]
  BY <1>8 DEF Assign, Rebalance, callVars
<1> QED
  BY <1>1, <1>2, <1>3, <1>5, <1>6, <1>7, <1>8 DEF Next, ProcessOne

\* A call that is to publish a dead letter or to commit an event has left it
\* completed or discarded, now or before.
LEMMA LateCalls ==
    ASSUME TypeInv, [Next]_vars, NEW d \in Consumers,
           pc'[d] \in {"dlq", "commit"}, EventOf(d)' \in Events
    PROVE  /\ Busy(d) /\ msg'[d] = msg[d]
           /\ \/ pc[d] \in {"dlq", "commit"}
              \/ marker'[EventOf(d)] # "pending"
<1> SUFFICES Busy(d) /\ (pc[d] \in {"dlq", "commit"} \/ marker'[EventOf(d)] # "pending")
  <2>1. Busy(d)'
    BY DEF Busy
  <2> QED BY <2>1, CallGoesOn
<1>1. CASE UNCHANGED pc
  BY <1>1 DEF Busy
<1>2. ASSUME NEW c \in Consumers, pc' = [pc EXCEPT ![c] = pc'[c]],
             pc'[c] \notin {"dlq", "commit"}
      PROVE  Busy(d) /\ pc[d] \in {"dlq", "commit"}
  BY <1>2 DEF Busy, TypeInv, TypeOK
<1>3. ASSUME NEW c \in Consumers,
             Restart(c) \/ PollError(c) \/ Crash(c)
      PROVE  Busy(d) /\ pc[d] \in {"dlq", "commit"}
  BY <1>2, <1>3 DEF Restart, PollError, Crash, Abort, TypeInv, TypeOK
<1>4. ASSUME NEW c \in Consumers, NEW p \in Partitions, PollValid(c, p)
      PROVE  Busy(d) /\ pc[d] \in {"dlq", "commit"}
  BY <1>2, <1>4 DEF PollValid, Receive, TypeInv, TypeOK
<1>5. ASSUME NEW c \in Consumers, NEW p \in Partitions, PollMalformed(c, p)
      PROVE  Busy(d) /\ pc[d] \in {"dlq", "commit"}
  <2>1. CASE d = c
    <3>1. EventOf(d)' = Malformed
      BY <1>5, <2>1, ConsumerAssumption
      DEF PollMalformed, Receive, EventOf, Value, TypeInv, TypeOK
    <3> QED BY <3>1, ConsumerAssumption
  <2>2. CASE d # c
    BY <1>5, <2>2 DEF PollMalformed, Receive, Busy, TypeInv, TypeOK
  <2> QED BY <2>1, <2>2
<1>6. ASSUME NEW c \in Consumers, NEW p \in Partitions, PollRefused(c, p)
      PROVE  Busy(d) /\ pc[d] \in {"dlq", "commit"}
  BY <1>6 DEF PollRefused, Fetch, Busy, TypeInv, TypeOK
<1>7. ASSUME NEW c \in Consumers, NEW err, Raise(c, err)
      PROVE  Busy(d) /\ pc[d] \in {"dlq", "commit"}
  BY <1>2, <1>7 DEF Raise, Retry, GiveUp, Abort, TypeInv, TypeOK
<1>8. ASSUME NEW c \in Consumers, Abort(c)
      PROVE  Busy(d) /\ pc[d] \in {"dlq", "commit"}
  BY <1>2, <1>8 DEF Abort, TypeInv, TypeOK
<1>9. ASSUME NEW c \in Consumers, NEW label, Goto(c, label), Busy(c),
             label = "commit" => marker'[EventOf(c)] # "pending" \/ pc[c] = "dlq",
             label = "dlq" => marker'[EventOf(c)] # "pending"
      PROVE  Busy(d) /\ (pc[d] \in {"dlq", "commit"} \/ marker'[EventOf(d)] # "pending")
  BY <1>9 DEF Goto, Busy, TypeInv, TypeOK
<1>10. ASSUME NEW c \in Consumers, Store(c)
       PROVE  Busy(d) /\ (pc[d] \in {"dlq", "commit"} \/ marker'[EventOf(d)] # "pending")
  <2>1. Busy(c)
    BY <1>10 DEF Store, Busy
  <2>2. ASSUME NEW seen, Stored(c, EventOf(c), seen),
               ClaimAndInsert(EventOf(c)) \/ SeenAgain(EventOf(c))
        PROVE  Busy(d) /\ (pc[d] \in {"dlq", "commit"} \/ marker'[EventOf(d)] # "pending")
    <3>1. PICK label \in {"notify", "mark", "commit"} :
             /\ Goto(c, label)
             /\ label = "commit" => ~DownstreamRequired(EventOf(c))
      BY <2>2 DEF Stored
    <3>2. label = "commit" => marker'[EventOf(c)] # "pending"
      BY <2>2, <3>1 DEF DownstreamRequired, ClaimAndInsert, SeenAgain, storeVars
    <3> QED BY <1>9, <2>1, <3>1, <3>2
  <2> QED BY <1>7, <1>10, <2>2 DEF Store
<1>11. ASSUME NEW c \in Consumers, Notify(c)
       PROVE  Busy(d) /\ (pc[d] \in {"dlq", "commit"} \/ marker'[EventOf(d)] # "pending")
  <2>1. Busy(c)
    BY <1>11 DEF Notify, Busy
  <2> QED BY <1>7, <1>9, <1>11, <2>1 DEF Notify
<1>12. ASSUME NEW c \in Consumers, Mark(c)
       PROVE  Busy(d) /\ (pc[d] \in {"dlq", "commit"} \/ marker'[EventOf(d)] # "pending")
  <2>1. Busy(c) /\ EventOf(c) \in Events
    BY <1>12 DEF Mark, Busy, TypeInv, CallOK
  <2>2. CASE MarkCompleted(EventOf(c)) /\ Goto(c, "commit")
    <3>1. marker'[EventOf(c)] = "completed"
      BY <2>1, <2>2 DEF MarkCompleted, TypeInv, TypeOK, StoreTypeOK
    <3> QED BY <1>9, <2>1, <2>2, <3>1
  <2> QED BY <1>7, <1>12, <2>2 DEF Mark
<1>13. ASSUME NEW c \in Consumers, DiscardEvent(c)
       PROVE  Busy(d) /\ (pc[d] \in {"dlq", "commit"} \/ marker'[EventOf(d)] # "pending")
  <2>1. Busy(c) /\ EventOf(c) \in Events
    BY <1>13 DEF DiscardEvent, Busy, TypeInv, CallOK
  <2>2. CASE Discard(EventOf(c)) /\ Goto(c, "dlq")
    <3>1. marker'[EventOf(c)] = "absent"
      BY <2>1, <2>2 DEF Discard, TypeInv, TypeOK, StoreTypeOK
    <3> QED BY <1>9, <2>1, <2>2, <3>1
  <2> QED BY <1>8, <1>13, <2>2 DEF DiscardEvent
<1>14. ASSUME NEW c \in Consumers, PublishDeadLetter(c)
       PROVE  Busy(d) /\ (pc[d] \in {"dlq", "commit"} \/ marker'[EventOf(d)] # "pending")
  <2>1. Busy(c) /\ pc[c] = "dlq"
    BY <1>14 DEF PublishDeadLetter, Busy
  <2> QED BY <1>8, <1>9, <1>14, <2>1 DEF PublishDeadLetter
<1>15. ASSUME NEW c \in Consumers, CommitSucceeds(c)
       PROVE  Busy(d) /\ pc[d] \in {"dlq", "commit"}
  BY <1>2, <1>15 DEF CommitSucceeds, Goto, TypeInv, TypeOK
<1>16. ASSUME NEW c \in Consumers, CommitFails(c)
       PROVE  Busy(d) /\ pc[d] \in {"dlq", "commit"}
  BY <1>8, <1>16 DEF CommitFails
<1>17. ASSUME NEW c \in Consumers, NEW p \in Partitions, Assign(p, c) \/ Rebalance(p, c)
       PROVE  UNCHANGED pc
  BY <1>17 DEF Assign, Rebalance
<1> QED
  BY <1>1, <1>3, <1>4, <1>5, <1>6, <1>10, <1>11, <1>12, <1>13, <1>14, <1>15, <1>16,
     <1>17
  DEF Next, ProcessOne, PollTimeout, vars

(***************************************************************************)
(* PendingIsUnderWay.  A pending event keeps a record behind the committed *)
(* offset because a partition without rebalances is read in step with its  *)
(* commits: the next record is fetched when the one before is committed.   *)
(***************************************************************************)

InStep ==
    MaxRebalances = 0 => \A p \in Partitions : owner[p] # NoOwner =>
        \/ position[p] = committed[p]
        \/ /\ Busy(owner[p]) /\ msg[owner[p]].part = p
           /\ position[p] = committed[p] + 1

NoDeadLetters == ~HasDeadLetter => dlq = {}

\* An event is completed, or discarded, before its record is left behind.
LateNotPending ==
    \A c \in Consumers : pc[c] \in {"dlq", "commit"} /\ EventOf(c) \in Events =>
        marker[EventOf(c)] # "pending"

\* More than PendingIsUnderWay asks: the record is there even while a consumer
\* works on it.
PendingUncommitted ==
    \A e \in Events : marker[e] = "pending" =>
        \E p \in Partitions : \E o \in Offsets(p) :
            Value(p, o) = e /\ committed[p] <= o

PendingInv ==
    /\ DeliveryInv
    /\ InStep
    /\ NoDeadLetters
    /\ LateNotPending
    /\ PendingUncommitted

\* A step of c within a call, or of the group, that moves no partition.
LEMMA InStepKept ==
    ASSUME TypeInv, InStep, UNCHANGED <<owner, position, committed>>,
           \A d \in Consumers : Busy(d) => Busy(d)' /\ msg'[d] = msg[d]
    PROVE  InStep'
  BY DEF InStep, TypeInv, TypeOK

\* c leaves the group; what it committed was a partition of its own.
LEMMA InStepLeft ==
    ASSUME DeliveryInv, InStep, NEW c \in Consumers, LeaveGroup(c),
           \A d \in Consumers \ {c} : (Busy(d)' <=> Busy(d)) /\ msg'[d] = msg[d],
           UNCHANGED committed \/ (pc[c] = "commit" /\ CommitOffset(c))
    PROVE  InStep'
<1> SUFFICES ASSUME MaxRebalances = 0, NEW p \in Partitions, owner'[p] # NoOwner
             PROVE  \/ position'[p] = committed'[p]
                    \/ /\ Busy(owner[p])' /\ msg'[owner'[p]].part = p
                       /\ position'[p] = committed'[p] + 1
  BY DEF InStep
<1>1. /\ owner'[p] = owner[p] /\ owner[p] # c /\ position'[p] = position[p]
      /\ owner[p] \in Consumers
  BY DEF LeaveGroup, DeliveryInv, TypeInv, TypeOK
<1>2. committed'[p] = committed[p]
  BY <1>1 DEF DeliveryInv, Exclusive, CommitOffset, Busy, TypeInv, TypeOK
<1> QED BY <1>1, <1>2 DEF InStep, Busy

LEMMA InStepAbort ==
    ASSUME DeliveryInv, SafeMode, InStep, NEW c \in Consumers, Abort(c),
           UNCHANGED committed \/ (pc[c] = "commit" /\ CommitOffset(c))
    PROVE  InStep'
<1>1. LeaveGroup(c)
  BY DEF Abort, SafeMode
<1>2. \A d \in Consumers \ {c} : (Busy(d)' <=> Busy(d)) /\ msg'[d] = msg[d]
  BY DEF Abort, SafeMode, EndCall, Busy, DeliveryInv, TypeInv, TypeOK
<1> QED BY <1>1, <1>2, InStepLeft

LEMMA InStepGoto ==
    ASSUME DeliveryInv, InStep, NEW c \in Consumers, Busy(c),
           NEW label \in {"store", "notify", "mark", "discard", "dlq", "commit"},
           pc' = [pc EXCEPT ![c] = label],
           UNCHANGED <<owner, position, committed, msg>>
    PROVE  InStep'
<1>1. \A d \in Consumers : Busy(d) => Busy(d)'
  BY DEF Busy, DeliveryInv, TypeInv, TypeOK
<1> QED BY <1>1, InStepKept DEF DeliveryInv

LEMMA InStepRaise ==
    ASSUME DeliveryInv, SafeMode, InStep, NEW c \in Consumers, Busy(c),
           NEW err, Raise(c, err), UNCHANGED committed
    PROVE  InStep'
  BY InStepGoto, InStepAbort DEF Raise, Retry, GiveUp

LEMMA StepInStep ==
    ASSUME DeliveryInv, SafeMode, InStep, [Next]_vars
    PROVE  InStep'
<1> TypeInv
  BY DEF DeliveryInv
<1>1. CASE UNCHANGED vars
  BY <1>1, InStepKept DEF vars, groupVars, callVars, Busy
<1>2. ASSUME NEW c \in Consumers, Restart(c)
      PROVE  InStep'
  BY <1>2, InStepKept DEF Restart, groupVars, callVars, Busy, TypeInv, TypeOK
<1>3. ASSUME NEW c \in Consumers, PollError(c)
      PROVE  InStep'
  BY <1>3, InStepAbort DEF PollError
<1>4. ASSUME NEW c \in Consumers, Crash(c)
      PROVE  InStep'
  BY <1>4, InStepAbort DEF Crash, Abort, SafeMode
<1>5. ASSUME NEW c \in Consumers, NEW p \in Partitions,
             PollValid(c, p) \/ PollMalformed(c, p)
      PROVE  InStep'
  <2> SUFFICES ASSUME MaxRebalances = 0, NEW q \in Partitions, owner'[q] # NoOwner
               PROVE  \/ position'[q] = committed'[q]
                      \/ /\ Busy(owner[q])' /\ msg'[owner'[q]].part = q
                         /\ position'[q] = committed'[q] + 1
    BY DEF InStep
  <2>1. /\ ~Busy(c) /\ owner[p] = c /\ UNCHANGED <<owner, committed>>
        /\ position'[p] = position[p] + 1 /\ msg'[c].part = p /\ Busy(c)'
        /\ \A r \in Partitions \ {p} : position'[r] = position[r]
        /\ \A d \in Consumers \ {c} : (Busy(d)' <=> Busy(d)) /\ msg'[d] = msg[d]
    BY <1>5 DEF PollValid, PollMalformed, Fetch, Receive, Busy, TypeInv, TypeOK
  <2>2. CASE q = p
    <3>1. position[p] = committed[p]
      BY <2>1, ConsumerAssumption DEF InStep
    <3> QED BY <2>1, <2>2, <3>1
  <2>3. CASE q # p
    BY <2>1, <2>3 DEF InStep, TypeInv, TypeOK
  <2> QED BY <2>2, <2>3
<1>6. ASSUME NEW c \in Consumers, NEW p \in Partitions, PollRefused(c, p)
      PROVE  InStep'
  BY <1>6, InStepAbort DEF PollRefused, Abort, SafeMode
<1>7. ASSUME NEW c \in Consumers, Store(c)
      PROVE  InStep'
  <2>1. Busy(c) /\ UNCHANGED committed
    BY <1>7 DEF Store, Busy
  <2>2. ASSUME NEW seen, Stored(c, EventOf(c), seen)
        PROVE  InStep'
    BY <2>1, <2>2, InStepGoto DEF Stored, Goto
  <2> QED BY <1>7, <2>1, <2>2, InStepRaise DEF Store
<1>8. ASSUME NEW c \in Consumers, Notify(c)
      PROVE  InStep'
  <2>1. Busy(c) /\ UNCHANGED committed
    BY <1>8 DEF Notify, Busy
  <2> QED BY <1>8, <2>1, InStepRaise, InStepGoto DEF Notify, Goto, callVars
<1>9. ASSUME NEW c \in Consumers, Mark(c)
      PROVE  InStep'
  <2>1. Busy(c) /\ UNCHANGED committed
    BY <1>9 DEF Mark, Busy
  <2> QED BY <1>9, <2>1, InStepRaise, InStepGoto DEF Mark, Goto, callVars
<1>10. ASSUME NEW c \in Consumers, DiscardEvent(c)
       PROVE  InStep'
  <2>1. Busy(c) /\ UNCHANGED committed
    BY <1>10 DEF DiscardEvent, Busy
  <2> QED BY <1>10, <2>1, InStepAbort, InStepGoto DEF DiscardEvent, Goto, callVars
<1>11. ASSUME NEW c \in Consumers, PublishDeadLetter(c)
       PROVE  InStep'
  <2>1. Busy(c) /\ UNCHANGED committed
    BY <1>11 DEF PublishDeadLetter, Busy
  <2> QED BY <1>11, <2>1, InStepAbort, InStepGoto DEF PublishDeadLetter, Goto, callVars
<1>12. ASSUME NEW c \in Consumers, CommitFails(c)
       PROVE  InStep'
  BY <1>12, InStepAbort DEF CommitFails
<1>13. ASSUME NEW c \in Consumers, CommitSucceeds(c)
       PROVE  InStep'
  <2> SUFFICES ASSUME MaxRebalances = 0, NEW q \in Partitions, owner'[q] # NoOwner
               PROVE  \/ position'[q] = committed'[q]
                      \/ /\ Busy(owner[q])' /\ msg'[owner'[q]].part = q
                         /\ position'[q] = committed'[q] + 1
    BY DEF InStep
  <2>1. /\ Busy(c) /\ UNCHANGED <<owner, position>>
        /\ msg[c].part \in Partitions
        /\ committed'[msg[c].part] = msg[c].off + 1
        /\ \A r \in Partitions \ {msg[c].part} : committed'[r] = committed[r]
        /\ \A d \in Consumers \ {c} : (Busy(d)' <=> Busy(d)) /\ msg'[d] = msg[d]
    BY <1>13, InHand
    DEF CommitSucceeds, CommitOffset, Goto, EndCall, Busy, TypeInv, TypeOK
  <2>2. CASE q = msg[c].part
    BY <2>1, <2>2 DEF DeliveryInv, Exclusive
  <2>3. CASE q # msg[c].part
    BY <2>1, <2>3 DEF InStep, TypeInv, TypeOK
  <2> QED BY <2>2, <2>3
<1>14. ASSUME NEW c \in Consumers, NEW p \in Partitions, Assign(p, c) \/ Rebalance(p, c)
       PROVE  InStep'
  <2> SUFFICES ASSUME MaxRebalances = 0, NEW q \in Partitions, owner'[q] # NoOwner
               PROVE  \/ position'[q] = committed'[q]
                      \/ /\ Busy(owner[q])' /\ msg'[owner'[q]].part = q
                         /\ position'[q] = committed'[q] + 1
    BY DEF InStep
  <2>1. /\ UNCHANGED <<committed, pc, msg>> /\ position'[p] = committed[p]
        /\ \A r \in Partitions \ {p} :
              position'[r] = position[r] /\ owner'[r] = owner[r]
    BY <1>14 DEF Assign, Rebalance, AssignTo, callVars, TypeInv, TypeOK
  <2>2. CASE q = p
    BY <2>1, <2>2
  <2>3. CASE q # p
    BY <2>1, <2>3 DEF InStep, Busy
  <2> QED BY <2>2, <2>3
<1>15. ASSUME NEW c \in Consumers, PollTimeout(c)
       PROVE  InStep'
  BY <1>1, <1>15 DEF PollTimeout
<1> QED
  BY <1>1, <1>2, <1>3, <1>4, <1>5, <1>6, <1>7, <1>8, <1>9, <1>10, <1>11, <1>12, <1>13,
     <1>14, <1>15
  DEF Next, ProcessOne

\* With a dead-letter topic, an event is worked on by one consumer at a time.
LEMMA OneWorker ==
    ASSUME DeliveryInv, SafeMode, HasDeadLetter,
           NEW c \in Consumers, NEW d \in Consumers, Busy(c), Busy(d),
           EventOf(c) = EventOf(d), EventOf(c) \in Events
    PROVE  c = d
<1>1. MaxRebalances = 0 /\ UniqueEvents
  BY DEF SafeMode
<1>2. msg[c].part = msg[d].part
  BY <1>1, InHand DEF DeliveryInv, UniqueEvents, EventOf
<1> QED BY <1>1, <1>2 DEF DeliveryInv, Exclusive

\* A record in hand whose event is not completed is not committed.
LEMMA UnfinishedUncommitted ==
    ASSUME DeliveryInv, SafeMode, NoDeadLetters, NEW c \in Consumers, Busy(c),
           ~Completed(EventOf(c))
    PROVE  committed[msg[c].part] <= msg[c].off
<1>1. CASE HasDeadLetter
  BY <1>1 DEF SafeMode, DeliveryInv, Exclusive
<1>2. CASE ~HasDeadLetter
  <2>1. ~Handled(msg[c].part, msg[c].off)
    BY <1>2 DEF NoDeadLetters, Handled, DeadLettered, EventOf
  <2> QED
    BY <2>1, InHand DEF DeliveryInv, AcknowledgedMeansHandled, TypeInv, TypeOK
<1> QED BY <1>1, <1>2

\* A commit moves past no pending event.
LEMMA CommitsNoPending ==
    ASSUME PendingInv, SafeMode, NEW c \in Consumers, pc[c] = "commit",
           NEW o \in Offsets(msg[c].part), o <= msg[c].off, committed[msg[c].part] <= o,
           Value(msg[c].part, o) \in Events
    PROVE  marker[Value(msg[c].part, o)] # "pending"
<1> DEFINE p == msg[c].part
<1>1. /\ DeliveryInv /\ Busy(c) /\ p \in Partitions /\ msg[c].off \in Nat /\ o \in Nat
      /\ msg[c].off \in Offsets(p) /\ committed[p] \in Nat
  BY InHand, ValueType DEF PendingInv, DeliveryInv, Busy, TypeInv, TypeOK
<1>2. CASE o = msg[c].off
  BY <1>1, <1>2 DEF PendingInv, LateNotPending, EventOf
<1>3. CASE o < msg[c].off
  <2>1. Handled(p, o)
    BY <1>1, <1>3 DEF DeliveryInv, EarlierRecordsHandled
  <2>2. CASE HasDeadLetter
    <3>1. /\ MaxRebalances = 0 /\ owner[p] = c /\ position[p] = msg[c].off + 1
          /\ c # NoOwner
      BY <1>1, <2>2, ConsumerAssumption DEF SafeMode, DeliveryInv, Exclusive
    <3>2. position[p] \in {committed[p], committed[p] + 1}
      BY <1>1, <3>1 DEF PendingInv, InStep
    <3> QED BY <1>1, <1>3, <3>1, <3>2
  <2>3. CASE ~HasDeadLetter
    BY <2>1, <2>3 DEF PendingInv, NoDeadLetters, Handled, DeadLettered, Completed
  <2> QED BY <2>2, <2>3
<1> QED BY <1>1, <1>2, <1>3

LEMMA StepLateNotPending ==
    ASSUME PendingInv, SafeMode, [Next]_vars
    PROVE  LateNotPending'
<1> DeliveryInv /\ TypeInv /\ StoreTypeOK
  BY DEF PendingInv, DeliveryInv, TypeInv, TypeOK
<1> SUFFICES ASSUME NEW d \in Consumers, pc'[d] \in {"dlq", "commit"},
                    EventOf(d)' \in Events, marker'[EventOf(d)'] = "pending"
             PROVE  FALSE
  BY DEF LateNotPending
<1>1. Busy(d) /\ msg'[d] = msg[d]
  BY LateCalls
<1>2. EventOf(d)' = EventOf(d)
  BY <1>1 DEF EventOf
<1>3. pc[d] \in {"dlq", "commit"} /\ marker[EventOf(d)] # "pending"
  BY <1>2, LateCalls DEF PendingInv, LateNotPending
<1>4. PICK c \in Consumers : pc[c] = "store" /\ ClaimAndInsert(EventOf(c))
  BY <1>2, <1>3, EffectOfStep
  DEF Effect, MarkCompleted, Discard, StoreTypeOK, storeVars
<1>5. EventOf(c) = EventOf(d) /\ marker[EventOf(d)] = "absent" /\ Busy(c) /\ c # d
  BY <1>2, <1>3, <1>4 DEF ClaimAndInsert, StoreTypeOK, Busy
<1>6. ~HasDeadLetter
  BY <1>1, <1>2, <1>5, OneWorker
<1>7. pc[d] = "commit"
  BY <1>3, <1>6 DEF DeliveryInv, NoGiveUp
<1>8. Handled(msg[d].part, msg[d].off)
  BY <1>1, <1>7, InHand DEF DeliveryInv, CommitHandled, WorksOn
<1> QED
  BY <1>5, <1>6, <1>8
  DEF PendingInv, NoDeadLetters, Handled, DeadLettered, Completed, EventOf

LEMMA StepPendingUncommitted ==
    ASSUME PendingInv, SafeMode, [Next]_vars
    PROVE  PendingUncommitted'
<1> DeliveryInv /\ TypeInv /\ StoreTypeOK /\ NoDeadLetters
    /\ committed \in [Partitions -> Nat]
  BY DEF PendingInv, DeliveryInv, TypeInv, TypeOK
<1> SUFFICES ASSUME NEW e \in Events, marker'[e] = "pending"
             PROVE  \E p \in Partitions : \E o \in Offsets(p) :
                        Value(p, o) = e /\ committed'[p] <= o
  BY DEF PendingUncommitted
<1>1. CASE marker[e] # "pending"
  <2>1. PICK c \in Consumers :
           pc[c] = "store" /\ ClaimAndInsert(EventOf(c)) /\ UNCHANGED committed
    BY <1>1, EffectOfStep
    DEF Effect, MarkCompleted, Discard, StoreTypeOK, storeVars
  <2>2. Busy(c) /\ EventOf(c) = e /\ ~Completed(EventOf(c))
    BY <1>1, <2>1 DEF ClaimAndInsert, StoreTypeOK, Busy, Completed
  <2>3. committed[msg[c].part] <= msg[c].off
    BY <2>2, UnfinishedUncommitted
  <2> QED BY <2>1, <2>2, <2>3, InHand DEF EventOf
<1>2. CASE marker[e] = "pending"
  <2>1. PICK p \in Partitions : \E o \in Offsets(p) : Value(p, o) = e /\ committed[p] <= o
    BY <1>2 DEF PendingInv, PendingUncommitted
  <2>2. PICK o \in Offsets(p) : Value(p, o) = e /\ committed[p] <= o
    BY <2>1
  <2>3. CASE UNCHANGED committed
    BY <2>2, <2>3
  <2>4. CASE committed' # committed
    <3>1. PICK c \in Consumers : pc[c] = "commit" /\ CommitOffset(c)
      BY <2>4, EffectOfStep DEF Effect
    <3>2. Busy(c) /\ msg[c].part \in Partitions /\ msg[c].off \in Nat /\ o \in Nat
      BY <3>1, InHand, ValueType DEF Busy
    <3>3. ~(p = msg[c].part /\ o <= msg[c].off)
      BY <1>2, <2>2, <3>1, CommitsNoPending
    <3>4. committed'[p] <= o
      BY <2>2, <3>1, <3>2, <3>3 DEF CommitOffset
    <3> QED BY <2>2, <3>4
  <2> QED BY <2>3, <2>4
<1> QED BY <1>1, <1>2

\* In a safe configuration nothing is left half done: a pending event still has
\* a record to be delivered or a consumer at work on it, so that a dead-lettered
\* and committed record leaves "no partial business state".
THEOREM NothingIsLeftPending ==
    ASSUME SafeMode PROVE Spec => []PendingIsUnderWay
<1>1. Init => PendingInv
  <2> SUFFICES ASSUME Init PROVE PendingInv
    OBVIOUS
  <2>1. InStep /\ NoDeadLetters /\ LateNotPending /\ PendingUncommitted
    BY DEF Init, StoreInit, InStep, NoDeadLetters, LateNotPending, PendingUncommitted
  <2> QED BY <2>1, InitDeliveryInv DEF PendingInv
<1>2. PendingInv /\ [Next]_vars => PendingInv'
  <2> SUFFICES ASSUME PendingInv, [Next]_vars
               PROVE  PendingInv'
    OBVIOUS
  <2>1. DeliveryInv' /\ InStep'
    BY StepDeliveryInv, StepInStep DEF PendingInv
  <2>2. NoDeadLetters'
    BY EffectOfStep DEF PendingInv, NoDeadLetters, Effect, DeliveryInv, NoGiveUp
  <2> QED
    BY <2>1, <2>2, StepLateNotPending, StepPendingUncommitted DEF PendingInv
<1>3. PendingInv => PendingIsUnderWay
  BY DEF PendingInv, PendingUncommitted, PendingIsUnderWay
<1> QED BY <1>1, <1>2, <1>3, PTL DEF Spec

(***************************************************************************)
(* OneFreshResult.  A consumer that is to report a new order holds the     *)
(* claim of its event: while it does, and after it has reported, the row   *)
(* of processed_events is there, so that nobody else claims the event.     *)
(***************************************************************************)

\* c will return duplicate=False for e.
Claims(c, e) ==
    Busy(c) /\ isNew[c] = "new" /\ error[c] = "none" /\ EventOf(c) = e

ClaimsHeld ==
    \A e \in Events :
        /\ fresh[e] <= 1
        /\ fresh[e] = 1 => marker[e] # "absent"
        /\ \A c \in Consumers : Claims(c, e) =>
            /\ marker[e] # "absent" /\ fresh[e] = 0
            /\ \A d \in Consumers : Claims(d, e) => d = c

\* What discard could undo has not been reported.
FreshAcknowledged ==
    HasDeadLetter => \A e \in Events : fresh[e] = 1 =>
        \E p \in Partitions : \E o \in Offsets(p) :
            Value(p, o) = e /\ o < committed[p]

IdleUnset == \A c \in Consumers : ~Busy(c) => isNew[c] = "unset"

FreshInv ==
    /\ TypeInv
    /\ NoGiveUp
    /\ HasDeadLetter => DeliveryInv
    /\ IdleUnset
    /\ ClaimsHeld
    /\ FreshAcknowledged

\* c takes the claim of e.
TakesClaim(c, e) ==
    /\ pc[c] = "store" /\ EventOf(c) = e /\ ClaimAndInsert(e)
    /\ pc'[c] # "store" /\ \A d \in Consumers \ {c} : pc'[d] = pc[d]

\* The calls of a step: who holds a claim afterwards held it before, or takes it.
ClaimsMove ==
    /\ IdleUnset'
    /\ NoGiveUp'
    /\ \A c \in Consumers, e \in Events : Claims(c, e)' => Claims(c, e) \/ TakesClaim(c, e)

LEMMA AbortClaims ==
    ASSUME TypeInv, NoGiveUp, IdleUnset, NEW c \in Consumers, Abort(c)
    PROVE  ClaimsMove
<1>1. /\ pc'[c] \in {"idle", "down"} /\ isNew'[c] = "unset"
      /\ \A d \in Consumers \ {c} :
            /\ pc'[d] = pc[d] /\ isNew'[d] = isNew[d]
            /\ error'[d] = error[d] /\ msg'[d] = msg[d]
  BY DEF Abort, EndCall, TypeInv, TypeOK
<1> QED BY <1>1 DEF ClaimsMove, IdleUnset, NoGiveUp, Claims, Busy, EventOf

LEMMA RaiseClaims ==
    ASSUME TypeInv, NoGiveUp, IdleUnset, NEW c \in Consumers,
           NEW err \in ProcessingErrors, Raise(c, err), Busy(c)
    PROVE  ClaimsMove
<1>1. CASE Retry(c) \/ (HasDeadLetter /\ GiveUp(c, err))
  <2>1. /\ pc'[c] \in {"store", "discard"} /\ UNCHANGED <<isNew, msg>>
        /\ pc'[c] = "discard" => HasDeadLetter
        /\ error'[c] = "none" => error[c] = "none"
        /\ \A d \in Consumers \ {c} : pc'[d] = pc[d] /\ error'[d] = error[d]
    BY <1>1 DEF Retry, GiveUp, ProcessingErrors, TypeInv, TypeOK
  <2> QED BY <2>1 DEF ClaimsMove, IdleUnset, NoGiveUp, Claims, Busy, EventOf
<1>2. CASE Abort(c)
  BY <1>2, AbortClaims
<1> QED BY <1>1, <1>2 DEF Raise

LEMMA GotoClaims ==
    ASSUME TypeInv, NoGiveUp, IdleUnset, NEW c \in Consumers, Busy(c),
           NEW label \in {"notify", "mark", "dlq", "commit"}, Goto(c, label),
           UNCHANGED <<msg, isNew, error>>, label = "dlq" => HasDeadLetter
    PROVE  ClaimsMove
<1>1. pc'[c] = label /\ \A d \in Consumers \ {c} : pc'[d] = pc[d]
  BY DEF Goto, TypeInv, TypeOK
<1> QED BY <1>1 DEF ClaimsMove, IdleUnset, NoGiveUp, Claims, Busy, EventOf

LEMMA StepClaims ==
    ASSUME TypeInv, NoGiveUp, IdleUnset, [Next]_vars
    PROVE  ClaimsMove
<1>1. CASE UNCHANGED vars
  BY <1>1 DEF vars, callVars, ClaimsMove, IdleUnset, NoGiveUp, Claims, Busy, EventOf
<1>2. ASSUME NEW c \in Consumers, Restart(c)
      PROVE  ClaimsMove
  <2>1. /\ ~Busy(c) /\ pc'[c] = "idle" /\ UNCHANGED <<isNew, msg, error>>
        /\ \A d \in Consumers \ {c} : pc'[d] = pc[d]
    BY <1>2 DEF Restart, callVars, Busy, TypeInv, TypeOK
  <2> QED BY <2>1 DEF ClaimsMove, IdleUnset, NoGiveUp, Claims, Busy, EventOf
<1>3. ASSUME NEW c \in Consumers, Crash(c)
      PROVE  ClaimsMove
  <2>1. /\ pc'[c] = "down" /\ isNew'[c] = "unset"
        /\ \A d \in Consumers \ {c} :
              /\ pc'[d] = pc[d] /\ isNew'[d] = isNew[d]
              /\ error'[d] = error[d] /\ msg'[d] = msg[d]
    BY <1>3 DEF Crash, EndCall, TypeInv, TypeOK
  <2> QED BY <2>1 DEF ClaimsMove, IdleUnset, NoGiveUp, Claims, Busy, EventOf
<1>4. ASSUME NEW c \in Consumers, NEW p \in Partitions,
             PollValid(c, p) \/ PollMalformed(c, p)
      PROVE  ClaimsMove
  <2>1. /\ ~Busy(c) /\ Busy(c)' /\ UNCHANGED isNew
        /\ ~HasDeadLetter => pc'[c] = "store"
        /\ \A d \in Consumers \ {c} :
              pc'[d] = pc[d] /\ error'[d] = error[d] /\ msg'[d] = msg[d]
    BY <1>4
    DEF PollValid, PollMalformed, Fetch, Receive, Busy, TypeInv, TypeOK
  <2> QED BY <2>1 DEF ClaimsMove, IdleUnset, NoGiveUp, Claims, Busy, EventOf
<1>5. ASSUME NEW c \in Consumers, NEW p \in Partitions, PollRefused(c, p)
      PROVE  ClaimsMove
  <2>1. /\ ~Busy(c)' /\ isNew'[c] = "unset" /\ pc'[c] \in {"idle", "down"}
        /\ \A d \in Consumers \ {c} :
              /\ pc'[d] = pc[d] /\ isNew'[d] = isNew[d]
              /\ error'[d] = error[d] /\ msg'[d] = msg[d]
    BY <1>5 DEF PollRefused, Fetch, EndCall, Busy, TypeInv, TypeOK
  <2> QED BY <2>1 DEF ClaimsMove, IdleUnset, NoGiveUp, Claims, Busy, EventOf
<1>6. ASSUME NEW c \in Consumers, PollError(c) \/ CommitFails(c)
      PROVE  ClaimsMove
  BY <1>6, AbortClaims DEF PollError, CommitFails
<1>7. ASSUME NEW c \in Consumers, Store(c)
      PROVE  ClaimsMove
  <2>1. Busy(c) /\ pc[c] = "store"
    BY <1>7 DEF Store, Busy
  <2>2. ASSUME NEW err \in {"conflict", "database"}, Raise(c, err)
        PROVE  ClaimsMove
    BY <2>1, <2>2, RaiseClaims DEF ProcessingErrors
  <2>3. ASSUME NEW seen \in {"new", "seen"}, Stored(c, EventOf(c), seen)
        PROVE  /\ pc'[c] \in {"notify", "mark", "commit"}
               /\ UNCHANGED <<msg, error>>
               /\ isNew'[c] = "new" => isNew[c] = "new" \/ seen = "new"
               /\ \A d \in Consumers \ {c} : pc'[d] = pc[d] /\ isNew'[d] = isNew[d]
    BY <2>3 DEF Stored, Goto, TypeInv, TypeOK
  <2>4. CASE ClaimAndInsert(EventOf(c)) /\ Stored(c, EventOf(c), "new")
    <3> USE <2>1, <2>3, <2>4
    <3>1. IdleUnset' /\ NoGiveUp'
      BY DEF IdleUnset, NoGiveUp, Busy
    <3>2. \A e \in Events : Claims(c, e)' => TakesClaim(c, e)
      BY DEF Claims, TakesClaim, EventOf
    <3>3. \A d \in Consumers \ {c}, e \in Events : Claims(d, e)' => Claims(d, e)
      BY DEF Claims, Busy, EventOf
    <3> QED BY <3>1, <3>2, <3>3 DEF ClaimsMove
  <2>5. CASE SeenAgain(EventOf(c)) /\ Stored(c, EventOf(c), "seen")
    BY <2>1, <2>3, <2>5 DEF ClaimsMove, IdleUnset, NoGiveUp, Claims, Busy, EventOf
  <2> QED BY <1>7, <2>2, <2>4, <2>5 DEF Store
<1>8. ASSUME NEW c \in Consumers, Notify(c)
      PROVE  ClaimsMove
  <2>1. Busy(c)
    BY <1>8 DEF Notify, Busy
  <2> QED BY <1>8, <2>1, RaiseClaims, GotoClaims DEF Notify, callVars, ProcessingErrors
<1>9. ASSUME NEW c \in Consumers, Mark(c)
      PROVE  ClaimsMove
  <2>1. Busy(c)
    BY <1>9 DEF Mark, Busy
  <2> QED BY <1>9, <2>1, RaiseClaims, GotoClaims DEF Mark, callVars, ProcessingErrors
<1>10. ASSUME NEW c \in Consumers, DiscardEvent(c) \/ PublishDeadLetter(c)
       PROVE  ClaimsMove
  <2>1. Busy(c) /\ HasDeadLetter
    BY <1>10 DEF DiscardEvent, PublishDeadLetter, Busy, NoGiveUp
  <2> QED
    BY <1>10, <2>1, AbortClaims, GotoClaims DEF DiscardEvent, PublishDeadLetter, callVars
<1>11. ASSUME NEW c \in Consumers, CommitSucceeds(c)
       PROVE  ClaimsMove
  <2>1. /\ pc'[c] = "idle" /\ isNew'[c] = "unset"
        /\ \A d \in Consumers \ {c} :
              /\ pc'[d] = pc[d] /\ isNew'[d] = isNew[d]
              /\ error'[d] = error[d] /\ msg'[d] = msg[d]
    BY <1>11 DEF CommitSucceeds, Goto, EndCall, TypeInv, TypeOK
  <2> QED BY <2>1 DEF ClaimsMove, IdleUnset, NoGiveUp, Claims, Busy, EventOf
<1>12. ASSUME NEW c \in Consumers, NEW p \in Partitions, Assign(p, c) \/ Rebalance(p, c)
       PROVE  ClaimsMove
  BY <1>12
  DEF Assign, Rebalance, callVars, ClaimsMove, IdleUnset, NoGiveUp, Claims, Busy, EventOf
<1>13. ASSUME NEW c \in Consumers, PollTimeout(c)
       PROVE  ClaimsMove
  BY <1>1, <1>13 DEF PollTimeout
<1> QED
  BY <1>1, <1>2, <1>3, <1>4, <1>5, <1>6, <1>7, <1>8, <1>9, <1>10, <1>11, <1>12, <1>13
  DEF Next, ProcessOne

\* The results a step returns.
LEMMA FreshMoves ==
    ASSUME [Next]_vars
    PROVE  UNCHANGED fresh \/ \E c \in Consumers : CommitSucceeds(c)
  BY DEF vars, worldVars, Next, ProcessOne, Restart, PollTimeout, PollError, Crash,
         PollValid, PollMalformed, PollRefused, Receive, Store, Notify, Mark,
         DiscardEvent, PublishDeadLetter, CommitFails, Assign, Rebalance

\* Nobody holds or has used the claim of an event that is being discarded.
LEMMA DiscardedUnclaimed ==
    ASSUME FreshInv, HasDeadLetter => SafeMode,
           NEW c \in Consumers, pc[c] = "discard"
    PROVE  /\ fresh[EventOf(c)] = 0
           /\ \A d \in Consumers : ~Claims(d, EventOf(c))
<1> DEFINE e == EventOf(c)
<1>1. /\ HasDeadLetter /\ DeliveryInv /\ SafeMode
      /\ Busy(c) /\ e \in Events /\ error[c] # "none"
  BY DEF FreshInv, NoGiveUp, TypeInv, CallOK, Busy, Errors, ProcessingErrors
<1>2. fresh[e] # 1
  <2> SUFFICES ASSUME fresh[e] = 1
               PROVE  FALSE
    OBVIOUS
  <2>1. PICK p \in Partitions : \E o \in Offsets(p) : Value(p, o) = e /\ o < committed[p]
    BY <1>1 DEF FreshInv, FreshAcknowledged
  <2>2. PICK o \in Offsets(p) : Value(p, o) = e /\ o < committed[p]
    BY <2>1
  <2>3. o \in Nat /\ committed[p] \in Nat
    BY ValueType DEF FreshInv, TypeInv, TypeOK
  <2> QED BY <1>1, <2>2, <2>3, DiscardIsUnacknowledged
<1>3. fresh[e] \in Nat /\ fresh[e] <= 1
  BY <1>1 DEF FreshInv, ClaimsHeld, TypeInv, TypeOK
<1>4. ASSUME NEW d \in Consumers, Claims(d, e)
      PROVE  FALSE
  <2>1. c = d
    BY <1>1, <1>4, OneWorker DEF Claims
  <2> QED BY <1>1, <1>4, <2>1 DEF Claims
<1> QED BY <1>2, <1>3, <1>4

LEMMA StepClaimsHeld ==
    ASSUME FreshInv, HasDeadLetter => SafeMode, [Next]_vars
    PROVE  ClaimsHeld'
<1> /\ TypeInv /\ ClaimsMove /\ ClaimsHeld /\ StoreTypeOK /\ fresh \in [Events -> Nat]
  BY StepClaims DEF FreshInv, TypeInv, TypeOK
<1> SUFFICES ASSUME NEW e \in Events
             PROVE  /\ fresh'[e] <= 1
                    /\ fresh'[e] = 1 => marker'[e] # "absent"
                    /\ \A c \in Consumers : Claims(c, e)' =>
                        /\ marker'[e] # "absent" /\ fresh'[e] = 0
                        /\ \A d \in Consumers : Claims(d, e)' => d = c
  BY DEF ClaimsHeld
<1>1. CASE marker[e] = "absent"
  <2>1. fresh[e] = 0 /\ \A c \in Consumers : ~Claims(c, e)
    BY <1>1 DEF ClaimsHeld
  <2>2. \A c \in Consumers : Claims(c, e)' => TakesClaim(c, e)
    BY <2>1 DEF ClaimsMove
  <2>3. \A c, d \in Consumers : TakesClaim(c, e) /\ TakesClaim(d, e) => c = d
    BY DEF TakesClaim
  <2>4. fresh'[e] = fresh[e]
    <3>1. CASE UNCHANGED fresh
      BY <3>1
    <3>2. ASSUME NEW c \in Consumers, CommitSucceeds(c)
          PROVE  fresh'[e] = fresh[e]
      <4>1. error[c] = "none" /\ isNew[c] = "new" => EventOf(c) # e
        BY <2>1, <3>2 DEF CommitSucceeds, Claims, Busy
      <4> QED BY <3>2, <4>1 DEF CommitSucceeds
    <3> QED BY <3>1, <3>2, FreshMoves
  <2>5. \A c \in Consumers : TakesClaim(c, e) => marker'[e] = "pending"
    BY DEF TakesClaim, ClaimAndInsert, StoreTypeOK
  <2> QED BY <2>1, <2>2, <2>3, <2>4, <2>5
<1>2. CASE marker[e] # "absent"
  <2>1. \A c \in Consumers : Claims(c, e)' => Claims(c, e)
    BY <1>2 DEF ClaimsMove, TakesClaim, ClaimAndInsert
  <2>2. ASSUME NEW c \in Consumers, CommitSucceeds(c)
        PROVE  /\ marker' = marker
               /\ ~Claims(c, e)'
               /\ fresh'[e] = IF Claims(c, e) THEN fresh[e] + 1 ELSE fresh[e]
    <3>1. marker' = marker
      BY <2>2 DEF CommitSucceeds, storeVars
    <3>2. ~Claims(c, e)'
      BY <2>2 DEF CommitSucceeds, Goto, Claims, Busy, TypeInv, TypeOK
    <3>3. Claims(c, e) <=> error[c] = "none" /\ isNew[c] = "new" /\ EventOf(c) = e
      BY <2>2 DEF CommitSucceeds, Claims, Busy
    <3> QED BY <2>2, <3>1, <3>2, <3>3 DEF CommitSucceeds
  <2>3. CASE \E c \in Consumers : CommitSucceeds(c)
    BY <1>2, <2>1, <2>2, <2>3 DEF ClaimsHeld
  <2>4. CASE UNCHANGED fresh /\ marker'[e] # "absent"
    BY <2>1, <2>4 DEF ClaimsHeld
  <2>5. CASE UNCHANGED fresh /\ marker'[e] = "absent"
    <3>1. PICK c \in Consumers : pc[c] = "discard" /\ EventOf(c) = e
      BY <1>2, <2>5, EffectOfStep
      DEF Effect, ClaimAndInsert, MarkCompleted, Discard, StoreTypeOK, storeVars
    <3>2. fresh[e] = 0 /\ \A d \in Consumers : ~Claims(d, e)
      BY <3>1, DiscardedUnclaimed
    <3> QED BY <2>1, <2>5, <3>2
  <2> QED BY <2>3, <2>4, <2>5, FreshMoves
<1> QED BY <1>1, <1>2

\* Without rebalances a commit moves the offset past the record in hand.
LEMMA CommitAdvances ==
    ASSUME DeliveryInv, MaxRebalances = 0, NEW c \in Consumers,
           pc[c] = "commit", CommitOffset(c)
    PROVE  /\ committed'[msg[c].part] = msg[c].off + 1
           /\ \A p \in Partitions : committed'[p] >= committed[p]
<1>1. TypeInv /\ Busy(c) /\ committed \in [Partitions -> Nat]
  BY DEF Busy, DeliveryInv, TypeInv, TypeOK
<1>2. committed[msg[c].part] <= msg[c].off
  BY <1>1 DEF DeliveryInv, Exclusive
<1> QED BY <1>1, <1>2, InHand DEF CommitOffset

LEMMA OffsetsAdvance ==
    ASSUME DeliveryInv, MaxRebalances = 0, [Next]_vars
    PROVE  \A p \in Partitions : committed'[p] >= committed[p]
<1>1. committed \in [Partitions -> Nat]
  BY DEF DeliveryInv, TypeInv, TypeOK
<1> QED BY <1>1, CommitAdvances, EffectOfStep DEF Effect

LEMMA StepFreshAcknowledged ==
    ASSUME FreshInv, HasDeadLetter => SafeMode, [Next]_vars
    PROVE  FreshAcknowledged'
<1> SUFFICES ASSUME HasDeadLetter, NEW e \in Events, fresh'[e] = 1
             PROVE  \E p \in Partitions : \E o \in Offsets(p) :
                        Value(p, o) = e /\ o < committed'[p]
  BY DEF FreshAcknowledged
<1>1. /\ DeliveryInv /\ TypeInv /\ MaxRebalances = 0
      /\ fresh \in [Events -> Nat] /\ committed \in [Partitions -> Nat]
  BY DEF FreshInv, SafeMode, TypeInv, TypeOK
<1>2. \A p \in Partitions : committed'[p] >= committed[p]
  BY <1>1, OffsetsAdvance
<1>3. CASE fresh[e] = 1
  <2>1. PICK p \in Partitions : \E o \in Offsets(p) : Value(p, o) = e /\ o < committed[p]
    BY <1>3 DEF FreshInv, FreshAcknowledged
  <2>2. PICK o \in Offsets(p) : Value(p, o) = e /\ o < committed[p]
    BY <2>1
  <2>3. o \in Nat /\ committed[p] \in Nat /\ committed'[p] \in Nat
    BY <1>1, StepTypeInv, ValueType DEF TypeInv, TypeOK
  <2>4. committed'[p] >= committed[p]
    BY <1>2
  <2>5. o < committed'[p]
    BY <2>2, <2>3, <2>4
  <2> QED BY <2>2, <2>5
<1>4. CASE fresh[e] # 1
  <2>1. PICK c \in Consumers : CommitSucceeds(c)
    BY <1>4, FreshMoves
  <2>2. EventOf(c) = e /\ pc[c] = "commit" /\ CommitOffset(c) /\ Busy(c)
    BY <1>1, <1>4, <2>1 DEF CommitSucceeds, Busy
  <2> QED BY <1>1, <2>2, CommitAdvances, InHand DEF EventOf
<1> QED BY <1>3, <1>4

LEMMA FreshInvariance == ASSUME HasDeadLetter => SafeMode PROVE Spec => []FreshInv
<1>1. Init => FreshInv
  <2> SUFFICES ASSUME Init PROVE FreshInv
    OBVIOUS
  <2>1. NoGiveUp /\ IdleUnset /\ ClaimsHeld /\ FreshAcknowledged
    BY DEF Init, NoGiveUp, IdleUnset, ClaimsHeld, Claims, Busy, FreshAcknowledged
  <2> QED BY <2>1, InitTypeInv, InitDeliveryInv DEF FreshInv
<1>2. FreshInv /\ [Next]_vars => FreshInv'
  <2> SUFFICES ASSUME FreshInv, [Next]_vars
               PROVE  FreshInv'
    OBVIOUS
  <2>1. TypeInv' /\ (HasDeadLetter => DeliveryInv')
    BY StepTypeInv, StepDeliveryInv DEF FreshInv
  <2>2. NoGiveUp' /\ IdleUnset'
    BY StepClaims DEF FreshInv, ClaimsMove
  <2> QED
    BY <2>1, <2>2, StepClaimsHeld, StepFreshAcknowledged DEF FreshInv
<1> QED BY <1>1, <1>2, PTL DEF Spec

\* At most one result per event says duplicate=False, however many consumers
\* receive the event and however often: without a dead-letter topic in every
\* configuration, and with one in the safe ones.
THEOREM OneResultIsFresh ==
    ASSUME HasDeadLetter => SafeMode
    PROVE  Spec => []OneFreshResult
<1>1. FreshInv => OneFreshResult
  BY DEF FreshInv, ClaimsHeld, OneFreshResult
<1> QED BY <1>1, FreshInvariance, PTL

(***************************************************************************)
(* What the safe configurations come to.                                   *)
(***************************************************************************)

\* An offset never moves back: no record that was acknowledged is delivered
\* again, unless a rebalance lets an earlier owner commit late
\* (kafka_order_consumer.py:267-282).
THEOREM OffsetsNeverMoveBack ==
    ASSUME SafeMode, MaxRebalances = 0
    PROVE  Spec => [][\A p \in Partitions : committed'[p] >= committed[p]]_vars
<1>1. DeliveryInv /\ [Next]_vars => [\A p \in Partitions : committed'[p] >= committed[p]]_vars
  BY OffsetsAdvance
<1> QED BY <1>1, DeliveryInvariance, PTL DEF Spec

\* While a consumer discards an event nobody else works on that event.
AloneToDiscard ==
    \A c, d \in Consumers :
        pc[c] = "discard" /\ Busy(d) /\ EventOf(d) = EventOf(c) => d = c

\* Without a dead-letter topic, or in a safe configuration, no discard overlaps
\* another call for its event: what PostgresTransactions assumes as
\* ~DiscardsOverlap, so that its theorems on the SQL statements apply to these
\* consumers (kafka_order_consumer.py:236-243).
THEOREM DiscardsAreAlone ==
    ASSUME HasDeadLetter => SafeMode
    PROVE  Spec => []AloneToDiscard
<1>1. FreshInv => AloneToDiscard
  <2> SUFFICES ASSUME FreshInv, NEW c \in Consumers, NEW d \in Consumers,
                      pc[c] = "discard", Busy(d), EventOf(d) = EventOf(c)
               PROVE  d = c
    BY DEF AloneToDiscard
  <2>1. HasDeadLetter /\ Busy(c) /\ EventOf(c) \in Events
    BY DEF FreshInv, NoGiveUp, TypeInv, CallOK, Busy
  <2> QED BY <2>1, OneWorker DEF FreshInv
<1> QED BY <1>1, FreshInvariance, PTL

\* Where no discard overlaps another call for its event, an order and the marker of
\* its event stay together and order ids distinct, under every crash, lost answer,
\* retry and redelivery.  Elsewhere discard is not the atomic step the consumer model
\* takes it for (postgres_order_store.py:198-207), and nothing is claimed.
THEOREM RowsStayTogether ==
    ASSUME HasDeadLetter => SafeMode
    PROVE  Spec => [](AloneToDiscard /\ OrderHasMarker /\ OrderIdsDistinct)
BY DiscardsAreAlone, ConsumersUseTheStore, StoreRowsFit, PTL

\* An acknowledged record that is not in the dead-letter topic has its order in
\* the table, and the downstream service accepted it.
AcknowledgedMeansDelivered ==
    \A p \in Partitions : \A o \in Offsets(p) :
        o < committed[p] /\ ~DeadLettered(p, o) =>
            /\ Value(p, o) \in orders
            /\ HasDownstream => Value(p, o) \in notified

\* The promise of the consumer group in one statement: it puts together the
\* offsets, the rows of the store and the notifications.
THEOREM AcknowledgedOrdersAreDelivered ==
    ASSUME SafeMode PROVE Spec => []AcknowledgedMeansDelivered
<1>1. /\ AcknowledgedMeansHandled /\ CompletedMeansNotified
      /\ OrderHasMarker /\ OrderIdsDistinct
      => AcknowledgedMeansDelivered
  BY DEF AcknowledgedMeansHandled, Handled, CompletedMeansNotified, OrderHasMarker,
         Completed, AcknowledgedMeansDelivered
<1>2. Spec => [](AloneToDiscard /\ OrderHasMarker /\ OrderIdsDistinct)
  BY RowsStayTogether
<1> QED
  BY <1>1, <1>2, OffsetsCoverHandledRecords, CompletionFollowsNotification, PTL

=============================================================================
