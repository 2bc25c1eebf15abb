----------------------- MODULE KafkaOrderConsumerProofs -----------------------
(***************************************************************************)
(* Theorems about KafkaOrderConsumer, for any consumers, partitions, log   *)
(* and bounds.                                                             *)
(***************************************************************************)
EXTENDS KafkaOrderConsumer, TLAPS

(***************************************************************************)
(* Type correctness.  TypeOK alone is not inductive: a dead-letter record  *)
(* is well formed because the consumer that writes it holds a record, has  *)
(* made an attempt and keeps an exception.                                 *)
(***************************************************************************)

CallOK ==
    \A c \in Consumers :
        /\ Busy(c) => msg[c] \in Messages /\ attempts[c] >= 1
        /\ pc[c] \in {"store", "notify", "mark", "discard"} => EventOf(c) \in Events
        /\ pc[c] \in {"discard", "dlq"} => error[c] \in Errors

TypeInv == TypeOK /\ CallOK

LEMMA ValueType ==
    ASSUME NEW p \in Partitions, NEW o \in Offsets(p)
    PROVE  /\ o \in Nat
           /\ o < Len(Log[p])
           /\ Value(p, o) \in Events \cup {Malformed}
           /\ [part |-> p, off |-> o] \in Messages
  BY ConsumerAssumption DEF Offsets, Value, Messages

LEMMA InitTypeInv == Init => TypeInv
  BY ConsumerAssumption
  DEF Init, TypeInv, TypeOK, CallOK, StoreInit, StoreTypeOK, Status, Busy, DeadLetters

\* The variables a consumer's control flow changes, apart from the effects.
CallTypeOK ==
    /\ owner \in [Partitions -> Consumers \cup {NoOwner}]
    /\ position \in [Partitions -> Nat]
    /\ pc \in [Consumers -> {"down", "idle", "store", "notify", "mark",
                             "discard", "dlq", "commit"}]
    /\ msg \in [Consumers -> Messages \cup {NoMessage}]
    /\ attempts \in [Consumers -> 0 .. MaxAttempts]
    /\ isNew \in [Consumers -> {"unset", "new", "seen"}]
    /\ error \in [Consumers -> Errors \cup {"none"}]

CallInv == CallTypeOK /\ CallOK

LEMMA LeaveGroupType ==
    ASSUME CallInv, NEW c \in Consumers, LeaveGroup(c)
    PROVE  /\ owner' \in [Partitions -> Consumers \cup {NoOwner}]
           /\ position' \in [Partitions -> Nat]
  BY DEF CallInv, CallTypeOK, LeaveGroup

LEMMA EndCallType ==
    ASSUME CallInv, NEW c \in Consumers, EndCall(c),
           owner' \in [Partitions -> Consumers \cup {NoOwner}],
           position' \in [Partitions -> Nat],
           NEW label \in {"down", "idle"}, pc' = [pc EXCEPT ![c] = label]
    PROVE  CallInv'
<1>1. CallTypeOK'
  BY ConsumerAssumption DEF CallInv, CallTypeOK, EndCall
<1>2. CallOK'
  <2> SUFFICES ASSUME NEW d \in Consumers
               PROVE  /\ Busy(d)' => msg'[d] \in Messages /\ attempts'[d] >= 1
                      /\ pc'[d] \in {"store", "notify", "mark", "discard"}
                            => EventOf(d)' \in Events
                      /\ pc'[d] \in {"discard", "dlq"} => error'[d] \in Errors
    BY DEF CallOK
  <2>1. CASE d = c
    BY <2>1 DEF CallInv, CallTypeOK, Busy
  <2>2. CASE d # c
    BY <2>2 DEF CallInv, CallTypeOK, CallOK, Busy, EventOf, EndCall
  <2> QED BY <2>1, <2>2
<1> QED BY <1>1, <1>2 DEF CallInv

LEMMA AbortType ==
    ASSUME CallInv, NEW c \in Consumers, Abort(c)
    PROVE  CallInv'
<1>1. CASE ContinueAfterError
  BY <1>1, EndCallType DEF Abort, CallInv, CallTypeOK
<1>2. CASE ~ContinueAfterError
  BY <1>2, EndCallType, LeaveGroupType DEF Abort
<1> QED BY <1>1, <1>2

\* Goto to a label that asks for no more than the label left behind.
LEMMA GotoType ==
    ASSUME CallInv, NEW c \in Consumers, Busy(c),
           NEW label \in {"notify", "mark", "dlq", "commit"}, Goto(c, label),
           label \in {"notify", "mark"} => EventOf(c) \in Events,
           label = "dlq" => error[c] \in Errors,
           UNCHANGED <<msg, attempts, error>>,
           isNew' \in [Consumers -> {"unset", "new", "seen"}]
    PROVE  CallInv'
<1>1. CallTypeOK'
  BY DEF CallInv, CallTypeOK, Goto
<1>2. CallOK'
  BY DEF CallInv, CallTypeOK, CallOK, Goto, Busy, EventOf
<1> QED BY <1>1, <1>2 DEF CallInv

LEMMA RaiseType ==
    ASSUME CallInv, NEW c \in Consumers, pc[c] \in {"store", "notify", "mark"},
           NEW err \in ProcessingErrors, Raise(c, err)
    PROVE  CallInv'
<1>1. CASE CanRetry(c, err) /\ Retry(c)
  <2>1. CallTypeOK'
    BY <1>1, ConsumerAssumption DEF CallInv, CallTypeOK, CanRetry, Retry
  <2>2. CallOK'
    BY <1>1, ConsumerAssumption
    DEF CallInv, CallTypeOK, CallOK, CanRetry, Retry, Busy, EventOf
  <2> QED BY <2>1, <2>2 DEF CallInv
<1>2. CASE GiveUp(c, err)
  <2>1. CallTypeOK'
    BY <1>2 DEF CallInv, CallTypeOK, GiveUp, Errors
  <2>2. CallOK'
    BY <1>2 DEF CallInv, CallTypeOK, CallOK, GiveUp, Busy, EventOf, Errors
  <2> QED BY <2>1, <2>2 DEF CallInv
<1>3. CASE Abort(c)
  BY <1>3, AbortType
<1> QED BY <1>1, <1>2, <1>3 DEF Raise

\* The rest of TypeOK: the store, the broker's offsets and what is observed.
EffectTypeOK ==
    /\ StoreTypeOK
    /\ committed \in [Partitions -> Nat]
    /\ notified \in SUBSET Events
    /\ dlq \in SUBSET DeadLetters
    /\ fresh \in [Events -> Nat]
    /\ faults \in 0 .. MaxFaults
    /\ rebalances \in 0 .. MaxRebalances

LEMMA TypeInvParts == TypeInv <=> CallInv /\ EffectTypeOK
  BY DEF TypeInv, TypeOK, CallInv, CallTypeOK, EffectTypeOK

LEMMA BudgetType ==
    ASSUME EffectTypeOK, NoFault \/ Fault
    PROVE  faults' \in 0 .. MaxFaults
  BY ConsumerAssumption DEF EffectTypeOK, NoFault, Fault

LEMMA StoreOpsType ==
    ASSUME StoreTypeOK, NEW e \in Events,
           \/ ClaimAndInsert(e) \/ InsertRefused(e) \/ SeenAgain(e)
           \/ MarkCompleted(e) \/ MarkRefused(e) \/ Discard(e)
           \/ UNCHANGED storeVars
    PROVE  StoreTypeOK'
  BY DEF StoreTypeOK, Status, ClaimAndInsert, InsertRefused, SeenAgain,
         MarkCompleted, MarkRefused, Discard, storeVars

LEMMA StepTypeInv ==
    ASSUME TypeInv, [Next]_vars
    PROVE  TypeInv'
<1> CallInv /\ EffectTypeOK
  BY TypeInvParts
<1> SUFFICES CallInv' /\ EffectTypeOK'
  BY DEF TypeInv, TypeOK, CallInv, CallTypeOK, EffectTypeOK
<1>1. CASE UNCHANGED vars
  BY <1>1
  DEF vars, storeVars, groupVars, callVars, worldVars, budgets, CallInv, CallTypeOK,
      CallOK, Busy, EventOf, EffectTypeOK, StoreTypeOK
<1>2. ASSUME NEW c \in Consumers, Restart(c)
      PROVE  CallInv' /\ EffectTypeOK'
  BY <1>2
  DEF Restart, storeVars, groupVars, callVars, worldVars, budgets, CallInv, CallTypeOK,
      CallOK, Busy, EventOf, EffectTypeOK, StoreTypeOK
<1>3. ASSUME NEW c \in Consumers, NEW p \in Partitions,
             PollValid(c, p) \/ PollMalformed(c, p)
      PROVE  CallInv' /\ EffectTypeOK'
  <2>1. EffectTypeOK'
    BY <1>3
    DEF PollValid, PollMalformed, Receive, storeVars, worldVars, budgets, EffectTypeOK,
        StoreTypeOK
  <2>2. CallTypeOK'
    <3>1. [part |-> p, off |-> position[p]] \in Messages
      BY <1>3, ValueType DEF PollValid, PollMalformed, Fetch
    <3>2. 1 \in 0 .. MaxAttempts
      BY ConsumerAssumption
    <3> QED
      BY <1>3, <3>1, <3>2
      DEF PollValid, PollMalformed, Receive, CallInv, CallTypeOK, Errors
  <2>3. CallOK'
    <3> SUFFICES ASSUME NEW d \in Consumers
                 PROVE  /\ Busy(d)' => msg'[d] \in Messages /\ attempts'[d] >= 1
                        /\ pc'[d] \in {"store", "notify", "mark", "discard"}
                              => EventOf(d)' \in Events
                        /\ pc'[d] \in {"discard", "dlq"} => error'[d] \in Errors
      BY DEF CallOK
    <3>1. CASE d = c
      BY <1>3, <3>1, ValueType
      DEF PollValid, PollMalformed, Receive, Fetch, CallInv, CallTypeOK, Errors,
          EventOf
    <3>2. CASE d # c
      BY <1>3, <3>2
      DEF PollValid, PollMalformed, Receive, CallInv, CallTypeOK, CallOK, Busy, EventOf
    <3> QED BY <3>1, <3>2
  <2> QED BY <2>1, <2>2, <2>3 DEF CallInv
<1>4. ASSUME NEW c \in Consumers, NEW p \in Partitions, PollRefused(c, p)
      PROVE  CallInv' /\ EffectTypeOK'
  <2>1. EffectTypeOK'
    BY <1>4 DEF PollRefused, storeVars, worldVars, budgets, EffectTypeOK, StoreTypeOK
  <2>2. CASE ContinueAfterError
    <3>1. pc' = [pc EXCEPT ![c] = "idle"] /\ EndCall(c)
      BY <1>4, <2>2 DEF PollRefused, Fetch, CallInv, CallTypeOK
    <3>2. /\ owner' \in [Partitions -> Consumers \cup {NoOwner}]
          /\ position' \in [Partitions -> Nat]
      BY <1>4, <2>2 DEF PollRefused, CallInv, CallTypeOK
    <3> QED BY <2>1, <3>1, <3>2, EndCallType
  <2>3. CASE ~ContinueAfterError
    BY <1>4, <2>1, <2>3, EndCallType, LeaveGroupType DEF PollRefused
  <2> QED BY <2>2, <2>3
<1>5. ASSUME NEW c \in Consumers, PollError(c)
      PROVE  CallInv' /\ EffectTypeOK'
  BY <1>5, AbortType, BudgetType
  DEF PollError, storeVars, worldVars, EffectTypeOK, StoreTypeOK
<1>6. ASSUME NEW c \in Consumers, Crash(c)
      PROVE  CallInv' /\ EffectTypeOK'
  BY <1>6, EndCallType, LeaveGroupType, BudgetType
  DEF Crash, storeVars, worldVars, EffectTypeOK, StoreTypeOK
<1>7. ASSUME NEW c \in Consumers, Store(c)
      PROVE  CallInv' /\ EffectTypeOK'
  <2>1. EventOf(c) \in Events /\ Busy(c)
    BY <1>7 DEF Store, CallInv, CallOK, Busy
  <2>2. EffectTypeOK'
    BY <1>7, <2>1, StoreOpsType, BudgetType DEF Store, worldVars, EffectTypeOK
  <2>3. ASSUME NEW seen \in {"new", "seen"}, Stored(c, EventOf(c), seen)
        PROVE  CallInv'
    <3>1. isNew' \in [Consumers -> {"unset", "new", "seen"}]
      BY <2>3 DEF Stored, CallInv, CallTypeOK
    <3> QED BY <2>1, <2>3, <3>1, GotoType DEF Stored
  <2>4. ASSUME NEW err \in {"conflict", "database"}, Raise(c, err)
        PROVE  CallInv'
    BY <1>7, <2>4, RaiseType DEF Store, ProcessingErrors
  <2> QED BY <1>7, <2>2, <2>3, <2>4 DEF Store
<1>8. ASSUME NEW c \in Consumers, Notify(c)
      PROVE  CallInv' /\ EffectTypeOK'
  <2>1. EventOf(c) \in Events /\ Busy(c)
    BY <1>8 DEF Notify, CallInv, CallOK, Busy
  <2>2. EffectTypeOK'
    BY <1>8, <2>1, BudgetType DEF Notify, storeVars, EffectTypeOK, StoreTypeOK
  <2>3. CallInv'
    BY <1>8, <2>1, GotoType, RaiseType
    DEF Notify, callVars, CallInv, CallTypeOK, ProcessingErrors
  <2> QED BY <2>2, <2>3
<1>9. ASSUME NEW c \in Consumers, Mark(c)
      PROVE  CallInv' /\ EffectTypeOK'
  <2>1. EventOf(c) \in Events /\ Busy(c)
    BY <1>9 DEF Mark, CallInv, CallOK, Busy
  <2>2. EffectTypeOK'
    BY <1>9, <2>1, StoreOpsType, BudgetType DEF Mark, worldVars, EffectTypeOK
  <2>3. CallInv'
    BY <1>9, <2>1, GotoType, RaiseType
    DEF Mark, callVars, CallInv, CallTypeOK, ProcessingErrors
  <2> QED BY <2>2, <2>3
<1>10. ASSUME NEW c \in Consumers, DiscardEvent(c)
       PROVE  CallInv' /\ EffectTypeOK'
  <2>1. EventOf(c) \in Events /\ Busy(c) /\ error[c] \in Errors
    BY <1>10 DEF DiscardEvent, CallInv, CallOK, Busy
  <2>2. EffectTypeOK'
    BY <1>10, <2>1, StoreOpsType, BudgetType DEF DiscardEvent, worldVars, EffectTypeOK
  <2>3. CallInv'
    BY <1>10, <2>1, GotoType, AbortType
    DEF DiscardEvent, callVars, CallInv, CallTypeOK
  <2> QED BY <2>2, <2>3
<1>11. ASSUME NEW c \in Consumers, PublishDeadLetter(c)
       PROVE  CallInv' /\ EffectTypeOK'
  <2>1. Busy(c) /\ error[c] \in Errors /\ msg[c] \in Messages
        /\ attempts[c] \in 1 .. MaxAttempts
    <3>1. pc[c] = "dlq" /\ Busy(c)
      BY <1>11 DEF PublishDeadLetter, Busy
    <3>2. error[c] \in Errors /\ msg[c] \in Messages /\ attempts[c] >= 1
      BY <3>1 DEF CallInv, CallOK
    <3>3. attempts[c] \in 0 .. MaxAttempts
      BY DEF CallInv, CallTypeOK
    <3> QED BY <3>1, <3>2, <3>3, ConsumerAssumption
  <2>2. DeadLetter(c) \in DeadLetters
    <3>1. msg[c].part \in Partitions /\ msg[c].off \in Nat
      BY <2>1 DEF Messages
    <3> QED BY <2>1, <3>1 DEF DeadLetter, DeadLetters
  <2>3. EffectTypeOK'
    BY <1>11, <2>2, BudgetType DEF PublishDeadLetter, storeVars, EffectTypeOK, StoreTypeOK
  <2>4. CallInv'
    BY <1>11, <2>1, GotoType, AbortType
    DEF PublishDeadLetter, callVars, CallInv, CallTypeOK
  <2> QED BY <2>3, <2>4
<1>12. ASSUME NEW c \in Consumers, CommitSucceeds(c) \/ CommitFails(c)
       PROVE  CallInv' /\ EffectTypeOK'
  <2>1. msg[c] \in Messages
    BY <1>12 DEF CommitSucceeds, CommitFails, CallInv, CallOK, Busy
  <2>2. committed' \in [Partitions -> Nat]
    BY <1>12, <2>1
    DEF CommitSucceeds, CommitFails, CommitOffset, EffectTypeOK, Messages
  <2>3. fresh' \in [Events -> Nat]
    BY <1>12 DEF CommitSucceeds, CommitFails, worldVars, EffectTypeOK
  <2>4. faults' \in 0 .. MaxFaults
    BY <1>12, BudgetType
    DEF CommitSucceeds, CommitFails, NoFault, budgets, EffectTypeOK
  <2>5. EffectTypeOK'
    BY <1>12, <2>2, <2>3, <2>4
    DEF CommitSucceeds, CommitFails, storeVars, worldVars, budgets, EffectTypeOK, StoreTypeOK
  <2>6. CASE CommitSucceeds(c)
    BY <1>12, <2>5, <2>6, EndCallType DEF CommitSucceeds, Goto, CallInv, CallTypeOK
  <2>7. CASE CommitFails(c)
    BY <1>12, <2>5, <2>7, AbortType DEF CommitFails
  <2> QED BY <1>12, <2>6, <2>7
<1>13. ASSUME NEW c \in Consumers, NEW p \in Partitions, Assign(p, c) \/ Rebalance(p, c)
       PROVE  CallInv' /\ EffectTypeOK'
  <2>1. EffectTypeOK'
    BY <1>13, ConsumerAssumption
    DEF Assign, Rebalance, storeVars, worldVars, budgets, EffectTypeOK, StoreTypeOK
  <2>2. CallInv'
    BY <1>13
    DEF Assign, Rebalance, AssignTo, callVars, EffectTypeOK, CallInv, CallTypeOK, CallOK,
        Busy, EventOf
  <2> QED BY <2>1, <2>2
<1>14. ASSUME NEW c \in Consumers, PollTimeout(c)
       PROVE  CallInv' /\ EffectTypeOK'
  BY <1>1, <1>14 DEF PollTimeout
<1> QED
  BY <1>1, <1>2, <1>3, <1>4, <1>5, <1>6, <1>7, <1>8, <1>9, <1>10, <1>11, <1>12, <1>13,
     <1>14
  DEF Next, ProcessOne

\* Every variable keeps its type, in every configuration of the consumer.
THEOREM TypeCorrect == Spec => []TypeOK
<1>1. Init => TypeInv
  BY InitTypeInv
<1>2. TypeInv /\ [Next]_vars => TypeInv'
  BY StepTypeInv
<1>3. TypeInv => TypeOK
  BY DEF TypeInv
<1> QED BY <1>1, <1>2, <1>3, PTL DEF Spec

(***************************************************************************)
(* The effects of a step: the calls by which the consumers change the      *)
(* tables, the dead-letter topic or a committed offset, one at a time.     *)
(***************************************************************************)

Effect(c) ==
    \/ /\ pc[c] = "store" /\ ClaimAndInsert(EventOf(c))
       /\ UNCHANGED <<dlq, committed>>
    \/ /\ pc[c] = "mark" /\ MarkCompleted(EventOf(c))
       /\ UNCHANGED <<dlq, committed>>
    \/ /\ pc[c] = "discard" /\ Discard(EventOf(c))
       /\ UNCHANGED <<dlq, committed>>
    \/ /\ pc[c] = "dlq" /\ dlq' = dlq \cup {DeadLetter(c)}
       /\ UNCHANGED <<storeVars, committed>>
    \/ /\ pc[c] = "commit" /\ CommitOffset(c)
       /\ UNCHANGED <<storeVars, dlq>>

LEMMA EffectOfStep ==
    ASSUME [Next]_vars
    PROVE  UNCHANGED <<storeVars, dlq, committed>> \/ \E c \in Consumers : Effect(c)
<1>1. CASE UNCHANGED vars
  BY <1>1 DEF vars, groupVars, worldVars
<1>2. ASSUME NEW c \in Consumers,
             \/ Restart(c) \/ PollTimeout(c) \/ PollError(c) \/ Crash(c) \/ Notify(c)
             \/ \E p \in Partitions :
                   \/ PollValid(c, p) \/ PollMalformed(c, p) \/ PollRefused(c, p)
                   \/ Assign(p, c) \/ Rebalance(p, c)
      PROVE  UNCHANGED <<storeVars, dlq, committed>>
  BY <1>2
  DEF Restart, PollTimeout, PollError, Crash, Notify, PollValid, PollMalformed,
      PollRefused, Receive, Assign, Rebalance, vars, groupVars, worldVars
<1>3. ASSUME NEW c \in Consumers,
             \/ Store(c) \/ Mark(c) \/ DiscardEvent(c) \/ PublishDeadLetter(c)
             \/ CommitSucceeds(c) \/ CommitFails(c)
      PROVE  UNCHANGED <<storeVars, dlq, committed>> \/ Effect(c)
  BY <1>3
  DEF Store, Mark, DiscardEvent, PublishDeadLetter, CommitSucceeds, CommitFails,
      SeenAgain, InsertRefused, MarkRefused, Effect, worldVars
<1> QED BY <1>1, <1>2, <1>3 DEF Next, ProcessOne

(***************************************************************************)
(* The store under the consumers.                                          *)
(***************************************************************************)

\* The three methods keep the two tables together and the order ids apart.
LEMMA StoreKeepsRows ==
    ASSUME StoreTypeOK, OrderHasMarker, OrderIdsDistinct, [StoreNext]_storeVars
    PROVE  StoreTypeOK' /\ OrderHasMarker' /\ OrderIdsDistinct'
<1>1. CASE UNCHANGED storeVars
  BY <1>1 DEF storeVars, StoreTypeOK, OrderHasMarker, OrderIdsDistinct
<1>2. ASSUME NEW e \in Events,
             \/ ClaimAndInsert(e) \/ InsertRefused(e) \/ SeenAgain(e)
             \/ MarkCompleted(e) \/ MarkRefused(e) \/ Discard(e)
      PROVE  StoreTypeOK' /\ OrderHasMarker' /\ OrderIdsDistinct'
  <2>1. StoreTypeOK'
    BY <1>2, StoreOpsType
  <2>2. OrderHasMarker'
    BY <1>2
    DEF StoreTypeOK, OrderHasMarker, ClaimAndInsert, InsertRefused, SeenAgain,
        MarkCompleted, MarkRefused, Discard, storeVars
  <2>3. OrderIdsDistinct'
    BY <1>2
    DEF StoreTypeOK, OrderIdsDistinct, OrderIdTaken, ClaimAndInsert, InsertRefused,
        SeenAgain, MarkCompleted, MarkRefused, Discard, storeVars
  <2> QED BY <2>1, <2>2, <2>3
<1> QED BY <1>1, <1>2 DEF StoreNext

\* When store, mark_completed and discard are atomic steps, in whatever order: an
\* order row and the processed-event row of its event are there together, and no
\* two orders share an order id.  A discard that overlaps another call for its
\* event is no such step (PostgresTransactions, run StoreDiscardOverlaps).
THEOREM StoreRowsFit == StoreSpec => [](OrderHasMarker /\ OrderIdsDistinct)
<1> DEFINE RowInv == StoreTypeOK /\ OrderHasMarker /\ OrderIdsDistinct
<1>1. StoreInit => RowInv
  BY DEF StoreInit, StoreTypeOK, Status, OrderHasMarker, OrderIdsDistinct
<1>2. RowInv /\ [StoreNext]_storeVars => RowInv'
  BY StoreKeepsRows
<1>3. RowInv => OrderHasMarker /\ OrderIdsDistinct
  OBVIOUS
<1> HIDE DEF RowInv
<1> QED BY <1>1, <1>2, <1>3, PTL DEF StoreSpec

\* The model takes the three calls as atomic steps of the store.  Whether the code's
\* discard is one is a matter of the configuration: RowsStayTogether uses this lemma
\* where it is.
LEMMA ConsumersUseTheStore == Spec => StoreSpec
<1>1. Init => StoreInit
  BY DEF Init
<1>2. TypeInv /\ [Next]_vars => [StoreNext]_storeVars
  <2> SUFFICES ASSUME TypeInv, NEW c \in Consumers, Effect(c)
               PROVE  [StoreNext]_storeVars
    BY EffectOfStep DEF storeVars
  <2>1. CASE pc[c] \in {"store", "mark", "discard"}
    <3>1. EventOf(c) \in Events
      BY <2>1 DEF TypeInv, CallOK
    <3> QED BY <2>1, <3>1 DEF Effect, StoreNext
  <2>2. CASE pc[c] \notin {"store", "mark", "discard"}
    BY <2>2 DEF Effect
  <2> QED BY <2>1, <2>2
<1>3. Spec => []TypeInv
  <2>1. Init => TypeInv
    BY InitTypeInv
  <2>2. TypeInv /\ [Next]_vars => TypeInv'
    BY StepTypeInv
  <2> QED BY <2>1, <2>2, PTL DEF Spec
<1> QED BY <1>1, <1>2, <1>3, PTL DEF Spec, StoreSpec

=============================================================================
