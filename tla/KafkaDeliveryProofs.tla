-------------------------- MODULE KafkaDeliveryProofs --------------------------
(***************************************************************************)
(* A committed offset covers handled records only, in every configuration  *)
(* that stops at an error and discards nothing another record relies on:   *)
(* without a dead-letter topic, or with one while every partition stays    *)
(* with its consumer and no event is published twice.                      *)
(***************************************************************************)
EXTENDS KafkaOrderConsumerProofs

UniqueEvents ==
    \A p, q \in Partitions : \A o \in Offsets(p), k \in Offsets(q) :
        Value(p, o) = Value(q, k) /\ Value(p, o) \in Events => p = q /\ o = k

SafeMode ==
    /\ ~ContinueAfterError
    /\ HasDeadLetter => MaxRebalances = 0 /\ UniqueEvents

(***************************************************************************)
(* The inductive invariant.  AcknowledgedMeansHandled survives a commit    *)
(* because the consumer that commits a record has handled it and all       *)
(* earlier ones; those it has handled because it fetched the partition from *)
(* the committed offset on, one record at a time.                          *)
(***************************************************************************)

WorksOn(c, p, o) == Busy(c) /\ msg[c].part = p /\ msg[c].off = o

\* What the owner of a partition has fetched is handled, or in its hands.
FetchedHandled ==
    \A c \in Consumers : \A p \in Partitions : \A o \in Offsets(p) :
        owner[p] = c /\ o < position[p] => Handled(p, o) \/ WorksOn(c, p, o)

CommitHandled ==
    \A c \in Consumers : \A p \in Partitions : \A o \in Offsets(p) :
        pc[c] = "commit" /\ WorksOn(c, p, o) => Handled(p, o)

\* Without rebalances a record is in the hands of its partition's owner only,
\* and not committed yet: what discard undoes is relied on by nobody.
Exclusive ==
    MaxRebalances = 0 =>
        /\ \A c \in Consumers : Busy(c) =>
            /\ owner[msg[c].part] = c
            /\ position[msg[c].part] = msg[c].off + 1
            /\ committed[msg[c].part] <= msg[c].off
        /\ \A p \in Partitions : owner[p] # NoOwner => committed[p] <= position[p]

NoGiveUp ==
    ~HasDeadLetter => \A c \in Consumers : pc[c] \notin {"discard", "dlq"}

DeliveryInv ==
    /\ TypeInv
    /\ AcknowledgedMeansHandled
    /\ EarlierRecordsHandled
    /\ FetchedHandled
    /\ CommitHandled
    /\ Exclusive
    /\ NoGiveUp

(***************************************************************************)
(* Steps, by what they do to the group.  HandledKept says of a step of c   *)
(* that a handled record stays handled, but for the one c discards.        *)
(***************************************************************************)

HandledKept(c) ==
    \A p \in Partitions : \A o \in Offsets(p) :
        Handled(p, o) =>
            \/ Handled(p, o)'
            \/ MaxRebalances = 0 /\ WorksOn(c, p, o) /\ pc'[c] # "commit"

\* c goes on with the record it works on.
LEMMA WithinCall ==
    ASSUME DeliveryInv, TypeInv', NEW c \in Consumers,
           Busy(c), Busy(c)',
           UNCHANGED <<committed, owner, position, msg>>,
           pc' = [pc EXCEPT ![c] = pc'[c]],
           HandledKept(c),
           \A p \in Partitions : \A o \in Offsets(p) :
               pc'[c] = "commit" /\ WorksOn(c, p, o) => Handled(p, o)',
           ~HasDeadLetter => pc'[c] \notin {"discard", "dlq"}
    PROVE  DeliveryInv'
<1> TypeInv /\ AcknowledgedMeansHandled /\ EarlierRecordsHandled /\ FetchedHandled
    /\ CommitHandled /\ Exclusive /\ NoGiveUp
  BY DEF DeliveryInv
<1>1. \A d \in Consumers : (Busy(d)' <=> Busy(d))
  BY DEF TypeInv, TypeOK, Busy
<1>2. \A d \in Consumers, p \in Partitions : \A o \in Offsets(p) :
        WorksOn(d, p, o)' <=> WorksOn(d, p, o)
  BY <1>1 DEF WorksOn
<1>3. AcknowledgedMeansHandled'
  <2> SUFFICES ASSUME NEW p \in Partitions, NEW o \in Offsets(p),
                      o < committed[p]
               PROVE  Handled(p, o)'
    BY <1>1, <1>2 DEF AcknowledgedMeansHandled
  <2>1. Handled(p, o)
    BY DEF AcknowledgedMeansHandled
  <2>2. MaxRebalances = 0 => ~WorksOn(c, p, o)
    BY DEF WorksOn, Exclusive, TypeInv, TypeOK, Offsets
  <2> QED BY <2>1, <2>2 DEF HandledKept
<1>4. EarlierRecordsHandled'
  <2> SUFFICES ASSUME NEW d \in Consumers, NEW p \in Partitions, NEW o \in Offsets(p),
                      Busy(d), msg[d].part = p, o < msg[d].off
               PROVE  Handled(p, o)'
    BY <1>1, <1>2 DEF EarlierRecordsHandled
  <2>1. Handled(p, o)
    BY DEF EarlierRecordsHandled
  <2>2. MaxRebalances = 0 => ~WorksOn(c, p, o)
    BY DEF WorksOn, Exclusive, Offsets
  <2> QED BY <2>1, <2>2 DEF HandledKept
<1>5. FetchedHandled'
  <2> SUFFICES ASSUME NEW d \in Consumers, NEW p \in Partitions, NEW o \in Offsets(p),
                      owner[p] = d, o < position[p], ~WorksOn(d, p, o)
               PROVE  Handled(p, o)'
    BY <1>1, <1>2 DEF FetchedHandled
  <2>1. Handled(p, o)
    BY DEF FetchedHandled
  <2>2. MaxRebalances = 0 => ~WorksOn(c, p, o)
    BY DEF WorksOn, Exclusive
  <2> QED BY <2>1, <2>2 DEF HandledKept
<1>6. CommitHandled'
  <2> SUFFICES ASSUME NEW d \in Consumers, NEW p \in Partitions, NEW o \in Offsets(p),
                      pc'[d] = "commit", WorksOn(d, p, o)
               PROVE  Handled(p, o)'
    BY <1>2 DEF CommitHandled
  <2>1. CASE d = c
    BY <2>1
  <2>2. CASE d # c
    <3>1. pc[d] = "commit"
      BY <2>2 DEF TypeInv, TypeOK
    <3>2. Handled(p, o)
      BY <3>1 DEF CommitHandled
    <3>3. MaxRebalances = 0 => ~WorksOn(c, p, o)
      BY <2>2 DEF WorksOn, Exclusive
    <3> QED BY <3>2, <3>3 DEF HandledKept
  <2> QED BY <2>1, <2>2
<1>7. Exclusive' /\ NoGiveUp'
  BY <1>1 DEF Exclusive, NoGiveUp, TypeInv, TypeOK
<1> QED BY <1>3, <1>4, <1>5, <1>6, <1>7 DEF DeliveryInv

\* c stops and gives its partitions back, having committed its record or not.
LEMMA LeavingCall ==
    ASSUME DeliveryInv, TypeInv', NEW c \in Consumers,
           LeaveGroup(c), pc' = [pc EXCEPT ![c] = "down"],
           \A d \in Consumers \ {c} : msg'[d] = msg[d],
           UNCHANGED committed \/ (pc[c] = "commit" /\ CommitOffset(c)),
           HandledKept(c), pc[c] = "commit" => UNCHANGED dlq /\ UNCHANGED marker
    PROVE  DeliveryInv'
<1> TypeInv /\ AcknowledgedMeansHandled /\ EarlierRecordsHandled /\ FetchedHandled
    /\ CommitHandled /\ Exclusive /\ NoGiveUp
  BY DEF DeliveryInv
<1>1. ~Busy(c)' /\ \A d \in Consumers \ {c} : (Busy(d)' <=> Busy(d))
  BY DEF TypeInv, TypeOK, Busy
<1>2. \A d \in Consumers, p \in Partitions : \A o \in Offsets(p) :
        WorksOn(d, p, o)' <=> (d # c /\ WorksOn(d, p, o))
  BY <1>1 DEF WorksOn
<1>3. \A p \in Partitions :
        /\ owner'[p] # c
        /\ owner'[p] # NoOwner =>
            owner'[p] = owner[p] /\ position'[p] = position[p]
  BY ConsumerAssumption DEF LeaveGroup, TypeInv, TypeOK
<1>4. EarlierRecordsHandled'
  <2> SUFFICES ASSUME NEW d \in Consumers, NEW p \in Partitions, NEW o \in Offsets(p),
                      Busy(d)', msg'[d].part = p, o < msg'[d].off
               PROVE  Handled(p, o)'
    BY DEF EarlierRecordsHandled
  <2>1. d # c /\ Busy(d) /\ msg[d].part = p /\ o < msg[d].off
    BY <1>1
  <2>2. Handled(p, o)
    BY <2>1 DEF EarlierRecordsHandled
  <2>3. MaxRebalances = 0 => ~WorksOn(c, p, o)
    BY <2>1 DEF WorksOn, Exclusive
  <2> QED BY <2>2, <2>3 DEF HandledKept
<1>5. FetchedHandled'
  <2> SUFFICES ASSUME NEW d \in Consumers, NEW p \in Partitions, NEW o \in Offsets(p),
                      owner'[p] = d, o < position'[p], ~WorksOn(d, p, o)'
               PROVE  Handled(p, o)'
    BY DEF FetchedHandled
  <2>1. d # c /\ owner[p] = d /\ o < position[p] /\ ~WorksOn(d, p, o)
    <3>1. d # NoOwner
      BY ConsumerAssumption
    <3>2. d # c
      BY <1>3
    <3>3. owner[p] = d /\ position'[p] = position[p]
      BY <1>3, <3>1
    <3>4. ~WorksOn(d, p, o)
      BY <1>2, <3>2
    <3> QED BY <3>2, <3>3, <3>4
  <2>2. Handled(p, o)
    BY <2>1 DEF FetchedHandled
  <2>3. MaxRebalances = 0 => ~WorksOn(c, p, o)
    BY <2>1 DEF WorksOn, Exclusive
  <2> QED BY <2>2, <2>3 DEF HandledKept
<1>6. CommitHandled'
  <2> SUFFICES ASSUME NEW d \in Consumers, NEW p \in Partitions, NEW o \in Offsets(p),
                      pc'[d] = "commit", WorksOn(d, p, o)'
               PROVE  Handled(p, o)'
    BY DEF CommitHandled
  <2>1. d # c /\ pc[d] = "commit" /\ WorksOn(d, p, o)
    BY <1>2 DEF TypeInv, TypeOK
  <2>2. Handled(p, o)
    BY <2>1 DEF CommitHandled
  <2>3. MaxRebalances = 0 => ~WorksOn(c, p, o)
    BY <2>1 DEF WorksOn, Exclusive
  <2> QED BY <2>2, <2>3 DEF HandledKept
<1>7. AcknowledgedMeansHandled'
  <2> SUFFICES ASSUME NEW p \in Partitions, NEW o \in Offsets(p), o < committed'[p]
               PROVE  Handled(p, o)'
    BY DEF AcknowledgedMeansHandled
  <2>1. CASE o < committed[p]
    <3>1. Handled(p, o)
      BY <2>1 DEF AcknowledgedMeansHandled
    <3>2. MaxRebalances = 0 => ~WorksOn(c, p, o)
      BY <2>1 DEF WorksOn, Exclusive, TypeInv, TypeOK, Offsets
    <3> QED BY <3>1, <3>2 DEF HandledKept
  <2>2. CASE ~(o < committed[p])
    <3>1. pc[c] = "commit" /\ CommitOffset(c) /\ Busy(c)
      BY <2>2 DEF Busy
    <3>2. msg[c].part = p /\ o <= msg[c].off
      BY <2>2, <3>1 DEF CommitOffset, TypeInv, TypeOK, CallOK, Messages, Offsets
    <3>3. CASE o = msg[c].off
      BY <3>1, <3>2, <3>3 DEF CommitHandled, WorksOn, Handled, DeadLettered, Completed
    <3>4. CASE o < msg[c].off
      BY <3>1, <3>2, <3>4 DEF EarlierRecordsHandled, Handled, DeadLettered, Completed
    <3> QED
      BY <3>1, <3>2, <3>3, <3>4 DEF TypeInv, CallOK, Messages, Offsets
  <2> QED BY <2>1, <2>2
<1>8. Exclusive'
  <2> SUFFICES ASSUME MaxRebalances = 0
               PROVE  /\ \A d \in Consumers : Busy(d)' =>
                           /\ owner'[msg'[d].part] = d
                           /\ position'[msg'[d].part] = msg'[d].off + 1
                           /\ committed'[msg'[d].part] <= msg'[d].off
                      /\ \A p \in Partitions :
                           owner'[p] # NoOwner => committed'[p] <= position'[p]
    BY DEF Exclusive
  <2>1. \A p \in Partitions : owner[p] # c => committed'[p] = committed[p]
    BY DEF Exclusive, CommitOffset, Busy, TypeInv, TypeOK
  <2>2. ASSUME NEW d \in Consumers, Busy(d)'
        PROVE  /\ owner'[msg'[d].part] = d
               /\ position'[msg'[d].part] = msg'[d].off + 1
               /\ committed'[msg'[d].part] <= msg'[d].off
    <3>1. d # c /\ Busy(d) /\ msg'[d] = msg[d]
      BY <1>1, <2>2
    <3>2. msg[d].part \in Partitions /\ owner[msg[d].part] = d
      BY <3>1 DEF Exclusive, TypeInv, CallOK, Messages
    <3> QED BY <2>1, <3>1, <3>2 DEF Exclusive, LeaveGroup
  <2>3. ASSUME NEW p \in Partitions, owner'[p] # NoOwner
        PROVE  committed'[p] <= position'[p]
    BY <1>3, <2>1, <2>3 DEF Exclusive, LeaveGroup
  <2> QED BY <2>2, <2>3
<1>9. NoGiveUp'
  BY DEF NoGiveUp, TypeInv, TypeOK
<1> QED BY <1>4, <1>5, <1>6, <1>7, <1>8, <1>9 DEF DeliveryInv

\* A step that changes neither the store nor the dead-letter topic.
LEMMA NothingLost ==
    ASSUME UNCHANGED <<marker, dlq>>
    PROVE  \A p \in Partitions : \A o \in Offsets(p) : Handled(p, o)' <=> Handled(p, o)
  BY DEF Handled, DeadLettered, Completed

\* process_one returns a record it has committed.
LEMMA CommitCall ==
    ASSUME DeliveryInv, TypeInv', NEW c \in Consumers, CommitSucceeds(c)
    PROVE  DeliveryInv'
<1> TypeInv /\ AcknowledgedMeansHandled /\ EarlierRecordsHandled /\ FetchedHandled
    /\ CommitHandled /\ Exclusive /\ NoGiveUp
  BY DEF DeliveryInv
<1>1. /\ pc[c] = "commit" /\ Busy(c) /\ msg[c] \in Messages
      /\ UNCHANGED <<marker, dlq, owner, position>> /\ CommitOffset(c)
      /\ pc' = [pc EXCEPT ![c] = "idle"]
      /\ \A d \in Consumers \ {c} : msg'[d] = msg[d]
  BY DEF CommitSucceeds, Busy, TypeInv, TypeOK, CallOK, EndCall, Goto, storeVars
<1>2. \A p \in Partitions : \A o \in Offsets(p) : Handled(p, o)' <=> Handled(p, o)
  BY <1>1, NothingLost
<1>3. ~Busy(c)' /\ \A d \in Consumers \ {c} : (Busy(d)' <=> Busy(d))
  BY <1>1 DEF TypeInv, TypeOK, Busy
<1>4. \A d \in Consumers, p \in Partitions : \A o \in Offsets(p) :
        WorksOn(d, p, o)' <=> (d # c /\ WorksOn(d, p, o))
  BY <1>1, <1>3 DEF WorksOn
<1>5. AcknowledgedMeansHandled'
  <2> SUFFICES ASSUME NEW p \in Partitions, NEW o \in Offsets(p), o < committed'[p]
               PROVE  Handled(p, o)
    BY <1>2 DEF AcknowledgedMeansHandled
  <2>1. CASE o < committed[p]
    BY <2>1 DEF AcknowledgedMeansHandled
  <2>2. CASE ~(o < committed[p])
    <3>1. msg[c].part = p /\ o <= msg[c].off
      BY <1>1, <2>2 DEF CommitOffset, TypeInv, TypeOK, Messages, Offsets
    <3>2. o = msg[c].off \/ o < msg[c].off
      BY <1>1, <3>1 DEF Messages, Offsets
    <3> QED
      BY <1>1, <3>1, <3>2 DEF CommitHandled, EarlierRecordsHandled, WorksOn
  <2> QED BY <2>1, <2>2
<1>6. EarlierRecordsHandled'
  BY <1>1, <1>2, <1>3 DEF EarlierRecordsHandled
<1>7. FetchedHandled'
  <2> SUFFICES ASSUME NEW d \in Consumers, NEW p \in Partitions, NEW o \in Offsets(p),
                      owner[p] = d, o < position[p], ~WorksOn(d, p, o)'
               PROVE  Handled(p, o)
    BY <1>1, <1>2 DEF FetchedHandled
  <2>1. CASE WorksOn(d, p, o)
    BY <1>1, <1>4, <2>1 DEF CommitHandled
  <2>2. CASE ~WorksOn(d, p, o)
    BY <2>2 DEF FetchedHandled
  <2> QED BY <2>1, <2>2
<1>8. CommitHandled'
  BY <1>1, <1>2, <1>4 DEF CommitHandled, TypeInv, TypeOK
<1>9. Exclusive'
  <2> SUFFICES ASSUME MaxRebalances = 0
               PROVE  /\ \A d \in Consumers : Busy(d)' =>
                           /\ owner[msg'[d].part] = d
                           /\ position[msg'[d].part] = msg'[d].off + 1
                           /\ committed'[msg'[d].part] <= msg'[d].off
                      /\ \A p \in Partitions :
                           owner[p] # NoOwner => committed'[p] <= position[p]
    BY <1>1 DEF Exclusive
  <2>1. /\ msg[c].part \in Partitions /\ owner[msg[c].part] = c
        /\ position[msg[c].part] = msg[c].off + 1
    BY <1>1 DEF Exclusive, Messages
  <2>2. \A p \in Partitions : p # msg[c].part => committed'[p] = committed[p]
    BY <1>1 DEF CommitOffset, TypeInv, TypeOK
  <2>3. ASSUME NEW d \in Consumers, Busy(d)'
        PROVE  /\ owner[msg'[d].part] = d
               /\ position[msg'[d].part] = msg'[d].off + 1
               /\ committed'[msg'[d].part] <= msg'[d].off
    <3>1. d # c /\ Busy(d) /\ msg'[d] = msg[d]
      BY <1>1, <1>3, <2>3
    <3>2. msg[d].part \in Partitions /\ owner[msg[d].part] = d
      BY <3>1 DEF Exclusive, TypeInv, CallOK, Messages
    <3> QED BY <2>1, <2>2, <3>1, <3>2 DEF Exclusive
  <2>4. ASSUME NEW p \in Partitions, owner[p] # NoOwner
        PROVE  committed'[p] <= position[p]
    <3>1. CASE p = msg[c].part
      BY <1>1, <2>1, <3>1 DEF CommitOffset, TypeInv, TypeOK, Messages
    <3>2. CASE p # msg[c].part
      BY <2>2, <2>4, <3>2 DEF Exclusive
    <3> QED BY <3>1, <3>2
  <2> QED BY <2>3, <2>4
<1>10. NoGiveUp'
  BY <1>1 DEF NoGiveUp, TypeInv, TypeOK
<1> QED BY <1>5, <1>6, <1>7, <1>8, <1>9, <1>10 DEF DeliveryInv

\* poll hands out the record at the position of the owner's client.
LEMMA ReceiveCall ==
    ASSUME DeliveryInv, TypeInv', NEW c \in Consumers, NEW p \in Partitions,
           NEW label \in {"store", "dlq"}, label = "dlq" => HasDeadLetter,
           NEW err, Fetch(c, p), Receive(c, p, label, err)
    PROVE  DeliveryInv'
<1> TypeInv /\ AcknowledgedMeansHandled /\ EarlierRecordsHandled /\ FetchedHandled
    /\ CommitHandled /\ Exclusive /\ NoGiveUp
  BY DEF DeliveryInv
<1>1. /\ ~Busy(c) /\ Busy(c)' /\ pc'[c] # "commit"
      /\ owner[p] = c /\ position[p] \in Offsets(p)
      /\ UNCHANGED <<marker, dlq, committed, owner>>
      /\ position'[p] = position[p] + 1
      /\ \A q \in Partitions \ {p} : position'[q] = position[q]
      /\ msg'[c] = [part |-> p, off |-> position[p]]
      /\ \A d \in Consumers \ {c} :
            msg'[d] = msg[d] /\ pc'[d] = pc[d] /\ (Busy(d)' <=> Busy(d))
  BY DEF Fetch, Receive, Busy, TypeInv, TypeOK, storeVars, worldVars
<1>2. \A q \in Partitions : \A o \in Offsets(q) : Handled(q, o)' <=> Handled(q, o)
  BY <1>1, NothingLost
<1>3. \A d \in Consumers \ {c}, q \in Partitions : \A o \in Offsets(q) :
        WorksOn(d, q, o)' <=> WorksOn(d, q, o)
  BY <1>1 DEF WorksOn
<1>4. \A q \in Partitions : \A o \in Offsets(q) :
        /\ ~WorksOn(c, q, o)
        /\ WorksOn(c, q, o)' <=> q = p /\ o = position[p]
  BY <1>1 DEF WorksOn
<1>5. AcknowledgedMeansHandled'
  BY <1>1, <1>2 DEF AcknowledgedMeansHandled
<1>6. EarlierRecordsHandled'
  <2> SUFFICES ASSUME NEW d \in Consumers, NEW q \in Partitions, NEW o \in Offsets(q),
                      Busy(d)', msg'[d].part = q, o < msg'[d].off
               PROVE  Handled(q, o)
    BY <1>2 DEF EarlierRecordsHandled
  <2>1. CASE d = c
    BY <1>1, <1>4, <2>1 DEF FetchedHandled
  <2>2. CASE d # c
    BY <1>1, <2>2 DEF EarlierRecordsHandled
  <2> QED BY <2>1, <2>2
<1>7. FetchedHandled'
  <2> SUFFICES ASSUME NEW d \in Consumers, NEW q \in Partitions, NEW o \in Offsets(q),
                      owner[q] = d, o < position'[q], ~WorksOn(d, q, o)'
               PROVE  Handled(q, o)
    BY <1>1, <1>2 DEF FetchedHandled
  <2>1. o < position[q]
    BY <1>1, <1>4 DEF Offsets
  <2>2. ~WorksOn(d, q, o)
    BY <1>3, <1>4
  <2> QED BY <2>1, <2>2 DEF FetchedHandled
<1>8. CommitHandled'
  BY <1>1, <1>2, <1>3 DEF CommitHandled
<1>9. Exclusive'
  <2> SUFFICES ASSUME MaxRebalances = 0
               PROVE  /\ \A d \in Consumers : Busy(d)' =>
                           /\ owner[msg'[d].part] = d
                           /\ position'[msg'[d].part] = msg'[d].off + 1
                           /\ committed[msg'[d].part] <= msg'[d].off
                      /\ \A q \in Partitions :
                           owner[q] # NoOwner => committed[q] <= position'[q]
    BY <1>1 DEF Exclusive
  <2>1. owner[p] # NoOwner /\ committed[p] <= position[p]
    BY <1>1, ConsumerAssumption DEF Exclusive
  <2>2. ASSUME NEW d \in Consumers, Busy(d)'
        PROVE  /\ owner[msg'[d].part] = d
               /\ position'[msg'[d].part] = msg'[d].off + 1
               /\ committed[msg'[d].part] <= msg'[d].off
    <3>1. CASE d = c
      BY <1>1, <2>1, <3>1
    <3>2. CASE d # c
      <4>1. Busy(d) /\ msg'[d] = msg[d] /\ owner[msg[d].part] = d
            /\ msg[d].part \in Partitions
        BY <1>1, <2>2, <3>2 DEF Exclusive, TypeInv, CallOK, Messages
      <4>2. msg[d].part # p
        BY <1>1, <3>2, <4>1
      <4> QED BY <1>1, <4>1, <4>2 DEF Exclusive
    <3> QED BY <3>1, <3>2
  <2>3. ASSUME NEW q \in Partitions, owner[q] # NoOwner
        PROVE  committed[q] <= position'[q]
    BY <1>1, <2>1, <2>3 DEF Exclusive, TypeInv, TypeOK
  <2> QED BY <2>2, <2>3
<1>10. NoGiveUp'
  BY <1>1 DEF NoGiveUp, Receive, TypeInv, TypeOK
<1> QED BY <1>5, <1>6, <1>7, <1>8, <1>9, <1>10 DEF DeliveryInv

\* The group assigns a partition, from the committed offset on.
LEMMA AssignStep ==
    ASSUME DeliveryInv, TypeInv', NEW c \in Consumers, NEW p \in Partitions,
           Assign(p, c) \/ Rebalance(p, c)
    PROVE  DeliveryInv'
<1> TypeInv /\ AcknowledgedMeansHandled /\ EarlierRecordsHandled /\ FetchedHandled
    /\ CommitHandled /\ Exclusive /\ NoGiveUp
  BY DEF DeliveryInv
<1>1. /\ UNCHANGED <<marker, dlq, committed, pc, msg>>
      /\ owner'[p] = c /\ position'[p] = committed[p]
      /\ \A q \in Partitions \ {p} : owner'[q] = owner[q] /\ position'[q] = position[q]
      /\ MaxRebalances = 0 => owner[p] = NoOwner
  BY DEF Assign, Rebalance, AssignTo, TypeInv, TypeOK, storeVars, worldVars, callVars
<1>2. \A q \in Partitions : \A o \in Offsets(q) : Handled(q, o)' <=> Handled(q, o)
  BY <1>1, NothingLost
<1>3. \A d \in Consumers : Busy(d)' <=> Busy(d)
  BY <1>1 DEF Busy
<1>4. \A d \in Consumers, q \in Partitions : \A o \in Offsets(q) :
        WorksOn(d, q, o)' <=> WorksOn(d, q, o)
  BY <1>1, <1>3 DEF WorksOn
<1>5. AcknowledgedMeansHandled' /\ EarlierRecordsHandled' /\ CommitHandled' /\ NoGiveUp'
  BY <1>1, <1>2, <1>3, <1>4
  DEF AcknowledgedMeansHandled, EarlierRecordsHandled, CommitHandled, NoGiveUp
<1>6. FetchedHandled'
  <2> SUFFICES ASSUME NEW d \in Consumers, NEW q \in Partitions, NEW o \in Offsets(q),
                      owner'[q] = d, o < position'[q], ~WorksOn(d, q, o)
               PROVE  Handled(q, o)
    BY <1>2, <1>4 DEF FetchedHandled
  <2>1. CASE q = p
    BY <1>1, <2>1 DEF AcknowledgedMeansHandled
  <2>2. CASE q # p
    BY <1>1, <2>2 DEF FetchedHandled
  <2> QED BY <2>1, <2>2
<1>7. Exclusive'
  <2> SUFFICES ASSUME MaxRebalances = 0
               PROVE  /\ \A d \in Consumers : Busy(d) =>
                           /\ owner'[msg[d].part] = d
                           /\ position'[msg[d].part] = msg[d].off + 1
                           /\ committed[msg[d].part] <= msg[d].off
                      /\ \A q \in Partitions :
                           owner'[q] # NoOwner => committed[q] <= position'[q]
    BY <1>1, <1>3 DEF Exclusive
  <2>1. ASSUME NEW d \in Consumers, Busy(d)
        PROVE  /\ owner'[msg[d].part] = d
               /\ position'[msg[d].part] = msg[d].off + 1
               /\ committed[msg[d].part] <= msg[d].off
    <3>1. msg[d].part \in Partitions /\ owner[msg[d].part] = d
      BY <2>1 DEF Exclusive, TypeInv, CallOK, Messages
    <3>2. NoOwner \notin Consumers
      BY ConsumerAssumption
    <3>3. msg[d].part # p
      BY <1>1, <3>1, <3>2
    <3> QED BY <1>1, <2>1, <3>1, <3>3 DEF Exclusive
  <2>2. ASSUME NEW q \in Partitions, owner'[q] # NoOwner
        PROVE  committed[q] <= position'[q]
    BY <1>1, <2>2 DEF Exclusive, TypeInv, TypeOK
  <2> QED BY <2>1, <2>2
<1> QED BY <1>5, <1>6, <1>7 DEF DeliveryInv

(***************************************************************************)
(* What the effects of a call do to the handled records.                   *)
(***************************************************************************)

LEMMA CompletedStays ==
    ASSUME NEW c \in Consumers, dlq \subseteq dlq',
           \A e \in Events : Completed(e) => Completed(e)'
    PROVE  HandledKept(c)
  BY DEF HandledKept, Handled, DeadLettered

LEMMA StoreOpsKeep ==
    ASSUME TypeInv, NEW c \in Consumers, NEW e \in Events, dlq \subseteq dlq',
           \/ ClaimAndInsert(e) \/ InsertRefused(e) \/ SeenAgain(e)
           \/ MarkCompleted(e) \/ MarkRefused(e)
           \/ UNCHANGED storeVars
    PROVE  HandledKept(c)
<1>1. \A f \in Events : Completed(f) => Completed(f)'
  BY DEF Completed, TypeInv, TypeOK, StoreTypeOK, ClaimAndInsert, InsertRefused,
         SeenAgain, MarkCompleted, MarkRefused, storeVars
<1> QED BY <1>1, CompletedStays

\* discard undoes no handled record but the one its consumer works on.
LEMMA DiscardKeeps ==
    ASSUME DeliveryInv, SafeMode, NEW c \in Consumers, pc[c] = "discard",
           Discard(EventOf(c)) \/ UNCHANGED storeVars, UNCHANGED dlq, pc'[c] # "commit"
    PROVE  HandledKept(c)
<1>1. MaxRebalances = 0 /\ UniqueEvents
  BY DEF DeliveryInv, NoGiveUp, SafeMode
<1>2. /\ msg[c].part \in Partitions /\ msg[c].off \in Offsets(msg[c].part)
      /\ EventOf(c) \in Events /\ Busy(c)
  <2>1. msg[c] \in Messages /\ EventOf(c) \in Events /\ Busy(c)
    BY DEF DeliveryInv, TypeInv, CallOK, Busy
  <2>2. Len(Log[msg[c].part]) \in Nat
    BY <2>1, ConsumerAssumption DEF Messages
  <2> QED BY <2>1, <2>2 DEF Messages, Offsets
<1> SUFFICES ASSUME NEW p \in Partitions, NEW o \in Offsets(p), Handled(p, o),
                    ~Handled(p, o)'
             PROVE  WorksOn(c, p, o)
  BY <1>1 DEF HandledKept
<1>3. Value(p, o) \in Events /\ Completed(Value(p, o)) /\ marker'[Value(p, o)] # "completed"
  BY DEF Handled, DeadLettered, Completed
<1>4. Value(p, o) = EventOf(c)
  BY <1>3 DEF Discard, storeVars, Completed, DeliveryInv, TypeInv, TypeOK, StoreTypeOK
<1> QED BY <1>1, <1>2, <1>3, <1>4 DEF UniqueEvents, EventOf, WorksOn

(***************************************************************************)
(* How a call ends or goes on after an exception.                          *)
(***************************************************************************)

LEMMA AbortStep ==
    ASSUME DeliveryInv, SafeMode, TypeInv', NEW c \in Consumers, Abort(c),
           UNCHANGED committed \/ (pc[c] = "commit" /\ CommitOffset(c)),
           HandledKept(c), pc[c] = "commit" => UNCHANGED dlq /\ UNCHANGED marker
    PROVE  DeliveryInv'
<1>1. LeaveGroup(c) /\ pc' = [pc EXCEPT ![c] = "down"]
  BY DEF SafeMode, Abort
<1>2. \A d \in Consumers \ {c} : msg'[d] = msg[d]
  BY DEF Abort, EndCall, DeliveryInv, TypeInv, TypeOK
<1> QED BY <1>1, <1>2, LeavingCall

LEMMA RaiseStep ==
    ASSUME DeliveryInv, SafeMode, TypeInv', NEW c \in Consumers,
           pc[c] \in {"store", "notify", "mark"}, NEW err, Raise(c, err),
           UNCHANGED committed, HandledKept(c)
    PROVE  DeliveryInv'
<1>1. CASE Retry(c) \/ (HasDeadLetter /\ GiveUp(c, err))
  <2>1. /\ pc' = [pc EXCEPT ![c] = pc'[c]] /\ pc'[c] \in {"store", "discard"}
        /\ pc'[c] = "discard" => HasDeadLetter
        /\ UNCHANGED <<owner, position, msg>>
    BY <1>1 DEF Retry, GiveUp, DeliveryInv, TypeInv, TypeOK
  <2>2. Busy(c) /\ Busy(c)'
    BY <2>1 DEF Busy
  <2> QED BY <2>1, <2>2, WithinCall
<1>2. CASE Abort(c)
  BY <1>2, AbortStep
<1> QED BY <1>1, <1>2 DEF Raise

\* ... or after a call that returned.
LEMMA GotoStep ==
    ASSUME DeliveryInv, TypeInv', NEW c \in Consumers, Busy(c),
           NEW label \in {"notify", "mark", "dlq", "commit"}, Goto(c, label),
           UNCHANGED <<committed, msg>>, HandledKept(c),
           \A p \in Partitions : \A o \in Offsets(p) :
               label = "commit" /\ WorksOn(c, p, o) => Handled(p, o)',
           label = "dlq" => HasDeadLetter
    PROVE  DeliveryInv'
<1>1. pc' = [pc EXCEPT ![c] = pc'[c]] /\ pc'[c] = label
  BY DEF Goto, DeliveryInv, TypeInv, TypeOK
<1>2. UNCHANGED <<owner, position>> /\ Busy(c)'
  BY <1>1 DEF Goto, Busy
<1> QED BY <1>1, <1>2, WithinCall

LEMMA StepDeliveryInv ==
    ASSUME DeliveryInv, SafeMode, [Next]_vars
    PROVE  DeliveryInv'
<1> TypeInv /\ TypeInv'
  BY StepTypeInv DEF DeliveryInv
<1>1. CASE UNCHANGED vars
  BY <1>1
  DEF vars, storeVars, groupVars, callVars, worldVars, budgets, DeliveryInv,
      AcknowledgedMeansHandled, EarlierRecordsHandled, FetchedHandled, CommitHandled,
      Exclusive, NoGiveUp, Handled, DeadLettered, Completed, WorksOn, Busy
<1>2. ASSUME NEW c \in Consumers, Restart(c)
      PROVE  DeliveryInv'
  <2>1. UNCHANGED <<marker, dlq, committed, owner, position, msg>>
    BY <1>2 DEF Restart, storeVars, groupVars, callVars, worldVars
  <2>2. \A d \in Consumers : /\ Busy(d)' <=> Busy(d)
                             /\ Busy(d) => pc'[d] = pc[d]
    BY <1>2 DEF Restart, Busy, TypeInv, TypeOK
  <2>3. \A d \in Consumers : ~Busy(d) => pc'[d] \notin {"discard", "dlq", "commit"}
    BY <2>2 DEF Busy
  <2> QED
    BY <2>1, <2>2, <2>3, NothingLost
    DEF DeliveryInv, AcknowledgedMeansHandled, EarlierRecordsHandled, FetchedHandled,
        CommitHandled, Exclusive, NoGiveUp, WorksOn
<1>3. ASSUME NEW c \in Consumers, NEW p \in Partitions,
             PollValid(c, p) \/ PollMalformed(c, p)
      PROVE  DeliveryInv'
  BY <1>3, ReceiveCall DEF PollValid, PollMalformed
<1>4. ASSUME NEW c \in Consumers, NEW p \in Partitions, PollRefused(c, p)
      PROVE  DeliveryInv'
  <2>1. Abort(c) /\ UNCHANGED <<committed, storeVars, dlq>>
    BY <1>4 DEF PollRefused, Abort, SafeMode, worldVars
  <2> QED
    BY <2>1, AbortStep, CompletedStays DEF Completed, storeVars
<1>5. ASSUME NEW c \in Consumers, PollError(c)
      PROVE  DeliveryInv'
  <2>1. Abort(c) /\ UNCHANGED <<committed, storeVars, dlq>>
    BY <1>5 DEF PollError, worldVars
  <2> QED
    BY <2>1, AbortStep, CompletedStays DEF Completed, storeVars
<1>6. ASSUME NEW c \in Consumers, Crash(c)
      PROVE  DeliveryInv'
  <2>1. Abort(c) /\ UNCHANGED <<committed, storeVars, dlq>>
    BY <1>6 DEF Crash, Abort, SafeMode, worldVars
  <2> QED
    BY <2>1, AbortStep, CompletedStays DEF Completed, storeVars
<1>7. ASSUME NEW c \in Consumers, Store(c)
      PROVE  DeliveryInv'
  <2>1. EventOf(c) \in Events /\ Busy(c) /\ UNCHANGED <<committed, dlq>>
    BY <1>7 DEF Store, TypeInv, CallOK, Busy, worldVars
  <2>2. HandledKept(c)
    BY <1>7, <2>1, StoreOpsKeep DEF Store
  <2>3. ASSUME NEW err, Raise(c, err)
        PROVE  DeliveryInv'
    BY <1>7, <2>1, <2>2, <2>3, RaiseStep DEF Store
  <2>4. ASSUME NEW seen, Stored(c, EventOf(c), seen),
               ClaimAndInsert(EventOf(c)) \/ SeenAgain(EventOf(c))
        PROVE  DeliveryInv'
    <3>1. CASE DownstreamRequired(EventOf(c))
      BY <2>1, <2>2, <2>4, <3>1, GotoStep DEF Stored
    <3>2. CASE ~DownstreamRequired(EventOf(c))
      <4>1. Goto(c, "commit") /\ UNCHANGED msg
        BY <2>4, <3>2 DEF Stored
      <4>2. marker[EventOf(c)] = "completed" /\ UNCHANGED marker
        BY <2>4, <3>2
        DEF DownstreamRequired, Completed, ClaimAndInsert, SeenAgain, storeVars
      <4>3. \A p \in Partitions : \A o \in Offsets(p) :
              WorksOn(c, p, o) => Handled(p, o)'
        BY <2>1, <4>1, <4>2 DEF WorksOn, Handled, EventOf, Completed
      <4> QED BY <2>1, <2>2, <4>1, <4>3, GotoStep
    <3> QED BY <3>1, <3>2
  <2> QED BY <1>7, <2>3, <2>4 DEF Store
<1>8. ASSUME NEW c \in Consumers, Notify(c)
      PROVE  DeliveryInv'
  <2>1. Busy(c) /\ UNCHANGED <<committed, dlq, storeVars>>
    BY <1>8 DEF Notify, Busy
  <2>2. HandledKept(c)
    BY <2>1, CompletedStays DEF Completed, storeVars
  <2>3. CASE Raise(c, "downstream")
    BY <1>8, <2>1, <2>2, <2>3, RaiseStep DEF Notify
  <2>4. CASE Goto(c, "mark") /\ UNCHANGED callVars
    BY <2>1, <2>2, <2>4, GotoStep DEF callVars
  <2> QED BY <1>8, <2>3, <2>4 DEF Notify
<1>9. ASSUME NEW c \in Consumers, Mark(c)
      PROVE  DeliveryInv'
  <2>1. EventOf(c) \in Events /\ Busy(c) /\ UNCHANGED <<committed, dlq>>
    BY <1>9 DEF Mark, TypeInv, CallOK, Busy, worldVars
  <2>2. HandledKept(c)
    BY <1>9, <2>1, StoreOpsKeep DEF Mark
  <2>3. ASSUME NEW err, Raise(c, err)
        PROVE  DeliveryInv'
    BY <1>9, <2>1, <2>2, <2>3, RaiseStep DEF Mark
  <2>4. CASE MarkCompleted(EventOf(c)) /\ Goto(c, "commit") /\ UNCHANGED callVars
    <3>1. marker'[EventOf(c)] = "completed" /\ UNCHANGED msg
      BY <2>1, <2>4 DEF MarkCompleted, callVars, TypeInv, TypeOK, StoreTypeOK
    <3>2. \A p \in Partitions : \A o \in Offsets(p) :
            WorksOn(c, p, o) => Handled(p, o)'
      BY <2>1, <3>1 DEF WorksOn, Handled, EventOf, Completed
    <3> QED BY <2>1, <2>2, <2>4, <3>1, <3>2, GotoStep
  <2> QED BY <1>9, <2>3, <2>4 DEF Mark
<1>10. ASSUME NEW c \in Consumers, DiscardEvent(c)
       PROVE  DeliveryInv'
  <2>1. pc[c] = "discard" /\ Busy(c) /\ HasDeadLetter /\ UNCHANGED <<committed, dlq>>
    BY <1>10 DEF DiscardEvent, DeliveryInv, NoGiveUp, Busy, worldVars
  <2>2. HandledKept(c)
    <3>1. pc'[c] # "commit"
      BY <1>10 DEF DiscardEvent, Goto, Abort, TypeInv, TypeOK
    <3> QED BY <1>10, <2>1, <3>1, DiscardKeeps DEF DiscardEvent
  <2>3. CASE Abort(c)
    BY <2>1, <2>2, <2>3, AbortStep
  <2>4. CASE Goto(c, "dlq") /\ UNCHANGED callVars
    BY <2>1, <2>2, <2>4, GotoStep DEF callVars
  <2> QED BY <1>10, <2>3, <2>4 DEF DiscardEvent
<1>11. ASSUME NEW c \in Consumers, PublishDeadLetter(c)
       PROVE  DeliveryInv'
  <2>1. pc[c] = "dlq" /\ Busy(c) /\ UNCHANGED <<committed, storeVars>> /\ dlq \subseteq dlq'
    BY <1>11 DEF PublishDeadLetter, Busy
  <2>2. HandledKept(c)
    BY <2>1, CompletedStays DEF Completed, storeVars
  <2>3. CASE Abort(c)
    BY <2>1, <2>2, <2>3, AbortStep
  <2>4. CASE /\ dlq' = dlq \cup {DeadLetter(c)}
             /\ Goto(c, "commit")
             /\ UNCHANGED callVars
    <3>1. \A p \in Partitions : \A o \in Offsets(p) :
            WorksOn(c, p, o) => Handled(p, o)'
      BY <2>4 DEF WorksOn, Handled, DeadLettered, DeadLetter
    <3> QED BY <2>1, <2>2, <2>4, <3>1, GotoStep DEF callVars
  <2> QED BY <1>11, <2>3, <2>4 DEF PublishDeadLetter
<1>12. ASSUME NEW c \in Consumers, CommitFails(c)
       PROVE  DeliveryInv'
  <2>1. /\ pc[c] = "commit" /\ Abort(c) /\ UNCHANGED <<marker, dlq>>
        /\ UNCHANGED committed \/ CommitOffset(c)
    BY <1>12 DEF CommitFails, storeVars, worldVars
  <2>2. HandledKept(c)
    BY <2>1, CompletedStays DEF Completed
  <2> QED BY <2>1, <2>2, AbortStep
<1>13. ASSUME NEW c \in Consumers, CommitSucceeds(c)
       PROVE  DeliveryInv'
  BY <1>13, CommitCall
<1>14. ASSUME NEW c \in Consumers, NEW p \in Partitions, Assign(p, c) \/ Rebalance(p, c)
       PROVE  DeliveryInv'
  BY <1>14, AssignStep
<1>15. ASSUME NEW c \in Consumers, PollTimeout(c)
       PROVE  DeliveryInv'
  BY <1>1, <1>15 DEF PollTimeout
<1> QED
  BY <1>1, <1>2, <1>3, <1>4, <1>5, <1>6, <1>7, <1>8, <1>9, <1>10, <1>11, <1>12, <1>13,
     <1>14, <1>15
  DEF Next, ProcessOne

LEMMA InitDeliveryInv == Init => DeliveryInv
<1> SUFFICES ASSUME Init PROVE DeliveryInv
  OBVIOUS
<1>1. TypeInv
  BY InitTypeInv
<1>2. AcknowledgedMeansHandled
  BY DEF Init, AcknowledgedMeansHandled, Offsets
<1>3. EarlierRecordsHandled /\ CommitHandled /\ NoGiveUp
  BY DEF Init, EarlierRecordsHandled, CommitHandled, NoGiveUp, Busy
<1>4. FetchedHandled /\ Exclusive
  BY ConsumerAssumption DEF Init, FetchedHandled, Exclusive, Busy
<1> QED BY <1>1, <1>2, <1>3, <1>4 DEF DeliveryInv

LEMMA DeliveryInvariance == ASSUME SafeMode PROVE Spec => []DeliveryInv
<1>1. Init => DeliveryInv
  BY InitDeliveryInv
<1>2. DeliveryInv /\ [Next]_vars => DeliveryInv'
  BY StepDeliveryInv
<1> QED BY <1>1, <1>2, PTL DEF Spec

\* "Kafka offset committed only after successful processing": in a safe
\* configuration no committed offset covers an unhandled record, whatever the
\* log, the number of consumers, and the crashes, failures and rebalances.
THEOREM OffsetsCoverHandledRecords ==
    ASSUME SafeMode PROVE Spec => []AcknowledgedMeansHandled
<1>1. DeliveryInv => AcknowledgedMeansHandled
  BY DEF DeliveryInv
<1> QED BY <1>1, DeliveryInvariance, PTL

\* No record is worked on before the earlier ones of its partition are handled.
THEOREM PartitionsAreHandledInOrder ==
    ASSUME SafeMode PROVE Spec => []EarlierRecordsHandled
<1>1. DeliveryInv => EarlierRecordsHandled
  BY DEF DeliveryInv
<1> QED BY <1>1, DeliveryInvariance, PTL

(***************************************************************************)
(* What is relied on is not discarded, and the refinement of OrderDelivery.*)
(***************************************************************************)

LEMMA InHand ==
    ASSUME TypeInv, NEW c \in Consumers, Busy(c)
    PROVE  /\ msg[c].part \in Partitions /\ msg[c].off \in Nat
           /\ msg[c].off \in Offsets(msg[c].part)
           /\ msg[c].off + 1 \in 0 .. Len(Log[msg[c].part])
<1>1. msg[c] \in Messages
  BY DEF TypeInv, CallOK
<1>2. Len(Log[msg[c].part]) \in Nat
  BY <1>1, ConsumerAssumption DEF Messages
<1> QED BY <1>1, <1>2 DEF Messages, Offsets

\* A consumer discards the event of one record: the one it works on, which is
\* not acknowledged.
LEMMA DiscardIsUnacknowledged ==
    ASSUME DeliveryInv, SafeMode, NEW c \in Consumers, pc[c] = "discard",
           NEW p \in Partitions, NEW o \in Offsets(p), Value(p, o) = EventOf(c)
    PROVE  committed[p] <= o
<1>1. MaxRebalances = 0 /\ UniqueEvents /\ Busy(c) /\ EventOf(c) \in Events
  BY DEF DeliveryInv, NoGiveUp, SafeMode, TypeInv, CallOK, Busy
<1>2. p = msg[c].part /\ o = msg[c].off
  BY <1>1, InHand DEF DeliveryInv, UniqueEvents, EventOf
<1> QED BY <1>1, <1>2 DEF DeliveryInv, Exclusive

\* The order of an acknowledged record is not deleted by the failure of another
\* one, whatever the crashes and the calls that fail.
THEOREM AcknowledgedOrdersStay ==
    ASSUME SafeMode PROVE Spec => AcknowledgedOrderStays
<1> DEFINE A == \A p \in Partitions : \A o \in Offsets(p) :
        (o < committed[p] /\ ~DeadLettered(p, o) /\ Value(p, o) \in orders)
            => Value(p, o) \in orders'
<1>1. DeliveryInv /\ [Next]_vars => [A]_vars
  <2> SUFFICES ASSUME DeliveryInv, [Next]_vars,
                      NEW p \in Partitions, NEW o \in Offsets(p), o < committed[p],
                      Value(p, o) \in orders, Value(p, o) \notin orders'
               PROVE  FALSE
    OBVIOUS
  <2>1. PICK c \in Consumers : pc[c] = "discard" /\ Discard(EventOf(c))
    BY EffectOfStep DEF Effect, ClaimAndInsert, MarkCompleted, storeVars
  <2>2. Value(p, o) = EventOf(c)
    BY <2>1 DEF Discard
  <2>3. committed[p] <= o
    BY <2>1, <2>2, DiscardIsUnacknowledged
  <2>4. o \in Nat /\ committed[p] \in Nat
    BY ValueType DEF DeliveryInv, TypeInv, TypeOK
  <2> QED BY <2>3, <2>4
<1> QED
  BY <1>1, DeliveryInvariance, PTL DEF Spec, AcknowledgedOrderStays

LEMMA PromisedHandled ==
    ASSUME NEW p \in Partitions, NEW o \in Offsets(p), Handled(p, o)
    PROVE  Delivery!Handled(p, o)
  BY DEF Handled, DeadLettered, Delivery!Handled, Delivery!Value, Value

\* A record in hand has only handled ones before it.
LEMMA PromisedBefore ==
    ASSUME DeliveryInv, NEW c \in Consumers, Busy(c),
           NEW k \in 0 .. msg[c].off - 1
    PROVE  Delivery!Handled(msg[c].part, k)
<1>1. k \in Offsets(msg[c].part) /\ k < msg[c].off
  BY InHand DEF DeliveryInv, Offsets
<1>2. Handled(msg[c].part, k)
  BY <1>1, InHand DEF DeliveryInv, EarlierRecordsHandled
<1> QED BY <1>1, <1>2, InHand, PromisedHandled DEF DeliveryInv

LEMMA EffectIsPromised ==
    ASSUME DeliveryInv, SafeMode, NEW c \in Consumers, Effect(c)
    PROVE  [Delivery!Next]_(Delivery!vars)
<1> DEFINE p == msg[c].part
           o == msg[c].off
<1>1. /\ TypeInv /\ Busy(c) /\ marker \in [Events -> Status]
      /\ committed \in [Partitions -> Nat]
  BY DEF DeliveryInv, TypeInv, TypeOK, StoreTypeOK, Effect, Busy
<1>2. /\ p \in Partitions /\ o \in Nat /\ o \in Offsets(p)
      /\ o + 1 \in 0 .. Len(Log[p])
  BY <1>1, InHand
<1>3. ASSUME pc[c] = "store", ClaimAndInsert(EventOf(c)), UNCHANGED <<dlq, committed>>
      PROVE  UNCHANGED Delivery!vars
  <2>1. {e \in Events : Completed(e)}' = {e \in Events : Completed(e)}
    BY <1>1, <1>3 DEF ClaimAndInsert, Completed
  <2> QED BY <1>3, <2>1 DEF Delivery!vars
<1>4. ASSUME pc[c] = "mark", MarkCompleted(EventOf(c)), UNCHANGED <<dlq, committed>>
      PROVE  Delivery!Next
  <2>1. EventOf(c) \in Events
    BY <1>1, <1>4 DEF TypeInv, CallOK
  <2>2. {e \in Events : Completed(e)}' = {e \in Events : Completed(e)} \cup {EventOf(c)}
    BY <1>1, <1>4, <2>1 DEF MarkCompleted, Completed
  <2>3. Delivery!Complete(EventOf(c))
    BY <1>4, <2>2 DEF Delivery!Complete
  <2> QED BY <2>1, <2>3 DEF Delivery!Next
<1>5. ASSUME pc[c] = "discard", Discard(EventOf(c)), UNCHANGED <<dlq, committed>>
      PROVE  Delivery!Next
  <2>1. EventOf(c) \in Events
    BY <1>1, <1>5 DEF TypeInv, CallOK
  <2>2. {e \in Events : Completed(e)}' = {e \in Events : Completed(e)} \ {EventOf(c)}
    BY <1>1, <1>5, <2>1 DEF Discard, Completed
  <2>3. ~Delivery!ReliedOn(EventOf(c))
    <3> SUFFICES ASSUME NEW q \in Partitions, NEW k \in Offsets(q),
                        k < committed[q], Value(q, k) = EventOf(c)
                 PROVE  FALSE
      BY DEF Delivery!ReliedOn, Delivery!Offsets, Delivery!Value, Offsets, Value
    <3>1. committed[q] <= k
      BY <1>5, DiscardIsUnacknowledged
    <3>2. k \in Nat /\ committed[q] \in Nat
      BY <1>1, ValueType
    <3> QED BY <3>1, <3>2
  <2>4. Delivery!Withdraw(EventOf(c))
    BY <1>5, <2>2, <2>3 DEF Delivery!Withdraw
  <2> QED BY <2>1, <2>4 DEF Delivery!Next
<1>6. ASSUME pc[c] = "dlq", dlq' = dlq \cup {DeadLetter(c)},
             UNCHANGED <<storeVars, committed>>
      PROVE  Delivery!Next
  <2>1. {<<d.part, d.off>> : d \in dlq}' = {<<d.part, d.off>> : d \in dlq} \cup {<<p, o>>}
    <3>1. DeadLetter(c).part = p /\ DeadLetter(c).off = o
      BY DEF DeadLetter
    <3> QED BY <1>6, <3>1
  <2>2. {e \in Events : Completed(e)}' = {e \in Events : Completed(e)}
    BY <1>6 DEF storeVars, Completed
  <2> SUFFICES ASSUME NEW q \in Partitions, NEW k \in Offsets(q), q = p, k = o
               PROVE  Delivery!DeadLetter(q, k)
    BY <1>2 DEF Delivery!Next, Delivery!Offsets, Offsets
  <2> QED BY <1>1, <1>6, <2>1, <2>2, PromisedBefore DEF Delivery!DeadLetter
<1>7. ASSUME pc[c] = "commit", CommitOffset(c), UNCHANGED <<storeVars, dlq>>
      PROVE  Delivery!Next
  <2>1. {e \in Events : Completed(e)}' = {e \in Events : Completed(e)}
    BY <1>7 DEF storeVars, Completed
  <2>2. Handled(p, o)
    BY <1>1, <1>2, <1>7 DEF DeliveryInv, CommitHandled, WorksOn
  <2>3. ASSUME NEW k \in 0 .. (o + 1) - 1
        PROVE  Delivery!Handled(p, k)
    <3>1. k = o \/ k \in 0 .. o - 1
      BY <1>2
    <3> QED BY <1>1, <1>2, <2>2, <3>1, PromisedHandled, PromisedBefore
  <2>4. Delivery!Acknowledge(p, o + 1)
    BY <1>7, <2>1, <2>3 DEF Delivery!Acknowledge, CommitOffset
  <2> QED BY <1>2, <2>4 DEF Delivery!Next
<1> QED BY <1>3, <1>4, <1>5, <1>6, <1>7 DEF Effect

\* The consumer group keeps the promise of OrderDelivery: every step of every
\* consumer is one of its steps or invisible to it.
THEOREM ConsumersKeepThePromise ==
    ASSUME SafeMode PROVE Spec => DeliverySpec
<1>1. Init => Delivery!Init
  BY DEF Init, StoreInit, Completed, Delivery!Init
<1>2. DeliveryInv /\ [Next]_vars => [Delivery!Next]_(Delivery!vars)
  <2> SUFFICES ASSUME DeliveryInv, [Next]_vars
               PROVE  [Delivery!Next]_(Delivery!vars)
    OBVIOUS
  <2>1. CASE UNCHANGED <<storeVars, dlq, committed>>
    BY <2>1 DEF storeVars, Completed, Delivery!vars
  <2> QED BY <2>1, EffectOfStep, EffectIsPromised
<1> QED
  BY <1>1, <1>2, DeliveryInvariance, PTL DEF Spec, DeliverySpec, Delivery!Spec

=============================================================================
