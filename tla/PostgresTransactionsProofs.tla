----------------------- MODULE PostgresTransactionsProofs -----------------------
(***************************************************************************)
(* Theorems about PostgresTransactions: what the row locks guarantee       *)
(* whatever the calls that overlap, and that the transactions implement    *)
(* the atomic store of PostgresOrderStore as long as a discard does not    *)
(* run beside another call for its event.                                  *)
(***************************************************************************)
EXTENDS PostgresTransactions, TLAPS

(***************************************************************************)
(* The inductive invariant.                                                *)
(***************************************************************************)

\* What a session has written is what the statements before its pc wrote.
BufferOf(s) ==
    /\ pc[s] = "idle" => read[s] = "absent"
    /\ pc[s] # "idle" => event[s] \in Events
    /\ pc[s] \in {"claim", "select", "update", "deleteOrder"} =>
        orderWrite[s] = "none" /\ markerWrite[s] = "none"
    /\ pc[s] = "insert" => orderWrite[s] = "none" /\ markerWrite[s] = "insert"
    /\ pc[s] = "deleteMarker" => orderWrite[s] # "insert" /\ markerWrite[s] = "none"
    /\ pc[s] = "commit" => (orderWrite[s] = "insert" <=> markerWrite[s] = "insert")
    /\ orderWrite[s] = "delete" => markerWrite[s] \in {"none", "delete"}
    /\ read[s] # "absent" => markerWrite[s] = "lock"

\* The processed_events row a session wrote or locked is locked against all others.
MarkerLocked ==
    \A s, t \in Sessions :
        s # t /\ event[s] = event[t] /\ markerWrite[s] # "none" =>
            markerWrite[t] = "none"

\* What a session wrote to processed_events still fits the committed row.
MarkerWriteFits(s) ==
    /\ markerWrite[s] = "insert" => marker[event[s]] = "absent"
    /\ markerWrite[s] \in {"lock", "complete", "delete"} => marker[event[s]] # "absent"
    /\ markerWrite[s] = "lock" => read[s] = marker[event[s]]

\* Two uncommitted orders never share a key.
OrderKeyLocked ==
    \A s, t \in Sessions :
        /\ s # t
        /\ orderWrite[s] = "insert"
        /\ orderWrite[t] = "insert"
        => OrderIdOf[event[s]] # OrderIdOf[event[t]]

\* What a session wrote to orders still fits the committed rows.
OrderWriteFits(s) ==
    orderWrite[s] = "insert" => ~Store!OrderIdTaken(event[s])

\* What holds whatever the calls that overlap.
LockInv ==
    /\ TypeOK
    /\ \A s \in Sessions : BufferOf(s) /\ MarkerWriteFits(s) /\ OrderWriteFits(s)
    /\ MarkerLocked
    /\ OrderKeyLocked
    /\ OrderIdsDistinct

\* A discard is alone with its event: both rows go, or neither is there.
DiscardAlone(s) ==
    /\ Discarding(s) => Others(s, event[s]) = {}
    /\ pc[s] = "deleteMarker" => (orderWrite[s] = "delete" <=> event[s] \in orders)
    /\ pc[s] = "commit" => (orderWrite[s] = "delete" <=> markerWrite[s] = "delete")

AloneInv ==
    /\ LockInv
    /\ OrderHasMarker
    /\ \A s \in Sessions : DiscardAlone(s)

(***************************************************************************)
(* Every step keeps LockInv.                                               *)
(***************************************************************************)

LEMMA InitLock == Init => LockInv
  BY TransactionsAssumption
     DEF Init, LockInv, TypeOK, BufferOf, MarkerWriteFits, OrderWriteFits,
         MarkerLocked, OrderKeyLocked, OrderIdsDistinct,
         Store!StoreInit, Store!Status, Store!OrderIdsDistinct

\* A step of s that leaves the committed rows and the other sessions alone, and
\* takes a row or an order key only when no other session holds it.
LEMMA BufferStep ==
  ASSUME LockInv, NEW s \in Sessions, UNCHANGED tables,
         \A t \in Sessions \ {s} :
            /\ pc'[t] = pc[t]
            /\ event'[t] = event[t]
            /\ orderWrite'[t] = orderWrite[t]
            /\ markerWrite'[t] = markerWrite[t]
            /\ read'[t] = read[t],
         TypeOK', BufferOf(s)', MarkerWriteFits(s)', OrderWriteFits(s)',
         \A t \in Sessions \ {s} :
            /\ markerWrite'[s] # "none" /\ event[t] = event'[s] =>
                markerWrite[t] = "none"
            /\ orderWrite'[s] = "insert" /\ orderWrite[t] = "insert" =>
                OrderIdOf[event'[s]] # OrderIdOf[event[t]]
  PROVE  LockInv'
  <1>1. OrderIdsDistinct'
    BY DEF LockInv, OrderIdsDistinct, Store!OrderIdsDistinct, tables
  <1>2. \A t \in Sessions : BufferOf(t)' /\ MarkerWriteFits(t)' /\ OrderWriteFits(t)'
    BY DEF LockInv, BufferOf, MarkerWriteFits, OrderWriteFits, Store!OrderIdTaken, tables
  <1>3. MarkerLocked'
    BY DEF LockInv, MarkerLocked
  <1>4. OrderKeyLocked'
    BY DEF LockInv, OrderKeyLocked
  <1> QED
    BY <1>1, <1>2, <1>3, <1>4 DEF LockInv

LEMMA BeginLock ==
  ASSUME LockInv, NEW s \in Sessions, NEW e \in Events,
         NEW first \in {"claim", "update", "deleteOrder"}, Begin(s, e, first)
  PROVE  LockInv'
  <1>1. TypeOK'
    BY DEF LockInv, TypeOK, Begin, tables
  <1>2. markerWrite'[s] = "none" /\ orderWrite'[s] = "none" /\ read'[s] = "absent"
    BY DEF LockInv, TypeOK, BufferOf, Begin
  <1>3. BufferOf(s)' /\ MarkerWriteFits(s)' /\ OrderWriteFits(s)'
    BY <1>2 DEF LockInv, TypeOK, BufferOf, MarkerWriteFits, OrderWriteFits, Begin
  <1> QED
    BY <1>1, <1>2, <1>3, BufferStep DEF LockInv, TypeOK, Begin

LEMMA RollbackLock ==
  ASSUME LockInv, NEW s \in Sessions, Rollback(s), faults' \in 0 .. MaxFaults
  PROVE  LockInv'
  <1>1. TypeOK'
    BY DEF LockInv, TypeOK, Rollback, Close, tables, Store!Status
  <1>2. BufferOf(s)' /\ MarkerWriteFits(s)' /\ OrderWriteFits(s)'
    BY DEF LockInv, TypeOK, BufferOf, MarkerWriteFits, OrderWriteFits, Rollback, Close
  <1> QED
    BY <1>1, <1>2, BufferStep DEF LockInv, TypeOK, Rollback, Close

LEMMA ClaimLock ==
  ASSUME LockInv, NEW s \in Sessions, Claim(s)
  PROVE  LockInv'
  <1>1. TypeOK'
    BY DEF LockInv, TypeOK, Claim, Goto, tables
  <1>2. event[s] \in Events /\ event'[s] = event[s]
    BY DEF LockInv, BufferOf, Claim, Goto
  <1>3. BufferOf(s)' /\ MarkerWriteFits(s)' /\ OrderWriteFits(s)'
    BY <1>2 DEF LockInv, TypeOK, BufferOf, MarkerWriteFits, OrderWriteFits, Claim, Goto,
                tables, Store!Status
  <1>4. \A t \in Sessions \ {s} :
           markerWrite'[s] # "none" /\ event[t] = event[s] => markerWrite[t] = "none"
    BY <1>2 DEF LockInv, TypeOK, BufferOf, MarkerWriteFits, MarkerUnwritten, Others, Claim, Goto
  <1>5. orderWrite'[s] = "none"
    BY DEF LockInv, BufferOf, Claim
  <1> QED
    BY <1>1, <1>2, <1>3, <1>4, <1>5, BufferStep DEF LockInv, TypeOK, Claim, Goto

LEMMA SelectLock ==
  ASSUME LockInv, NEW s \in Sessions, SelectForUpdate(s)
  PROVE  LockInv'
  <1>1. TypeOK'
    BY DEF LockInv, TypeOK, BufferOf, SelectForUpdate, Goto, tables
  <1>2. event[s] \in Events /\ event'[s] = event[s]
    BY DEF LockInv, BufferOf, SelectForUpdate, Goto
  <1>3. BufferOf(s)' /\ MarkerWriteFits(s)' /\ OrderWriteFits(s)'
    BY <1>2 DEF LockInv, TypeOK, BufferOf, MarkerWriteFits, OrderWriteFits, SelectForUpdate,
                Goto, tables, Store!Status
  <1>4. \A t \in Sessions \ {s} : event[t] = event[s] => markerWrite[t] = "none"
    BY <1>2 DEF MarkerFree, Others, SelectForUpdate
  <1>5. orderWrite'[s] = "none"
    BY DEF LockInv, BufferOf, SelectForUpdate
  <1> QED
    BY <1>1, <1>2, <1>3, <1>4, <1>5, BufferStep DEF LockInv, TypeOK, SelectForUpdate, Goto

LEMMA InsertLock ==
  ASSUME LockInv, NEW s \in Sessions, InsertOrder(s)
  PROVE  LockInv'
  <1>1. TypeOK'
    BY DEF LockInv, TypeOK, InsertOrder, Goto, tables
  <1>2. /\ event[s] \in Events /\ event'[s] = event[s]
        /\ markerWrite[s] = "insert" /\ markerWrite'[s] = "insert"
    BY DEF LockInv, BufferOf, InsertOrder, Goto
  <1>3. BufferOf(s)' /\ MarkerWriteFits(s)' /\ OrderWriteFits(s)'
    BY <1>2 DEF LockInv, TypeOK, BufferOf, MarkerWriteFits, OrderWriteFits, InsertOrder,
                Goto, tables, Store!OrderIdTaken
  <1>4. \A t \in Sessions \ {s} : event[t] = event[s] => markerWrite[t] = "none"
    BY <1>2 DEF LockInv, MarkerLocked
  <1>5. ASSUME NEW t \in Sessions \ {s}, orderWrite[t] = "insert"
        PROVE  OrderIdOf[event[s]] # OrderIdOf[event[t]]
    <2>1. event[t] \in Events
      BY <1>5 DEF LockInv, TypeOK, BufferOf
    <2> QED
      BY <1>5, <2>1 DEF OrderKeyFree, Others, InsertOrder
  <1> QED
    BY <1>1, <1>2, <1>3, <1>4, <1>5, BufferStep DEF LockInv, TypeOK, InsertOrder, Goto

LEMMA UpdateLock ==
  ASSUME LockInv, NEW s \in Sessions, UpdateMarker(s)
  PROVE  LockInv'
  <1>1. TypeOK'
    BY DEF LockInv, TypeOK, UpdateMarker, Goto, tables
  <1>2. event[s] \in Events /\ event'[s] = event[s]
    BY DEF LockInv, BufferOf, UpdateMarker, Goto
  <1>3. BufferOf(s)' /\ MarkerWriteFits(s)' /\ OrderWriteFits(s)'
    BY <1>2 DEF LockInv, TypeOK, BufferOf, MarkerWriteFits, OrderWriteFits, UpdateMarker,
                Goto, tables
  <1>4. \A t \in Sessions \ {s} : event[t] = event[s] => markerWrite[t] = "none"
    BY <1>2 DEF MarkerFree, Others, UpdateMarker
  <1>5. orderWrite'[s] = "none"
    BY DEF LockInv, BufferOf, UpdateMarker
  <1> QED
    BY <1>1, <1>2, <1>3, <1>4, <1>5, BufferStep DEF LockInv, TypeOK, UpdateMarker, Goto

LEMMA DeleteOrderLock ==
  ASSUME LockInv, NEW s \in Sessions, DeleteOrder(s)
  PROVE  LockInv'
  <1>1. TypeOK'
    BY DEF LockInv, TypeOK, DeleteOrder, Goto, tables
  <1>2. /\ event[s] \in Events /\ event'[s] = event[s]
        /\ markerWrite'[s] = "none" /\ orderWrite'[s] # "insert"
    BY DEF LockInv, TypeOK, BufferOf, DeleteOrder, Goto
  <1>3. BufferOf(s)' /\ MarkerWriteFits(s)' /\ OrderWriteFits(s)'
    BY <1>2 DEF LockInv, TypeOK, BufferOf, MarkerWriteFits, OrderWriteFits, DeleteOrder,
                Goto, tables
  <1> QED
    BY <1>1, <1>2, <1>3, BufferStep DEF LockInv, TypeOK, DeleteOrder, Goto

LEMMA DeleteMarkerLock ==
  ASSUME LockInv, NEW s \in Sessions, DeleteMarker(s)
  PROVE  LockInv'
  <1>1. TypeOK'
    BY DEF LockInv, TypeOK, DeleteMarker, Goto, tables
  <1>2. /\ event[s] \in Events /\ event'[s] = event[s]
        /\ orderWrite'[s] # "insert"
    BY DEF LockInv, BufferOf, DeleteMarker, Goto
  <1>3. BufferOf(s)' /\ MarkerWriteFits(s)' /\ OrderWriteFits(s)'
    BY <1>2 DEF LockInv, TypeOK, BufferOf, MarkerWriteFits, OrderWriteFits, DeleteMarker,
                Goto, tables
  <1>4. \A t \in Sessions \ {s} :
           markerWrite'[s] # "none" /\ event[t] = event[s] => markerWrite[t] = "none"
    BY <1>2 DEF LockInv, TypeOK, BufferOf, MarkerFree, Others, DeleteMarker
  <1> QED
    BY <1>1, <1>2, <1>3, <1>4, BufferStep DEF LockInv, TypeOK, DeleteMarker, Goto

\* A COMMIT changes the rows of its own event only, and only those it holds.
LEMMA CommitWrites ==
  ASSUME LockInv, NEW s \in Sessions, Commit(s)
  PROVE  /\ event[s] \in Events
         /\ orders' \in SUBSET Events
         /\ marker' \in [Events -> Store!Status]
         /\ \A e \in Events : e # event[s] =>
                marker'[e] = marker[e] /\ (e \in orders' <=> e \in orders)
         /\ event[s] \in orders' <=>
                orderWrite[s] = "insert" \/ (orderWrite[s] # "delete" /\ event[s] \in orders)
         /\ markerWrite[s] \in {"none", "lock"} => marker' = marker
         /\ markerWrite[s] = "insert" => marker'[event[s]] = "pending"
         /\ markerWrite[s] = "complete" => marker'[event[s]] = "completed"
         /\ markerWrite[s] = "delete" => marker'[event[s]] = "absent"
  <1>1. event[s] \in Events
    BY DEF LockInv, BufferOf, Commit
  <1>2. marker \in [Events -> Store!Status] /\ orders \in SUBSET Events
    BY DEF LockInv, TypeOK
  <1>3. /\ orders' = CASE orderWrite[s] = "insert" -> orders \cup {event[s]}
                        [] orderWrite[s] = "delete" -> orders \ {event[s]}
                        [] OTHER -> orders
        /\ marker' = CASE markerWrite[s] = "insert"
                            -> [marker EXCEPT ![event[s]] = "pending"]
                        [] markerWrite[s] = "complete"
                            -> [marker EXCEPT ![event[s]] = "completed"]
                        [] markerWrite[s] = "delete"
                            -> [marker EXCEPT ![event[s]] = "absent"]
                        [] OTHER -> marker
    BY DEF Commit
  <1>4. orderWrite[s] \in {"none", "insert", "delete"}
    BY DEF LockInv, TypeOK
  <1>5. markerWrite[s] \in {"none", "insert", "lock", "complete", "delete"}
    BY DEF LockInv, TypeOK
  <1>6. /\ orders' \in SUBSET Events
        /\ \A e \in Events : e # event[s] => (e \in orders' <=> e \in orders)
        /\ event[s] \in orders' <=>
              orderWrite[s] = "insert" \/ (orderWrite[s] # "delete" /\ event[s] \in orders)
    BY <1>1, <1>2, <1>3, <1>4
  <1>7. /\ marker' \in [Events -> Store!Status]
        /\ \A e \in Events : e # event[s] => marker'[e] = marker[e]
        /\ markerWrite[s] \in {"none", "lock"} => marker' = marker
        /\ markerWrite[s] = "insert" => marker'[event[s]] = "pending"
        /\ markerWrite[s] = "complete" => marker'[event[s]] = "completed"
        /\ markerWrite[s] = "delete" => marker'[event[s]] = "absent"
    BY <1>1, <1>2, <1>3, <1>5 DEF Store!Status
  <1> QED
    BY <1>1, <1>6, <1>7

LEMMA CommitLock ==
  ASSUME LockInv, NEW s \in Sessions, Commit(s)
  PROVE  LockInv'
  <1>1. TypeOK'
    BY CommitWrites DEF LockInv, TypeOK, Commit, Close, Store!Status
  <1>2. /\ pc'[s] = "idle" /\ event'[s] = NoEvent
        /\ orderWrite'[s] = "none" /\ markerWrite'[s] = "none" /\ read'[s] = "absent"
        /\ \A t \in Sessions \ {s} :
              /\ pc'[t] = pc[t] /\ event'[t] = event[t] /\ read'[t] = read[t]
              /\ orderWrite'[t] = orderWrite[t] /\ markerWrite'[t] = markerWrite[t]
    BY DEF LockInv, TypeOK, Commit, Close
  <1>3. \A t \in Sessions : BufferOf(t)'
    BY <1>2 DEF LockInv, BufferOf
  <1>4. ASSUME NEW t \in Sessions
        PROVE  MarkerWriteFits(t)'
    <2>1. CASE t = s \/ markerWrite[t] = "none"
      BY <1>2, <2>1 DEF MarkerWriteFits
    <2>2. CASE t # s /\ markerWrite[t] # "none"
      <3>1. event[t] \in Events
        BY <2>2 DEF LockInv, TypeOK, BufferOf
      <3>2. marker'[event[t]] = marker[event[t]]
        BY <2>2, <3>1, CommitWrites DEF LockInv, MarkerLocked
      <3> QED
        BY <1>2, <2>2, <3>2 DEF LockInv, MarkerWriteFits
    <2> QED
      BY <2>1, <2>2
  <1>5. ASSUME NEW t \in Sessions
        PROVE  OrderWriteFits(t)'
    <2>1. CASE t = s \/ orderWrite[t] # "insert"
      BY <1>2, <2>1 DEF OrderWriteFits
    <2>2. CASE t # s /\ orderWrite[t] = "insert"
      BY <1>2, <2>2, CommitWrites
         DEF LockInv, TypeOK, OrderWriteFits, OrderKeyLocked, Store!OrderIdTaken
    <2> QED
      BY <2>1, <2>2
  <1>6. MarkerLocked' /\ OrderKeyLocked'
    BY <1>2 DEF LockInv, MarkerLocked, OrderKeyLocked
  <1>7. OrderIdsDistinct'
    BY CommitWrites
       DEF LockInv, TypeOK, OrderIdsDistinct, Store!OrderIdsDistinct,
           OrderWriteFits, Store!OrderIdTaken
  <1> QED
    BY <1>1, <1>3, <1>4, <1>5, <1>6, <1>7 DEF LockInv

LEMMA StepLock == LockInv /\ [Next]_vars => LockInv'
  <1> SUFFICES ASSUME LockInv, [Next]_vars
               PROVE  LockInv'
    OBVIOUS
  <1>1. CASE UNCHANGED vars
    BY <1>1
       DEF vars, tables, LockInv, TypeOK, BufferOf, MarkerWriteFits, OrderWriteFits,
           MarkerLocked, OrderKeyLocked, OrderIdsDistinct, Store!OrderIdsDistinct,
           Store!OrderIdTaken
  <1>2. CASE Next
    <2>1. PICK s \in Sessions :
             \/ \E e \in Events : BeginStore(s, e) \/ BeginMark(s, e) \/ BeginDiscard(s, e)
             \/ Statement(s)
             \/ ConnectionFails(s)
      BY <1>2 DEF Next
    <2>2. ASSUME NEW e \in Events,
                 BeginStore(s, e) \/ BeginMark(s, e) \/ BeginDiscard(s, e)
          PROVE  LockInv'
      BY <2>2, BeginLock DEF BeginStore, BeginMark, BeginDiscard
    <2>3. CASE ConnectionFails(s)
      <3>1. faults' \in 0 .. MaxFaults
        BY <2>3, TransactionsAssumption DEF LockInv, TypeOK, ConnectionFails
      <3> QED
        BY <2>3, <3>1, RollbackLock DEF ConnectionFails
    <2>4. CASE ClaimDisappeared(s) \/ OrderRefused(s) \/ UpdateFindsNothing(s)
      <3>1. faults' \in 0 .. MaxFaults
        BY <2>4 DEF LockInv, TypeOK, ClaimDisappeared, OrderRefused, UpdateFindsNothing
      <3> QED
        BY <2>4, <3>1, RollbackLock DEF ClaimDisappeared, OrderRefused, UpdateFindsNothing
    <2>5. CASE Claim(s) \/ SelectForUpdate(s) \/ InsertOrder(s) \/ UpdateMarker(s)
                 \/ DeleteOrder(s) \/ DeleteMarker(s) \/ Commit(s)
      BY <2>5, ClaimLock, SelectLock, InsertLock, UpdateLock, DeleteOrderLock,
         DeleteMarkerLock, CommitLock
    <2> QED
      BY <2>1, <2>2, <2>3, <2>4, <2>5 DEF Statement
  <1> QED
    BY <1>1, <1>2

LEMMA LockInvariance == Spec => []LockInv
  <1> QED
    BY InitLock, StepLock, PTL DEF Spec

\* Types, and a session between two calls holds no lock, whatever overlaps.
THEOREM TypeCorrect == Spec => []TypeOK
  <1>1. LockInv => TypeOK
    BY DEF LockInv
  <1> QED
    BY <1>1, LockInvariance, PTL

\* The status store() answers with is the committed one when its transaction
\* ends, even beside a discard: the row lock of SELECT ... FOR UPDATE is held
\* until then.
THEOREM ReadStaysCurrent == Spec => []ReadIsCurrent
  <1>1. LockInv => ReadIsCurrent
    BY DEF LockInv, ReadIsCurrent, BufferOf, MarkerWriteFits
  <1> QED
    BY <1>1, LockInvariance, PTL

\* No two committed orders share an order id, even beside a discard.
THEOREM OrderKeysHold == Spec => []OrderIdsDistinct
  <1>1. LockInv => OrderIdsDistinct
    BY DEF LockInv
  <1> QED
    BY <1>1, LockInvariance, PTL

(***************************************************************************)
(* Discards that are alone with their event.                               *)
(***************************************************************************)

LEMMA InitAlone == Init => AloneInv
  BY InitLock
     DEF AloneInv, Init, DiscardAlone, Discarding, Others, OrderHasMarker,
         Store!StoreInit, Store!OrderHasMarker

\* A session whose discard is under way has its event to itself, so a step of
\* another session is about another event.
LEMMA AloneKept ==
  ASSUME AloneInv, NEW s \in Sessions, LockInv', OrderHasMarker',
         \A t \in Sessions \ {s} :
            /\ pc'[t] = pc[t]
            /\ event'[t] = event[t]
            /\ orderWrite'[t] = orderWrite[t]
            /\ markerWrite'[t] = markerWrite[t],
         \A e \in Events : e # event[s] => (e \in orders' <=> e \in orders),
         \A t \in Sessions \ {s} : Discarding(t) => event'[s] # event[t],
         DiscardAlone(s)'
  PROVE  AloneInv'
  <1> SUFFICES ASSUME NEW t \in Sessions \ {s}
               PROVE  DiscardAlone(t)'
    BY DEF AloneInv
  <1>1. Discarding(t)' => Discarding(t)
    BY DEF Discarding
  <1>2. Discarding(t)' => Others(t, event[t])' = {}
    BY <1>1 DEF AloneInv, DiscardAlone, Others
  <1>3. pc[t] = "deleteMarker" => (event[t] \in orders' <=> event[t] \in orders)
    <2> HAVE pc[t] = "deleteMarker"
    <2>1. event[t] \in Events
      BY DEF AloneInv, LockInv, BufferOf
    <2>2. event[t] # event[s]
      BY DEF AloneInv, DiscardAlone, Discarding, Others
    <2> QED
      BY <2>1, <2>2
  <1> QED
    BY <1>2, <1>3 DEF AloneInv, DiscardAlone

\* In particular a statement, which leaves the committed rows and its event alone.
LEMMA StatementAlone ==
  ASSUME AloneInv, NEW s \in Sessions, NEW label, Goto(s, label), LockInv',
         \A t \in Sessions \ {s} :
            orderWrite'[t] = orderWrite[t] /\ markerWrite'[t] = markerWrite[t],
         DiscardAlone(s)'
  PROVE  AloneInv'
  <1>1. OrderHasMarker'
    BY DEF AloneInv, OrderHasMarker, Store!OrderHasMarker, Goto, tables
  <1>2. \A t \in Sessions \ {s} : pc'[t] = pc[t] /\ event'[t] = event[t]
    BY DEF AloneInv, LockInv, TypeOK, Goto
  <1>3. \A t \in Sessions \ {s} : Discarding(t) => event'[s] # event[t]
    BY DEF AloneInv, DiscardAlone, Others, Goto
  <1>4. \A e \in Events : e \in orders' <=> e \in orders
    BY DEF Goto, tables
  <1> QED
    BY <1>1, <1>2, <1>3, <1>4, AloneKept

LEMMA BeginAlone ==
  ASSUME AloneInv, ~DiscardsOverlap, NEW s \in Sessions, NEW e \in Events, LockInv',
         BeginStore(s, e) \/ BeginMark(s, e) \/ BeginDiscard(s, e)
  PROVE  AloneInv'
  <1>1. PICK first \in {"claim", "update", "deleteOrder"} :
           /\ Begin(s, e, first)
           /\ first = "deleteOrder" => Others(s, e) = {}
           /\ ~\E t \in Others(s, e) : Discarding(t)
    BY DEF BeginStore, BeginMark, BeginDiscard
  <1>2. OrderHasMarker'
    BY <1>1 DEF AloneInv, OrderHasMarker, Store!OrderHasMarker, Begin, tables
  <1>3. /\ event'[s] = e /\ pc'[s] = first
        /\ \A t \in Sessions \ {s} : pc'[t] = pc[t] /\ event'[t] = event[t]
    BY <1>1 DEF AloneInv, LockInv, TypeOK, Begin
  <1>4. \A t \in Sessions \ {s} : Discarding(t) => event'[s] # event[t]
    BY <1>1, <1>3 DEF Others
  <1>5. markerWrite'[s] = "none" /\ orderWrite'[s] = "none"
    BY <1>1 DEF AloneInv, LockInv, TypeOK, Begin
  <1>6. DiscardAlone(s)'
    BY <1>1, <1>3, <1>5 DEF DiscardAlone, Discarding, Others
  <1> QED
    BY <1>1, <1>2, <1>3, <1>4, <1>6, AloneKept DEF Begin, tables

\* A session that has closed its connection discards nothing.
LEMMA CloseAlone ==
  ASSUME AloneInv, NEW s \in Sessions, Close(s), LockInv', OrderHasMarker',
         \A e \in Events : e # event[s] => (e \in orders' <=> e \in orders)
  PROVE  AloneInv'
  <1>1. /\ pc'[s] = "idle" /\ event'[s] = NoEvent
        /\ orderWrite'[s] = "none" /\ markerWrite'[s] = "none"
        /\ \A t \in Sessions \ {s} :
              /\ pc'[t] = pc[t] /\ event'[t] = event[t]
              /\ orderWrite'[t] = orderWrite[t] /\ markerWrite'[t] = markerWrite[t]
    BY DEF AloneInv, LockInv, TypeOK, Close
  <1>2. DiscardAlone(s)'
    BY <1>1 DEF DiscardAlone, Discarding
  <1>3. \A t \in Sessions \ {s} : Discarding(t) => event[t] \in Events
    BY DEF AloneInv, LockInv, TypeOK, BufferOf, Discarding
  <1> QED
    BY <1>1, <1>2, <1>3, AloneKept, TransactionsAssumption

LEMMA RollbackAlone ==
  ASSUME AloneInv, NEW s \in Sessions, Rollback(s), LockInv'
  PROVE  AloneInv'
  <1>1. OrderHasMarker'
    BY DEF AloneInv, OrderHasMarker, Store!OrderHasMarker, Rollback, tables
  <1> QED
    BY <1>1, CloseAlone DEF Rollback, tables

\* What the buffer of a session about to commit holds: the writes of one method.
LEMMA CommitBuffer ==
  ASSUME AloneInv, NEW s \in Sessions, pc[s] = "commit"
  PROVE  \/ orderWrite[s] = "insert" /\ markerWrite[s] = "insert"
         \/ orderWrite[s] = "none" /\ markerWrite[s] \in {"none", "lock", "complete"}
         \/ orderWrite[s] = "delete" /\ markerWrite[s] = "delete"
  BY DEF AloneInv, LockInv, TypeOK, BufferOf, DiscardAlone

LEMMA CommitAlone ==
  ASSUME AloneInv, NEW s \in Sessions, Commit(s), LockInv'
  PROVE  AloneInv'
  <1>1. pc[s] = "commit" /\ event[s] \in Events /\ LockInv /\ MarkerWriteFits(s)
    BY DEF AloneInv, LockInv, BufferOf, Commit
  <1>2. event[s] \in orders' <=> marker'[event[s]] # "absent"
    BY <1>1, CommitWrites, CommitBuffer
       DEF AloneInv, OrderHasMarker, Store!OrderHasMarker, MarkerWriteFits
  <1>3. OrderHasMarker'
    BY <1>1, <1>2, CommitWrites DEF AloneInv, OrderHasMarker, Store!OrderHasMarker
  <1> QED
    BY <1>1, <1>3, CommitWrites, CloseAlone DEF Commit

LEMMA StepAlone ==
  AloneInv /\ ~DiscardsOverlap /\ [Next]_vars => AloneInv'
  <1> SUFFICES ASSUME AloneInv, ~DiscardsOverlap, [Next]_vars
               PROVE  AloneInv'
    OBVIOUS
  <1>1. LockInv'
    BY StepLock DEF AloneInv
  <1>2. CASE UNCHANGED vars
    BY <1>1, <1>2
       DEF vars, tables, AloneInv, DiscardAlone, Discarding, Others, OrderHasMarker,
           Store!OrderHasMarker
  <1>3. CASE Next
    <2>1. PICK s \in Sessions :
             \/ \E e \in Events : BeginStore(s, e) \/ BeginMark(s, e) \/ BeginDiscard(s, e)
             \/ Statement(s)
             \/ ConnectionFails(s)
      BY <1>3 DEF Next
    <2>2. ASSUME NEW e \in Events,
                 BeginStore(s, e) \/ BeginMark(s, e) \/ BeginDiscard(s, e)
          PROVE  AloneInv'
      BY <1>1, <2>2, BeginAlone
    <2>3. CASE ConnectionFails(s) \/ ClaimDisappeared(s) \/ OrderRefused(s)
                 \/ UpdateFindsNothing(s)
      BY <1>1, <2>3, RollbackAlone
         DEF ConnectionFails, ClaimDisappeared, OrderRefused, UpdateFindsNothing
    <2>4. CASE Commit(s)
      BY <1>1, <2>4, CommitAlone
    <2>5. CASE Claim(s)
      <3>1. DiscardAlone(s)'
        BY <2>5 DEF AloneInv, LockInv, TypeOK, BufferOf, DiscardAlone, Discarding, Claim, Goto
      <3> QED
        BY <1>1, <2>5, <3>1, StatementAlone DEF AloneInv, LockInv, TypeOK, Claim
    <2>6. CASE SelectForUpdate(s)
      <3>1. DiscardAlone(s)'
        BY <2>6 DEF AloneInv, LockInv, TypeOK, BufferOf, DiscardAlone, Discarding,
                    SelectForUpdate, Goto
      <3> QED
        BY <1>1, <2>6, <3>1, StatementAlone DEF AloneInv, LockInv, TypeOK, SelectForUpdate
    <2>7. CASE InsertOrder(s)
      <3>1. DiscardAlone(s)'
        BY <2>7 DEF AloneInv, LockInv, TypeOK, BufferOf, DiscardAlone, Discarding,
                    InsertOrder, Goto
      <3> QED
        BY <1>1, <2>7, <3>1, StatementAlone DEF AloneInv, LockInv, TypeOK, InsertOrder
    <2>8. CASE UpdateMarker(s)
      <3>1. DiscardAlone(s)'
        BY <2>8 DEF AloneInv, LockInv, TypeOK, BufferOf, DiscardAlone, Discarding,
                    UpdateMarker, Goto
      <3> QED
        BY <1>1, <2>8, <3>1, StatementAlone DEF AloneInv, LockInv, TypeOK, UpdateMarker
    <2>9. CASE DeleteOrder(s)
      <3>1. Others(s, event[s])' = {}
        BY <2>9 DEF AloneInv, DiscardAlone, Discarding, Others, DeleteOrder, Goto
      <3>2. event'[s] = event[s] /\ pc'[s] = "deleteMarker" /\ orders' = orders
        BY <2>9 DEF AloneInv, LockInv, TypeOK, DeleteOrder, Goto, tables
      <3>3. orderWrite'[s] = "delete" <=> event[s] \in orders
        BY <2>9 DEF AloneInv, LockInv, TypeOK, BufferOf, DeleteOrder
      <3>4. DiscardAlone(s)'
        BY <3>1, <3>2, <3>3 DEF DiscardAlone
      <3> QED
        BY <1>1, <2>9, <3>4, StatementAlone DEF AloneInv, LockInv, TypeOK, DeleteOrder
    <2>10. CASE DeleteMarker(s)
      <3>1. Others(s, event[s])' = {}
        BY <2>10 DEF AloneInv, DiscardAlone, Discarding, Others, DeleteMarker, Goto
      <3>2. event'[s] = event[s] /\ pc'[s] = "commit" /\ event[s] \in Events
        BY <2>10 DEF AloneInv, LockInv, TypeOK, BufferOf, DeleteMarker, Goto
      <3>3. orderWrite'[s] = "delete" <=> event[s] \in orders
        BY <2>10 DEF AloneInv, DiscardAlone, DeleteMarker
      <3>4. markerWrite'[s] = "delete" <=> marker[event[s]] # "absent"
        BY <2>10 DEF AloneInv, LockInv, TypeOK, BufferOf, DeleteMarker
      <3>5. DiscardAlone(s)'
        BY <3>1, <3>2, <3>3, <3>4
           DEF AloneInv, OrderHasMarker, Store!OrderHasMarker, DiscardAlone
      <3> QED
        BY <1>1, <2>10, <3>5, StatementAlone DEF AloneInv, LockInv, TypeOK, DeleteMarker
    <2> QED
      BY <2>1, <2>2, <2>3, <2>4, <2>5, <2>6, <2>7, <2>8, <2>9, <2>10 DEF Statement
  <1> QED
    BY <1>2, <1>3

LEMMA AloneInvariance ==
  ASSUME ~DiscardsOverlap
  PROVE  Spec => []AloneInv
  <1>1. AloneInv /\ [Next]_vars => AloneInv'
    BY StepAlone
  <1> QED
    BY <1>1, InitAlone, PTL DEF Spec

\* When no discard runs beside another call for its event, an order row and the
\* processed-event row of its event come and go together, although a crash may
\* end a transaction after any of its statements.
THEOREM RowsTogether ==
  ASSUME ~DiscardsOverlap
  PROVE  Spec => []OrderHasMarker
  <1>1. AloneInv => OrderHasMarker
    BY DEF AloneInv
  <1> QED
    BY <1>1, AloneInvariance, PTL

(***************************************************************************)
(* The refinement: a COMMIT is the step of PostgresOrderStore that its     *)
(* buffer describes, every other step is a stutter.                        *)
(***************************************************************************)

LEMMA OnlyCommitWrites ==
  ASSUME NEW s \in Sessions,
         \/ \E e \in Events : BeginStore(s, e) \/ BeginMark(s, e) \/ BeginDiscard(s, e)
         \/ Statement(s)
         \/ ConnectionFails(s),
         ~Commit(s)
  PROVE  UNCHANGED tables
  BY DEF BeginStore, BeginMark, BeginDiscard, Begin, Statement, Claim, SelectForUpdate,
         ClaimDisappeared, InsertOrder, OrderRefused, UpdateMarker, UpdateFindsNothing,
         DeleteOrder, DeleteMarker, ConnectionFails, Rollback, Goto

LEMMA CommitIsAtomic ==
  ASSUME AloneInv, NEW s \in Sessions, Commit(s)
  PROVE  [Store!StoreNext]_(Store!storeVars)
  <1>1. /\ pc[s] = "commit" /\ event[s] \in Events /\ LockInv
        /\ MarkerWriteFits(s) /\ OrderWriteFits(s)
    BY DEF AloneInv, LockInv, BufferOf, Commit
  <1>2. marker \in [Events -> Store!Status] /\ orders \in SUBSET Events
    BY <1>1 DEF LockInv, TypeOK
  <1>3. CASE orderWrite[s] = "insert" /\ markerWrite[s] = "insert"
    <2>1. Store!ClaimAndInsert(event[s])
      BY <1>1, <1>3 DEF Commit, Store!ClaimAndInsert, MarkerWriteFits, OrderWriteFits
    <2> QED
      BY <1>1, <2>1 DEF Store!StoreNext
  <1>4. CASE orderWrite[s] = "none" /\ markerWrite[s] \in {"none", "lock"}
    BY <1>4 DEF Commit, Store!storeVars
  <1>5. CASE orderWrite[s] = "none" /\ markerWrite[s] = "complete"
    <2>1. Store!MarkCompleted(event[s])
      BY <1>1, <1>5 DEF Commit, Store!MarkCompleted, MarkerWriteFits
    <2> QED
      BY <1>1, <2>1 DEF Store!StoreNext
  <1>6. CASE orderWrite[s] = "delete" /\ markerWrite[s] = "delete"
    <2>1. Store!Discard(event[s])
      BY <1>1, <1>6 DEF Commit, Store!Discard
    <2> QED
      BY <1>1, <2>1 DEF Store!StoreNext
  <1> QED
    BY <1>1, <1>3, <1>4, <1>5, <1>6, CommitBuffer

\* The three methods of the store are atomic: what the consumers are modelled
\* with is what the statements and the row locks of the code implement, for any
\* number of sessions and events, when a discard has its event to itself.
THEOREM TransactionsAreAtomic ==
  ASSUME ~DiscardsOverlap
  PROVE  Spec => AtomicStore
  <1>1. Init => Store!StoreInit
    BY DEF Init
  <1>2. AloneInv /\ [Next]_vars => [Store!StoreNext]_(Store!storeVars)
    <2> SUFFICES ASSUME AloneInv, [Next]_vars
                 PROVE  [Store!StoreNext]_(Store!storeVars)
      OBVIOUS
    <2>1. CASE UNCHANGED tables
      BY <2>1 DEF tables, Store!storeVars
    <2>2. CASE \E s \in Sessions : Commit(s)
      BY <2>2, CommitIsAtomic
    <2> QED
      BY <2>1, <2>2, OnlyCommitWrites DEF Next, vars, tables
  <1> QED
    BY <1>1, <1>2, AloneInvariance, PTL DEF Spec, AtomicStore, Store!StoreSpec

(***************************************************************************)
(* Lock waits.  A transaction waits only for one that has locked later     *)
(* rows, whatever the calls that overlap: no two transactions, and no ring *)
(* of them, ever wait for each other.                                      *)
(***************************************************************************)

\* The next statement of s has to wait for the transaction of t.
WaitsFor(s, t) ==
    LET e == event[s]
        marked == event[t] = e /\ markerWrite[t] # "none"
    IN
    /\ s # t
    /\ \/ pc[s] = "claim" /\ marked /\ markerWrite[t] # "lock"
       \/ /\ pc[s] = "insert" /\ event[t] \in Events
          /\ OrderIdOf[event[t]] = OrderIdOf[e] /\ orderWrite[t] # "none"
       \/ /\ pc[s] \in {"select", "update", "deleteMarker"}
          /\ marker[e] # "absent" /\ marked
       \/ /\ pc[s] = "deleteOrder" /\ e \in orders
          /\ event[t] = e /\ orderWrite[t] = "delete"

\* The order in which the three methods come to their locks.
Rank == [l \in {"claim", "select", "update", "deleteOrder", "insert",
                 "deleteMarker", "commit"} |->
            CASE l = "insert" -> 1
              [] l = "deleteMarker" -> 2
              [] l = "commit" -> 3
              [] OTHER -> 0]

WaitsAscend ==
    \A s, t \in Sessions : WaitsFor(s, t) => Rank[pc[s]] < Rank[pc[t]]

SomeTransactionRuns ==
    (\E s \in Sessions : pc[s] # "idle") =>
        \E s \in Sessions : pc[s] # "idle" /\ \A t \in Sessions : ~WaitsFor(s, t)

\* WaitsFor is what the guards of the statements wait for: a transaction that
\* waits for nobody executes its next statement.
LEMMA WaitingIsTheGuard ==
  ASSUME LockInv, NEW s \in Sessions, pc[s] # "idle",
         \A t \in Sessions : ~WaitsFor(s, t)
  PROVE  \/ pc[s] = "claim" /\ MarkerUnwritten(s, event[s])
         \/ pc[s] = "insert" /\ OrderKeyFree(s, event[s])
         \/ pc[s] = "deleteOrder" /\ (event[s] \in orders => OrderFree(s, event[s]))
         \/ /\ pc[s] \in {"select", "update", "deleteMarker"}
            /\ marker[event[s]] # "absent" => MarkerFree(s, event[s])
         \/ pc[s] = "commit"
  <1>1. pc[s] \in {"claim", "select", "insert", "update", "deleteOrder", "deleteMarker",
                   "commit"}
    BY DEF LockInv, TypeOK
  <1>2. CASE pc[s] = "claim"
    BY <1>2 DEF WaitsFor, MarkerUnwritten, Others
  <1>3. CASE pc[s] \in {"select", "update", "deleteMarker"}
    BY <1>3 DEF WaitsFor, MarkerFree, Others
  <1>4. CASE pc[s] = "insert"
    BY <1>4 DEF WaitsFor, OrderKeyFree, Others
  <1>5. CASE pc[s] = "deleteOrder"
    BY <1>5 DEF WaitsFor, OrderFree, Others
  <1> QED
    BY <1>1, <1>2, <1>3, <1>4, <1>5

LEMMA LockOrder == LockInv => WaitsAscend
  <1> SUFFICES ASSUME LockInv, NEW s \in Sessions, NEW t \in Sessions, WaitsFor(s, t)
               PROVE  Rank[pc[s]] < Rank[pc[t]]
    BY DEF WaitsAscend
  <1>1. /\ markerWrite[t] # "none" => pc[t] \in {"insert", "commit"}
        /\ markerWrite[t] # "none" /\ marker[event[t]] # "absent" => pc[t] = "commit"
        /\ orderWrite[t] # "none" => pc[t] \in {"deleteMarker", "commit"}
    BY DEF LockInv, TypeOK, BufferOf, MarkerWriteFits
  <1>2. CASE pc[s] \in {"claim", "select", "update", "deleteOrder"}
    BY <1>1, <1>2 DEF WaitsFor, Rank
  <1>3. CASE pc[s] = "insert"
    BY <1>1, <1>3 DEF WaitsFor, Rank
  <1>4. CASE pc[s] = "deleteMarker"
    BY <1>1, <1>4 DEF WaitsFor, Rank
  <1> QED
    BY <1>2, <1>3, <1>4 DEF WaitsFor

\* The furthest transaction waits for nobody.
LEMMA FurthestRuns ==
  ASSUME LockInv, WaitsAscend, NEW u \in Sessions, pc[u] # "idle"
  PROVE  \E s \in Sessions : pc[s] # "idle" /\ \A t \in Sessions : ~WaitsFor(s, t)
  <1>1. \A s \in Sessions : pc[s] # "idle" => Rank[pc[s]] \in 0 .. 3
    BY DEF LockInv, TypeOK, Rank
  <1>2. \A s, t \in Sessions : WaitsFor(s, t) => pc[t] # "idle" /\ pc[s] # "idle"
    BY DEF LockInv, TypeOK, WaitsFor
  <1> DEFINE At(r) == \E s \in Sessions : pc[s] # "idle" /\ Rank[pc[s]] = r
  <1>3. PICK r \in 0 .. 3 : At(r) /\ \A q \in 0 .. 3 : q > r => ~At(q)
    <2>1. At(0) \/ At(1) \/ At(2) \/ At(3)
      BY <1>1
    <2> HIDE DEF At
    <2> QED
      BY <2>1
  <1>4. PICK s \in Sessions : pc[s] # "idle" /\ Rank[pc[s]] = r
    BY <1>3
  <1>5. \A t \in Sessions : ~WaitsFor(s, t)
    BY <1>1, <1>2, <1>3, <1>4 DEF WaitsAscend
  <1> QED
    BY <1>4, <1>5

\* store, mark_completed and discard never deadlock in the database, whichever
\* of them run beside each other on the same or on different events: waits
\* ascend in one fixed order, and of the transactions that are open one can
\* always execute its next statement (postgres_order_store.py:105-209).
THEOREM LockWaitsNeverCycle == Spec => [](WaitsAscend /\ SomeTransactionRuns)
  <1>1. LockInv => WaitsAscend /\ SomeTransactionRuns
    BY LockOrder, FurthestRuns DEF SomeTransactionRuns
  <1> QED
    BY <1>1, LockInvariance, PTL
=============================================================================
