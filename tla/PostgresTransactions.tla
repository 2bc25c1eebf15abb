-------------------------- MODULE PostgresTransactions --------------------------
(***************************************************************************)
(* The order store, statement by statement                                 *)
(* (order_processing/postgres_order_store.py): every call of store,        *)
(* mark_completed and discard is one READ COMMITTED transaction on a       *)
(* connection of its own, and the statements of concurrent transactions    *)
(* interleave.                                                             *)
(*                                                                         *)
(* orders and marker are the committed rows, as in PostgresOrderStore.  A  *)
(* session buffers what its transaction wrote; the buffer holds the row    *)
(* locks.  A statement that must wait for another transaction is disabled  *)
(* until that transaction ends, and then sees what it committed.  Not      *)
(* modelled: a row deleted and inserted anew while a statement waits for   *)
(* it, which PostgreSQL reports as deleted.                                *)
(***************************************************************************)
EXTENDS Integers, FiniteSets

CONSTANTS
    Events, OrderIds, OrderIdOf,
    Sessions,           \* callers of the store, one connection each
    NoEvent,            \* a session between two calls
    DiscardsOverlap,    \* a discard may run beside another call for its event
    MaxFaults           \* bound on the connections that fail

ASSUME TransactionsAssumption ==
    /\ OrderIdOf \in [Events -> OrderIds]
    /\ NoEvent \notin Events
    /\ DiscardsOverlap \in BOOLEAN
    /\ MaxFaults \in Nat

VARIABLES
    orders, marker,     \* the committed rows, as in PostgresOrderStore
    pc,                 \* the statement a session executes next
    event,              \* the event of its call
    orderWrite,         \* its uncommitted write to orders: "none", "insert", "delete"
    markerWrite,        \* ... to processed_events, "complete" for the UPDATE,
                        \*     "lock" for the SELECT ... FOR UPDATE
    read,               \* the status its SELECT returned
    faults

Store == INSTANCE PostgresOrderStore

vars == <<orders, marker, pc, event, orderWrite, markerWrite, read, faults>>
tables == <<orders, marker>>

TypeOK ==
    /\ orders \in SUBSET Events
    /\ marker \in [Events -> Store!Status]
    /\ pc \in [Sessions -> {"idle", "claim", "select", "insert", "update",
                            "deleteOrder", "deleteMarker", "commit"}]
    /\ event \in [Sessions -> Events \cup {NoEvent}]
    /\ orderWrite \in [Sessions -> {"none", "insert", "delete"}]
    /\ markerWrite \in [Sessions -> {"none", "insert", "lock", "complete", "delete"}]
    /\ read \in [Sessions -> Store!Status]
    /\ faults \in 0 .. MaxFaults
    \* Between two calls a session has no transaction open, hence no locks.
    /\ \A s \in Sessions : pc[s] = "idle" =>
        /\ event[s] = NoEvent
        /\ orderWrite[s] = "none"
        /\ markerWrite[s] = "none"

Init ==
    /\ Store!StoreInit
    /\ pc = [s \in Sessions |-> "idle"]
    /\ event = [s \in Sessions |-> NoEvent]
    /\ orderWrite = [s \in Sessions |-> "none"]
    /\ markerWrite = [s \in Sessions |-> "none"]
    /\ read = [s \in Sessions |-> "absent"]
    /\ faults = 0

(***************************************************************************)
(* Locks.                                                                  *)
(***************************************************************************)

Others(s, e) == {t \in Sessions \ {s} : event[t] = e}

\* No other transaction has written the processed_events row of e; nor locked it.
MarkerUnwritten(s, e) == \A t \in Others(s, e) : markerWrite[t] \in {"none", "lock"}
MarkerFree(s, e) == \A t \in Others(s, e) : markerWrite[t] = "none"

\* Mutant of OrderKeyFree: the insert does not wait (no unique index).
OrderKeyIgnored(s, e) == TRUE

\* No other transaction has written an orders row with the key of e.
OrderKeyFree(s, e) ==
    \A f \in Events : OrderIdOf[f] = OrderIdOf[e] =>
        \A t \in Others(s, f) : orderWrite[t] = "none"

\* No other transaction is deleting the committed orders row of e.
OrderFree(s, e) == \A t \in Others(s, e) : orderWrite[t] # "delete"

(***************************************************************************)
(* Beginning and ending a transaction.                                     *)
(***************************************************************************)

Begin(s, e, first) ==
    /\ pc[s] = "idle"
    /\ pc' = [pc EXCEPT ![s] = first]
    /\ event' = [event EXCEPT ![s] = e]
    /\ UNCHANGED <<tables, orderWrite, markerWrite, read, faults>>

Discarding(s) == pc[s] \in {"deleteOrder", "deleteMarker"} \/ markerWrite[s] = "delete"

BeginStore(s, e) ==
    /\ DiscardsOverlap \/ ~\E t \in Others(s, e) : Discarding(t)
    /\ Begin(s, e, "claim")

BeginMark(s, e) ==
    /\ DiscardsOverlap \/ ~\E t \in Others(s, e) : Discarding(t)
    /\ Begin(s, e, "update")

BeginDiscard(s, e) ==
    /\ DiscardsOverlap \/ Others(s, e) = {}
    /\ Begin(s, e, "deleteOrder")

Close(s) ==
    /\ pc' = [pc EXCEPT ![s] = "idle"]
    /\ event' = [event EXCEPT ![s] = NoEvent]
    /\ orderWrite' = [orderWrite EXCEPT ![s] = "none"]
    /\ markerWrite' = [markerWrite EXCEPT ![s] = "none"]
    /\ read' = [read EXCEPT ![s] = "absent"]

\* Mutant of Rollback: the connection stays open in its transaction.
RollbackLeavesOpen(s) ==
    /\ pc' = [pc EXCEPT ![s] = "idle"]
    /\ UNCHANGED <<tables, event, orderWrite, markerWrite, read>>

\* The with block is left by an exception.
Rollback(s) == Close(s) /\ UNCHANGED tables

\* The with block is left normally.
Commit(s) ==
    LET e == event[s] IN
    /\ pc[s] = "commit"
    /\ orders' = CASE orderWrite[s] = "insert" -> orders \cup {e}
                   [] orderWrite[s] = "delete" -> orders \ {e}
                   [] OTHER -> orders
    /\ marker' = CASE markerWrite[s] = "insert"   -> [marker EXCEPT ![e] = "pending"]
                   [] markerWrite[s] = "complete" -> [marker EXCEPT ![e] = "completed"]
                   [] markerWrite[s] = "delete"   -> [marker EXCEPT ![e] = "absent"]
                   [] OTHER -> marker
    /\ Close(s)
    /\ UNCHANGED faults

\* The connection fails at any statement.
ConnectionFails(s) ==
    /\ pc[s] # "idle"
    /\ faults < MaxFaults
    /\ faults' = faults + 1
    /\ Rollback(s)

\* A statement has run; the transaction goes on.
Goto(s, label) ==
    /\ pc' = [pc EXCEPT ![s] = label]
    /\ UNCHANGED <<tables, event, faults>>

(***************************************************************************)
(* store.                                                                  *)
(***************************************************************************)

\* INSERT ... ON CONFLICT DO NOTHING: waits for a transaction that writes the row.
Claim(s) ==
    LET e == event[s] IN
    /\ pc[s] = "claim"
    /\ MarkerUnwritten(s, e)
    /\ IF marker[e] = "absent"
       THEN markerWrite' = [markerWrite EXCEPT ![s] = "insert"] /\ Goto(s, "insert")
       ELSE UNCHANGED markerWrite /\ Goto(s, "select")
    /\ UNCHANGED <<orderWrite, read>>

\* Mutant of SelectForUpdate: SELECT.
SelectWithoutLock(s) ==
    LET e == event[s] IN
    /\ pc[s] = "select"
    /\ marker[e] # "absent"
    /\ read' = [read EXCEPT ![s] = marker[e]]
    /\ Goto(s, "commit")
    /\ UNCHANGED <<markerWrite, orderWrite>>

\* SELECT status ... FOR UPDATE of the row the claim conflicted with.
SelectForUpdate(s) ==
    LET e == event[s] IN
    /\ pc[s] = "select"
    /\ MarkerFree(s, e)
    /\ marker[e] # "absent"
    /\ read' = [read EXCEPT ![s] = marker[e]]
    /\ markerWrite' = [markerWrite EXCEPT ![s] = "lock"]
    /\ Goto(s, "commit")
    /\ UNCHANGED orderWrite

\* "Event claim disappeared": the row was deleted after the claim saw it.  With no
\* committed row there is nothing to lock: a new claim of it is not waited for.
ClaimDisappeared(s) ==
    /\ pc[s] = "select"
    /\ marker[event[s]] = "absent"
    /\ Rollback(s)
    /\ UNCHANGED faults

InsertOrder(s) ==
    LET e == event[s] IN
    /\ pc[s] = "insert"
    /\ OrderKeyFree(s, e)
    /\ ~Store!OrderIdTaken(e)
    /\ orderWrite' = [orderWrite EXCEPT ![s] = "insert"]
    /\ Goto(s, "commit")
    /\ UNCHANGED <<markerWrite, read>>

\* Mutant of OrderRefused: the violation is swallowed and the claim commits.
OrderRefusedIgnored(s) ==
    /\ pc[s] = "insert"
    /\ OrderKeyFree(s, event[s])
    /\ Store!OrderIdTaken(event[s])
    /\ Goto(s, "commit")
    /\ UNCHANGED <<orderWrite, markerWrite, read>>

\* A unique violation of order_id or source_event_id.
OrderRefused(s) ==
    /\ pc[s] = "insert"
    /\ OrderKeyFree(s, event[s])
    /\ Store!OrderIdTaken(event[s])
    /\ Rollback(s)
    /\ UNCHANGED faults

(***************************************************************************)
(* mark_completed.                                                         *)
(***************************************************************************)

UpdateMarker(s) ==
    LET e == event[s] IN
    /\ pc[s] = "update"
    /\ marker[e] # "absent"
    /\ MarkerFree(s, e)
    /\ markerWrite' = [markerWrite EXCEPT ![s] = "complete"]
    /\ Goto(s, "commit")
    /\ UNCHANGED <<orderWrite, read>>

\* No committed row: an uncommitted claim is neither seen nor waited for.
UpdateFindsNothing(s) ==
    /\ pc[s] = "update"
    /\ marker[event[s]] = "absent"
    /\ Rollback(s)
    /\ UNCHANGED faults

(***************************************************************************)
(* discard.                                                                *)
(***************************************************************************)

\* DELETE FROM orders: an uncommitted insert is neither seen nor waited for.
DeleteOrder(s) ==
    LET e == event[s] IN
    /\ pc[s] = "deleteOrder"
    /\ e \in orders => OrderFree(s, e)
    /\ orderWrite' = [orderWrite EXCEPT ![s] = IF e \in orders THEN "delete" ELSE @]
    /\ Goto(s, "deleteMarker")
    /\ UNCHANGED <<markerWrite, read>>

\* Mutant of DeleteMarker: discard forgets the second table.
DeleteMarkerForgotten(s) ==
    /\ pc[s] = "deleteMarker"
    /\ Goto(s, "commit")
    /\ UNCHANGED <<orderWrite, markerWrite, read>>

DeleteMarker(s) ==
    LET e == event[s] IN
    /\ pc[s] = "deleteMarker"
    /\ marker[e] # "absent" => MarkerFree(s, e)
    /\ markerWrite' =
        [markerWrite EXCEPT ![s] = IF marker[e] # "absent" THEN "delete" ELSE @]
    /\ Goto(s, "commit")
    /\ UNCHANGED <<orderWrite, read>>

Statement(s) ==
    \/ Claim(s)
    \/ SelectForUpdate(s)
    \/ ClaimDisappeared(s)
    \/ InsertOrder(s)
    \/ OrderRefused(s)
    \/ UpdateMarker(s)
    \/ UpdateFindsNothing(s)
    \/ DeleteOrder(s)
    \/ DeleteMarker(s)
    \/ Commit(s)

Next == \E s \in Sessions :
    \/ \E e \in Events : BeginStore(s, e) \/ BeginMark(s, e) \/ BeginDiscard(s, e)
    \/ Statement(s)
    \/ ConnectionFails(s)

Spec == Init /\ [][Next]_vars

\* PostgreSQL executes a statement that waits for nobody, and grants a lock in the
\* order of its waiters: one that is free again and again is granted.
FairSpec == Spec /\ \A s \in Sessions : SF_vars(Statement(s))

(***************************************************************************)
(* Properties.                                                             *)
(***************************************************************************)

\* The atomic store the consumers are modelled with: each transaction takes
\* effect at its COMMIT, as one step of PostgresOrderStore.
AtomicStore == Store!StoreSpec

\* An order row and the processed-event row of its event are there together or
\* not at all: discard leaves "both order and processed-event rows" removed
\* (postgres_order_store.py:194).
OrderHasMarker == Store!OrderHasMarker

\* Two stored orders never share an order id, although their transactions ran
\* beside each other.
OrderIdsDistinct == Store!OrderIdsDistinct

\* The status store returns is still the committed one when its transaction
\* ends: FOR UPDATE (119) keeps a concurrent completion out.
ReadIsCurrent ==
    \A s \in Sessions : pc[s] = "commit" /\ read[s] # "absent" =>
        read[s] = marker[event[s]]

\* No transaction waits forever: the calls take their locks in compatible orders.
CallsEnd == \A s \in Sessions : pc[s] # "idle" ~> pc[s] = "idle"
=============================================================================
