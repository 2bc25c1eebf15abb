--------------------------- MODULE PostgresOrderStore ---------------------------
(***************************************************************************)
(* The order store (order_processing/postgres_order_store.py) as its       *)
(* callers see it: two tables and three transactions, each one atomic step. *)
(*                                                                         *)
(* A row of orders is its source event; a row of processed_events is the   *)
(* status of its event, "absent" when there is no row.  The operators are  *)
(* the committed outcomes of store, mark_completed and discard; the modules *)
(* of the consumers say which step of a consumer performs which.           *)
(*                                                                         *)
(* PostgresTransactions takes the same three methods apart into their SQL  *)
(* statements and shows when this atomic view is justified.                *)
(***************************************************************************)
EXTENDS Integers

CONSTANTS
    Events,      \* event ids (OrderCreatedEvent.event_id)
    OrderIds,    \* values of orders.order_id
    OrderIdOf    \* the order id an event carries

ASSUME StoreAssumption == OrderIdOf \in [Events -> OrderIds]

VARIABLES
    orders,      \* source_event_id of every row of orders
    marker       \* status column of processed_events, per event

storeVars == <<orders, marker>>

Status == {"absent", "pending", "completed"}

StoreTypeOK ==
    /\ orders \in SUBSET Events
    /\ marker \in [Events -> Status]

StoreInit ==
    /\ orders = {}
    /\ marker = [e \in Events |-> "absent"]

Completed(e) == marker[e] = "completed"

\* orders.order_id is the primary key: a second order with the same id fails.
OrderIdTaken(e) == \E f \in orders : OrderIdOf[f] = OrderIdOf[e]

(***************************************************************************)
(* store(event)                                                            *)
(***************************************************************************)

\* The claim is inserted and the order row with it.
ClaimAndInsert(e) ==
    /\ marker[e] = "absent"
    /\ ~OrderIdTaken(e)
    /\ orders' = orders \cup {e}
    /\ marker' = [marker EXCEPT ![e] = "pending"]

\* The claim is inserted, the order row is refused, the transaction rolls back.
InsertRefused(e) ==
    /\ marker[e] = "absent"
    /\ OrderIdTaken(e)
    /\ UNCHANGED storeVars

\* Mutant of SeenAgain: ON CONFLICT DO UPDATE SET status = 'pending'.
SeenAgainResets(e) ==
    /\ marker[e] # "absent"
    /\ marker' = [marker EXCEPT ![e] = "pending"]
    /\ UNCHANGED orders

\* The claim conflicts with an earlier one: the status is read, nothing written.
SeenAgain(e) ==
    /\ marker[e] # "absent"
    /\ UNCHANGED storeVars

\* Mutant of DownstreamRequired: only a new claim has work left.
DownstreamRequiredIfNew(e) == marker[e] = "absent"

\* EventStoreResult.downstream_required: of a new claim, or of a seen one.
DownstreamRequired(e) == marker[e] # "completed"

(***************************************************************************)
(* mark_completed(event_id): updates one row, or raises and updates none.  *)
(***************************************************************************)

MarkCompleted(e) ==
    /\ marker[e] # "absent"
    /\ marker' = [marker EXCEPT ![e] = "completed"]
    /\ UNCHANGED orders

MarkRefused(e) ==
    /\ marker[e] = "absent"
    /\ UNCHANGED storeVars

(***************************************************************************)
(* discard(event_id): both rows go, whatever the status.                   *)
(***************************************************************************)

\* Mutant of Discard: the order row is found by order id.
DiscardByOrderId(e) ==
    /\ orders' = {f \in orders : OrderIdOf[f] # OrderIdOf[e]}
    /\ marker' = [marker EXCEPT ![e] = "absent"]

Discard(e) ==
    /\ orders' = orders \ {e}
    /\ marker' = [marker EXCEPT ![e] = "absent"]

(***************************************************************************)
(* The store alone, called in any order by any number of callers.          *)
(***************************************************************************)

StoreNext ==
    \E e \in Events :
        \/ ClaimAndInsert(e)
        \/ InsertRefused(e)
        \/ SeenAgain(e)
        \/ MarkCompleted(e)
        \/ MarkRefused(e)
        \/ Discard(e)

StoreSpec == StoreInit /\ [][StoreNext]_storeVars

\* An order row and the processed-event row of its event are there together or
\* not at all: the claim and the order are written in one transaction
\* (postgres_order_store.py:105-157) and removed in one (196-209).
OrderHasMarker == \A e \in Events : e \in orders <=> marker[e] # "absent"

\* Two stored orders never share an order id, although a claim is made under
\* the event id before the order id is known to be free.
OrderIdsDistinct ==
    \A e, f \in orders : OrderIdOf[e] = OrderIdOf[f] => e = f

=============================================================================
