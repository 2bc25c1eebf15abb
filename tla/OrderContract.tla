----------------------------- MODULE OrderContract -----------------------------
(***************************************************************************)
(* The order.created contract, which the code states four times: in the    *)
(* request model (order_api/http_api.py), in the event model               *)
(* (messaging/contracts/models.py), in the JSON schema (validation.py,     *)
(* schemas/order-created-v1.json), and in the table that takes the order   *)
(* (order_processing/postgres_order_store.py).  They do not agree          *)
(* everywhere.                                                             *)
(*                                                                         *)
(* An order is what the four can tell apart: the customer id is "name",    *)
(* "empty" or "nul" (it contains U+0000); the currency is "code" (three    *)
(* capitals), "newline" (those and a final line feed) or "other"; amount   *)
(* is in thousandths and finite.  In Python's re, which checks the schema, *)
(* $ matches before a final line feed; in pydantic's expressions it does   *)
(* not.                                                                    *)
(***************************************************************************)
EXTENDS Integers

CONSTANT CentsLimit     \* 10^18: the first number of cents NUMERIC(18, 2) lacks

ASSUME OrderContractAssumption == CentsLimit \in Nat \ {0}

Order == [customer : {"name", "empty", "nul"},
          amount   : Int,
          currency : {"code", "newline", "other"}]

\* Mutant of RequestAccepts: without min_length.
RequestAcceptsAnyCustomer(o) == o.amount > 0 /\ o.currency = "code"

RequestAccepts(o) ==
    /\ o.customer # "empty"
    /\ o.amount > 0
    /\ o.currency = "code"

ModelAccepts(o) ==
    /\ o.customer # "empty"
    /\ o.amount > 0
    /\ o.currency = "code"

SchemaAccepts(o) ==
    /\ o.customer # "empty"
    /\ o.amount > 0
    /\ o.currency \in {"code", "newline"}

\* The event is built (factory.py) and checked again before it is sent.
Publishable(o) == RequestAccepts(o) /\ ModelAccepts(o) /\ SchemaAccepts(o)

\* parse_order_created_event: the schema, then the model.
Parses(o) == SchemaAccepts(o) /\ ModelAccepts(o)

\* Mutant of Cents: the digits behind the second are cut off.
CentsTruncated(amount) == amount \div 10

\* NUMERIC(18, 2) rounds halves away from zero.
Cents(amount) ==
    IF amount >= 0 THEN (amount + 5) \div 10 ELSE -((5 - amount) \div 10)

\* INSERT INTO orders: CHECK (amount > 0), numeric overflow, no U+0000 in TEXT.
TableAccepts(o) ==
    /\ Cents(o.amount) \in 1 .. CentsLimit - 1
    /\ o.customer # "nul"
=============================================================================
