------------------------------ MODULE MCOrderApi ------------------------------
(***************************************************************************)
(* Instances of OrderApi for TLC.                                          *)
(***************************************************************************)
EXTENDS OrderApi

CONSTANTS r1, r2, r3

Body(customer, amount, currency) ==
    [customer |-> customer, amount |-> amount, currency |-> currency]

Bodies3(b1, b2, b3) ==
    [r \in Requests |-> CASE r = r1 -> b1 [] r = r2 -> b2 [] r = r3 -> b3]

\* Both sides of every boundary of the contract; the table holds 299.99 at most.
MCBodies ==
    {Bodies3(Body("name", 4, "code"), Body("name", 5, "code"), Body("nul", 1000, "code")),
     Bodies3(Body("name", 14, "code"), Body("name", 299994, "code"),
             Body("name", 299995, "code")),
     Bodies3(Body("empty", 1000, "code"), Body("name", 1000, "newline"),
             Body("name", 15, "code")),
     Bodies3(Body("name", 0, "code"), Body("name", -1000, "code"),
             Body("name", 1000, "other"))}

MCGoodBodies == {[r \in Requests |-> Body("name", 1000, "code")]}
=============================================================================
