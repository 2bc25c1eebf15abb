-------------------------- MODULE MCSqsOrderConsumer --------------------------
(***************************************************************************)
(* Instances of SqsOrderConsumer for TLC.                                  *)
(***************************************************************************)
EXTENDS SqsOrderConsumer, TLC

CONSTANTS w1, w2, m1, m2, m3, e1, e2, x1, x2

MCEvents == {e1, e2}

\* Two events that carry the same order id.
MCSharedOrderId == e1 :> x1 @@ e2 :> x1

\* Two orders that exclude each other, and a message that is no order event.
MCPoisonBody == m1 :> e1 @@ m2 :> e2 @@ m3 :> Malformed
=============================================================================
