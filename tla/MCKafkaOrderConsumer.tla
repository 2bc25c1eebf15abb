------------------------ MODULE MCKafkaOrderConsumer ------------------------
(***************************************************************************)
(* Instances of KafkaOrderConsumer for TLC: topics of two to five records. *)
(***************************************************************************)
EXTENDS KafkaOrderConsumer, TLC

CONSTANTS c1, c2, p1, p2, e1, e2, x1, x2

MCEvents == {e1, e2}

\* Each event has its own order id; or both carry the same one.
MCOwnOrderId == e1 :> x1 @@ e2 :> x2
MCSharedOrderId == e1 :> x1 @@ e2 :> x1

\* An event published twice to its partition.
MCDuplicateLog == p1 :> <<e1, e1>>

\* A poison record between two orders.
MCPoisonLog == p1 :> <<e1, Malformed, e2>>

\* The same event in two partitions; in one of them a poison record behind two
\* orders, and the first of them again behind it.
MCTwoPartitionLog == p1 :> <<e1, e2, Malformed, e1>> @@ p2 :> <<e1>>

\* A poison record behind an order, another order in the second partition.
MCPoisonTwoPartitionLog == p1 :> <<e1, Malformed>> @@ p2 :> <<e2>>
=============================================================================
