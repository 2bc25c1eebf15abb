------------------------ MODULE MCPostgresTransactions ------------------------
(***************************************************************************)
(* Instances of PostgresTransactions for TLC.                              *)
(***************************************************************************)
EXTENDS PostgresTransactions, TLC

CONSTANTS s1, s2, s3, e1, e2, x1, x2

MCEvents == {e1, e2}

\* One event, whose calls all compete for the same rows.
MCOneEvent == {e1}
MCOwnOrderId == e1 :> x1

\* Two events that carry the same order id.
MCSharedOrderId == e1 :> x1 @@ e2 :> x1
=============================================================================
