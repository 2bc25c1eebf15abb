-------------------------------- MODULE MCSqsLab --------------------------------
(***************************************************************************)
(* Instances of SqsLab for TLC.                                            *)
(***************************************************************************)
EXTENDS SqsLab, TLC

CONSTANTS w1, w2, m1, m2, e1, x1

MCOrderId == e1 :> x1

\* One request that has left two messages, as after an answer boto3 did not get.
MCTwiceSentBody == m1 :> e1 @@ m2 :> e1
=============================================================================
