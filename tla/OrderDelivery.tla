----------------------------- MODULE OrderDelivery -----------------------------
(***************************************************************************)
(* What a consumer group of the order topic promises, without consumers,   *)
(* store or retries: records are acknowledged in the order of their        *)
(* partition, and only once they are handled -- their event's effects are  *)
(* complete, or the record itself is in the dead-letter topic.             *)
(*                                                                         *)
(* The promise is at least once: an acknowledgement may move backwards (a  *)
(* slow consumer commits behind its successor), and completed effects may  *)
(* be withdrawn while no acknowledged record relies on them.               *)
(***************************************************************************)
EXTENDS Integers, Sequences

CONSTANTS
    Partitions,
    Events,
    Malformed,   \* a record value that is not a valid order event
    Log          \* the records of each partition, in offset order

VARIABLES
    done,        \* events whose order is stored and whose effects are complete
    dead,        \* <<partition, offset>> of the dead-lettered records
    acked        \* the committed offset of each partition

vars == <<done, dead, acked>>

Offsets(p) == 0 .. Len(Log[p]) - 1
Value(p, o) == Log[p][o + 1]

Handled(p, o) == Value(p, o) \in done \/ <<p, o>> \in dead

\* Acknowledged records that rely on the effects of e.
ReliedOn(e) ==
    \E p \in Partitions : \E o \in Offsets(p) :
        o < acked[p] /\ Value(p, o) = e /\ <<p, o>> \notin dead

Init ==
    /\ done = {}
    /\ dead = {}
    /\ acked = [p \in Partitions |-> 0]

Complete(e) ==
    /\ done' = done \cup {e}
    /\ UNCHANGED <<dead, acked>>

Withdraw(e) ==
    /\ ~ReliedOn(e)
    /\ done' = done \ {e}
    /\ UNCHANGED <<dead, acked>>

\* Only the record after handled ones is given up.
DeadLetter(p, o) ==
    /\ \A k \in 0 .. o - 1 : Handled(p, k)
    /\ dead' = dead \cup {<<p, o>>}
    /\ UNCHANGED <<done, acked>>

Acknowledge(p, n) ==
    /\ \A k \in 0 .. n - 1 : Handled(p, k)
    /\ acked' = [acked EXCEPT ![p] = n]
    /\ UNCHANGED <<done, dead>>

Next ==
    \/ \E e \in Events : Complete(e) \/ Withdraw(e)
    \/ \E p \in Partitions :
        \/ \E o \in Offsets(p) : DeadLetter(p, o)
        \/ \E n \in 0 .. Len(Log[p]) : Acknowledge(p, n)

Spec == Init /\ [][Next]_vars
=============================================================================
