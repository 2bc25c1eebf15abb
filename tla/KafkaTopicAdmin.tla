---------------------------- MODULE KafkaTopicAdmin ----------------------------
(***************************************************************************)
(* create_topic and delete_topic (messaging/kafka_topic_admin.py), for any *)
(* number of callers.  The controller decides what exists; the metadata    *)
(* the callers see follows later, and a new topic is listed before all of  *)
(* its partitions are.                                                     *)
(***************************************************************************)
EXTENDS Naturals

CONSTANTS
    Callers,
    Topics,
    MaxFaults       \* bound on requests that time out and on callers that fail

ASSUME KafkaTopicAdminAssumption == MaxFaults \in Nat

VARIABLES
    exists,     \* the controller's topics
    listed,     \* what the metadata says of each
    call,       \* the call a caller is in, or how it ended
    faults

adminVars == <<exists, listed, call, faults>>

AdminTypeOK ==
    /\ exists \subseteq Topics
    /\ listed \in [Topics -> {"hidden", "unready", "ready"}]
    /\ call \in [Callers -> {"none", "creating", "awaiting", "deleting", "vanishing",
                             "returned", "raised"}]
    /\ faults \in 0 .. MaxFaults

AdminInit ==
    /\ exists = {}
    /\ listed = [t \in Topics |-> "hidden"]
    /\ call = [c \in Callers |-> "none"]
    /\ faults = 0

Fault == faults < MaxFaults /\ faults' = faults + 1

\* list_topic_names reads the metadata, a topic in error included.
Names == {t \in Topics : listed[t] # "hidden"}

\* The caller goes on: into a call, to its next part, or to its end.
Go(c, where) == call' = [call EXCEPT ![c] = where]

(***************************************************************************)
(* create_topic: the request, then the look at the metadata until it shows *)
(* the topic with its partitions.                                          *)
(***************************************************************************)

Create(c, t) ==
    /\ call[c] = "creating"
    /\ \/ /\ t \notin exists
          /\ exists' = exists \cup {t}
          /\ Go(c, "awaiting")
       \/ /\ t \in exists      \* TopicAlreadyExists
          /\ Go(c, "raised")
          /\ UNCHANGED exists
    /\ UNCHANGED <<listed, faults>>

\* Mutant of CreateTimesOut: the timeout is taken for success.
CreateTimesOutIgnored(c, t) ==
    /\ call[c] = "creating"
    /\ Fault
    /\ exists' \in {exists, exists \cup {t}}
    /\ Go(c, "returned")
    /\ UNCHANGED listed

\* The future times out, or the caller dies: the controller may have created it.
CreateTimesOut(c, t) ==
    /\ call[c] = "creating"
    /\ Fault
    /\ exists' \in {exists, exists \cup {t}}
    /\ Go(c, "raised")
    /\ UNCHANGED listed

\* Mutant of Exposed: describe_topic succeeds, whatever its partitions.
ExposedInPart(c, t) ==
    /\ call[c] = "awaiting"
    /\ t \in Names
    /\ Go(c, "returned")
    /\ UNCHANGED <<exists, listed, faults>>

Exposed(c, t) ==
    /\ call[c] = "awaiting"
    /\ listed[t] = "ready"
    /\ Go(c, "returned")
    /\ UNCHANGED <<exists, listed, faults>>

\* The deadline passes between two looks, or a look raises.
WaitFails(c, t) ==
    /\ call[c] \in {"awaiting", "vanishing"}
    /\ Go(c, "raised")
    /\ UNCHANGED <<exists, listed, faults>>

(***************************************************************************)
(* delete_topic.                                                           *)
(***************************************************************************)

Delete(c, t) ==
    /\ call[c] = "deleting"
    /\ \/ /\ t \in exists
          /\ exists' = exists \ {t}
          /\ Go(c, "vanishing")
       \/ /\ t \notin exists   \* UnknownTopicOrPartition
          /\ Go(c, "raised")
          /\ UNCHANGED exists
    /\ UNCHANGED <<listed, faults>>

DeleteTimesOut(c, t) ==
    /\ call[c] = "deleting"
    /\ Fault
    /\ exists' \in {exists, exists \ {t}}
    /\ Go(c, "raised")
    /\ UNCHANGED listed

Vanished(c, t) ==
    /\ call[c] = "vanishing"
    /\ t \notin Names
    /\ Go(c, "returned")
    /\ UNCHANGED <<exists, listed, faults>>

AdminStep(c, t) ==
    \/ Create(c, t)
    \/ Exposed(c, t)
    \/ Delete(c, t)
    \/ Vanished(c, t)

AdminFailure(c, t) ==
    \/ CreateTimesOut(c, t)
    \/ WaitFails(c, t)
    \/ DeleteTimesOut(c, t)

(***************************************************************************)
(* The broker's metadata follows the controller.                           *)
(***************************************************************************)

Propagate(t) ==
    /\ \/ /\ t \in exists /\ listed[t] = "hidden"
          /\ listed' = [listed EXCEPT ![t] = "unready"]
       \/ /\ t \in exists /\ listed[t] = "unready"
          /\ listed' = [listed EXCEPT ![t] = "ready"]
       \/ /\ t \notin exists /\ listed[t] # "hidden"
          /\ listed' = [listed EXCEPT ![t] = "hidden"]
    /\ UNCHANGED <<exists, call, faults>>
=============================================================================
