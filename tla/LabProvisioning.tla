---------------------------- MODULE LabProvisioning ----------------------------
(***************************************************************************)
(* initialize_lab (local_lab/resource_setup.py): topics, queues, schemas   *)
(* and control rows, made one after the other by processes that may run at *)
(* the same time, die anywhere, and be run again.  Beside them, the topic  *)
(* fixture of the integration tests, the caller that deletes: each has a   *)
(* topic of its own.  (The tests start a broker for themselves; one broker *)
(* for both only adds interleavings.)                                      *)
(***************************************************************************)
EXTENDS KafkaTopicAdmin, Sequences

CONSTANTS Initializers, Fixtures

LabTopics == {"topic", "dlq_topic"}
Queues == {"sqs_dlq", "sqs_queue"}
Schemas == {"kafka_schema", "sqs_schema", "local_lab"}
Plan == <<"topic", "dlq_topic", "sqs_dlq", "sqs_queue",
          "kafka_schema", "sqs_schema", "local_lab">>

ASSUME LabProvisioningAssumption ==
    /\ Callers = Initializers \cup Fixtures
    /\ Initializers \cap Fixtures = {}
    /\ Topics = LabTopics \cup Fixtures     \* a fixture's topic has its name
    /\ LabTopics \cap Fixtures = {}

VARIABLES
    stage,      \* of each process
    step,       \* the item of Plan an initialiser is at
    absent,     \* its transaction has not found the item's schema
    present,    \* queues and schemas that exist, their tables and rows with them
    clean       \* history: the lab was complete when the process started

vars == <<adminVars, stage, step, absent, present, clean>>

labVars == <<stage, step, absent, present, clean>>

Working(i, items) ==
    /\ stage[i] = "running"
    /\ step[i] \in DOMAIN Plan
    /\ Plan[step[i]] \in items

ProvisioningTypeOK ==
    /\ AdminTypeOK
    /\ stage \in [Callers -> {"stopped", "running", "testing", "deleting", "done",
                              "failed"}]
    /\ step \in [Initializers -> 1 .. Len(Plan) + 1]
    /\ absent \in [Initializers -> {"unread", "yes", "no"}]
    /\ present \subseteq Queues \cup Schemas
    /\ clean \in [Initializers -> BOOLEAN]
    \* Nobody is inside a call or a transaction that its item does not make.
    /\ \A i \in Initializers :
        /\ call[i] # "none" => Working(i, LabTopics)
        /\ absent[i] # "unread" => Working(i, Schemas)

ProvisioningInit ==
    /\ AdminInit
    /\ stage = [c \in Callers |-> "stopped"]
    /\ step = [i \in Initializers |-> 1]
    /\ absent = [i \in Initializers |-> "unread"]
    /\ present = {}
    /\ clean = [i \in Initializers |-> FALSE]

\* What later steps and the workers find.
Provided(item) == IF item \in LabTopics THEN item \in exists \cap Names ELSE item \in present

Provisioned == \A k \in DOMAIN Plan : Provided(Plan[k])

TopicOf(c) == IF c \in Fixtures THEN c ELSE Plan[step[c]]

At(i, items) == Working(i, items) /\ call[i] = "none"

Advance(i) == step' = [step EXCEPT ![i] = @ + 1]

\* The process ends, and its locals with it.
End(i, outcome) ==
    /\ stage' = [stage EXCEPT ![i] = outcome]
    /\ step' = [step EXCEPT ![i] = 1]
    /\ absent' = [absent EXCEPT ![i] = "unread"]
    /\ clean' = [clean EXCEPT ![i] = FALSE]

(***************************************************************************)
(* initialize_lab.                                                         *)
(***************************************************************************)

Start(i) ==
    /\ stage[i] # "running"
    /\ stage' = [stage EXCEPT ![i] = "running"]
    /\ clean' = [clean EXCEPT ![i] = Provisioned]
    /\ UNCHANGED <<adminVars, step, absent, present>>

\* Mutant of EnsureTopic: the topic is created without a look.
EnsureTopicAlways(i) ==
    /\ At(i, LabTopics)
    /\ Go(i, "creating")
    /\ UNCHANGED <<exists, listed, faults, labVars>>

EnsureTopic(i) ==
    /\ At(i, LabTopics)
    /\ \/ /\ Plan[step[i]] \in Names
          /\ Advance(i)
          /\ UNCHANGED call
       \/ /\ Plan[step[i]] \notin Names
          /\ Go(i, "creating")
          /\ UNCHANGED step
    /\ UNCHANGED <<exists, listed, faults, stage, absent, present, clean>>

\* Mutant of TopicEnsured: the next item is begun with the outcome of this one.
TopicEnsuredStays(i) ==
    /\ call[i] = "returned"
    /\ Advance(i)
    /\ UNCHANGED <<adminVars, stage, absent, present, clean>>

TopicEnsured(i) ==
    /\ call[i] = "returned"
    /\ Go(i, "none")
    /\ Advance(i)
    /\ UNCHANGED <<exists, listed, faults, stage, absent, present, clean>>

\* KafkaAdminError leaves initialize_lab.
EnsureTopicRaises(i) ==
    /\ call[i] = "raised"
    /\ Go(i, "none")
    /\ End(i, "failed")
    /\ UNCHANGED <<exists, listed, faults, present>>

\* create_queue returns a queue that has the same attributes.
EnsureQueue(i) ==
    /\ At(i, Queues)
    /\ present' = present \cup {Plan[step[i]]}
    /\ Advance(i)
    /\ UNCHANGED <<adminVars, stage, absent, clean>>

\* Mutant of ReadSchema: CREATE without IF NOT EXISTS.
ReadSchemaBlind(i) ==
    /\ At(i, Schemas)
    /\ absent[i] = "unread"
    /\ absent' = [absent EXCEPT ![i] = "yes"]
    /\ UNCHANGED <<adminVars, stage, step, present, clean>>

\* CREATE ... IF NOT EXISTS looks first; the transaction is still open.
ReadSchema(i) ==
    /\ At(i, Schemas)
    /\ absent[i] = "unread"
    /\ absent' = [absent EXCEPT ![i] = IF Plan[step[i]] \in present THEN "no" ELSE "yes"]
    /\ UNCHANGED <<adminVars, stage, step, present, clean>>

\* What was absent and exists now: a unique index of the catalogue refuses it.
Collides(i) == absent[i] = "yes" /\ Plan[step[i]] \in present

CommitSchema(i) ==
    /\ At(i, Schemas)
    /\ absent[i] # "unread"
    /\ \/ /\ Collides(i)
          /\ End(i, "failed")
          /\ UNCHANGED present
       \/ /\ ~Collides(i)
          /\ present' = present \cup {Plan[step[i]]}
          /\ absent' = [absent EXCEPT ![i] = "unread"]
          /\ Advance(i)
          /\ UNCHANGED <<stage, clean>>
    /\ UNCHANGED adminVars

\* A call raises or the process dies; its effect on a queue or a schema may stand.
Fails(i) ==
    /\ stage[i] = "running"
    /\ call[i] = "none"
    /\ Fault
    /\ End(i, "failed")
    /\ \/ UNCHANGED present
       \/ /\ At(i, Queues \cup Schemas)
          /\ Plan[step[i]] \in Schemas => absent[i] # "unread"
          /\ present' = present \cup {Plan[step[i]]}
    /\ UNCHANGED <<exists, listed, call>>

Finish(i) ==
    /\ stage[i] = "running"
    /\ step[i] = Len(Plan) + 1
    /\ End(i, "done")
    /\ UNCHANGED <<adminVars, present>>

InitializeLab(i) ==
    \/ EnsureTopic(i)
    \/ TopicEnsured(i)
    \/ EnsureTopicRaises(i)
    \/ EnsureQueue(i)
    \/ ReadSchema(i)
    \/ CommitSchema(i)
    \/ Finish(i)

(***************************************************************************)
(* The fixture kafka_topic: create, the test, delete in a finally block.   *)
(***************************************************************************)

Fixture(f) ==
    \/ /\ stage[f] = "stopped"
       /\ Go(f, "creating")
       /\ stage' = [stage EXCEPT ![f] = "running"]
    \/ /\ stage[f] = "running" /\ call[f] = "returned"
       /\ Go(f, "none")
       /\ stage' = [stage EXCEPT ![f] = "testing"]
    \/ /\ stage[f] = "testing"
       /\ Go(f, "deleting")
       /\ stage' = [stage EXCEPT ![f] = "deleting"]
    \/ /\ stage[f] = "deleting" /\ call[f] = "returned"
       /\ Go(f, "none")
       /\ stage' = [stage EXCEPT ![f] = "done"]
    \/ /\ call[f] = "raised"
       /\ Go(f, "none")
       /\ stage' = [stage EXCEPT ![f] = "failed"]

FixtureStep(f) ==
    /\ Fixture(f)
    /\ UNCHANGED <<exists, listed, faults, step, absent, present, clean>>

ProvisioningNext ==
    \/ \E i \in Initializers : Start(i) \/ InitializeLab(i) \/ Fails(i)
    \/ \E f \in Fixtures : FixtureStep(f)
    \/ \E c \in Callers : (AdminStep(c, TopicOf(c)) \/ AdminFailure(c, TopicOf(c)))
                          /\ UNCHANGED labVars
    \/ \E t \in Topics : Propagate(t) /\ UNCHANGED labVars

ProvisioningSpec == ProvisioningInit /\ [][ProvisioningNext]_vars

\* Processes run and the metadata follows the controller.  A failed initialiser is
\* run again (compose has restart: "no" for it, so somebody has to).
ProvisioningFairness ==
    /\ \A i \in Initializers :
        /\ WF_vars(InitializeLab(i))
        /\ WF_vars(stage[i] \in {"stopped", "failed"} /\ Start(i))
    /\ \A c \in Callers : WF_vars(AdminStep(c, TopicOf(c)) /\ UNCHANGED labVars)
    /\ \A t \in Topics : WF_vars(Propagate(t) /\ UNCHANGED labVars)

ProvisioningFairSpec == ProvisioningSpec /\ ProvisioningFairness

(***************************************************************************)
(* Properties.                                                             *)
(***************************************************************************)

\* initialize_lab returns only when every topic, queue, schema and control row is
\* there (resource_setup.py:111-129), whoever made it, whatever timed out, and
\* however often it was run: the workers that compose starts then find them.
InitializedMeansProvisioned ==
    \A i \in Initializers : stage[i] = "done" => Provisioned

\* "Idempotent provisioning" (resource_setup.py:1): run again on a complete lab, it
\* fails only when a call does; what exists is never created a second time.
RerunFailsOnlyByFault ==
    [][\A i \in Initializers :
        clean[i] /\ stage[i] = "running" /\ stage'[i] = "failed" => faults' # faults]_vars

\* "Provision one isolated three-partition topic for a single test"
\* (tests/integration/conftest.py:84): a test has its topic with all partitions while
\* it runs, and when its fixture ends well the topic is gone for everybody
\* (kafka_topic_admin.py:87, 184).
FixtureOwnsItsTopic ==
    \A f \in Fixtures :
        /\ stage[f] = "testing" => f \in exists /\ listed[f] = "ready"
        /\ stage[f] = "done" => f \notin exists \cup Names

\* An attempt that timed out may have left a topic that is not listed yet, so that
\* the next one creates it again and fails (kafka_topic_admin.py:113-130,
\* resource_setup.py:50); run again often enough, every initialiser succeeds.
EventuallyProvisioned == \A i \in Initializers : <>(stage[i] = "done")
=============================================================================
