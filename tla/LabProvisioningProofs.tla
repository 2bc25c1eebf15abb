-------------------------- MODULE LabProvisioningProofs --------------------------
(***************************************************************************)
(* For any number of initialisers and fixtures: an initialiser that        *)
(* returns leaves a complete lab, one that is run on a complete lab fails  *)
(* only by a fault, and a fixture owns its topic.                          *)
(***************************************************************************)
EXTENDS LabProvisioning, TLAPS

USE LabProvisioningAssumption, KafkaTopicAdminAssumption

LEMMA PlanItems ==
    /\ Len(Plan) = 7
    /\ DOMAIN Plan = 1 .. 7
    /\ \A k \in 1 .. 7 : Plan[k] \in LabTopics \cup Queues \cup Schemas
    /\ LabTopics \cap (Queues \cup Schemas) = {}
    /\ Queues \cap Schemas = {}
    /\ LabTopics \subseteq Topics
<1>1. Len(Plan) = 7 /\ DOMAIN Plan = 1 .. 7
  BY DEF Plan
<1>2. \A k \in 1 .. 7 : Plan[k] \in LabTopics \cup Queues \cup Schemas
  <2> SUFFICES ASSUME NEW k \in 1 .. 7
               PROVE  Plan[k] \in LabTopics \cup Queues \cup Schemas
    OBVIOUS
  <2>1. k = 1 \/ k = 2 \/ k = 3 \/ k = 4 \/ k = 5 \/ k = 6 \/ k = 7
    OBVIOUS
  <2> QED
    BY <2>1 DEF Plan, LabTopics, Queues, Schemas
<1> QED
  BY <1>1, <1>2 DEF LabTopics, Queues, Schemas

(***************************************************************************)
(* Types, and who makes which calls.                                       *)
(***************************************************************************)

InitializersOnlyCreate ==
    \A i \in Initializers : call[i] \notin {"deleting", "vanishing"}

Typed == ProvisioningTypeOK /\ InitializersOnlyCreate

LEMMA TypedInit == ProvisioningInit => Typed
BY PlanItems
   DEF ProvisioningInit, AdminInit, Typed, ProvisioningTypeOK, AdminTypeOK,
       InitializersOnlyCreate, Working

\* The calls of one caller: nothing but its own call, and existence, changes.
AdminChange(c) == AdminStep(c, TopicOf(c)) \/ AdminFailure(c, TopicOf(c))

LEMMA AdminChanges ==
    ASSUME Typed, NEW c \in Callers, AdminChange(c)
    PROVE  /\ call[c] \notin {"none", "returned", "raised"}
           /\ \E where \in {"awaiting", "vanishing", "returned", "raised"} :
                call' = [call EXCEPT ![c] = where]
           /\ exists' \in {exists, exists \cup {TopicOf(c)}, exists \ {TopicOf(c)}}
           /\ exists' # exists /\ exists' # exists \cup {TopicOf(c)}
                => call[c] = "deleting"
           /\ call'[c] = "vanishing" => call[c] = "deleting"
           /\ call'[c] = "awaiting" => call[c] = "creating"
           /\ call'[c] = "returned" =>
                \/ call[c] = "awaiting" /\ listed[TopicOf(c)] = "ready"
                \/ call[c] = "vanishing" /\ TopicOf(c) \notin Names
           /\ listed' = listed
           /\ faults' \in 0 .. MaxFaults
BY DEF Typed, ProvisioningTypeOK, AdminTypeOK, AdminChange, AdminStep, AdminFailure, Create,
       CreateTimesOut, Exposed, WaitFails, Delete, DeleteTimesOut, Vanished, Go, Fault

LEMMA TopicOfCaller ==
    ASSUME Typed, NEW c \in Callers, call[c] # "none"
    PROVE  /\ TopicOf(c) \in Topics
           /\ c \in Initializers => TopicOf(c) \in LabTopics
           /\ c \in Fixtures => TopicOf(c) = c
BY PlanItems DEF Typed, ProvisioningTypeOK, Working, TopicOf

\* An initialiser that ends, whatever it leaves behind.
LEMMA EndTyped ==
    ASSUME Typed, NEW i \in Initializers, NEW outcome \in {"done", "failed"},
           End(i, outcome),
           call' = [call EXCEPT ![i] = "none"] \/ (call[i] = "none" /\ call' = call),
           UNCHANGED <<exists, listed>>, faults' \in 0 .. MaxFaults,
           present' \subseteq Queues \cup Schemas
    PROVE  Typed'
<1> USE DEF Typed, ProvisioningTypeOK, AdminTypeOK, InitializersOnlyCreate, Working
<1>1. call'[i] = "none" /\ absent'[i] = "unread"
  BY DEF End
<1>2. \A j \in Initializers \ {i} :
        /\ call'[j] = call[j] /\ absent'[j] = absent[j]
        /\ stage'[j] = stage[j] /\ step'[j] = step[j]
  BY DEF End
<1>3. AdminTypeOK'
  OBVIOUS
<1>4. /\ stage' \in [Callers -> {"stopped", "running", "testing", "deleting", "done",
                                "failed"}]
      /\ step' \in [Initializers -> 1 .. Len(Plan) + 1]
      /\ absent' \in [Initializers -> {"unread", "yes", "no"}]
      /\ clean' \in [Initializers -> BOOLEAN]
  BY PlanItems DEF End
<1> QED
  BY <1>1, <1>2, <1>3, <1>4

LEMMA TypedStep == Typed /\ [ProvisioningNext]_vars => Typed'
<1> SUFFICES ASSUME Typed, [ProvisioningNext]_vars
             PROVE  Typed'
  OBVIOUS
<1> USE DEF Typed, ProvisioningTypeOK, AdminTypeOK, InitializersOnlyCreate, Working
<1>1. ASSUME NEW i \in Initializers, Start(i)
      PROVE  Typed'
  BY <1>1 DEF Start, adminVars, Provisioned
<1>2. ASSUME NEW i \in Initializers, EnsureTopic(i)
      PROVE  Typed'
  BY <1>2, PlanItems DEF EnsureTopic, At, Advance, Go
<1>3. ASSUME NEW i \in Initializers, TopicEnsured(i)
      PROVE  Typed'
  <2>1. step[i] \in 1 .. 7 /\ absent[i] = "unread"
    BY <1>3, PlanItems DEF TopicEnsured
  <2>2. step' \in [Initializers -> 1 .. Len(Plan) + 1]
    BY <1>3, <2>1, PlanItems DEF TopicEnsured, Advance
  <2>3. call' = [call EXCEPT ![i] = "none"] /\ step' = [step EXCEPT ![i] = @ + 1]
    BY <1>3 DEF TopicEnsured, Go, Advance
  <2>4. UNCHANGED <<exists, listed, faults, stage, absent, present, clean>>
    BY <1>3 DEF TopicEnsured
  <2> QED
    BY <2>1, <2>2, <2>3, <2>4, PlanItems
<1>12. ASSUME NEW i \in Initializers, EnsureTopicRaises(i)
      PROVE  Typed'
  <2>1. End(i, "failed") /\ call' = [call EXCEPT ![i] = "none"]
    BY <1>12 DEF EnsureTopicRaises, Go
  <2>2. UNCHANGED <<exists, listed, faults, present>>
    BY <1>12 DEF EnsureTopicRaises
  <2>3. /\ exists' = exists /\ listed' = listed
        /\ faults' \in 0 .. MaxFaults /\ present' \subseteq Queues \cup Schemas
    BY <2>2
  <2> HIDE DEF Typed
  <2> QED
    BY <2>1, <2>2, <2>3, EndTyped
<1>4. ASSUME NEW i \in Initializers, EnsureQueue(i) \/ ReadSchema(i)
      PROVE  Typed'
  BY <1>4, PlanItems DEF EnsureQueue, ReadSchema, At, Advance, adminVars
<1>5. ASSUME NEW i \in Initializers, CommitSchema(i)
      PROVE  Typed'
  <2>1. step[i] \in 1 .. 7 /\ call[i] = "none" /\ Plan[step[i]] \in Schemas
    BY <1>5, PlanItems DEF CommitSchema, At
  <2>2. UNCHANGED adminVars
    BY <1>5 DEF CommitSchema
  <2>3. CASE End(i, "failed") /\ UNCHANGED present
    BY <2>1, <2>2, <2>3, EndTyped DEF adminVars
  <2>4. CASE /\ present' = present \cup {Plan[step[i]]}
             /\ absent' = [absent EXCEPT ![i] = "unread"]
             /\ step' = [step EXCEPT ![i] = @ + 1]
             /\ UNCHANGED <<stage, clean>>
    BY <2>1, <2>2, <2>4, PlanItems DEF adminVars
  <2> QED
    BY <1>5, <2>3, <2>4 DEF CommitSchema, Advance
<1>6. ASSUME NEW i \in Initializers, Finish(i)
      PROVE  Typed'
  <2>1. call[i] = "none"
    BY <1>6, PlanItems DEF Finish
  <2> QED
    BY <1>6, <2>1, EndTyped DEF Finish, adminVars
<1>7. ASSUME NEW i \in Initializers, Fails(i)
      PROVE  Typed'
  BY <1>7, PlanItems DEF Fails, At, End, Fault
<1>8. ASSUME NEW f \in Fixtures, FixtureStep(f)
      PROVE  Typed'
  <2>1. f \in Callers /\ f \notin Initializers
    OBVIOUS
  <2>2. \E where \in {"none", "creating", "deleting"} : call' = [call EXCEPT ![f] = where]
    BY <1>8 DEF FixtureStep, Fixture, Go
  <2>3. \E s \in {"running", "testing", "deleting", "done", "failed"} :
            stage' = [stage EXCEPT ![f] = s]
    BY <1>8 DEF FixtureStep, Fixture
  <2>4. UNCHANGED <<exists, listed, faults, step, absent, present, clean>>
    BY <1>8 DEF FixtureStep
  <2>5. \A i \in Initializers : call'[i] = call[i] /\ stage'[i] = stage[i]
    BY <2>1, <2>2, <2>3
  <2> QED
    BY <2>1, <2>2, <2>3, <2>4, <2>5
<1>9. ASSUME NEW c \in Callers, AdminChange(c), UNCHANGED labVars
      PROVE  Typed'
  <2>1. call[c] # "none"
    BY <1>9, AdminChanges
  <2> QED
    BY <1>9, <2>1, AdminChanges, TopicOfCaller, PlanItems DEF labVars
<1>10. ASSUME NEW t \in Topics, Propagate(t), UNCHANGED labVars
      PROVE  Typed'
  BY <1>10 DEF Propagate, labVars
<1>11. CASE UNCHANGED vars
  BY <1>11 DEF vars, adminVars
<1> QED
  BY <1>1, <1>2, <1>3, <1>4, <1>5, <1>6, <1>7, <1>8, <1>9, <1>10, <1>11, <1>12
     DEF ProvisioningNext, InitializeLab, AdminChange

\* Every variable stays in its type, and no initialiser is inside a call that its
\* item of the plan does not make.
THEOREM ProvisioningTypeCorrect == ProvisioningSpec => []ProvisioningTypeOK
<1>1. Typed => ProvisioningTypeOK
  BY DEF Typed
<1> QED
  BY TypedInit, TypedStep, <1>1, PTL DEF ProvisioningSpec

(***************************************************************************)
(* What is provided stays: nobody deletes a topic of the lab.              *)
(***************************************************************************)

\* The metadata is never ahead of the controller for a topic of the lab.
ListedExists == \A t \in LabTopics : listed[t] # "hidden" => t \in exists

LEMMA StepOfBroker ==
    ASSUME Typed, [ProvisioningNext]_vars
    PROVE  /\ present \subseteq present'
           /\ \A t \in LabTopics :
                /\ t \in exists => t \in exists'
                /\ t \in exists /\ listed[t] # "hidden" => listed'[t] # "hidden"
                /\ listed'[t] # "hidden" => listed[t] # "hidden" \/ t \in exists
<1> USE DEF Typed, ProvisioningTypeOK, AdminTypeOK
<1>1. ASSUME NEW i \in Initializers, Start(i) \/ InitializeLab(i) \/ Fails(i)
      PROVE  UNCHANGED <<exists, listed>> /\ present \subseteq present'
  BY <1>1 DEF Start, InitializeLab, EnsureTopic, TopicEnsured, EnsureTopicRaises, EnsureQueue,
              ReadSchema, CommitSchema, Finish, Fails, adminVars
<1>2. ASSUME NEW f \in Fixtures, FixtureStep(f)
      PROVE  UNCHANGED <<exists, listed, present>>
  BY <1>2 DEF FixtureStep
<1>3. ASSUME NEW c \in Callers, AdminChange(c), UNCHANGED labVars
      PROVE  /\ UNCHANGED <<listed, present>>
             /\ \A t \in LabTopics : t \in exists => t \in exists'
  <2>1. UNCHANGED <<listed, present>>
    BY <1>3, AdminChanges DEF labVars
  <2>2. ASSUME NEW t \in LabTopics, t \in exists, t \notin exists'
        PROVE  FALSE
    <3>1. call[c] = "deleting" /\ t = TopicOf(c)
      BY <1>3, <2>2, AdminChanges
    <3>2. c \in Fixtures
      BY <3>1 DEF InitializersOnlyCreate
    <3> QED
      BY <3>1, <3>2, <2>2, TopicOfCaller
  <2> QED
    BY <2>1, <2>2
<1>4. ASSUME NEW t \in Topics, Propagate(t), UNCHANGED labVars
      PROVE  /\ UNCHANGED <<exists, present>>
             /\ t \in exists => listed' \in [Topics -> {"hidden", "unready", "ready"}]
             /\ \A s \in Topics \ {t} : listed'[s] = listed[s]
             /\ t \in exists /\ listed[t] # "hidden" => listed'[t] # "hidden"
             /\ listed'[t] # "hidden" => t \in exists
  BY <1>4 DEF Propagate, labVars
<1>5. CASE UNCHANGED vars
  BY <1>5 DEF vars, adminVars
<1> QED
  BY <1>1, <1>2, <1>3, <1>4, <1>5, PlanItems DEF ProvisioningNext, AdminChange

LEMMA ProvidedStays ==
    ASSUME Typed, [ProvisioningNext]_vars, NEW item, Provided(item)
    PROVE  Provided(item)'
BY StepOfBroker, PlanItems DEF Provided, Names

LEMMA ListedExistsStep == Typed /\ ListedExists /\ [ProvisioningNext]_vars => ListedExists'
BY StepOfBroker DEF ListedExists

(***************************************************************************)
(* An initialiser has provided every item behind it.                       *)
(***************************************************************************)

Progress ==
    /\ \A i \in Initializers : \A k \in 1 .. 7 :
        k < step[i] \/ (k = step[i] /\ call[i] = "returned") => Provided(Plan[k])
    /\ InitializedMeansProvisioned

ProvisionedInv == Typed /\ ListedExists /\ Progress

LEMMA ProvisionedInit == ProvisioningInit => ProvisionedInv
BY TypedInit, PlanItems
   DEF ProvisioningInit, AdminInit, ProvisionedInv, ListedExists, Progress,
       InitializedMeansProvisioned

\* What a step of one initialiser leaves to prove.
LEMMA ProgressOfOne ==
    ASSUME ProvisionedInv, [ProvisioningNext]_vars, NEW i \in Initializers,
           \A j \in Initializers \ {i} :
               step'[j] = step[j] /\ call'[j] = call[j] /\ stage'[j] = stage[j],
           \A k \in 1 .. 7 :
               k < step'[i] \/ (k = step'[i] /\ call'[i] = "returned")
                   => \/ k < step[i]
                      \/ k = step[i] /\ call[i] = "returned"
                      \/ Provided(Plan[k])',
           stage'[i] = "done" => stage[i] = "done" \/ step[i] = 8
    PROVE  Progress'
<1>0. /\ \A j \in Initializers : \A k \in 1 .. 7 :
            k < step[j] \/ (k = step[j] /\ call[j] = "returned") => Provided(Plan[k])
      /\ \A j \in Initializers : stage[j] = "done" => Provisioned
  BY DEF ProvisionedInv, Progress, InitializedMeansProvisioned
<1>1. \A k \in 1 .. 7 : Provided(Plan[k]) => Provided(Plan[k])'
  BY ProvidedStays DEF ProvisionedInv
<1>2. Provisioned => Provisioned'
  BY <1>1, PlanItems DEF Provisioned
<1>3. ASSUME NEW j \in Initializers, NEW k \in 1 .. 7,
             k < step'[j] \/ (k = step'[j] /\ call'[j] = "returned")
      PROVE  Provided(Plan[k])'
  <2>1. CASE j = i
    BY <1>0, <1>1, <1>3, <2>1
  <2>2. CASE j # i
    BY <1>0, <1>1, <1>3, <2>2
  <2> QED
    BY <2>1, <2>2
<1>4. step[i] = 8 => Provisioned
  <2> SUFFICES ASSUME step[i] = 8, NEW k \in 1 .. 7
               PROVE  Provided(Plan[k])
    BY PlanItems DEF Provisioned
  <2> QED
    BY <1>0
<1>6. \A j \in Initializers : stage'[j] = "done" => Provisioned'
  <2> SUFFICES ASSUME NEW j \in Initializers, stage'[j] = "done"
               PROVE  Provisioned'
    OBVIOUS
  <2>1. CASE j = i
    BY <1>0, <1>2, <1>4, <2>1
  <2>2. CASE j # i
    BY <1>0, <1>2, <2>2
  <2> QED
    BY <2>1, <2>2
<1>7. InitializedMeansProvisioned'
  BY <1>6 DEF InitializedMeansProvisioned
<1> QED
  BY <1>3, <1>7 DEF Progress

\* An initialiser that goes on to its next item has provided this one.
LEMMA ProgressOfNext ==
    ASSUME ProvisionedInv, [ProvisioningNext]_vars, NEW i \in Initializers,
           call' = call, call[i] = "none", stage' = stage, Advance(i),
           \A k \in 1 .. 7 : k = step[i] => Provided(Plan[k])'
    PROVE  Progress'
<1>1. step \in [Initializers -> 1 .. 8]
  BY PlanItems DEF ProvisionedInv, Typed, ProvisioningTypeOK
<1>2. step'[i] = step[i] + 1 /\ (\A j \in Initializers \ {i} : step'[j] = step[j])
  BY <1>1 DEF Advance
<1>3. step[i] \in 1 .. 8
  BY <1>1
<1>4. \A k \in 1 .. 7 : k < step[i] + 1 => k < step[i] \/ k = step[i]
  BY <1>3
<1> QED
  BY <1>2, <1>4, ProgressOfOne

LEMMA ProvisionedStep == ProvisionedInv /\ [ProvisioningNext]_vars => ProvisionedInv'
<1> SUFFICES ASSUME ProvisionedInv, [ProvisioningNext]_vars
             PROVE  Progress'
  BY TypedStep, ListedExistsStep DEF ProvisionedInv
<1>0. Typed /\ ListedExists
  BY DEF ProvisionedInv
<1>t. /\ step \in [Initializers -> 1 .. 8]
      /\ stage \in [Callers -> {"stopped", "running", "testing", "deleting", "done",
                                "failed"}]
      /\ DOMAIN call = Callers
      /\ Initializers \subseteq Callers
  BY <1>0, PlanItems DEF Typed, ProvisioningTypeOK, AdminTypeOK
<1>p. \A k \in 1 .. 7 : Provided(Plan[k]) => Provided(Plan[k])'
  BY <1>0, ProvidedStays
<1>1. ASSUME NEW i \in Initializers, Start(i)
      PROVE  Progress'
  BY <1>1, <1>t, ProgressOfOne DEF Start, adminVars
<1>2. ASSUME NEW i \in Initializers, EnsureTopic(i)
      PROVE  Progress'
  <2>1. step[i] \in 1 .. 7 /\ Plan[step[i]] \in LabTopics
    BY <1>2, <1>t, PlanItems DEF EnsureTopic, At, Working
  <2>2. Plan[step[i]] \in Names => Provided(Plan[step[i]])
    BY <1>0, <2>1 DEF Provided, Names, ListedExists
  <2>3. \A k \in 1 .. 7 : k = step[i] /\ Plan[step[i]] \in Names => Provided(Plan[k])'
    BY <2>1, <2>2, <1>p
  <2> QED
    <3>1. CASE Plan[step[i]] \in Names
      BY <1>2, <2>3, <3>1, ProgressOfNext DEF EnsureTopic, At
    <3>2. CASE Plan[step[i]] \notin Names
      BY <1>2, <1>t, <2>1, <3>2, ProgressOfOne DEF EnsureTopic, Go
    <3> QED
      BY <3>1, <3>2
<1>3. ASSUME NEW i \in Initializers, TopicEnsured(i)
      PROVE  Progress'
  BY <1>3, <1>t, ProgressOfOne DEF TopicEnsured, Advance, Go
<1>4. ASSUME NEW i \in Initializers, EnsureTopicRaises(i)
      PROVE  Progress'
  BY <1>4, <1>t, ProgressOfOne DEF EnsureTopicRaises, Go, End
<1>5. ASSUME NEW i \in Initializers, EnsureQueue(i)
      PROVE  Progress'
  <2>1. step[i] \in 1 .. 7 /\ Plan[step[i]] \notin LabTopics
    BY <1>5, <1>t, PlanItems DEF EnsureQueue, At, Working
  <2>2. \A k \in 1 .. 7 : k = step[i] => Provided(Plan[k])'
    BY <1>5, <2>1 DEF EnsureQueue, Provided
  <2> QED
    BY <1>5, <2>2, ProgressOfNext DEF EnsureQueue, At, adminVars
<1>6. ASSUME NEW i \in Initializers, ReadSchema(i)
      PROVE  Progress'
  BY <1>6, <1>t, ProgressOfOne DEF ReadSchema, adminVars
<1>7. ASSUME NEW i \in Initializers, CommitSchema(i)
      PROVE  Progress'
  <2>1. step[i] \in 1 .. 7 /\ Plan[step[i]] \notin LabTopics
    BY <1>7, <1>t, PlanItems DEF CommitSchema, At, Working
  <2>2. CASE Collides(i)
    BY <1>7, <2>2, <1>t, ProgressOfOne DEF CommitSchema, End, adminVars
  <2>3. CASE ~Collides(i)
    <3>1. \A k \in 1 .. 7 : k = step[i] => Provided(Plan[k])'
      BY <1>7, <2>1, <2>3 DEF CommitSchema, Provided
    <3> QED
      BY <1>7, <2>3, <3>1, ProgressOfNext DEF CommitSchema, At, adminVars
  <2> QED
    BY <2>2, <2>3
<1>8. ASSUME NEW i \in Initializers, Finish(i)
      PROVE  Progress'
  BY <1>8, <1>t, PlanItems, ProgressOfOne DEF Finish, End, adminVars
<1>9. ASSUME NEW i \in Initializers, Fails(i)
      PROVE  Progress'
  BY <1>9, <1>t, ProgressOfOne DEF Fails, End
<1>10. ASSUME \A i \in Initializers :
                  step'[i] = step[i] /\ call'[i] = call[i] /\ stage'[i] = stage[i]
       PROVE  Progress'
  <2>1. Provisioned => Provisioned'
    BY <1>p, PlanItems DEF Provisioned
  <2> QED
    BY <1>10, <1>p, <2>1 DEF ProvisionedInv, Progress, InitializedMeansProvisioned
<1>11. ASSUME NEW f \in Fixtures, FixtureStep(f)
       PROVE  Progress'
  <2>1. /\ step' = step
        /\ \A c \in Callers \ {f} : call'[c] = call[c] /\ stage'[c] = stage[c]
    BY <1>11, <1>t DEF FixtureStep, Fixture, Go
  <2> QED
    BY <2>1, <1>10
<1>12. ASSUME NEW c \in Callers, AdminChange(c), UNCHANGED labVars
       PROVE  Progress'
  <2>1. /\ step' = step /\ stage' = stage
        /\ \A d \in Callers \ {c} : call'[d] = call[d]
    BY <1>0, <1>12, <1>t, AdminChanges DEF labVars
  <2>2. CASE c \notin Initializers
    BY <2>1, <2>2, <1>10
  <2>3. CASE c \in Initializers
    <3>1. step[c] \in 1 .. 7 /\ Plan[step[c]] \in LabTopics
      BY <1>0, <1>12, <1>t, <2>3, AdminChanges, PlanItems
         DEF Typed, ProvisioningTypeOK, Working
    <3>2. ASSUME call'[c] = "returned"
          PROVE  Provided(Plan[step[c]])
      <4>1. listed[TopicOf(c)] = "ready"
        BY <1>0, <1>12, <2>3, <3>2, AdminChanges DEF Typed, InitializersOnlyCreate
      <4>2. TopicOf(c) = Plan[step[c]]
        BY <2>3 DEF TopicOf
      <4> QED
        BY <1>0, <3>1, <4>1, <4>2, PlanItems DEF Provided, Names, ListedExists
    <3>3. \A k \in 1 .. 7 : k = step[c] /\ call'[c] = "returned" => Provided(Plan[k])'
      BY <3>2, <1>p
    <3> QED
      BY <2>1, <2>3, <3>3, <1>t, ProgressOfOne
  <2> QED
    BY <2>2, <2>3
<1>13. ASSUME NEW t \in Topics, Propagate(t), UNCHANGED labVars
       PROVE  Progress'
  BY <1>13, <1>10 DEF Propagate, labVars
<1>14. CASE UNCHANGED vars
  BY <1>14, <1>10 DEF vars, adminVars
<1> QED
  BY <1>1, <1>2, <1>3, <1>4, <1>5, <1>6, <1>7, <1>8, <1>9, <1>11, <1>12, <1>13, <1>14
     DEF ProvisioningNext, InitializeLab, AdminChange

\* initialize_lab returns only when the lab is complete and its topics are listed, for
\* any number of initialisers, faults and reruns (resource_setup.py:111-129).
THEOREM InitializedLabsAreComplete == ProvisioningSpec => []InitializedMeansProvisioned
<1>1. ProvisionedInv => InitializedMeansProvisioned
  BY DEF ProvisionedInv, Progress
<1> QED
  BY ProvisionedInit, ProvisionedStep, <1>1, PTL DEF ProvisioningSpec

(***************************************************************************)
(* On a complete lab nothing is created.                                   *)
(***************************************************************************)

CleanRuns ==
    \A i \in Initializers :
        clean[i] => Provisioned /\ call[i] = "none" /\ absent[i] # "yes"

CleanInv == Typed /\ CleanRuns

LEMMA CleanInit == ProvisioningInit => CleanInv
BY TypedInit DEF ProvisioningInit, CleanInv, CleanRuns

LEMMA CleanStep == CleanInv /\ [ProvisioningNext]_vars => CleanInv'
<1> SUFFICES ASSUME CleanInv, [ProvisioningNext]_vars
             PROVE  CleanRuns'
  BY TypedStep DEF CleanInv
<1>0. Typed
  BY DEF CleanInv
<1>p. Provisioned => Provisioned'
  BY <1>0, ProvidedStays, PlanItems DEF Provisioned
<1>c. \A i \in Initializers :
        /\ clean[i] => Provisioned /\ call[i] = "none" /\ absent[i] # "yes"
        /\ stage[i] # "running" => call[i] = "none" /\ absent[i] = "unread"
  BY <1>0 DEF CleanInv, CleanRuns, Typed, ProvisioningTypeOK, Working
<1>t. /\ call \in [Callers -> {"none", "creating", "awaiting", "deleting", "vanishing",
                               "returned", "raised"}]
      /\ absent \in [Initializers -> {"unread", "yes", "no"}]
      /\ clean \in [Initializers -> BOOLEAN]
      /\ Initializers \subseteq Callers
  BY <1>0 DEF Typed, ProvisioningTypeOK, AdminTypeOK
<1>s. ASSUME \A i \in Initializers :
                 clean'[i] => clean[i] /\ call'[i] = call[i] /\ absent'[i] = absent[i]
      PROVE  CleanRuns'
  BY <1>s, <1>c, <1>p DEF CleanRuns
<1>i. ASSUME NEW i \in Initializers, NEW k \in 1 .. 7, clean[i]
      PROVE  /\ Plan[k] \in LabTopics => Plan[k] \in Names
             /\ Plan[k] \in Schemas => Plan[k] \in present
  BY <1>i, <1>c, PlanItems DEF Provisioned, Provided
<1>1. ASSUME NEW i \in Initializers, Start(i)
      PROVE  CleanRuns'
  <2>1. clean' = [clean EXCEPT ![i] = Provisioned] /\ call' = call /\ absent' = absent
    BY <1>1 DEF Start, adminVars
  <2>2. stage[i] # "running"
    BY <1>1 DEF Start
  <2>3. ASSUME NEW j \in Initializers, clean'[j]
        PROVE  Provisioned' /\ call'[j] = "none" /\ absent'[j] # "yes"
    <3>1. CASE j = i
      BY <1>c, <1>p, <1>t, <2>1, <2>2, <2>3, <3>1
    <3>2. CASE j # i
      BY <1>c, <1>p, <1>t, <2>1, <2>3, <3>2
    <3> QED
      BY <3>1, <3>2
  <2> QED
    BY <2>3 DEF CleanRuns
<1>2. ASSUME NEW i \in Initializers, EnsureTopic(i)
      PROVE  CleanRuns'
  <2>1. clean[i] => Plan[step[i]] \in Names
    BY <1>2, <1>i, PlanItems DEF EnsureTopic, At, Working
  <2> QED
    BY <1>2, <2>1, <1>s, <1>t DEF EnsureTopic, Go
<1>3. ASSUME NEW i \in Initializers, TopicEnsured(i) \/ EnsureTopicRaises(i)
      PROVE  CleanRuns'
  BY <1>3, <1>s, <1>t, <1>c DEF TopicEnsured, EnsureTopicRaises, Go, End
<1>4. ASSUME NEW i \in Initializers, EnsureQueue(i)
      PROVE  CleanRuns'
  BY <1>4, <1>s DEF EnsureQueue, adminVars
<1>5. ASSUME NEW i \in Initializers, ReadSchema(i)
      PROVE  CleanRuns'
  <2>1. clean[i] => absent'[i] = "no"
    BY <1>5, <1>i, <1>t, PlanItems DEF ReadSchema, At, Working
  <2>2. /\ clean' = clean /\ call' = call
        /\ \A j \in Initializers \ {i} : absent'[j] = absent[j]
    BY <1>5, <1>t DEF ReadSchema, adminVars
  <2> QED
    BY <1>c, <1>p, <2>1, <2>2 DEF CleanRuns
<1>6. ASSUME NEW i \in Initializers, CommitSchema(i)
      PROVE  CleanRuns'
  <2>1. call' = call /\ absent'[i] = "unread"
    BY <1>6, <1>t DEF CommitSchema, End, adminVars
  <2>2. /\ \A j \in Initializers : clean'[j] => clean[j]
        /\ \A j \in Initializers \ {i} : absent'[j] = absent[j]
    BY <1>6, <1>t DEF CommitSchema, End
  <2> QED
    BY <1>c, <1>p, <2>1, <2>2 DEF CleanRuns
<1>7. ASSUME NEW i \in Initializers, Finish(i) \/ Fails(i)
      PROVE  CleanRuns'
  BY <1>7, <1>s, <1>t DEF Finish, Fails, End, adminVars
<1>8. ASSUME NEW f \in Fixtures, FixtureStep(f)
      PROVE  CleanRuns'
  BY <1>8, <1>s, <1>t DEF FixtureStep, Fixture, Go
<1>9. ASSUME NEW c \in Callers, AdminChange(c), UNCHANGED labVars
      PROVE  CleanRuns'
  <2>1. /\ call[c] # "none"
        /\ \A d \in Callers \ {c} : call'[d] = call[d]
    BY <1>0, <1>9, <1>t, AdminChanges
  <2> QED
    BY <1>9, <2>1, <1>c, <1>s, <1>t DEF labVars
<1>10. ASSUME NEW t \in Topics, Propagate(t), UNCHANGED labVars
      PROVE  CleanRuns'
  BY <1>10, <1>s DEF Propagate, labVars
<1>11. CASE UNCHANGED vars
  BY <1>11, <1>s DEF vars, adminVars
<1> QED
  BY <1>1, <1>2, <1>3, <1>4, <1>5, <1>6, <1>7, <1>8, <1>9, <1>10, <1>11
     DEF ProvisioningNext, InitializeLab, AdminChange

\* Run on a complete lab, initialize_lab fails only when a call does
\* (resource_setup.py:1, 40-58; postgres_order_store.py:62-92).
THEOREM RerunsFailOnlyByFault == ProvisioningSpec => RerunFailsOnlyByFault
<1>1. CleanInv /\ [ProvisioningNext]_vars =>
        [\A i \in Initializers :
            clean[i] /\ stage[i] = "running" /\ stage'[i] = "failed"
                => faults' # faults]_vars
  <2> SUFFICES ASSUME CleanInv, ProvisioningNext, NEW i \in Initializers,
                      clean[i], stage[i] = "running", stage'[i] = "failed"
               PROVE  faults' # faults
    OBVIOUS
  <2>0. /\ call[i] = "none" /\ absent[i] # "yes" /\ faults \in 0 .. MaxFaults
        /\ stage \in [Callers -> {"stopped", "running", "testing", "deleting", "done",
                                  "failed"}]
        /\ i \in Callers /\ i \notin Fixtures
    BY DEF CleanInv, CleanRuns, Typed, ProvisioningTypeOK, AdminTypeOK
  <2>1. ASSUME NEW j \in Initializers, Start(j)
        PROVE  FALSE
    BY <2>0, <2>1 DEF Start
  <2>2. ASSUME NEW j \in Initializers, EnsureTopic(j) \/ TopicEnsured(j) \/ EnsureQueue(j)
                                           \/ ReadSchema(j)
        PROVE  FALSE
    BY <2>0, <2>2 DEF EnsureTopic, TopicEnsured, EnsureQueue, ReadSchema
  <2>3. ASSUME NEW j \in Initializers, EnsureTopicRaises(j) \/ CommitSchema(j) \/ Finish(j)
        PROVE  FALSE
    BY <2>0, <2>3 DEF EnsureTopicRaises, CommitSchema, Collides, Finish, End
  <2>4. ASSUME NEW j \in Initializers, Fails(j)
        PROVE  faults' # faults
    BY <2>0, <2>4 DEF Fails, Fault
  <2>5. ASSUME NEW f \in Fixtures, FixtureStep(f)
        PROVE  FALSE
    BY <2>0, <2>5 DEF FixtureStep, Fixture
  <2>6. CASE UNCHANGED labVars
    BY <2>6 DEF labVars
  <2> QED
    BY <2>1, <2>2, <2>3, <2>4, <2>5, <2>6 DEF ProvisioningNext, InitializeLab
<1> QED
  BY CleanInit, CleanStep, <1>1, PTL DEF ProvisioningSpec, RerunFailsOnlyByFault

(***************************************************************************)
(* A fixture's topic is its own.                                           *)
(***************************************************************************)

Gone(f) == f \notin exists /\ listed[f] = "hidden"
Ready(f) == f \in exists /\ listed[f] = "ready"

\* Where the topic of a fixture is in each call.
FixtureState(f) ==
    \/ stage[f] = "stopped" /\ call[f] = "none" /\ Gone(f)
    \/ /\ stage[f] = "running"
       /\ \/ call[f] = "creating" /\ Gone(f)
          \/ call[f] = "awaiting" /\ f \in exists
          \/ call[f] = "returned" /\ Ready(f)
          \/ call[f] = "raised"
    \/ stage[f] = "testing" /\ call[f] = "none" /\ Ready(f)
    \/ /\ stage[f] = "deleting"
       /\ \/ call[f] = "deleting" /\ Ready(f)
          \/ call[f] = "vanishing" /\ f \notin exists
          \/ call[f] = "returned" /\ Gone(f)
          \/ call[f] = "raised"
    \/ stage[f] = "done" /\ call[f] = "none" /\ Gone(f)
    \/ stage[f] = "failed" /\ call[f] = "none"

FixtureInv == Typed /\ (\A f \in Fixtures : FixtureState(f))

LEMMA FixtureInit == ProvisioningInit => FixtureInv
BY TypedInit DEF ProvisioningInit, AdminInit, FixtureInv, FixtureState, Gone

\* A step that leaves a fixture's variables and its topic alone.
LEMMA FixtureUntouched ==
    ASSUME NEW f \in Fixtures, FixtureState(f),
           stage'[f] = stage[f], call'[f] = call[f], f \in exists' <=> f \in exists,
           listed'[f] = listed[f]
    PROVE  FixtureState(f)'
BY DEF FixtureState, Gone, Ready

LEMMA FixtureInvStep == FixtureInv /\ [ProvisioningNext]_vars => FixtureInv'
<1> SUFFICES ASSUME FixtureInv, [ProvisioningNext]_vars, NEW f \in Fixtures
             PROVE  FixtureState(f)'
  BY TypedStep DEF FixtureInv
<1>0. Typed /\ FixtureState(f)
  BY DEF FixtureInv
<1>t. /\ stage \in [Callers -> {"stopped", "running", "testing", "deleting", "done",
                                "failed"}]
      /\ call \in [Callers -> {"none", "creating", "awaiting", "deleting", "vanishing",
                               "returned", "raised"}]
      /\ listed \in [Topics -> {"hidden", "unready", "ready"}]
      /\ f \in Callers /\ f \notin Initializers /\ f \in Topics /\ f \notin LabTopics
  BY <1>0 DEF Typed, ProvisioningTypeOK, AdminTypeOK
<1>1. ASSUME NEW i \in Initializers, Start(i) \/ InitializeLab(i) \/ Fails(i)
      PROVE  FixtureState(f)'
  <2>1. UNCHANGED <<exists, listed>> /\ call'[f] = call[f] /\ stage'[f] = stage[f]
    BY <1>1, <1>t DEF Start, InitializeLab, EnsureTopic, TopicEnsured, EnsureTopicRaises,
         EnsureQueue, ReadSchema, CommitSchema, Finish, Fails, End, Go, adminVars
  <2> QED
    BY <2>1, <1>0, FixtureUntouched
<1>2. ASSUME NEW g \in Fixtures, FixtureStep(g)
      PROVE  FixtureState(f)'
  <2>1. CASE g = f
    BY <1>2, <2>1, <1>0, <1>t DEF FixtureStep, Fixture, Go, FixtureState, Gone, Ready
  <2>2. CASE g # f
    BY <1>2, <2>2, <1>0, <1>t, FixtureUntouched DEF FixtureStep, Fixture, Go
  <2> QED
    BY <2>1, <2>2
<1>3. ASSUME NEW c \in Callers, AdminChange(c), UNCHANGED labVars
      PROVE  FixtureState(f)'
  <2>1. CASE c = f
    <3>1. TopicOf(c) = f
      BY <2>1 DEF TopicOf
    <3> QED
      BY <1>3, <2>1, <3>1, <1>0, <1>t
         DEF AdminChange, AdminStep, AdminFailure, Create, CreateTimesOut, Exposed, WaitFails,
             Delete, DeleteTimesOut, Vanished, Go, Names, labVars, FixtureState, Gone, Ready
  <2>2. CASE c # f
    <3>1. TopicOf(c) # f
      BY <1>0, <1>3, <2>2, <1>t, AdminChanges, TopicOfCaller
    <3>2. stage' = stage /\ listed' = listed /\ call'[f] = call[f]
      BY <1>0, <1>3, <2>2, <1>t, AdminChanges DEF labVars
    <3>3. f \in exists' <=> f \in exists
      BY <1>0, <1>3, <3>1, AdminChanges
    <3> QED
      BY <1>0, <3>2, <3>3, FixtureUntouched
  <2> QED
    BY <2>1, <2>2
<1>4. ASSUME NEW t \in Topics, Propagate(t), UNCHANGED labVars
      PROVE  FixtureState(f)'
  <2>1. CASE t = f
    BY <1>4, <2>1, <1>0, <1>t DEF Propagate, labVars, FixtureState, Gone, Ready
  <2>2. CASE t # f
    BY <1>4, <2>2, <1>0, <1>t, FixtureUntouched DEF Propagate, labVars
  <2> QED
    BY <2>1, <2>2
<1>5. CASE UNCHANGED vars
  BY <1>5, <1>0, FixtureUntouched DEF vars, adminVars
<1> QED
  BY <1>1, <1>2, <1>3, <1>4, <1>5 DEF ProvisioningNext, AdminChange

\* A test runs on a topic that is complete and its own, and a fixture that ends well
\* leaves nothing behind (kafka_topic_admin.py:80-130, 177-210, conftest.py:79-103).
THEOREM FixturesOwnTheirTopics == ProvisioningSpec => []FixtureOwnsItsTopic
<1>1. FixtureInv => FixtureOwnsItsTopic
  BY DEF FixtureInv, FixtureState, FixtureOwnsItsTopic, Gone, Ready, Names
<1> QED
  BY FixtureInit, FixtureInvStep, <1>1, PTL DEF ProvisioningSpec
=============================================================================
