------------------------------ MODULE SqsLabProofs ------------------------------
(***************************************************************************)
(* The lab around the queue's workers: a confirmed pause lasts and lets    *)
(* one message through, and no accepted order is lost.                     *)
(***************************************************************************)
EXTENDS SqsLab, SqsOrderConsumerProofs

\* The lab is written as steps of the queue beside its own state; this carries the
\* queue's invariants over.
LEMMA LabStepIsQueueStep == [LabNext]_labVars => [Next]_vars
<1> SUFFICES ASSUME [LabNext]_labVars
             PROVE  [Next]_vars
  OBVIOUS
<1>1. ASSUME NEW w \in Workers,
             Start(w) \/ Check(w) \/ Wait(w) \/ CallGoesOn(w) \/ CallEnds(w) \/ Exit(w)
      PROVE  [Next]_vars
  BY <1>1
     DEF Start, Check, Wait, CallGoesOn, CallEnds, Exit, ReceiveNothing, Next, labVars
<1>2. ASSUME NEW m \in Messages,
             Deliver(m) \/ QueueActs(m)
      PROVE  [Next]_vars
  BY <1>2 DEF Deliver, QueueActs, Next
<1>3. ASSUME NEW e \in ApiEvents, Accept(e) \/ Refuse(e)
      PROVE  [Next]_vars
  BY <1>3 DEF Accept, Refuse, Answer
<1>4. ASSUME NEW state \in {"running", "paused"},
             ChangeControl(state) \/ ChangeFails(state)
      PROVE  [Next]_vars
  BY <1>4 DEF ChangeControl, ChangeFails, Click
<1>5. CASE StartOther \/ UNCHANGED labVars
  BY <1>5 DEF StartOther, labVars
<1> QED
  BY <1>1, <1>2, <1>3, <1>4, <1>5 DEF LabNext

LEMMA LabRunsTheQueue == LabSpec => Spec
<1>1. LabInit => Init
  BY DEF LabInit
<1> QED
  BY <1>1, LabStepIsQueueStep, PTL DEF LabSpec, Spec

\* In the lab, too, a deleted message is a completed order, whenever its worker is
\* paused or dies (sqs_order_consumer.py:49-56).
COROLLARY LabDeletedOrdersAreComplete == LabSpec => []DeletedMeansCompleted
BY LabRunsTheQueue, DeletedOrdersAreComplete

\* A worker that has taken its message since the pause is not in a long poll.
LateOnce ==
    \A w \in Workers :
        /\ late[w] \in {0, 1}
        /\ late[w] = 1 => confirmed = "paused" /\ ~(loop[w] = "call" /\ pc[w] = "receive")

LabInv == DeletedInv /\ LabTypeOK /\ ConfirmedPauseStays /\ LateOnce

LEMMA LabInitInv == LabInit => LabInv
BY DeletedInit
   DEF LabInit, Init, LabInv, DeletedInv, LabTypeOK, ControlsTypeOK,
       ConfirmedPauseStays, LateOnce

\* A step of process_one: the worker receives only from pc "receive", and then it is
\* past the poll, or back at the control.
LEMMA CallKeepsInv ==
  ASSUME LabInv, DeletedInv', NEW w \in Workers, loop[w] = "call",
         \/ ProcessOne(w)
         \/ ReceiveNothing(w)
         \/ Crash(w),
         InCall(w)
  PROVE  LabInv'
<1>1. /\ \A v \in Workers : v # w => pc'[v] = pc[v]
      /\ receives' # receives => pc[w] = "receive"
  BY DEF LabInv, DeletedInv, TypeOK, ProcessOne, ReceiveValid, ReceiveMalformed, Store,
         Mark, Delete, Crash, ReceiveNothing, Stored, Goto, EndCall, queueVars, vars
<1>2. pc'[w] = "receive" => loop'[w] = "check"
  BY DEF LabInv, LabTypeOK, InCall, AfterCall
<1>3. \A v \in Workers : v # w => loop'[v] = loop[v] /\ late'[v] = late[v]
  BY DEF LabInv, LabTypeOK, InCall, AfterCall
<1>4. LabTypeOK'
  <2>1. late' \in [Workers -> Nat]
    BY DEF LabInv, LabTypeOK, InCall
  <2>2. loop' \in [Workers -> {"down", "check", "call"}]
    BY DEF LabInv, LabTypeOK, InCall, AfterCall
  <2>3. \A v \in Workers : loop'[v] # "call" => pc'[v] = "receive"
    BY <1>1, <1>3 DEF LabInv, LabTypeOK, InCall, AfterCall
  <2> QED
    BY <2>1, <2>2, <2>3
       DEF LabInv, LabTypeOK, DeletedInv, InCall, ControlsTypeOK
<1>5. ConfirmedPauseStays'
  BY DEF LabInv, ConfirmedPauseStays, InCall
<1>6. LateOnce'
  <2> SUFFICES ASSUME NEW v \in Workers
               PROVE  /\ late'[v] \in {0, 1}
                      /\ late'[v] = 1 =>
                            /\ confirmed' = "paused"
                            /\ ~(loop'[v] = "call" /\ pc'[v] = "receive")
    BY DEF LateOnce
  <2>1. CASE v # w
    BY <2>1, <1>1, <1>3 DEF LabInv, LateOnce, InCall
  <2>2. CASE v = w /\ receives' # receives
    BY <2>2, <1>1, <1>2 DEF LabInv, LabTypeOK, LateOnce, InCall
  <2>3. CASE v = w /\ receives' = receives
    BY <2>3, <1>2 DEF LabInv, LateOnce, InCall
  <2> QED
    BY <2>1, <2>2, <2>3
<1> QED
  BY <1>4, <1>5, <1>6 DEF LabInv

LEMMA LabStepInv == LabInv /\ [LabNext]_labVars => LabInv'
<1> SUFFICES ASSUME LabInv, [LabNext]_labVars
             PROVE  LabInv'
  OBVIOUS
<1>0. DeletedInv'
  BY LabStepIsQueueStep, DeletedStep DEF LabInv
<1>1. ASSUME NEW w \in Workers, CallGoesOn(w) \/ CallEnds(w)
      PROVE  LabInv'
  BY <1>0, <1>1, CallKeepsInv DEF CallGoesOn, CallEnds
<1>2. CASE StartOther \/ \E w \in Workers : Start(w)
  <2>1. /\ control'["sqs"] = control["sqs"] \/ control["sqs"] = "absent"
        /\ control'["sqs"] # "absent"
        /\ control' \in [Brokers -> {"absent", "running", "paused"}]
    BY <1>2, LabAssumption
       DEF LabInv, LabTypeOK, ControlsTypeOK, StartOther, Start, InitializeControls
  <2> QED
    BY <1>0, <1>2, <2>1, LabAssumption
       DEF LabInv, DeletedInv, LabTypeOK, ControlsTypeOK, ConfirmedPauseStays, LateOnce,
           StartOther, Start, vars
<1>3. ASSUME NEW w \in Workers, Check(w)
      PROVE  LabInv'
  BY <1>0, <1>3
     DEF LabInv, DeletedInv, LabTypeOK, ControlsTypeOK, ConfirmedPauseStays, LateOnce,
         Check, IsPaused, vars
<1>4. ASSUME NEW w \in Workers, Exit(w)
      PROVE  LabInv'
  <2>1. /\ pc'[w] = "receive"
        /\ \A v \in Workers : v # w => pc'[v] = pc[v]
    BY <1>4 DEF LabInv, DeletedInv, TypeOK, Exit, Crash, ReceiveNothing, EndCall, vars
  <2> QED
    BY <1>0, <1>4, <2>1
       DEF LabInv, DeletedInv, LabTypeOK, ControlsTypeOK, ConfirmedPauseStays, LateOnce,
           Exit
<1>5. ASSUME NEW state \in {"running", "paused"},
             ChangeControl(state) \/ ChangeFails(state)
      PROVE  LabInv'
  BY <1>0, <1>5, LabAssumption
     DEF LabInv, DeletedInv, LabTypeOK, ControlsTypeOK, ConfirmedPauseStays, LateOnce,
         ChangeControl, ChangeFails, Click, SetPaused, vars
<1>6. ASSUME NEW e \in ApiEvents, Accept(e) \/ Refuse(e)
      PROVE  LabInv'
  <2>1. PICK status \in {"202", "503"} : Answer(e, status)
    BY <1>6 DEF Accept, Refuse
  <2> QED
    BY <1>0, <2>1
       DEF LabInv, DeletedInv, LabTypeOK, ControlsTypeOK, ConfirmedPauseStays, LateOnce,
           Answer, vars
<1>7. CASE UNCHANGED <<lab, pc>>
  BY <1>0, <1>7
     DEF LabInv, DeletedInv, LabTypeOK, ControlsTypeOK, ConfirmedPauseStays, LateOnce, lab
<1> QED
  BY <1>1, <1>2, <1>3, <1>4, <1>5, <1>6, <1>7
     DEF LabNext, Deliver, QueueActs, Send, VisibilityTimeout, Redrive, Wait, labVars, vars

\* The flag the dashboard has confirmed is the flag the workers read
\* (consumer_control_store.py:20-68).
THEOREM ConfirmedPausesStay == LabSpec => []ConfirmedPauseStays
<1>1. LabInv => ConfirmedPauseStays
  BY DEF LabInv
<1> QED
  BY LabInitInv, LabStepInv, <1>1, PTL DEF LabSpec

\* However many workers and messages there are, each worker takes at most one message
\* after a confirmed pause (consumer_worker.py:92-96).
THEOREM PausesLetOneThrough == LabSpec => []PauseLetsOneThrough
<1>1. LabInv => PauseLetsOneThrough
  BY DEF LabInv, LateOnce, PauseLetsOneThrough
<1> QED
  BY LabInitInv, LabStepInv, <1>1, PTL DEF LabSpec

\* A worker that is not inside process_one holds no message, wherever it died.
THEOREM LabTypeCorrect == LabSpec => []LabTypeOK
<1>1. LabInv => LabTypeOK
  BY DEF LabInv
<1> QED
  BY LabInitInv, LabStepInv, <1>1, PTL DEF LabSpec
\* The queue has heard of every order answered with 202, and what is sent stays sent.
AcceptedMeansSent ==
    \A e \in ApiEvents : answer[e] = "202" =>
        \E m \in Messages : Body[m] = e /\ place[m] # "unsent"

LEMMA SentStaysSent ==
  ASSUME TypeOK, [Next]_vars, NEW m \in Messages, place[m] # "unsent"
  PROVE  place'[m] # "unsent"
<1>1. ASSUME NEW w \in Workers, NEW n \in Messages,
             ReceiveValid(w, n) \/ ReceiveMalformed(w, n)
      PROVE  place'[m] # "unsent"
  BY <1>1 DEF TypeOK, ReceiveValid, ReceiveMalformed, Hand
<1>2. ASSUME NEW w \in Workers, Store(w) \/ Mark(w) \/ ReceiveNothing(w) \/ Crash(w)
      PROVE  place'[m] # "unsent"
  BY <1>2 DEF Store, Mark, ReceiveNothing, Crash, queueVars, vars
<1>3. ASSUME NEW w \in Workers, Delete(w)
      PROVE  place'[m] # "unsent"
  BY <1>3 DEF TypeOK, Delete
<1>4. ASSUME NEW n \in Messages, Send(n) \/ VisibilityTimeout(n) \/ Redrive(n)
      PROVE  place'[m] # "unsent"
  BY <1>4 DEF TypeOK, Send, VisibilityTimeout, Redrive
<1>5. CASE UNCHANGED vars
  BY <1>5 DEF queueVars, vars
<1> QED
  BY <1>1, <1>2, <1>3, <1>4, <1>5 DEF Next, ProcessOne

LEMMA AcceptedStepSent ==
  AcceptedMeansSent /\ LabInv /\ [LabNext]_labVars => AcceptedMeansSent'
<1> SUFFICES ASSUME AcceptedMeansSent, LabInv, [LabNext]_labVars,
                    NEW e \in ApiEvents, answer'[e] = "202"
             PROVE  \E m \in Messages : Body[m] = e /\ place'[m] # "unsent"
  BY DEF AcceptedMeansSent
<1>1. CASE answer[e] = "202"
  <2>1. PICK m \in Messages : Body[m] = e /\ place[m] # "unsent"
    BY <1>1 DEF AcceptedMeansSent
  <2>2. place'[m] # "unsent"
    BY <2>1, LabStepIsQueueStep, SentStaysSent DEF LabInv, DeletedInv
  <2> QED
    BY <2>1, <2>2
<1>2. CASE answer[e] # "202"
  <2>1. PICK f \in ApiEvents : Accept(f) \/ Refuse(f)
    BY <1>2
       DEF LabNext, StartOther, Deliver, QueueActs, Start, Check, Wait, CallGoesOn,
           CallEnds, InCall, Exit, ChangeControl, ChangeFails, Click, lab, labVars
  <2>2. Accept(e)
    BY <1>2, <2>1 DEF LabInv, LabTypeOK, Accept, Refuse, Answer
  <2> QED
    BY <2>2 DEF Accept, Answer, queueVars, vars
<1> QED
  BY <1>1, <1>2

\* No order answered with 202 is lost, for any number of messages a request leaves and
\* any workers, deaths, stale handles, pauses and redrives: it is complete, or in the
\* queue, or in the dead-letter queue (http_api.py:102-109, sqs_order_consumer.py:49-56).
THEOREM AcceptedOrdersAreKept == LabSpec => []AcceptedOrderIsKept
<1>1. LabInit => AcceptedMeansSent
  BY DEF LabInit, AcceptedMeansSent
<1>2. LabInv /\ AcceptedMeansSent => AcceptedOrderIsKept
  BY DEF LabInv, DeletedInv, TypeOK, DeletedMeansCompleted, AcceptedMeansSent,
         AcceptedOrderIsKept
<1> QED
  BY LabInitInv, LabStepInv, AcceptedStepSent, <1>1, <1>2, PTL DEF LabSpec
=============================================================================
