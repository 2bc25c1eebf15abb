---------------------------------- MODULE SqsLab ----------------------------------
(***************************************************************************)
(* The SQS half of the local lab: POST /sqs/orders                         *)
(* (local_lab/dashboard_api.py over messaging/event_publishers.py), the    *)
(* queue and its workers (SqsOrderConsumer), the loop run_sqs_worker puts  *)
(* around process_one, and the pause control.                              *)
(*                                                                         *)
(* A worker reads the control before each call and not during one: the     *)
(* flag may be set while the long poll it allowed is still open.           *)
(***************************************************************************)
EXTENDS SqsOrderConsumer, ConsumerControls

CONSTANT ApiEvents     \* events made by create_order; others are sent by hand

ASSUME LabAssumption == ApiEvents \subseteq Events /\ "sqs" \in Brokers

VARIABLES
    loop,          \* per worker: at is_paused, in process_one, or not running
    answer,        \* per API event: the HTTP status of its request
    confirmed,     \* the state the last click was answered with, if it was
    late           \* history: messages a worker received since a confirmed pause

lab == <<control, loop, answer, confirmed, late>>
labVars == <<vars, lab>>

LabTypeOK ==
    /\ TypeOK
    /\ ControlsTypeOK
    /\ loop \in [Workers -> {"down", "check", "call"}]
    /\ answer \in [ApiEvents -> {"none", "202", "503"}]
    /\ confirmed \in {"unknown", "running", "paused"}
    /\ late \in [Workers -> Nat]
    \* Outside process_one a worker holds nothing, and a running worker has its row.
    /\ \A w \in Workers :
        /\ loop[w] # "call" => pc[w] = "receive"
        /\ loop[w] # "down" => control["sqs"] # "absent"

\* The queue and the order tables are there, the control rows are not.
LabInit ==
    /\ Init
    /\ control = [b \in Brokers |-> "absent"]
    /\ loop = [w \in Workers |-> "down"]
    /\ answer = [e \in ApiEvents |-> "none"]
    /\ confirmed = "unknown"
    /\ late = [w \in Workers |-> 0]

(***************************************************************************)
(* create_order over the SQS publisher.  boto3 sends again when it hears   *)
(* nothing, so one request may leave several messages, also after a 503.   *)
(***************************************************************************)

Deliver(m) == Send(m) /\ UNCHANGED lab

\* The queue itself: a timeout of an inflight message, the redrive of a visible one.
QueueActs(m) == (VisibilityTimeout(m) \/ Redrive(m)) /\ UNCHANGED lab

Answer(e, status) ==
    /\ answer[e] = "none"
    /\ answer' = [answer EXCEPT ![e] = status]
    /\ UNCHANGED <<vars, control, loop, confirmed, late>>

\* Mutant of Accept: a failing SendMessage is not noticed.
AcceptUnsent(e) == Answer(e, "202")

\* SendMessage was acknowledged.
Accept(e) ==
    /\ \E m \in Messages : Body[m] = e /\ place[m] # "unsent"
    /\ Answer(e, "202")

\* EventPublishError: the last try was refused or unanswered.
Refuse(e) == Answer(e, "503")

(***************************************************************************)
(* run_sqs_worker.                                                         *)
(***************************************************************************)

\* lab-init, the dashboard or the Kafka worker starts, now or again.
StartOther == InitializeControls /\ UNCHANGED <<vars, loop, answer, confirmed, late>>

\* The container starts, again after each death: the stores are initialized.
Start(w) ==
    /\ loop[w] = "down"
    /\ InitializeControls
    /\ loop' = [loop EXCEPT ![w] = "check"]
    /\ UNCHANGED <<vars, answer, confirmed, late>>

\* is_paused is false: process_one is called.
Check(w) ==
    /\ loop[w] = "check"
    /\ ~IsPaused("sqs")
    /\ loop' = [loop EXCEPT ![w] = "call"]
    /\ UNCHANGED <<vars, control, answer, confirmed, late>>

\* is_paused is true: half a second later it is asked again.
Wait(w) ==
    /\ loop[w] = "check"
    /\ IsPaused("sqs")
    /\ UNCHANGED labVars

\* Mutants of AfterCall: an empty poll is repeated at once; the control is looked at
\* between the calls of process_one.
AfterCallPolls(w) == [loop EXCEPT ![w] = "call"]
AfterCallAlwaysChecks(w) == [loop EXCEPT ![w] = "check"]

\* process_one returned or raised, or goes on.
AfterCall(w) ==
    [loop EXCEPT ![w] = IF pc'[w] = "receive" THEN "check" ELSE "call"]

\* What every step of process_one does to the lab.
InCall(w) ==
    /\ loop' = AfterCall(w)
    /\ late' = IF confirmed = "paused" /\ receives' # receives
               THEN [late EXCEPT ![w] = @ + 1]
               ELSE late
    /\ UNCHANGED <<control, answer, confirmed>>

CallGoesOn(w) == loop[w] = "call" /\ ProcessOne(w) /\ InCall(w)

\* TimeoutError, or a call to SQS raises.
CallEnds(w) ==
    /\ loop[w] = "call"
    /\ ReceiveNothing(w) \/ Crash(w)
    /\ InCall(w)

\* The process dies: killed, stopped, or is_paused raised outside the try block.
Exit(w) ==
    /\ loop[w] # "down"
    /\ Crash(w) \/ ReceiveNothing(w)
    /\ loop' = [loop EXCEPT ![w] = "down"]
    /\ UNCHANGED <<control, answer, confirmed, late>>

(***************************************************************************)
(* change_consumer_state.                                                  *)
(***************************************************************************)

Click ==
    /\ late' = [w \in Workers |-> 0]
    /\ UNCHANGED <<vars, loop, answer>>

ChangeControl(state) ==
    /\ Click
    /\ SetPaused("sqs", state)
    /\ confirmed' = state

\* The database fails before the COMMIT, or after it; the dashboard is told nothing.
ChangeFails(state) ==
    /\ Click
    /\ SetPaused("sqs", state) \/ UNCHANGED control
    /\ confirmed' = "unknown"

LabNext ==
    \/ StartOther
    \/ \E m \in Messages : Deliver(m) \/ QueueActs(m)
    \/ \E e \in ApiEvents : Accept(e) \/ Refuse(e)
    \/ \E w \in Workers :
        Start(w) \/ Check(w) \/ Wait(w) \/ CallGoesOn(w) \/ CallEnds(w) \/ Exit(w)
    \/ \E state \in {"running", "paused"} : ChangeControl(state) \/ ChangeFails(state)

LabSpec == LabInit /\ [][LabNext]_labVars

\* Workers are restarted, timeouts expire and the queue redrives.  Strong fairness:
\* a worker that starts again and again comes to a call, and a call made again and
\* again gets on -- its long poll does not miss a visible message for ever.
LabFairness ==
    /\ \A w \in Workers :
        WF_labVars(Start(w)) /\ SF_labVars(Check(w)) /\ SF_labVars(CallGoesOn(w))
    /\ \A m \in Messages : WF_labVars(QueueActs(m))

LabFairSpec == LabSpec /\ LabFairness

(***************************************************************************)
(* Properties.                                                             *)
(***************************************************************************)

\* A state the dashboard has confirmed is the one the workers read, however often
\* they and their initialize calls come and go since (consumer_control_store.py:40).
ConfirmedPauseStays == confirmed # "unknown" => control["sqs"] = confirmed

\* After a confirmed pause each worker takes one message at most: the one a long
\* poll opened before the pause still finds (consumer_worker.py:92-96).
PauseLetsOneThrough == \A w \in Workers : late[w] <= 1

\* No order answered with 202 is lost, not even while the consumers stay paused: it is
\* complete, or a message of it is in the queue or the dead-letter queue, however many
\* messages one request has left and whichever of them was deleted with a stale handle
\* (event_publishers.py:319, sqs_order_consumer.py:49-56).
AcceptedOrderIsKept ==
    \A e \in ApiEvents : answer[e] = "202" =>
        \/ Completed(e)
        \/ \E m \in Messages :
            Body[m] = e /\ place[m] \in {"visible", "inflight", "dead"}

\* While the consumers are not paused for good, every message sent is settled,
\* whatever happened before, pauses and restarts included (consumer_worker.py:91-103).
RunningSettles == <>[](~IsPaused("sqs")) => EventuallySettled

\* An order answered with 202 is complete in the end or in the dead-letter queue as
\* evidence, unless the consumers stay paused (http_api.py:102-109).
AcceptedOrdersEnd ==
    <>[](~IsPaused("sqs")) =>
        \A e \in ApiEvents :
            answer[e] = "202" ~>
                \/ Completed(e)
                \/ \E m \in Messages : Body[m] = e /\ place[m] = "dead"
=============================================================================
