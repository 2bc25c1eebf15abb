---------------------------- MODULE ConsumerControls ----------------------------
(***************************************************************************)
(* local_lab.consumer_controls (local_lab/consumer_control_store.py): one   *)
(* row per broker, written by the dashboard, read by every worker before   *)
(* each call.  Each operator is one committed transaction.                 *)
(***************************************************************************)
CONSTANT Brokers

VARIABLE control      \* per broker: its row's paused column, or no row

ControlsTypeOK == control \in [Brokers -> {"absent", "running", "paused"}]

\* Mutant of InitializeControls: the rows are written, existing or not.
InitializeControlsResets == control' = [b \in Brokers |-> "running"]

\* Every process runs initialize when it starts; an existing row is left alone.
InitializeControls ==
    control' = [b \in Brokers |->
                    IF control[b] = "absent" THEN "running" ELSE control[b]]

\* One row must change: without it set_paused raises.
SetPaused(b, state) ==
    /\ control[b] # "absent"
    /\ control' = [control EXCEPT ![b] = state]

IsPaused(b) == control[b] = "paused"
=============================================================================
