-------------------------- MODULE ExecutionLifecycle --------------------------
(***************************************************************************)
(* What the executor promises about an execution, without workers, Redis   *)
(* or Jupyter: it is queued, its steps run at most once each, its status   *)
(* becomes final once, the agent is told that status and no other, and the *)
(* command is settled (acknowledged for good) only when the status is      *)
(* final and the outcome of the callback is known.                         *)
(*                                                                         *)
(* docs/architecture.md, "State and ACK", in the reading the code gives    *)
(* it: the status of an execution that continues after a failed step       *)
(* (stop_on_error = False) is FAILED from that step on.                    *)
(***************************************************************************)
EXTENDS Naturals

CONSTANTS Executions, StopOnError, NumSteps

VARIABLES
    status,    \* status[e], "ABSENT" before submission
    ran,       \* ran[e]: steps handed to the kernel
    told,      \* pairs of an execution and a status the agent was told
    callback,  \* callback[e]: "open", or the recorded fate of the callback
    settled    \* executions whose command is acknowledged

vars == <<status, ran, told, callback, settled>>

Final == {"SUCCEEDED", "FAILED"}

Init ==
    /\ status = [e \in Executions |-> "ABSENT"]
    /\ ran = [e \in Executions |-> 0]
    /\ told = {}
    /\ callback = [e \in Executions |-> "open"]
    /\ settled = {}

Submit(e) ==
    /\ status[e] = "ABSENT"
    /\ status' = [status EXCEPT ![e] = "QUEUED"]
    /\ UNCHANGED <<ran, told, callback, settled>>

Begin(e) ==
    /\ status[e] = "QUEUED"
    /\ status' = [status EXCEPT ![e] = "RUNNING"]
    /\ UNCHANGED <<ran, told, callback, settled>>

RunStep(e) ==
    /\ \/ status[e] = "RUNNING"
       \/ status[e] = "FAILED" /\ e \notin StopOnError /\ callback[e] = "open"
    /\ ran[e] < NumSteps
    /\ ran' = [ran EXCEPT ![e] = @ + 1]
    /\ UNCHANGED <<status, told, callback, settled>>

Finish(e, final) ==
    /\ status[e] = "RUNNING"
    /\ final = "SUCCEEDED" => ran[e] = NumSteps
    /\ status' = [status EXCEPT ![e] = final]
    /\ UNCHANGED <<ran, told, callback, settled>>

Tell(e) ==
    /\ status[e] \in Final
    /\ e \notin settled
    /\ told' = told \cup {<<e, status[e]>>}
    /\ UNCHANGED <<status, ran, callback, settled>>

\* A failed callback is tried again when the command is redelivered.
Reopen(e) ==
    /\ callback[e] = "FAILED"
    /\ e \notin settled
    /\ callback' = [callback EXCEPT ![e] = "open"]
    /\ UNCHANGED <<status, ran, told, settled>>

Record(e, fate) ==
    /\ status[e] \in Final
    /\ callback[e] = "open"
    /\ fate = "DELIVERED" => <<e, status[e]>> \in told
    /\ callback' = [callback EXCEPT ![e] = fate]
    /\ UNCHANGED <<status, ran, told, settled>>

Settle(e) ==
    /\ e \notin settled
    /\ callback[e] # "open"
    /\ settled' = settled \cup {e}
    /\ UNCHANGED <<status, ran, told, callback>>

Next ==
    \E e \in Executions :
        \/ Submit(e)
        \/ Begin(e)
        \/ RunStep(e)
        \/ \E final \in Final : Finish(e, final)
        \/ Tell(e)
        \/ Reopen(e)
        \/ \E fate \in {"DELIVERED", "FAILED"} : Record(e, fate)
        \/ Settle(e)

Spec == Init /\ [][Next]_vars
==============================================================================
