------------------------- MODULE ExecutionRepository -------------------------
(***************************************************************************)
(* The execution state kept under one Redis key, and what each method of   *)
(* RedisExecutionRepository changes in it.                                 *)
(*                                                                         *)
(* Every method reads the whole JSON document (GET), changes a few fields  *)
(* and writes the whole document back (SET) without a compare-and-set.     *)
(* The operators below are the change between the two commands, as a       *)
(* function from document to document; ExecutionProcessing interleaves the *)
(* two commands of concurrent tasks.                                       *)
(*                                                                         *)
(* Abstracted: time stamps, texts, step results and URLs, which no code    *)
(* under src/ branches on.  completed_at is not None exactly when status   *)
(* is terminal (the same three methods write both), so it needs no field.  *)
(* callback_attempts and callback_error are read by nobody but the client  *)
(* of GET /executions and are left out.                                    *)
(***************************************************************************)
EXTENDS Naturals

CONSTANTS
    NumSteps,   \* number of steps of every command
    Kernels,    \* identities of Jupyter kernels
    NoKernel    \* kernel_id = None

ASSUME NumStepsAssumption == NumSteps \in Nat \ {0}
ASSUME NoKernelAssumption == NoKernel \notin Kernels

Step == 1..NumSteps

\* "ABSENT" stands for a Redis key that does not exist.
ExecutionStatus == {"ABSENT", "QUEUED", "RUNNING", "SUCCEEDED", "FAILED"}
StepStatus == {"PENDING", "RUNNING", "SUCCEEDED", "FAILED"}
CallbackStatus == {"NOT_REQUESTED", "PENDING", "DELIVERED", "FAILED"}
TerminalStatus == {"SUCCEEDED", "FAILED"}

\* error_type; "CodeExecutionError" is what a step raised, or its timeout.
ErrorType == {"none", "CodeExecutionError", "KernelLost"}

(***************************************************************************)
(* A callback event id is uuid5 of the execution id and of the status it   *)
(* was first derived from, so per execution it is determined by that       *)
(* status.                                                                 *)
(***************************************************************************)
EventId == {"none"} \cup TerminalStatus

ExecutionState ==
    [status        : ExecutionStatus,
     currentStep   : 0..NumSteps,
     steps         : [Step -> StepStatus],
     errorStep     : 0..NumSteps,
     errorType     : ErrorType,
     kernel        : Kernels \cup {NoKernel},
     request       : 0..NumSteps,       \* step whose request_msg_id is stored
     callback      : CallbackStatus,
     event         : EventId]

Absent ==
    [status        |-> "ABSENT",
     currentStep   |-> 0,
     steps         |-> [i \in Step |-> "PENDING"],
     errorStep     |-> 0,
     errorType     |-> "none",
     kernel        |-> NoKernel,
     request       |-> 0,
     callback      |-> "NOT_REQUESTED",
     event         |-> "none"]

BuildInitialState == [Absent EXCEPT !.status = "QUEUED"]

IsTerminal(st) == st.status \in TerminalStatus

------------------------------------------------------------------------------

MarkRunning(st) == [st EXCEPT !.status = "RUNNING"]

\* Mutant of BindJupyter: the kernel is not stored.
BindJupyterForgotten(st, k) == st

BindJupyter(st, k) == [st EXCEPT !.kernel = k]

SetRequestMsgId(st, i) == [st EXCEPT !.request = i]

MarkStepRunning(st, i) ==
    [st EXCEPT !.steps = [@ EXCEPT ![i] = "RUNNING"], !.currentStep = i]

MarkStepSucceeded(st, i) == [st EXCEPT !.steps = [@ EXCEPT ![i] = "SUCCEEDED"]]

\* A failed step also fails the execution, whatever stop_on_error says.
MarkStepFailed(st, i) ==
    [st EXCEPT !.steps = [@ EXCEPT ![i] = "FAILED"],
               !.status    = "FAILED",
               !.errorStep = i,
               !.errorType = "CodeExecutionError"]

\* Neither the steps nor error_step_id nor current_step_id are touched.
MarkInfrastructureFailed(st) ==
    [st EXCEPT !.status = "FAILED", !.errorType = "KernelLost"]

MarkSucceeded(st) ==
    [st EXCEPT !.status = "SUCCEEDED", !.currentStep = 0]

\* Mutant of MarkCallbackPending: the event id is not stored.
MarkCallbackPendingOnly(st, eventId) == [st EXCEPT !.callback = "PENDING"]

MarkCallbackPending(st, eventId) ==
    [st EXCEPT !.callback = "PENDING", !.event = eventId]

\* Only counter and error text change, but the whole document is written.
RecordCallbackAttempt(st) == st

MarkCallbackDelivered(st) == [st EXCEPT !.callback = "DELIVERED"]

MarkCallbackFailed(st) == [st EXCEPT !.callback = "FAILED"]
==============================================================================
