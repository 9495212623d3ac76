------------------------- MODULE ExecutionProcessing -------------------------
(***************************************************************************)
(* The life of a submitted execution: atomic submission, delivery and      *)
(* redelivery of its command through the Redis consumer group, the         *)
(* asyncio task that ExecutionWorker starts for a delivery and the program *)
(* that task runs (ExecutionProcessor.execute, ExecutionService.execute,   *)
(* JupyterSessionRunner.run, CallbackService.deliver), up to XACK.         *)
(*                                                                         *)
(* Processes: every worker process runs up to MaxConcurrency tasks; tasks  *)
(* of one worker and of different workers interleave at every await, that  *)
(* is between any two commands sent to Redis, Jupyter or the agent.  A     *)
(* task that ends without XACK leaves its command in the pending entries   *)
(* list (PEL), where XAUTOCLAIM finds it once it is idle for               *)
(* redis_pending_idle_ms.                                                  *)
(*                                                                         *)
(* Not here: the worker's own loop and its shutdown, the XAUTOCLAIM        *)
(* cursor, the messages of one Jupyter request and their encoding.         *)
(***************************************************************************)
EXTENDS ExecutionRepository, Sequences, FiniteSets

CONSTANTS
    Executions,      \* execution ids that clients submit
    NoExecution,     \* the job of a free task slot
    Workers,         \* worker processes, one consumer name each
    MaxConcurrency,  \* task slots of a worker
    StopOnError,     \* the executions submitted with stop_on_error = True
    MaxAttempts,     \* callback_max_attempts
    SlowPhases,      \* phases in which a command may outlast the idle limit
    MaxSubmissions,  \* bound on the executions submitted in a behaviour
    MaxFaults        \* bound on the infrastructure faults of a behaviour

Task == Workers \X (1..MaxConcurrency)

(***************************************************************************)
(* The phases of a task, named after the call the task is awaiting.        *)
(***************************************************************************)
StartPhases == {"processor_get", "service_get", "mark_running"}
SessionPhases == {"create_session", "connect_channels", "bind_jupyter"}
StepPhases == {"mark_step_running", "set_request_msg_id", "send", "recv",
               "mark_step_succeeded", "mark_step_failed"}
ClosePhases == {"mark_succeeded", "final_get", "delete_session"}
RecoverPhases == {"recover_get", "get_kernel", "mark_infrastructure_failed"}
CallbackPhases == {"mark_callback_pending", "callback_send",
                   "record_success", "record_failure",
                   "mark_callback_delivered", "mark_callback_failed",
                   "acknowledge"}
\* The phases between mark_running and the end of the Jupyter session.
DriverPhases == SessionPhases \cup StepPhases \cup ClosePhases
Phases == StartPhases \cup DriverPhases \cup RecoverPhases \cup CallbackPhases

\* Repository methods that GET the document, change it and SET it.
SavePhases == {"mark_running", "bind_jupyter", "mark_step_running",
               "set_request_msg_id", "mark_step_succeeded",
               "mark_step_failed", "mark_succeeded",
               "mark_infrastructure_failed", "mark_callback_pending",
               "record_success", "record_failure",
               "mark_callback_delivered", "mark_callback_failed"}
RedisPhases ==
    SavePhases \cup {"processor_get", "service_get", "recover_get",
                     "final_get", "acknowledge"}

ASSUME ConcurrencyAssumption == MaxConcurrency \in Nat \ {0}
ASSUME AttemptsAssumption == MaxAttempts \in Nat \ {0}
ASSUME BoundsAssumption == MaxSubmissions \in Nat /\ MaxFaults \in Nat
ASSUME StopOnErrorAssumption == StopOnError \subseteq Executions
ASSUME SlowPhasesAssumption == SlowPhases \subseteq Phases
ASSUME NoExecutionAssumption == NoExecution \notin Executions

VARIABLES
    store,      \* Redis: the state document of every execution
    stream,     \* Redis: the commands added to the stream
    delivered,  \* Redis: how many of them the consumer group was given
    pending,    \* Redis: delivered commands that are not acknowledged (PEL)
    stale,      \* Redis: pending commands idle beyond redis_pending_idle_ms
    task,       \* workers: the task slots
    kernel,     \* Jupyter: life of each kernel (and of its session)
    requests,   \* Jupyter: execute_requests kernels received, per execution
    inbox,      \* agent: callbacks received
    faults      \* infrastructure faults so far

redisVars == <<store, stream, delivered, pending, stale>>
vars == <<redisVars, task, kernel, requests, inbox, faults>>

TaskState ==
    [pc      : Phases \cup {"free"},
     job     : Executions \cup {NoExecution},
     st      : ExecutionState,        \* document read by the GET in progress
     step    : 0..NumSteps,           \* step the loop is at
     kernel  : Kernels \cup {NoKernel},
     failed  : BOOLEAN,               \* has_failed_step
     event   : EventId,               \* event_id of the callback
     report  : EventId,               \* status the callback carries
     attempt : 0..MaxAttempts]

FreeTask ==
    [pc |-> "free", job |-> NoExecution, st |-> Absent, step |-> 0,
     kernel |-> NoKernel, failed |-> FALSE,
     event |-> "none", report |-> "none", attempt |-> 0]

Init ==
    /\ store = [e \in Executions |-> Absent]
    /\ stream = <<>>
    /\ delivered = 0
    /\ pending = {}
    /\ stale = {}
    /\ task = [t \in Task |-> FreeTask]
    /\ kernel = [k \in Kernels |-> "unused"]
    /\ requests = [e \in Executions |-> <<>>]
    /\ inbox = {}
    /\ faults = 0

------------------------------------------------------------------------------
(* Building blocks of the actions. *)

Free(t) == task[t].pc = "free"
Loaded(t) == task[t].st # Absent
Become(t, next) == task' = [task EXCEPT ![t] = next]

Fault == faults < MaxFaults /\ faults' = faults + 1

(***************************************************************************)
(* A task that ends with an exception: the command is not acknowledged     *)
(* and, inside the Jupyter session, preserve_session keeps the kernel.     *)
(***************************************************************************)
End(t) == Become(t, FreeTask)

(***************************************************************************)
(* The second half of a repository method: SET of the changed document.    *)
(* Either the call returns and the task goes on, or SET was carried out    *)
(* but its reply is lost, which the task sees as an InfrastructureError.   *)
(***************************************************************************)
Save(t, phase, new, next) ==
    /\ task[t].pc = phase
    /\ Loaded(t)
    /\ store' = [store EXCEPT ![task[t].job] = new]
    /\ \/ Become(t, next) /\ UNCHANGED faults
       \/ Fault /\ End(t)
    /\ UNCHANGED <<stream, delivered, pending, stale, kernel, requests, inbox>>

\* The same task in another phase, with no document read yet.
At(t, phase) == [task[t] EXCEPT !.pc = phase, !.st = Absent]

Start(e) == [FreeTask EXCEPT !.pc = "processor_get", !.job = e]

(***************************************************************************)
(* CallbackService.deliver up to its first await, on the state s that the  *)
(* processor obtained: nothing to do after DELIVERED, ValueError (the task *)
(* ends unacknowledged) for a state that is not terminal.  The event id    *)
(* is derived from s, the callback itself later from a newer document.     *)
(***************************************************************************)
DeliveryEvent(s) == IF s.event # "none" THEN s.event ELSE s.status

Deliver(e, s) ==
    IF s.callback = "DELIVERED"
    THEN [FreeTask EXCEPT !.pc = "acknowledge", !.job = e]
    ELSE IF IsTerminal(s)
    THEN [FreeTask EXCEPT !.pc = "mark_callback_pending", !.job = e,
                          !.event = DeliveryEvent(s)]
    ELSE FreeTask

------------------------------------------------------------------------------
(* Submission. *)

MaySubmit == Cardinality({e \in Executions : store[e] # Absent}) < MaxSubmissions

(***************************************************************************)
(* POST /executions: the Lua script creates the document and adds the      *)
(* command in one step.  A client that gets 503 because the reply was lost *)
(* causes the same step; a second submission of the id gets 409 and        *)
(* changes nothing.                                                        *)
(***************************************************************************)
Submit(e) ==
    /\ store[e] = Absent
    /\ MaySubmit
    /\ store' = [store EXCEPT ![e] = BuildInitialState]
    /\ stream' = Append(stream, e)
    /\ UNCHANGED <<delivered, pending, stale, task, kernel, requests, inbox,
                   faults>>

\* XADD fails after SET: Redis does not roll the script back.
SubmitWithoutXadd(e) ==
    /\ store[e] = Absent
    /\ MaySubmit
    /\ Fault
    /\ store' = [store EXCEPT ![e] = BuildInitialState]
    /\ UNCHANGED <<stream, delivered, pending, stale, task, kernel, requests,
                   inbox>>

------------------------------------------------------------------------------
(* Delivery of commands to tasks. *)

(***************************************************************************)
(* XREADGROUP hands out the next command.  With its reply lost, the        *)
(* command is pending although no task was created.                        *)
(***************************************************************************)
Consume(t) ==
    /\ Free(t)
    /\ delivered < Len(stream)
    /\ delivered' = delivered + 1
    /\ pending' = pending \cup {stream[delivered + 1]}
    /\ \/ Become(t, Start(stream[delivered + 1])) /\ UNCHANGED faults
       \/ Fault /\ UNCHANGED task
    /\ UNCHANGED <<store, stream, stale, kernel, requests, inbox>>

(***************************************************************************)
(* The idle time of a pending command passes redis_pending_idle_ms.  Idle  *)
(* time counts from the delivery and nothing renews it while a task works, *)
(* so a working task may lose the race, but only in a phase that can be    *)
(* reached after that time: SlowPhases is the assumption on timing.        *)
(***************************************************************************)
BecomeStale(e) ==
    /\ e \in pending \ stale
    /\ \A t \in Task : task[t].job = e => task[t].pc \in SlowPhases
    /\ stale' = stale \cup {e}
    /\ UNCHANGED <<store, stream, delivered, pending, task, kernel, requests,
                   inbox, faults>>

(***************************************************************************)
(* XAUTOCLAIM gives a stale command to a worker, be it the one that        *)
(* already works on it, and resets its idle time.                          *)
(***************************************************************************)
Claim(t, e) ==
    /\ Free(t)
    /\ e \in stale
    /\ stale' = stale \ {e}
    /\ \/ Become(t, Start(e)) /\ UNCHANGED faults
       \/ Fault /\ UNCHANGED task
    /\ UNCHANGED <<store, stream, delivered, pending, kernel, requests, inbox>>

------------------------------------------------------------------------------
(* ExecutionProcessor.execute and the head of ExecutionService.execute. *)

\* Mutant of ProcessorNext: recovers whatever was started, not what is RUNNING.
ProcessorNextByKernel(e, s) ==
    CASE s.kernel # NoKernel /\ s.callback # "DELIVERED"
                            -> [Start(e) EXCEPT !.pc = "recover_get"]
      [] s.status = "QUEUED" -> [Start(e) EXCEPT !.pc = "service_get"]
      [] OTHER               -> Deliver(e, s)

\* The three-way branch on the state the processor reads.
ProcessorNext(e, s) ==
    CASE s.status = "RUNNING" -> [Start(e) EXCEPT !.pc = "recover_get"]
      [] s.status = "QUEUED"  -> [Start(e) EXCEPT !.pc = "service_get"]
      [] OTHER                -> Deliver(e, s)

ProcessorGet(t) ==
    /\ task[t].pc = "processor_get"
    /\ Become(t, ProcessorNext(task[t].job, store[task[t].job]))
    /\ UNCHANGED <<redisVars, kernel, requests, inbox, faults>>

\* The second read: RUNNING now raises instead of starting a second run.
ServiceNext(e, s) ==
    CASE s.status = "RUNNING" -> FreeTask
      [] s.status = "QUEUED"  -> [Start(e) EXCEPT !.pc = "mark_running"]
      [] OTHER                -> Deliver(e, s)

ServiceGet(t) ==
    /\ task[t].pc = "service_get"
    /\ Become(t, ServiceNext(task[t].job, store[task[t].job]))
    /\ UNCHANGED <<redisVars, kernel, requests, inbox, faults>>

\* The first half of every repository method: GET of the whole document.
RepositoryGet(t) ==
    /\ task[t].pc \in SavePhases
    /\ ~Loaded(t)
    /\ Become(t, [task[t] EXCEPT !.st = store[task[t].job]])
    /\ UNCHANGED <<redisVars, kernel, requests, inbox, faults>>

(***************************************************************************)
(* A RedisError in any call of a task: nothing was changed, the exception  *)
(* ends the task (InfrastructureError: no XACK, session preserved).        *)
(***************************************************************************)
RedisError(t) ==
    /\ task[t].pc \in RedisPhases
    /\ Fault
    /\ End(t)
    /\ UNCHANGED <<redisVars, kernel, requests, inbox>>

SetRunning(t) ==
    Save(t, "mark_running", MarkRunning(task[t].st), At(t, "create_session"))

------------------------------------------------------------------------------
(* The Jupyter session. *)

(***************************************************************************)
(* POST /api/sessions creates a session with a fresh kernel; a lost reply  *)
(* leaves a kernel nobody knows about.                                     *)
(***************************************************************************)
CreateSession(t) ==
    /\ task[t].pc = "create_session"
    /\ \E k \in Kernels :
          /\ kernel[k] = "unused"
          /\ kernel' = [kernel EXCEPT ![k] = "up"]
          /\ \/ /\ Become(t, [task[t] EXCEPT !.pc = "connect_channels",
                                             !.kernel = k])
                /\ UNCHANGED faults
             \/ Fault /\ End(t)
    /\ UNCHANGED <<redisVars, requests, inbox>>

\* The WebSocket of a kernel that is gone cannot be opened.
ConnectChannels(t) ==
    /\ task[t].pc = "connect_channels"
    /\ IF kernel[task[t].kernel] = "up"
       THEN Become(t, At(t, "bind_jupyter"))
       ELSE End(t)
    /\ UNCHANGED <<redisVars, kernel, requests, inbox, faults>>

\* An HTTP or WebSocket failure before anything reached a kernel.
JupyterError(t) ==
    /\ task[t].pc \in {"create_session", "connect_channels", "send",
                       "get_kernel"}
    /\ Fault
    /\ End(t)
    /\ UNCHANGED <<redisVars, kernel, requests, inbox>>

SetBinding(t) ==
    Save(t, "bind_jupyter", BindJupyter(task[t].st, task[t].kernel),
         [At(t, "mark_step_running") EXCEPT !.step = 1])

------------------------------------------------------------------------------
(* The step loop. *)

\* Mutant of SetStepRunning: the request is sent before its id is stored.
SetStepRunningUnrecorded(t) ==
    Save(t, "mark_step_running", MarkStepRunning(task[t].st, task[t].step),
         At(t, "send"))

SetStepRunning(t) ==
    Save(t, "mark_step_running", MarkStepRunning(task[t].st, task[t].step),
         At(t, "set_request_msg_id"))

SetRequestStarted(t) ==
    Save(t, "set_request_msg_id", SetRequestMsgId(task[t].st, task[t].step),
         At(t, "send"))

\* A frame sent to a kernel that is gone disappears in the socket buffer.
Send(t) ==
    LET e == task[t].job
    IN /\ task[t].pc = "send"
       /\ requests' =
             IF kernel[task[t].kernel] = "up"
             THEN [requests EXCEPT ![e] =
                      Append(@, [step   |-> task[t].step,
                                 kernel |-> task[t].kernel])]
             ELSE requests
       /\ Become(t, At(t, "recv"))
       /\ UNCHANGED <<redisVars, kernel, inbox, faults>>

\* The kernel got the request of the current step, so it may answer it.
Received(t) ==
    LET sent == requests[task[t].job]
    IN /\ sent # <<>>
       /\ sent[Len(sent)] = [step |-> task[t].step, kernel |-> task[t].kernel]

\* execute_reply and idle arrived: the collector reports ok or an error.
RecvReply(t) ==
    /\ task[t].pc = "recv"
    /\ Received(t)
    /\ \/ Become(t, At(t, "mark_step_succeeded"))
       \/ Become(t, At(t, "mark_step_failed"))
    /\ UNCHANGED <<redisVars, kernel, requests, inbox, faults>>

\* asyncio.timeout fires; the interrupt is best effort, no state depends on it.
RecvTimeout(t) ==
    /\ task[t].pc = "recv"
    /\ Become(t, At(t, "mark_step_failed"))
    /\ UNCHANGED <<redisVars, kernel, requests, inbox, faults>>

\* ConnectionClosed: by a fault, or because the kernel went away.
RecvDisconnect(t) ==
    /\ task[t].pc = "recv"
    /\ IF kernel[task[t].kernel] = "up" THEN Fault ELSE UNCHANGED faults
    /\ End(t)
    /\ UNCHANGED <<redisVars, kernel, requests, inbox>>

\* Mutants of AfterStep: one step too many, one too few, failure forgotten.
AfterStepPastEnd(t, failed) ==
    IF task[t].step <= NumSteps
    THEN [At(t, "mark_step_running") EXCEPT !.step = @ + 1, !.failed = failed]
    ELSE At(t, "mark_succeeded")
AfterStepStopsEarly(t, failed) ==
    IF task[t].step + 1 < NumSteps
    THEN [At(t, "mark_step_running") EXCEPT !.step = @ + 1, !.failed = failed]
    ELSE At(t, IF failed THEN "final_get" ELSE "mark_succeeded")
AfterStepForgetsFailure(t, failed) ==
    IF task[t].step < NumSteps
    THEN [At(t, "mark_step_running") EXCEPT !.step = @ + 1]
    ELSE At(t, "mark_succeeded")

\* Where the loop over command.steps goes after a step.
AfterStep(t, failed) ==
    IF task[t].step < NumSteps
    THEN [At(t, "mark_step_running") EXCEPT !.step = @ + 1, !.failed = failed]
    ELSE [At(t, IF failed THEN "final_get" ELSE "mark_succeeded")
             EXCEPT !.failed = failed]

SetStepSucceeded(t) ==
    Save(t, "mark_step_succeeded",
         MarkStepSucceeded(task[t].st, task[t].step),
         AfterStep(t, task[t].failed))

\* Mutants of SetStepFailed: stop_on_error ignored, session not closed.
SetStepFailedGoesOn(t) ==
    Save(t, "mark_step_failed",
         MarkStepFailed(task[t].st, task[t].step),
         AfterStep(t, TRUE))
SetStepFailedLeavesSession(t) ==
    LET new == MarkStepFailed(task[t].st, task[t].step)
    IN Save(t, "mark_step_failed", new,
            IF task[t].job \in StopOnError
            THEN Deliver(task[t].job, new)
            ELSE AfterStep(t, TRUE))

SetStepFailed(t) ==
    LET new == MarkStepFailed(task[t].st, task[t].step)
    IN Save(t, "mark_step_failed", new,
            IF task[t].job \in StopOnError
            THEN [task[t] EXCEPT !.pc = "delete_session", !.st = new]
            ELSE AfterStep(t, TRUE))

SetSucceeded(t) ==
    LET new == MarkSucceeded(task[t].st)
    IN Save(t, "mark_succeeded", new,
            [task[t] EXCEPT !.pc = "delete_session", !.st = new])

\* With a failed step the outcome is whatever the document says now.
FinalGet(t) ==
    /\ task[t].pc = "final_get"
    /\ Become(t, [task[t] EXCEPT !.pc = "delete_session",
                                 !.st = store[task[t].job]])
    /\ UNCHANGED <<redisVars, kernel, requests, inbox, faults>>

\* DELETE /api/sessions; a failure is logged and the task goes on.
DeleteSession(t) ==
    /\ task[t].pc = "delete_session"
    /\ \/ /\ kernel' = [kernel EXCEPT ![task[t].kernel] = "gone"]
          /\ UNCHANGED faults
       \/ Fault /\ UNCHANGED kernel
    /\ Become(t, Deliver(task[t].job, task[t].st))
    /\ UNCHANGED <<redisVars, requests, inbox>>

\* Culling, a crash or a restart of the Jupyter server ends a kernel.
KernelVanishes(k) ==
    /\ kernel[k] = "up"
    /\ kernel' = [kernel EXCEPT ![k] = "gone"]
    /\ UNCHANGED <<redisVars, task, requests, inbox, faults>>

------------------------------------------------------------------------------
(* ExecutionProcessor._recover_running. *)

\* Mutant of RecoverGet: starts the execution again if no kernel is bound.
RecoverGetRestarts(t) ==
    LET k == store[task[t].job].kernel
    IN /\ task[t].pc = "recover_get"
       /\ IF k = NoKernel
          THEN Become(t, [task[t] EXCEPT !.pc = "mark_running"])
          ELSE Become(t, [task[t] EXCEPT !.pc = "get_kernel", !.kernel = k])
       /\ UNCHANGED <<redisVars, kernel, requests, inbox, faults>>

\* The state is read again, but only its kernel_id is looked at.
RecoverGet(t) ==
    LET k == store[task[t].job].kernel
    IN /\ task[t].pc = "recover_get"
       /\ IF k = NoKernel
          THEN End(t)
          ELSE Become(t, [task[t] EXCEPT !.pc = "get_kernel", !.kernel = k])
       /\ UNCHANGED <<redisVars, kernel, requests, inbox, faults>>

\* Mutants of GetKernel: 404 not told from other answers, either way.
GetKernelNeverLost(t) ==
    /\ task[t].pc = "get_kernel"
    /\ End(t)
    /\ UNCHANGED <<redisVars, kernel, requests, inbox, faults>>
GetKernelAlwaysLost(t) ==
    /\ task[t].pc = "get_kernel"
    /\ Become(t, At(t, "mark_infrastructure_failed"))
    /\ UNCHANGED <<redisVars, kernel, requests, inbox, faults>>

\* Only 404 goes on; a live kernel leaves the command pending.
GetKernel(t) ==
    /\ task[t].pc = "get_kernel"
    /\ IF kernel[task[t].kernel] = "gone"
       THEN Become(t, At(t, "mark_infrastructure_failed"))
       ELSE End(t)
    /\ UNCHANGED <<redisVars, kernel, requests, inbox, faults>>

SetInfrastructureFailed(t) ==
    LET new == MarkInfrastructureFailed(task[t].st)
    IN Save(t, "mark_infrastructure_failed", new, Deliver(task[t].job, new))

------------------------------------------------------------------------------
(* CallbackService.deliver and XACK. *)

\* ExecutionCallback.from_state raises ValueError for a non-terminal state.
SetCallbackPending(t) ==
    LET new == MarkCallbackPending(task[t].st, task[t].event)
    IN Save(t, "mark_callback_pending", new,
            IF IsTerminal(new)
            THEN [At(t, "callback_send") EXCEPT !.report = new.status,
                                                !.attempt = 1]
            ELSE FreeTask)

\* ExecutionCallback.from_state, of the fields that matter to the agent.
ExecutionCallback(t) == [job    |-> task[t].job,
                         event  |-> task[t].event,
                         status |-> task[t].report]

\* Mutant of SendCallback: a failed POST counts as delivered.
SendCallbackUnchecked(t) ==
    /\ task[t].pc = "callback_send"
    /\ inbox' \in {inbox, inbox \cup {ExecutionCallback(t)}}
    /\ Become(t, At(t, "record_success"))
    /\ UNCHANGED <<redisVars, kernel, requests, faults>>

\* The POST is answered with success, or fails before or after it arrived.
SendCallback(t) ==
    /\ task[t].pc = "callback_send"
    /\ \/ /\ inbox' = inbox \cup {ExecutionCallback(t)}
          /\ Become(t, At(t, "record_success"))
       \/ /\ inbox' \in {inbox, inbox \cup {ExecutionCallback(t)}}
          /\ Become(t, At(t, "record_failure"))
    /\ UNCHANGED <<redisVars, kernel, requests, faults>>

RecordSuccess(t) ==
    Save(t, "record_success", RecordCallbackAttempt(task[t].st),
         At(t, "mark_callback_delivered"))

\* Mutant of RecordFailure: gives up without mark_callback_failed.
RecordFailureGivesUp(t) ==
    Save(t, "record_failure", RecordCallbackAttempt(task[t].st),
         IF task[t].attempt < MaxAttempts
         THEN [At(t, "callback_send") EXCEPT !.attempt = @ + 1]
         ELSE At(t, "acknowledge"))

\* Retry with back-off until callback_max_attempts.
RecordFailure(t) ==
    Save(t, "record_failure", RecordCallbackAttempt(task[t].st),
         IF task[t].attempt < MaxAttempts
         THEN [At(t, "callback_send") EXCEPT !.attempt = @ + 1]
         ELSE At(t, "mark_callback_failed"))

SetCallbackDelivered(t) ==
    Save(t, "mark_callback_delivered", MarkCallbackDelivered(task[t].st),
         At(t, "acknowledge"))

SetCallbackFailed(t) ==
    Save(t, "mark_callback_failed", MarkCallbackFailed(task[t].st),
         At(t, "acknowledge"))

\* XACK removes the entry whoever owns it; with the reply lost, nothing more.
Acknowledge(t) ==
    /\ task[t].pc = "acknowledge"
    /\ pending' = pending \ {task[t].job}
    /\ stale' = stale \ {task[t].job}
    /\ End(t)
    /\ UNCHANGED <<store, stream, delivered, kernel, requests, inbox, faults>>

------------------------------------------------------------------------------
(***************************************************************************)
(* A worker process dies, or its tasks are cancelled on shutdown: all its  *)
(* tasks are gone, kernels and Redis are as the tasks left them.  A        *)
(* restarted process is a worker with free slots.                          *)
(***************************************************************************)
Crash(w) ==
    /\ \E t \in Task : t[1] = w /\ ~Free(t)
    /\ Fault
    /\ task' = [t \in Task |-> IF t[1] = w THEN FreeTask ELSE task[t]]
    /\ UNCHANGED <<redisVars, kernel, requests, inbox>>

ServiceStep(t) ==
    \/ ProcessorGet(t) \/ ServiceGet(t) \/ RepositoryGet(t) \/ SetRunning(t)

SessionStep(t) ==
    \/ CreateSession(t) \/ ConnectChannels(t) \/ SetBinding(t)
    \/ SetStepRunning(t) \/ SetRequestStarted(t) \/ Send(t)
    \/ RecvReply(t) \/ RecvTimeout(t) \/ RecvDisconnect(t)
    \/ SetStepSucceeded(t) \/ SetStepFailed(t) \/ SetSucceeded(t)
    \/ FinalGet(t) \/ DeleteSession(t)

RecoverStep(t) ==
    \/ RecoverGet(t) \/ GetKernel(t) \/ SetInfrastructureFailed(t)

CallbackStep(t) ==
    \/ SetCallbackPending(t) \/ SendCallback(t) \/ RecordSuccess(t)
    \/ RecordFailure(t) \/ SetCallbackDelivered(t) \/ SetCallbackFailed(t)
    \/ Acknowledge(t)

TaskStep(t) ==
    ServiceStep(t) \/ SessionStep(t) \/ RecoverStep(t) \/ CallbackStep(t)

Next ==
    \/ \E e \in Executions :
          Submit(e) \/ SubmitWithoutXadd(e) \/ BecomeStale(e)
    \/ \E t \in Task :
          \/ Consume(t)
          \/ \E e \in Executions : Claim(t, e)
          \/ TaskStep(t)
          \/ RedisError(t)
          \/ JupyterError(t)
    \/ \E k \in Kernels : KernelVanishes(k)
    \/ \E w \in Workers : Crash(w)

Spec == Init /\ [][Next]_vars

(***************************************************************************)
(* Fairness.  A started task is resumed by its event loop after every      *)
(* await, and every await ends (socket and HTTP timeouts, asyncio.timeout  *)
(* around recv).  A worker with a free slot polls in a loop; it claims at  *)
(* most once in redis_claim_interval_seconds and reads the stream in the   *)
(* rounds between, so commands that are claimed again and again do not     *)
(* keep it from new ones (SF of Consume).  XAUTOCLAIM goes round the PEL   *)
(* with a cursor, so no stale command is passed over for ever (SF of       *)
(* Claim).  Time passes.  A kernel nobody uses is culled by the Jupyter    *)
(* server, an assumption on its configuration.                             *)
(***************************************************************************)
Fairness ==
    /\ \A t \in Task : WF_vars(TaskStep(t))
    /\ SF_vars(\E t \in Task : Consume(t))
    /\ \A e \in Executions :
          /\ WF_vars(BecomeStale(e))
          /\ SF_vars(\E t \in Task : Claim(t, e))
    /\ \A k \in Kernels : WF_vars(KernelVanishes(k))

FairSpec == Spec /\ Fairness

------------------------------------------------------------------------------
(* What a task may rely on and what must hold. *)

KernelLife == {"unused", "up", "gone"}
Request == [step : Step, kernel : Kernels]
Callback == [job : Executions, event : EventId, status : EventId]

\* A busy task has the data that its phase uses.
TaskOK(tk) ==
    /\ tk \in TaskState
    /\ tk.pc # "free" => tk.job \in Executions
    /\ tk.pc \in StepPhases => tk.step \in Step
    /\ tk.pc \in (DriverPhases \ {"create_session"}) \cup {"get_kernel"} =>
          tk.kernel \in Kernels

\* Every variable has its type.
TypeOK ==
    /\ store \in [Executions -> ExecutionState]
    /\ stream \in Seq(Executions)
    /\ delivered \in 0..Len(stream)
    /\ pending \subseteq Executions
    /\ stale \subseteq pending
    /\ task \in [Task -> TaskState]
    /\ \A t \in Task : TaskOK(task[t])
    /\ kernel \in [Kernels -> KernelLife]
    /\ requests \in [Executions -> Seq(Request)]
    /\ inbox \subseteq Callback
    /\ faults \in 0..MaxFaults

\* The command of e was delivered and acknowledged.
Acked(e) ==
    /\ e \notin pending
    /\ \E i \in 1..delivered : stream[i] = e

(***************************************************************************)
(* User code is never executed twice: whatever is redelivered, crashes or  *)
(* times out, the requests kernels received for an execution are its first *)
(* steps, each once, in order and all on the same kernel.  (The RUNNING    *)
(* guards of ExecutionProcessor.execute and ExecutionService.execute.)     *)
(***************************************************************************)
CodeRunsOnceInOrder ==
    \A e \in Executions : \A i \in DOMAIN requests[e] :
        requests[e][i] = [step |-> i, kernel |-> requests[e][1].kernel]

(***************************************************************************)
(* Code runs only on the kernel that the stored state names, so a worker   *)
(* that takes the execution over asks Jupyter about the right kernel.      *)
(***************************************************************************)
KernelBoundBeforeCode ==
    \A e \in Executions :
        requests[e] # <<>> => store[e].kernel = requests[e][1].kernel

(***************************************************************************)
(* _recover_running blames the kernel only for an execution whose bound    *)
(* kernel really is gone.                                                  *)
(***************************************************************************)
KernelLostIsTrue ==
    \A e \in Executions :
        store[e].errorType = "KernelLost" =>
            store[e].kernel # NoKernel /\ kernel[store[e].kernel] = "gone"

(***************************************************************************)
(* With stop_on_error no code of a later step reaches a kernel once a step *)
(* is recorded as failed.                                                  *)
(***************************************************************************)
StopsAtFailure ==
    \A e \in StopOnError : \A i \in Step :
        store[e].steps[i] = "FAILED" => Len(requests[e]) <= i

(***************************************************************************)
(* SUCCEEDED leaves no trace of a failure in the document: every step is   *)
(* recorded as succeeded and no error is.                                  *)
(***************************************************************************)
SucceededIsClean ==
    \A e \in Executions :
        store[e].status = "SUCCEEDED" =>
            /\ \A i \in Step : store[e].steps[i] = "SUCCEEDED"
            /\ store[e].errorType = "none"

(***************************************************************************)
(* A terminal status is never replaced, and with stop_on_error neither are *)
(* the step states, the failed step and the error it was stored with.      *)
(***************************************************************************)
OutcomeStable ==
    [][\A e \in Executions :
          IsTerminal(store[e]) =>
            /\ store'[e].status = store[e].status
            /\ e \in StopOnError =>
                  /\ store'[e].steps = store[e].steps
                  /\ store'[e].errorStep = store[e].errorStep
                  /\ store'[e].errorType = store[e].errorType]_vars

(***************************************************************************)
(* A command leaves the pending entries list only with its final state and *)
(* the fate of its callback recorded.                                      *)
(***************************************************************************)
AckedIsRecorded ==
    \A e \in Executions :
        Acked(e) =>
            /\ IsTerminal(store[e])
            /\ store[e].callback \in {"DELIVERED", "FAILED"}

(***************************************************************************)
(* Every callback the agent received reports the stored final status, also *)
(* when it is repeated, and its event id is the stored one: no two events  *)
(* per execution, no event with two meanings.                              *)
(***************************************************************************)
CallbackTellsOutcome ==
    \A c \in inbox :
        /\ c.status = store[c.job].status
        /\ c.event = store[c.job].event

\* callback_status DELIVERED is recorded only for an event the agent has.
DeliveredIsReceived ==
    \A e \in Executions :
        store[e].callback = "DELIVERED" =>
            \E c \in inbox : c.job = e /\ c.event = store[e].event

(***************************************************************************)
(* request_msg_id is stored before the request is sent, and no concurrent  *)
(* overwrite takes it back while the steps run: with stop_on_error the     *)
(* document never knows of fewer steps than the kernel.                    *)
(***************************************************************************)
RequestRecordedBeforeSend ==
    \A e \in StopOnError : Len(requests[e]) <= store[e].request

(***************************************************************************)
(* As long as nothing failed, an acknowledged execution has given its      *)
(* Jupyter session back.                                                   *)
(***************************************************************************)
SessionReleased ==
    \A e \in Executions :
        faults = 0 /\ Acked(e) /\ store[e].kernel # NoKernel =>
            kernel[store[e].kernel] = "gone"

(***************************************************************************)
(* A kernel that runs although no document names it and no task knows it   *)
(* (the reply to POST /api/sessions, the WebSocket or the binding failed)  *)
(* belongs to an execution that is still RUNNING without a binding: an     *)
(* execution that came to an end left no such kernel behind.               *)
(***************************************************************************)
LeakedKernels ==
    {k \in Kernels :
        /\ kernel[k] = "up"
        /\ \A e \in Executions : store[e].kernel # k
        /\ \A t \in Task : task[t].kernel # k}

LeakIsVisible ==
    Cardinality(LeakedKernels) <=
        Cardinality({e \in Executions :
            store[e].status = "RUNNING" /\ store[e].kernel = NoKernel})

(***************************************************************************)
(* An execution that is not retried by design: RUNNING without a kernel    *)
(* binding, which _recover_running leaves to manual reconciliation, or     *)
(* QUEUED without a command, after a failed XADD.                          *)
(***************************************************************************)
NeedsReconciliation(e) ==
    \/ store[e].status = "RUNNING" /\ store[e].kernel = NoKernel
    \/ store[e].status = "QUEUED" /\ \A i \in DOMAIN stream : stream[i] # e

(***************************************************************************)
(* Every submitted execution is in the end acknowledged for good, unless   *)
(* it is left to manual reconciliation: redelivery does not get stuck.     *)
(***************************************************************************)
EventuallySettled ==
    \A e \in Executions :
        <>[](store[e] = Absent \/ Acked(e) \/ NeedsReconciliation(e))
==============================================================================
