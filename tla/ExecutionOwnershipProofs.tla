----------------------- MODULE ExecutionOwnershipProofs -----------------------
(***************************************************************************)
(* User code never runs twice, for every number of workers, slots,         *)
(* executions, kernels, steps and faults, provided that a command does not *)
(* become stale before its task has left StartPhases.                      *)
(*                                                                         *)
(* The many actions of a task are first reduced to what they have in       *)
(* common (Frame, Writes, Arrives, Sends); the invariant is then proved    *)
(* layer by layer from that.                                               *)
(***************************************************************************)
EXTENDS ExecutionOwnership, TLAPS

------------------------------------------------------------------------------
(* Documents and tasks keep their types. *)

(***************************************************************************)
(* The repository methods turn a document into a document.                 *)
(***************************************************************************)
LEMMA DocumentTypes ==
    ASSUME NEW st \in ExecutionState, NEW i \in Step,
           NEW k \in Kernels \cup {NoKernel}, NEW ev \in EventId
    PROVE  /\ MarkRunning(st) \in ExecutionState
           /\ BindJupyter(st, k) \in ExecutionState
           /\ SetRequestMsgId(st, i) \in ExecutionState
           /\ MarkStepRunning(st, i) \in ExecutionState
           /\ MarkStepSucceeded(st, i) \in ExecutionState
           /\ MarkStepFailed(st, i) \in ExecutionState
           /\ MarkInfrastructureFailed(st) \in ExecutionState
           /\ MarkSucceeded(st) \in ExecutionState
           /\ MarkCallbackPending(st, ev) \in ExecutionState
           /\ RecordCallbackAttempt(st) \in ExecutionState
           /\ MarkCallbackDelivered(st) \in ExecutionState
           /\ MarkCallbackFailed(st) \in ExecutionState
    <1>a. 0 \in 0..NumSteps /\ i \in 0..NumSteps
          BY NumStepsAssumption DEF Step
    <1>b. st.steps \in [Step -> StepStatus]
          BY DEF ExecutionState
    <1> USE <1>a, <1>b DEF ExecutionState, ExecutionStatus, StepStatus,
          CallbackStatus, ErrorType, EventId, TerminalStatus
    <1>1. MarkRunning(st) \in ExecutionState
          BY DEF MarkRunning
    <1>2. BindJupyter(st, k) \in ExecutionState
          BY DEF BindJupyter
    <1>3. SetRequestMsgId(st, i) \in ExecutionState
          BY DEF SetRequestMsgId
    <1>4. MarkStepRunning(st, i) \in ExecutionState
          BY DEF MarkStepRunning
    <1>5. MarkStepSucceeded(st, i) \in ExecutionState
          BY DEF MarkStepSucceeded
    <1>6. MarkStepFailed(st, i) \in ExecutionState
          BY DEF MarkStepFailed
    <1>7. MarkInfrastructureFailed(st) \in ExecutionState
          BY DEF MarkInfrastructureFailed
    <1>8. MarkSucceeded(st) \in ExecutionState
          BY DEF MarkSucceeded
    <1>9. MarkCallbackPending(st, ev) \in ExecutionState
          BY DEF MarkCallbackPending
    <1>10. RecordCallbackAttempt(st) \in ExecutionState
          BY DEF RecordCallbackAttempt
    <1>11. MarkCallbackDelivered(st) \in ExecutionState
          BY DEF MarkCallbackDelivered
    <1>12. MarkCallbackFailed(st) \in ExecutionState
          BY DEF MarkCallbackFailed
    <1> QED BY <1>1, <1>2, <1>3, <1>4, <1>5, <1>6, <1>7, <1>8, <1>9, <1>10, <1>11, <1>12

LEMMA PlainDocumentTypes ==
    ASSUME NEW st \in ExecutionState
    PROVE  /\ MarkRunning(st) \in ExecutionState
           /\ MarkInfrastructureFailed(st) \in ExecutionState
           /\ MarkSucceeded(st) \in ExecutionState
           /\ RecordCallbackAttempt(st) \in ExecutionState
           /\ MarkCallbackDelivered(st) \in ExecutionState
           /\ MarkCallbackFailed(st) \in ExecutionState
    <1>1. 1 \in Step
          BY NumStepsAssumption DEF Step
    <1>2. "none" \in EventId /\ NoKernel \in Kernels \cup {NoKernel}
          BY DEF EventId
    <1> QED BY <1>1, <1>2, DocumentTypes

LEMMA InitialDocumentTypes ==
    Absent \in ExecutionState /\ BuildInitialState \in ExecutionState
    BY NumStepsAssumption
    DEF ExecutionState, ExecutionStatus, StepStatus, CallbackStatus, ErrorType,
        EventId, TerminalStatus, Step, Absent, BuildInitialState

LEMMA FreeTaskType == TaskOK(FreeTask)
    BY InitialDocumentTypes, NumStepsAssumption, AttemptsAssumption
    DEF TaskOK, FreeTask, TaskState, EventId, StepPhases, DriverPhases,
        SessionPhases, ClosePhases

(***************************************************************************)
(* A task moves to another phase and keeps its data.                       *)
(***************************************************************************)
LEMMA MoveType ==
    ASSUME NEW tk, TaskOK(tk), tk.pc # "free", NEW phase \in Phases,
           NEW st \in ExecutionState,
           phase \in StepPhases => tk.step \in Step,
           phase \in (DriverPhases \ {"create_session"}) \cup {"get_kernel"} =>
               tk.kernel \in Kernels
    PROVE  TaskOK([tk EXCEPT !.pc = phase, !.st = st])
    BY DEF TaskOK, TaskState

LEMMA AtType ==
    ASSUME NEW t, TaskOK(task[t]), task[t].pc # "free", NEW phase \in Phases,
           phase \in StepPhases => task[t].step \in Step,
           phase \in (DriverPhases \ {"create_session"}) \cup {"get_kernel"} =>
               task[t].kernel \in Kernels
    PROVE  TaskOK(At(t, phase))
    BY MoveType, InitialDocumentTypes DEF At

LEMMA StartType ==
    ASSUME NEW e \in Executions,
           NEW phase \in StartPhases \cup {"recover_get", "acknowledge"}
    PROVE  /\ TaskOK(Start(e))
           /\ TaskOK([Start(e) EXCEPT !.pc = phase])
    BY FreeTaskType
    DEF Start, FreeTask, TaskOK, TaskState, Phases, StartPhases, RecoverPhases,
        CallbackPhases, StepPhases, DriverPhases, SessionPhases, ClosePhases

LEMMA DeliverType ==
    ASSUME NEW e \in Executions, NEW s \in ExecutionState
    PROVE  TaskOK(Deliver(e, s))
    <1>1. CASE s.callback = "DELIVERED"
          BY <1>1, StartType DEF Deliver, Start
    <1>2. CASE s.callback # "DELIVERED" /\ IsTerminal(s)
          <2>1. DeliveryEvent(s) \in EventId
                BY <1>2 DEF DeliveryEvent, IsTerminal, EventId, ExecutionState
          <2>2. TaskOK([FreeTask EXCEPT !.pc = "mark_callback_pending",
                                        !.job = e,
                                        !.event = DeliveryEvent(s)])
                BY <2>1, FreeTaskType
                DEF FreeTask, TaskOK, TaskState, Phases, CallbackPhases,
                    StepPhases, DriverPhases, SessionPhases, ClosePhases
          <2> QED BY <1>2, <2>2 DEF Deliver
    <1>3. CASE s.callback # "DELIVERED" /\ ~IsTerminal(s)
          BY <1>3, FreeTaskType DEF Deliver
    <1> QED BY <1>1, <1>2, <1>3

(***************************************************************************)
(* One task changes, to a task of the right type.                          *)
(***************************************************************************)
LEMMA BecomeType ==
    ASSUME TypeOK, NEW t \in Task, NEW next, TaskOK(next), Become(t, next)
    PROVE  task' \in [Task -> TaskState] /\ \A u \in Task : TaskOK(task'[u])
    BY DEF TypeOK, Become, TaskOK

LEMMA SaveType ==
    ASSUME TypeOK, NEW t \in Task, NEW phase, phase # "free",
           NEW new \in ExecutionState, NEW next, TaskOK(next),
           Save(t, phase, new, next)
    PROVE  TypeOK'
    <1>1. task[t].job \in Executions
          BY DEF Save, TypeOK, TaskOK
    <1>2. store' \in [Executions -> ExecutionState]
          BY <1>1 DEF Save, TypeOK
    <1>3. task' \in [Task -> TaskState] /\ \A u \in Task : TaskOK(task'[u])
          BY BecomeType, FreeTaskType DEF Save, End
    <1>4. faults' \in 0..MaxFaults
          BY BoundsAssumption DEF Save, Fault, TypeOK
    <1> QED BY <1>2, <1>3, <1>4 DEF Save, TypeOK

(***************************************************************************)
(* Type correctness.                                                       *)
(***************************************************************************)
LEMMA TypeInit == Init => TypeOK
    BY InitialDocumentTypes, FreeTaskType, BoundsAssumption
    DEF Init, TypeOK, KernelLife, Callback, TaskOK

LEMMA TypeSubmission ==
    ASSUME TypeOK, NEW e \in Executions, Submit(e) \/ SubmitWithoutXadd(e)
    PROVE  TypeOK'
    <1>1. store' \in [Executions -> ExecutionState]
          BY InitialDocumentTypes DEF Submit, SubmitWithoutXadd, TypeOK
    <1>2. stream' \in Seq(Executions) /\ delivered' \in 0..Len(stream')
          <2>1. CASE Submit(e)
                <3>1. Len(stream') = Len(stream) + 1
                      BY <2>1 DEF Submit, TypeOK
                <3> QED BY <2>1, <3>1 DEF Submit, TypeOK
          <2>2. CASE SubmitWithoutXadd(e)
                BY <2>2 DEF SubmitWithoutXadd, TypeOK
          <2> QED BY <2>1, <2>2
    <1>3. faults' \in 0..MaxFaults
          BY BoundsAssumption DEF Submit, SubmitWithoutXadd, Fault, TypeOK
    <1> QED BY <1>1, <1>2, <1>3 DEF Submit, SubmitWithoutXadd, TypeOK

LEMMA TypeDelivery ==
    ASSUME TypeOK, NEW t \in Task, NEW e \in Executions,
           Consume(t) \/ Claim(t, e) \/ BecomeStale(e)
    PROVE  TypeOK'
    <1>1. CASE Consume(t)
          <2>1. stream[delivered + 1] \in Executions
                BY <1>1 DEF Consume, TypeOK
          <2>2. task' \in [Task -> TaskState] /\ \A u \in Task : TaskOK(task'[u])
                BY <1>1, <2>1, StartType, BecomeType DEF Consume, TypeOK
          <2>3. faults' \in 0..MaxFaults
                BY <1>1, BoundsAssumption DEF Consume, Fault, TypeOK
          <2>4. /\ delivered' \in 0..Len(stream')
                /\ pending' \subseteq Executions
                /\ stale' \subseteq pending'
                BY <1>1, <2>1 DEF Consume, TypeOK
          <2> QED BY <1>1, <2>2, <2>3, <2>4 DEF Consume, TypeOK
    <1>2. CASE Claim(t, e)
          <2>1. task' \in [Task -> TaskState] /\ \A u \in Task : TaskOK(task'[u])
                BY <1>2, StartType, BecomeType DEF Claim, TypeOK
          <2>2. faults' \in 0..MaxFaults
                BY <1>2, BoundsAssumption DEF Claim, Fault, TypeOK
          <2> QED BY <1>2, <2>1, <2>2 DEF Claim, TypeOK
    <1>3. CASE BecomeStale(e)
          BY <1>3 DEF BecomeStale, TypeOK
    <1> QED BY <1>1, <1>2, <1>3

(***************************************************************************)
(* A task moves on while Redis, the agent and the fault count stay or      *)
(* change within their types.                                              *)
(***************************************************************************)
LEMMA TypeFrame ==
    ASSUME TypeOK, NEW t \in Task, NEW next, TaskOK(next), Become(t, next),
           UNCHANGED <<store, stream, delivered>>,
           pending' \subseteq pending, stale' \subseteq stale \cap pending',
           kernel' \in [Kernels -> KernelLife],
           requests' \in [Executions -> Seq(Request)],
           inbox' \subseteq Callback,
           faults' = faults \/ Fault
    PROVE  TypeOK'
    <1>1. task' \in [Task -> TaskState] /\ \A u \in Task : TaskOK(task'[u])
          BY BecomeType
    <1>2. faults' \in 0..MaxFaults
          BY BoundsAssumption DEF Fault, TypeOK
    <1> QED BY <1>1, <1>2 DEF TypeOK

LEMMA TypeService ==
    ASSUME TypeOK, NEW t \in Task, ServiceStep(t)
    PROVE  TypeOK'
    <1> USE DEF redisVars
    <1>1. TaskOK(task[t]) /\ store \in [Executions -> ExecutionState]
          BY DEF TypeOK
    <1>2. CASE ProcessorGet(t)
          <2>1. task[t].job \in Executions
                BY <1>1, <1>2 DEF ProcessorGet, TaskOK
          <2>2. TaskOK(ProcessorNext(task[t].job, store[task[t].job]))
                BY <1>1, <2>1, StartType, DeliverType
                DEF ProcessorNext, StartPhases
          <2> QED BY <1>2, <2>2, TypeFrame DEF ProcessorGet, TypeOK
    <1>3. CASE ServiceGet(t)
          <2>1. task[t].job \in Executions
                BY <1>1, <1>3 DEF ServiceGet, TaskOK
          <2>2. TaskOK(ServiceNext(task[t].job, store[task[t].job]))
                BY <1>1, <2>1, StartType, DeliverType, FreeTaskType
                DEF ServiceNext, StartPhases
          <2> QED BY <1>3, <2>2, TypeFrame DEF ServiceGet, TypeOK
    <1>4. CASE RepositoryGet(t)
          <2>1. task[t].job \in Executions /\ task[t].pc # "free"
                BY <1>1, <1>4 DEF RepositoryGet, SavePhases, TaskOK
          <2>2. TaskOK([task[t] EXCEPT !.st = store[task[t].job]])
                BY <1>1, <2>1 DEF TaskOK, TaskState
          <2> QED BY <1>4, <2>2, TypeFrame DEF RepositoryGet, TypeOK
    <1>5. CASE SetRunning(t)
          <2>1. MarkRunning(task[t].st) \in ExecutionState
                BY <1>1, PlainDocumentTypes DEF TaskOK, TaskState
          <2>2. TaskOK(At(t, "create_session"))
                BY <1>1, <1>5, AtType
                DEF SetRunning, Save, Phases, DriverPhases, SessionPhases,
                    StepPhases
          <2> QED BY <1>5, <2>1, <2>2, SaveType DEF SetRunning
    <1> QED BY <1>2, <1>3, <1>4, <1>5 DEF ServiceStep

LEMMA TypeSession ==
    ASSUME TypeOK, NEW t \in Task, SessionStep(t)
    PROVE  TypeOK'
    <1> USE DEF redisVars
    <1> DEFINE e == task[t].job
               st == task[t].st
    <1>1. /\ TaskOK(task[t])
          /\ store \in [Executions -> ExecutionState]
          /\ kernel \in [Kernels -> KernelLife]
          /\ requests \in [Executions -> Seq(Request)]
          BY DEF TypeOK
    <1>2. st \in ExecutionState
          BY <1>1 DEF TaskOK, TaskState
    <1>3. ASSUME task[t].pc # "free", NEW phase \in Phases,
                 phase \in StepPhases => task[t].step \in Step,
                 phase \in DriverPhases \ {"create_session"} =>
                     task[t].kernel \in Kernels,
                 phase # "get_kernel"
          PROVE  TaskOK(At(t, phase))
          BY <1>1, <1>3, AtType
    <1> USE DEF Phases, DriverPhases, SessionPhases, StepPhases, ClosePhases
    <1>4. CASE CreateSession(t)
          <2>1. PICK k \in Kernels :
                    /\ kernel' = [kernel EXCEPT ![k] = "up"]
                    /\ \/ /\ Become(t, [task[t] EXCEPT
                                            !.pc = "connect_channels",
                                            !.kernel = k])
                          /\ UNCHANGED faults
                       \/ Fault /\ End(t)
                BY <1>4 DEF CreateSession
          <2>2. TaskOK([task[t] EXCEPT !.pc = "connect_channels",
                                       !.kernel = k])
                BY <1>1, <1>4 DEF CreateSession, TaskOK, TaskState
          <2>3. kernel' \in [Kernels -> KernelLife]
                BY <1>1, <2>1 DEF KernelLife
          <2> QED BY <1>1, <1>4, <2>1, <2>2, <2>3, FreeTaskType, TypeFrame
                  DEF CreateSession, End, TypeOK
    <1>5. CASE ConnectChannels(t)
          <2>1. TaskOK(At(t, "bind_jupyter"))
                BY <1>1, <1>3, <1>5 DEF ConnectChannels, TaskOK
          <2> QED BY <1>1, <1>5, <2>1, FreeTaskType, TypeFrame
                  DEF ConnectChannels, End, TypeOK
    <1>6. CASE SetBinding(t)
          <2>1. TaskOK([At(t, "mark_step_running") EXCEPT !.step = 1])
                <3>1. 1 \in Step /\ 1 \in 0..NumSteps
                      BY NumStepsAssumption DEF Step
                <3> QED BY <1>1, <1>6, <3>1, InitialDocumentTypes
                        DEF SetBinding, Save, At, TaskOK, TaskState
          <2>2. BindJupyter(st, task[t].kernel) \in ExecutionState
                <3>1. 1 \in Step /\ "none" \in EventId
                      BY NumStepsAssumption DEF Step, EventId
                <3> QED BY <1>1, <1>2, <3>1, DocumentTypes
                        DEF TaskOK, TaskState
          <2> QED BY <1>6, <2>1, <2>2, SaveType DEF SetBinding
    <1>7. CASE SetStepRunning(t) \/ SetRequestStarted(t)
          <2>1. task[t].pc \in StepPhases /\ task[t].pc # "free"
                BY <1>7 DEF SetStepRunning, SetRequestStarted, Save
          <2>2. task[t].step \in Step /\ task[t].kernel \in Kernels
                BY <1>1, <2>1 DEF TaskOK
          <2>3. /\ TaskOK(At(t, "set_request_msg_id"))
                /\ TaskOK(At(t, "send"))
                BY <1>3, <2>1, <2>2
          <2>4. /\ MarkStepRunning(st, task[t].step) \in ExecutionState
                /\ SetRequestMsgId(st, task[t].step) \in ExecutionState
                BY <1>2, <2>2, DocumentTypes DEF EventId
          <2> QED BY <1>7, <2>3, <2>4, SaveType
                  DEF SetStepRunning, SetRequestStarted
    <1>8. CASE Send(t)
          <2>1. task[t].step \in Step /\ task[t].kernel \in Kernels
                BY <1>1, <1>8 DEF Send, TaskOK
          <2>2. TaskOK(At(t, "recv"))
                BY <1>3, <1>8, <2>1 DEF Send
          <2>3. [step |-> task[t].step, kernel |-> task[t].kernel] \in Request
                BY <2>1 DEF Request
          <2>4. Append(requests[e], [step   |-> task[t].step,
                                     kernel |-> task[t].kernel])
                    \in Seq(Request)
                <3>1. e \in Executions
                      BY <1>1, <1>8 DEF Send, TaskOK
                <3> QED BY <1>1, <2>3, <3>1
          <2>5. requests' \in [Executions -> Seq(Request)]
                BY <1>1, <1>8, <2>4 DEF Send
          <2> QED BY <1>1, <1>8, <2>2, <2>5, TypeFrame DEF Send, TypeOK
    <1>9. CASE RecvReply(t) \/ RecvTimeout(t) \/ RecvDisconnect(t)
          <2>1. task[t].pc = "recv"
                BY <1>9 DEF RecvReply, RecvTimeout, RecvDisconnect
          <2>2. /\ TaskOK(At(t, "mark_step_succeeded"))
                /\ TaskOK(At(t, "mark_step_failed"))
                BY <1>1, <1>3, <2>1 DEF TaskOK
          <2> QED BY <1>1, <1>9, <2>2, FreeTaskType, TypeFrame
                  DEF RecvReply, RecvTimeout, RecvDisconnect, End, TypeOK
    <1>10. ASSUME NEW failed \in BOOLEAN, task[t].pc \in StepPhases
           PROVE  TaskOK(AfterStep(t, failed))
          <2>1. task[t].step \in Step /\ task[t].kernel \in Kernels
                BY <1>1, <1>10 DEF TaskOK
          <2>2. task[t].step < NumSteps => task[t].step + 1 \in Step
                BY <2>1, NumStepsAssumption DEF Step
          <2>3. Step \subseteq 0..NumSteps
                BY NumStepsAssumption DEF Step
          <2>4. CASE task[t].step < NumSteps
                <3>1. TaskOK(At(t, "mark_step_running"))
                      BY <1>3, <1>10, <2>1
                <3>2. At(t, "mark_step_running").step = task[t].step
                      BY <1>1 DEF At, TaskOK, TaskState
                <3>3. At(t, "mark_step_running").step + 1 \in Step \cap 0..NumSteps
                      BY <2>2, <2>3, <2>4, <3>2
                <3>4. TaskOK([At(t, "mark_step_running") EXCEPT
                                  !.step = @ + 1, !.failed = failed])
                      BY <1>10, <3>1, <3>3 DEF TaskOK, TaskState
                <3> QED BY <2>4, <3>4 DEF AfterStep
          <2>5. CASE ~(task[t].step < NumSteps)
                <3>1. /\ TaskOK(At(t, "final_get"))
                      /\ TaskOK(At(t, "mark_succeeded"))
                      BY <1>3, <1>10, <2>1
                <3>2. /\ TaskOK([At(t, "final_get") EXCEPT !.failed = failed])
                      /\ TaskOK([At(t, "mark_succeeded")
                                    EXCEPT !.failed = failed])
                      BY <1>10, <3>1 DEF TaskOK, TaskState
                <3> QED BY <2>5, <3>2 DEF AfterStep
          <2> QED BY <2>4, <2>5
    <1>11. CASE SetStepSucceeded(t) \/ SetStepFailed(t)
          <2>1. task[t].pc \in StepPhases /\ task[t].pc # "free"
                BY <1>11 DEF SetStepSucceeded, SetStepFailed, Save
          <2>2. task[t].step \in Step /\ task[t].kernel \in Kernels
                BY <1>1, <2>1 DEF TaskOK
          <2>3. /\ MarkStepSucceeded(st, task[t].step) \in ExecutionState
                /\ MarkStepFailed(st, task[t].step) \in ExecutionState
                BY <1>2, <2>2, DocumentTypes DEF EventId
          <2>4. /\ TaskOK(AfterStep(t, TRUE))
                /\ TaskOK(AfterStep(t, task[t].failed))
                BY <1>1, <1>10, <2>1 DEF TaskOK, TaskState
          <2>5. TaskOK([task[t] EXCEPT !.pc = "delete_session",
                            !.st = MarkStepFailed(st, task[t].step)])
                BY <1>1, <2>1, <2>2, <2>3 DEF TaskOK, TaskState
          <2> QED BY <1>11, <2>3, <2>4, <2>5, SaveType
                  DEF SetStepSucceeded, SetStepFailed
    <1>12. CASE SetSucceeded(t)
          <2>1. MarkSucceeded(st) \in ExecutionState
                BY <1>2, PlainDocumentTypes
          <2>2. TaskOK([task[t] EXCEPT !.pc = "delete_session",
                                       !.st = MarkSucceeded(st)])
                BY <1>1, <1>12, <2>1
                DEF SetSucceeded, Save, TaskOK, TaskState
          <2> QED BY <1>12, <2>1, <2>2, SaveType DEF SetSucceeded
    <1>13. CASE FinalGet(t)
          <2>1. TaskOK([task[t] EXCEPT !.pc = "delete_session",
                                       !.st = store[e]])
                BY <1>1, <1>13 DEF FinalGet, TaskOK, TaskState
          <2> QED BY <1>1, <1>13, <2>1, TypeFrame DEF FinalGet, TypeOK
    <1>14. CASE DeleteSession(t)
          <2>1. TaskOK(Deliver(e, st))
                BY <1>1, <1>2, <1>14, DeliverType DEF DeleteSession, TaskOK
          <2>2. kernel' \in [Kernels -> KernelLife]
                BY <1>1, <1>14 DEF DeleteSession, KernelLife
          <2> QED BY <1>1, <1>14, <2>1, <2>2, TypeFrame
                  DEF DeleteSession, TypeOK
    <1> QED BY <1>4, <1>5, <1>6, <1>7, <1>8, <1>9, <1>11, <1>12, <1>13, <1>14
            DEF SessionStep

LEMMA TypeRecover ==
    ASSUME TypeOK, NEW t \in Task, RecoverStep(t)
    PROVE  TypeOK'
    <1> USE DEF redisVars
    <1>1. TaskOK(task[t]) /\ store \in [Executions -> ExecutionState]
          BY DEF TypeOK
    <1>2. task[t].pc # "free" /\ task[t].job \in Executions
          BY <1>1
          DEF RecoverStep, RecoverGet, GetKernel, SetInfrastructureFailed, Save,
              TaskOK
    <1>3. CASE RecoverGet(t)
          <2>1. store[task[t].job].kernel \in Kernels \cup {NoKernel}
                BY <1>1, <1>2 DEF ExecutionState
          <2>2. store[task[t].job].kernel # NoKernel =>
                    TaskOK([task[t] EXCEPT !.pc = "get_kernel",
                                           !.kernel = store[task[t].job].kernel])
                BY <1>1, <1>2, <2>1
                DEF TaskOK, TaskState, Phases, RecoverPhases, StepPhases
          <2> QED BY <1>3, <2>2, FreeTaskType, TypeFrame
                  DEF RecoverGet, End, TypeOK
    <1>4. CASE GetKernel(t)
          <2>1. TaskOK(At(t, "mark_infrastructure_failed"))
                BY <1>1, <1>2, AtType
                DEF Phases, RecoverPhases, StepPhases, DriverPhases,
                    SessionPhases, ClosePhases
          <2> QED BY <1>4, <2>1, FreeTaskType, TypeFrame
                  DEF GetKernel, End, TypeOK
    <1>5. CASE SetInfrastructureFailed(t)
          <2>1. MarkInfrastructureFailed(task[t].st) \in ExecutionState
                BY <1>1, PlainDocumentTypes DEF TaskOK, TaskState
          <2> QED BY <1>2, <1>5, <2>1, DeliverType, SaveType
                  DEF SetInfrastructureFailed
    <1> QED BY <1>3, <1>4, <1>5 DEF RecoverStep

LEMMA TypeCallback ==
    ASSUME TypeOK, NEW t \in Task, CallbackStep(t)
    PROVE  TypeOK'
    <1> USE DEF redisVars
    <1> DEFINE st == task[t].st
    <1>1. /\ TaskOK(task[t])
          /\ store \in [Executions -> ExecutionState]
          /\ inbox \subseteq Callback
          BY DEF TypeOK
    <1>2. task[t].pc # "free" /\ task[t].job \in Executions
          BY <1>1
          DEF CallbackStep, SetCallbackPending, SendCallback, RecordSuccess,
              RecordFailure, SetCallbackDelivered, SetCallbackFailed,
              Acknowledge, Save, TaskOK
    <1>3. st \in ExecutionState /\ task[t].event \in EventId
          BY <1>1 DEF TaskOK, TaskState
    <1>4. /\ TaskOK(At(t, "callback_send"))
          /\ TaskOK(At(t, "record_success"))
          /\ TaskOK(At(t, "record_failure"))
          /\ TaskOK(At(t, "mark_callback_delivered"))
          /\ TaskOK(At(t, "mark_callback_failed"))
          /\ TaskOK(At(t, "acknowledge"))
          BY <1>1, <1>2, AtType
          DEF Phases, CallbackPhases, StepPhases, DriverPhases, SessionPhases,
              ClosePhases
    <1>5. CASE SetCallbackPending(t)
          <2> DEFINE new == MarkCallbackPending(st, task[t].event)
          <2>1. new \in ExecutionState
                <3>1. 1 \in Step /\ NoKernel \in Kernels \cup {NoKernel}
                      BY NumStepsAssumption DEF Step
                <3> QED BY <1>3, <3>1, DocumentTypes
          <2>2. IsTerminal(new) =>
                    TaskOK([At(t, "callback_send") EXCEPT
                                !.report = new.status, !.attempt = 1])
                <3>1. 1 \in 0..MaxAttempts
                      BY AttemptsAssumption
                <3>2. IsTerminal(new) => new.status \in EventId
                      BY DEF IsTerminal, EventId
                <3> HIDE DEF new
                <3> QED BY <1>4, <3>1, <3>2 DEF TaskOK, TaskState
          <2> HIDE DEF new
          <2>3. Save(t, "mark_callback_pending", new,
                     IF IsTerminal(new)
                     THEN [At(t, "callback_send") EXCEPT
                               !.report = new.status, !.attempt = 1]
                     ELSE FreeTask)
                BY <1>5 DEF SetCallbackPending, new
          <2> QED BY <2>1, <2>2, <2>3, FreeTaskType, SaveType
    <1>6. CASE SendCallback(t)
          <2>1. ExecutionCallback(t) \in Callback
                BY <1>1, <1>2 DEF Callback, ExecutionCallback, TaskOK, TaskState
          <2>2. inbox' \subseteq Callback
                BY <1>1, <1>6, <2>1 DEF SendCallback
          <2> QED BY <1>4, <1>6, <2>2, TypeFrame DEF SendCallback, TypeOK
    <1>7. CASE RecordSuccess(t)
          BY <1>3, <1>4, <1>7, PlainDocumentTypes, SaveType DEF RecordSuccess
    <1>8. CASE RecordFailure(t)
          <2>1. task[t].attempt < MaxAttempts =>
                    TaskOK([At(t, "callback_send") EXCEPT !.attempt = @ + 1])
                <3>1. At(t, "callback_send").attempt = task[t].attempt
                      BY <1>1 DEF At, TaskOK, TaskState
                <3>2. task[t].attempt < MaxAttempts =>
                          At(t, "callback_send").attempt + 1 \in 0..MaxAttempts
                      BY <1>1, <3>1, AttemptsAssumption DEF TaskOK, TaskState
                <3> QED BY <1>4, <3>2 DEF TaskOK, TaskState
          <2> QED BY <1>3, <1>4, <1>8, <2>1, PlainDocumentTypes, SaveType
                  DEF RecordFailure
    <1>9. CASE SetCallbackDelivered(t) \/ SetCallbackFailed(t)
          BY <1>3, <1>4, <1>9, PlainDocumentTypes, SaveType
          DEF SetCallbackDelivered, SetCallbackFailed
    <1>10. CASE Acknowledge(t)
          BY <1>10, FreeTaskType, TypeFrame DEF Acknowledge, End, TypeOK
    <1> QED BY <1>5, <1>6, <1>7, <1>8, <1>9, <1>10 DEF CallbackStep

LEMMA TypeStep == TypeOK /\ [Next]_vars => TypeOK'
    <1> SUFFICES ASSUME TypeOK, [Next]_vars PROVE TypeOK'
        OBVIOUS
    <1>1. CASE \E e \in Executions :
                  Submit(e) \/ SubmitWithoutXadd(e) \/ BecomeStale(e)
          <2>1. PICK e \in Executions :
                    Submit(e) \/ SubmitWithoutXadd(e) \/ BecomeStale(e)
                BY <1>1
          <2>2. CASE BecomeStale(e)
                BY <2>2 DEF BecomeStale, TypeOK
          <2> QED BY <2>1, <2>2, TypeSubmission
    <1>2. CASE \E t \in Task :
                  \/ Consume(t)
                  \/ \E e \in Executions : Claim(t, e)
                  \/ TaskStep(t)
                  \/ RedisError(t)
                  \/ JupyterError(t)
          <2>1. PICK t \in Task :
                    \/ Consume(t)
                    \/ \E e \in Executions : Claim(t, e)
                    \/ TaskStep(t)
                    \/ RedisError(t)
                    \/ JupyterError(t)
                BY <1>2
          <2>2. CASE Consume(t)
                <3>1. \E e \in Executions : TRUE
                      <4>1. stream[delivered + 1] \in Executions
                            BY <2>2 DEF Consume, TypeOK
                      <4> QED BY <4>1
                <3> QED BY <2>2, <3>1, TypeDelivery
          <2>3. CASE \E e \in Executions : Claim(t, e)
                BY <2>3, TypeDelivery
          <2>4. CASE TaskStep(t)
                BY <2>4, TypeService, TypeSession, TypeRecover, TypeCallback
                DEF TaskStep
          <2>5. CASE RedisError(t) \/ JupyterError(t)
                BY <2>5, FreeTaskType, TypeFrame
                DEF RedisError, JupyterError, End, TypeOK, redisVars
          <2> QED BY <2>1, <2>2, <2>3, <2>4, <2>5
    <1>3. CASE \E k \in Kernels : KernelVanishes(k)
          BY <1>3 DEF KernelVanishes, KernelLife, TypeOK, redisVars
    <1>4. CASE \E w \in Workers : Crash(w)
          <2>1. PICK w \in Workers : Crash(w)
                BY <1>4
          <2>2. task' \in [Task -> TaskState] /\ \A u \in Task : TaskOK(task'[u])
                BY <2>1, FreeTaskType DEF Crash, TypeOK, TaskOK
          <2>3. faults' \in 0..MaxFaults
                BY <2>1, BoundsAssumption DEF Crash, Fault, TypeOK
          <2> QED BY <2>1, <2>2, <2>3 DEF Crash, TypeOK, redisVars
    <1>5. CASE UNCHANGED vars
          BY <1>5 DEF vars, redisVars, TypeOK
    <1> QED BY <1>1, <1>2, <1>3, <1>4, <1>5 DEF Next

(***************************************************************************)
(* Every variable keeps its type: documents, tasks, queues and logs are    *)
(* what the code expects them to be, whatever fails.                       *)
(***************************************************************************)
THEOREM TypeCorrect == Spec => []TypeOK
    <1>1. Init => TypeOK
          BY TypeInit
    <1>2. TypeOK /\ [Next]_vars => TypeOK'
          BY TypeStep
    <1> QED BY <1>1, <1>2, PTL DEF Spec

------------------------------------------------------------------------------
(* Ownership. *)

\* What is assumed of the timing.
PromptStart == SlowPhases \cap StartPhases = {}

------------------------------------------------------------------------------
(* What a step of task t does, next being the task after it. *)

\* Only t moves, it keeps its execution, and nothing new is delivered.
Frame(t, next) ==
    /\ ~Free(t)
    /\ task' = [task EXCEPT ![t] = next]
    /\ next.pc # "free" => next.job = task[t].job
    /\ stream' = stream
    /\ delivered' = delivered
    /\ pending' \subseteq pending
    /\ stale' \subseteq stale

\* How a written document s relates to the one that was read.
Written(tk, s) ==
    /\ tk.pc = "mark_running" =>
          s.status = "RUNNING" /\ s.callback = tk.st.callback
    /\ tk.pc # "mark_running" => s.status \in {tk.st.status} \cup TerminalStatus
    /\ s.kernel = IF tk.pc = "bind_jupyter" THEN tk.kernel ELSE tk.st.kernel

Writes(t) ==
    LET e == task[t].job
    IN /\ \A f \in Executions \ {e} : store'[f] = store[f]
       /\ \/ store'[e] = store[e]
          \/ /\ task[t].pc \in SavePhases
             /\ Loaded(t)
             /\ Written(task[t], store'[e])

OpenPhases == StartPhases \cup SessionPhases \cup {"recover_get"}

\* Where t comes from when it arrives in the phase of next.
Arrives(t, next) ==
    LET pc  == task[t].pc
        old == store[task[t].job]
        new == store'[task[t].job]
    IN /\ next.pc \in StartPhases => pc \in StartPhases /\ new = old
       /\ next.pc = "mark_running" =>
             /\ pc = "mark_running" \/ old.status = "QUEUED"
             /\ next.st \in {Absent, old}
       /\ pc \in StartPhases /\ next.pc \notin StartPhases \cup {"free"} =>
             old.status # "QUEUED" \/ new.status # "QUEUED"
       /\ next.pc \in DriverPhases =>
             \/ pc \in DriverPhases
             \/ /\ pc = "mark_running" /\ Loaded(t)
                /\ next.pc = "create_session"
       /\ next.pc \in SessionPhases =>
             pc = "mark_running" \/ (pc \in SessionPhases /\ new = old)
       /\ next.pc \in StepPhases \cup ClosePhases =>
             /\ next.kernel = task[t].kernel
             /\ \/ pc \in StepPhases \cup ClosePhases
                \/ pc = "bind_jupyter" /\ new.kernel = task[t].kernel
       /\ next.pc \in StaleDocumentPhases /\ next.st # Absent =>
             next.pc = pc /\ next.st = old /\ new = old
       /\ pc \in OpenPhases /\ next.pc \notin OpenPhases \cup {"free"} =>
             \/ new.kernel # NoKernel
             \/ IsTerminal(old)
             \/ old.callback = "DELIVERED"

BeforeSend == {"mark_step_running", "set_request_msg_id", "send"}
AfterSend == {"recv", "mark_step_succeeded", "mark_step_failed"}

\* What happens to the kernels and to the requests of the execution.
Sends(t, next) ==
    LET pc == task[t].pc
        e  == task[t].job
        k  == task[t].kernel
        request == [step |-> task[t].step, kernel |-> k]
    IN /\ \A f \in Executions \ {e} : requests'[f] = requests[f]
       /\ \/ requests'[e] = requests[e]
          \/ /\ pc = "send"
             /\ kernel[k] = "up"
             /\ requests'[e] = Append(requests[e], request)
       /\ pc = "send" /\ next.pc # "free" /\ kernel[k] = "up" =>
             requests'[e] = Append(requests[e], request)
       /\ pc = "send" => store' = store
       /\ next.pc \in BeforeSend =>
             \/ pc \in BeforeSend \ {"send"} /\ next.step = task[t].step
             \/ pc = "bind_jupyter" /\ next.step = 1
             \/ pc \in AfterSend /\ next.step = task[t].step + 1
       /\ next.pc \in AfterSend =>
             next.step = task[t].step /\ pc \in AfterSend \cup {"send"}
       /\ next.pc \in DriverPhases \ {"create_session"} =>
             \/ /\ pc \in DriverPhases \ {"create_session"}
                /\ next.kernel = k
             \/ /\ next.pc = "connect_channels"
                /\ kernel'[next.kernel] = "up"
       /\ \A l \in Kernels : kernel[l] # "unused" =>
             kernel'[l] # "unused" /\ (kernel'[l] = "up" => kernel[l] = "up")

------------------------------------------------------------------------------
(* The fields of the tasks that the actions build. *)

LEMMA AtFields ==
    ASSUME NEW t, task[t] \in TaskState, NEW phase
    PROVE  /\ At(t, phase).pc = phase
           /\ At(t, phase).st = Absent
           /\ At(t, phase).job = task[t].job
           /\ At(t, phase).step = task[t].step
           /\ At(t, phase).kernel = task[t].kernel
    BY DEF At, TaskState

LEMMA DeliverFields ==
    ASSUME NEW e, NEW s
    PROVE  /\ Deliver(e, s).pc \in {"acknowledge", "mark_callback_pending", "free"}
           /\ Deliver(e, s).st = Absent
           /\ Deliver(e, s).pc # "free" =>
                 /\ Deliver(e, s).job = e
                 /\ s.callback = "DELIVERED" \/ IsTerminal(s)
    BY DEF Deliver, FreeTask

LEMMA AfterStepFields ==
    ASSUME NEW t, task[t] \in TaskState, NEW failed
    PROVE  LET next == AfterStep(t, failed)
           IN /\ next.pc \in {"mark_step_running", "final_get", "mark_succeeded"}
              /\ next.st = Absent
              /\ next.job = task[t].job
              /\ next.kernel = task[t].kernel
              /\ next.pc = "mark_step_running" => next.step = task[t].step + 1
    BY DEF AfterStep, At, TaskState

------------------------------------------------------------------------------
(* Every step of a task is of this kind. *)

Shape(t, next) ==
    Frame(t, next) /\ Writes(t) /\ Arrives(t, next) /\ Sends(t, next)

(***************************************************************************)
(* A task ends.                                                            *)
(***************************************************************************)
LEMMA EndShape ==
    ASSUME TypeOK, NEW t \in Task, ~Free(t), End(t), Writes(t),
           task[t].pc = "send" => store' = store,
           UNCHANGED <<stream, delivered, requests>>,
           pending' \subseteq pending, stale' \subseteq stale,
           \A l \in Kernels : kernel[l] # "unused" =>
               kernel'[l] # "unused" /\ (kernel'[l] = "up" => kernel[l] = "up")
    PROVE  Shape(t, FreeTask)
    <1>1. FreeTask.pc = "free"
          BY DEF FreeTask
    <1>2. Frame(t, FreeTask)
          BY <1>1 DEF Frame, End, Become
    <1>3. Arrives(t, FreeTask)
          BY <1>1
          DEF Arrives, StartPhases, DriverPhases, SessionPhases, StepPhases,
              ClosePhases, StaleDocumentPhases, SavePhases
    <1>4. Sends(t, FreeTask)
          BY <1>1
          DEF Sends, BeforeSend, AfterSend, DriverPhases, SessionPhases,
              StepPhases, ClosePhases
    <1> QED BY <1>2, <1>3, <1>4 DEF Shape

(***************************************************************************)
(* A repository method writes a document.                                  *)
(***************************************************************************)
LEMMA SaveShape ==
    ASSUME TypeOK, NEW t \in Task, NEW phase \in SavePhases, NEW new, NEW next,
           Save(t, phase, new, next), Written(task[t], new),
           next.pc # "free" => next.job = task[t].job,
           store'[task[t].job] = new => Arrives(t, next) /\ Sends(t, next)
    PROVE  \E after : Shape(t, after)
    <1>1. /\ ~Free(t)
          /\ task[t].pc # "send"
          /\ task[t].job \in Executions
          BY DEF Save, SavePhases, Free, TypeOK, TaskOK
    <1>2. store'[task[t].job] = new
          BY <1>1 DEF Save, TypeOK
    <1>3. Writes(t)
          BY <1>1, <1>2 DEF Save, Writes, TypeOK
    <1>4. CASE Become(t, next)
          <2>1. Frame(t, next)
                BY <1>1, <1>4 DEF Frame, Become, Save
          <2> QED BY <1>2, <1>3, <2>1 DEF Shape
    <1>5. CASE End(t)
          BY <1>1, <1>3, <1>5, EndShape DEF Save
    <1> QED BY <1>4, <1>5 DEF Save

(***************************************************************************)
(* A step that neither writes a document nor touches kernels or requests.  *)
(***************************************************************************)
LEMMA QuietShape ==
    ASSUME TypeOK, NEW t \in Task, NEW next, ~Free(t), Become(t, next),
           UNCHANGED <<store, stream, delivered, kernel, requests>>,
           pending' \subseteq pending, stale' \subseteq stale,
           next.pc # "free" => next.job = task[t].job,
           task[t].pc # "send",
           Arrives(t, next), Sends(t, next)
    PROVE  Shape(t, next)
    BY DEF Shape, Frame, Writes, Become

LEMMA ServiceShape ==
    ASSUME TypeOK, NEW t \in Task, ServiceStep(t)
    PROVE  \E next : Shape(t, next)
    <1> DEFINE e == task[t].job
    <1>1. /\ task[t] \in TaskState
          /\ task[t].pc # "free"
          BY DEF TypeOK, ServiceStep, ProcessorGet, ServiceGet, RepositoryGet,
                 SetRunning, Save, SavePhases
    <1> USE DEF redisVars
    <1>2. CASE ProcessorGet(t) \/ ServiceGet(t)
          <2> DEFINE next == IF task[t].pc = "processor_get"
                             THEN ProcessorNext(e, store[e])
                             ELSE ServiceNext(e, store[e])
          <2>1. /\ task[t].pc \in {"processor_get", "service_get"}
                /\ Become(t, next)
                /\ UNCHANGED <<redisVars, kernel, requests, inbox, faults>>
                BY <1>2 DEF ProcessorGet, ServiceGet
          <2>2. /\ next.st = Absent
                /\ next.pc # "free" => next.job = e
                /\ \/ next.pc = "free"
                   \/ next.pc = "recover_get" /\ store[e].status = "RUNNING"
                   \/ next.pc \in {"service_get", "mark_running"}
                      /\ store[e].status = "QUEUED"
                   \/ /\ next.pc \in {"acknowledge", "mark_callback_pending"}
                      /\ store[e].status # "QUEUED"
                      /\ store[e].callback = "DELIVERED" \/ IsTerminal(store[e])
                BY DeliverFields DEF ProcessorNext, ServiceNext, Start, FreeTask
          <2> HIDE DEF next
          <2>3. Arrives(t, next)
                BY <2>1, <2>2
                DEF Arrives, OpenPhases, StartPhases, DriverPhases,
                    SessionPhases, StepPhases, ClosePhases, StaleDocumentPhases
          <2>4. Sends(t, next)
                BY <2>1, <2>2
                DEF Sends, BeforeSend, AfterSend, DriverPhases, SessionPhases,
                    StepPhases, ClosePhases
          <2> QED BY <1>1, <2>1, <2>2, <2>3, <2>4, QuietShape DEF Free
    <1>3. CASE RepositoryGet(t)
          <2> DEFINE next == [task[t] EXCEPT !.st = store[e]]
          <2>1. /\ task[t].pc \in SavePhases
                /\ next.pc = task[t].pc /\ next.st = store[e]
                /\ next.job = e /\ next.step = task[t].step
                /\ next.kernel = task[t].kernel
                BY <1>1, <1>3 DEF RepositoryGet, TaskState
          <2>2. /\ Become(t, next)
                /\ UNCHANGED <<redisVars, kernel, requests, inbox, faults>>
                BY <1>3 DEF RepositoryGet
          <2> HIDE DEF next
          <2>3. Arrives(t, next)
                BY <2>1, <2>2 DEF Arrives, StartPhases, SavePhases
          <2>4. task[t].pc # "send"
                BY <2>1 DEF SavePhases
          <2>5. Sends(t, next)
                BY <2>1, <2>2, <2>4 DEF Sends
          <2> QED BY <1>1, <2>1, <2>2, <2>3, <2>4, <2>5, QuietShape DEF Free
    <1>4. CASE SetRunning(t)
          <2> DEFINE next == At(t, "create_session")
                     new == MarkRunning(task[t].st)
          <2>1. Save(t, "mark_running", new, next)
                BY <1>4 DEF SetRunning
          <2>2. Written(task[t], new)
                BY <1>1, <2>1
                DEF Written, MarkRunning, Save, TaskState, ExecutionState
          <2>3. new.status = "RUNNING"
                BY <1>1 DEF MarkRunning, TaskState, ExecutionState
          <2> HIDE DEF new
          <2>4. next.pc = "create_session" /\ next.st = Absent /\ next.job = e
                BY <1>1, AtFields
          <2> HIDE DEF next
          <2>5. ASSUME store'[e] = new PROVE Arrives(t, next)
                BY <2>1, <2>3, <2>4, <2>5
                DEF Arrives, OpenPhases, StartPhases, DriverPhases, Save,
                    SessionPhases, StepPhases, ClosePhases, StaleDocumentPhases,
                    SavePhases
          <2>6. Sends(t, next)
                BY <2>1, <2>4 DEF Sends, BeforeSend, AfterSend, Save
          <2>7. "mark_running" \in SavePhases
                BY DEF SavePhases
          <2> QED BY <2>1, <2>2, <2>4, <2>5, <2>6, <2>7, SaveShape
    <1> QED BY <1>2, <1>3, <1>4 DEF ServiceStep
(***************************************************************************)
(* The phases told apart, for the steps of a Jupyter session.              *)
(***************************************************************************)
LEMMA CreateShape ==
    ASSUME TypeOK, NEW t \in Task, CreateSession(t)
    PROVE  \E next : Shape(t, next)
    <1>1. /\ task[t] \in TaskState
          /\ task[t].pc = "create_session"
          /\ kernel \in [Kernels -> KernelLife]
          BY DEF TypeOK, CreateSession
    <1>2. PICK k \in Kernels :
              /\ kernel[k] = "unused"
              /\ kernel' = [kernel EXCEPT ![k] = "up"]
              /\ \/ Become(t, [task[t] EXCEPT !.pc = "connect_channels",
                                              !.kernel = k])
                 \/ End(t)
          BY DEF CreateSession
    <1>3. /\ UNCHANGED <<store, stream, delivered, pending, stale, requests>>
          /\ ~Free(t)
          BY <1>1 DEF CreateSession, redisVars, Free
    <1>4. /\ kernel'[k] = "up"
          /\ \A l \in Kernels : kernel[l] # "unused" =>
                 kernel'[l] # "unused" /\ (kernel'[l] = "up" => kernel[l] = "up")
          BY <1>1, <1>2
    <1>5. CASE End(t)
          BY <1>1, <1>3, <1>4, <1>5, EndShape DEF Writes
    <1>6. CASE ~End(t)
          <2> DEFINE next == [task[t] EXCEPT !.pc = "connect_channels",
                                             !.kernel = k]
          <2>1. /\ next.pc = "connect_channels"
                /\ next.job = task[t].job
                /\ next.kernel = k
                BY <1>1 DEF TaskState
          <2>2. Become(t, next)
                BY <1>2, <1>6
          <2> HIDE DEF next
          <2>3. Arrives(t, next)
                BY <1>1, <1>3, <2>1
                DEF Arrives, OpenPhases, StartPhases, DriverPhases,
                    SessionPhases, StepPhases, ClosePhases,
                    StaleDocumentPhases, SavePhases
          <2>4. Sends(t, next)
                BY <1>1, <1>3, <1>4, <2>1 DEF Sends, BeforeSend, AfterSend
          <2> QED BY <1>3, <2>1, <2>2, <2>3, <2>4
                  DEF Shape, Frame, Writes, Become
    <1> QED BY <1>5, <1>6

LEMMA SendShape ==
    ASSUME TypeOK, NEW t \in Task, Send(t)
    PROVE  \E next : Shape(t, next)
    <1> DEFINE next == At(t, "recv")
    <1>1. /\ task[t] \in TaskState
          /\ task[t].pc = "send"
          /\ task[t].job \in Executions
          /\ requests \in [Executions -> Seq(Request)]
          BY DEF TypeOK, Send, TaskOK
    <1>2. /\ UNCHANGED <<store, stream, delivered, pending, stale, kernel>>
          /\ Become(t, next)
          BY DEF Send, redisVars
    <1>3. /\ next.pc = "recv" /\ next.st = Absent
          /\ next.job = task[t].job
          /\ next.step = task[t].step
          /\ next.kernel = task[t].kernel
          BY <1>1, AtFields
    <1> HIDE DEF next
    <1>4. Arrives(t, next)
          BY <1>1, <1>2, <1>3
          DEF Arrives, OpenPhases, StartPhases, DriverPhases, SessionPhases,
              StepPhases, ClosePhases, StaleDocumentPhases, SavePhases
    <1>5. /\ \A f \in Executions \ {task[t].job} : requests'[f] = requests[f]
          /\ IF kernel[task[t].kernel] = "up"
             THEN requests'[task[t].job] =
                      Append(requests[task[t].job],
                             [step   |-> task[t].step,
                              kernel |-> task[t].kernel])
             ELSE requests'[task[t].job] = requests[task[t].job]
          BY <1>1 DEF Send
    <1>6. Sends(t, next)
          BY <1>1, <1>2, <1>3, <1>5
          DEF Sends, BeforeSend, AfterSend, DriverPhases, SessionPhases,
              StepPhases
    <1> QED BY <1>1, <1>2, <1>3, <1>4, <1>6
            DEF Shape, Frame, Writes, Become, Free

LEMMA DeleteShape ==
    ASSUME TypeOK, NEW t \in Task, DeleteSession(t)
    PROVE  \E next : Shape(t, next)
    <1> DEFINE next == Deliver(task[t].job, task[t].st)
    <1>1. /\ task[t].pc = "delete_session"
          /\ kernel \in [Kernels -> KernelLife]
          /\ task[t].kernel \in Kernels
          BY DEF TypeOK, DeleteSession, TaskOK, DriverPhases, ClosePhases
    <1>2. /\ UNCHANGED <<store, stream, delivered, pending, stale, requests>>
          /\ Become(t, next)
          BY DEF DeleteSession, redisVars
    <1>3. \A l \in Kernels : kernel[l] # "unused" =>
              kernel'[l] # "unused" /\ (kernel'[l] = "up" => kernel[l] = "up")
          BY <1>1 DEF DeleteSession
    <1>4. /\ next.pc \in {"acknowledge", "mark_callback_pending", "free"}
          /\ next.st = Absent
          /\ next.pc # "free" => next.job = task[t].job
          BY DeliverFields
    <1> HIDE DEF next
    <1>5. Arrives(t, next)
          BY <1>1, <1>2, <1>4
          DEF Arrives, OpenPhases, StartPhases, DriverPhases, SessionPhases,
              StepPhases, ClosePhases, StaleDocumentPhases, SavePhases
    <1>6. Sends(t, next)
          BY <1>1, <1>2, <1>3, <1>4
          DEF Sends, BeforeSend, AfterSend, DriverPhases, SessionPhases,
              StepPhases, ClosePhases
    <1> QED BY <1>1, <1>2, <1>4, <1>5, <1>6
            DEF Shape, Frame, Writes, Become, Free

(***************************************************************************)
(* A step of the session from phase to phase without a write.              *)
(***************************************************************************)
LEMMA QuietSessionShape ==
    ASSUME TypeOK, NEW t \in Task,
           ConnectChannels(t) \/ RecvReply(t) \/ RecvTimeout(t)
              \/ RecvDisconnect(t) \/ FinalGet(t)
    PROVE  \E next : Shape(t, next)
    <1>1. /\ task[t] \in TaskState
          /\ task[t].pc \in {"connect_channels", "recv", "final_get"}
          /\ UNCHANGED <<store, stream, delivered, pending, stale, kernel,
                         requests>>
          BY DEF TypeOK, ConnectChannels, RecvReply, RecvTimeout,
                 RecvDisconnect, FinalGet, redisVars
    <1>2. ~Free(t) /\ task[t].pc # "send"
          BY <1>1 DEF Free
    <1>3. CASE End(t)
          BY <1>1, <1>2, <1>3, EndShape DEF Writes
    <1>4. CASE ~End(t)
          <2>1. PICK next :
                    /\ Become(t, next)
                    /\ \/ /\ task[t].pc = "connect_channels"
                          /\ next.pc = "bind_jupyter"
                       \/ /\ task[t].pc = "recv"
                          /\ next.pc \in {"mark_step_succeeded",
                                          "mark_step_failed"}
                       \/ /\ task[t].pc = "final_get"
                          /\ next.pc = "delete_session"
                    /\ next.pc # "delete_session" => next.st = Absent
                    /\ next.job = task[t].job
                    /\ next.step = task[t].step
                    /\ next.kernel = task[t].kernel
                <3>1. /\ [task[t] EXCEPT !.pc = "delete_session",
                                         !.st = store[task[t].job]].pc
                                = "delete_session"
                      /\ [task[t] EXCEPT !.pc = "delete_session",
                                         !.st = store[task[t].job]].job
                                = task[t].job
                      /\ [task[t] EXCEPT !.pc = "delete_session",
                                         !.st = store[task[t].job]].step
                                = task[t].step
                      /\ [task[t] EXCEPT !.pc = "delete_session",
                                         !.st = store[task[t].job]].kernel
                                = task[t].kernel
                      BY <1>1 DEF TaskState
                <3>2. CASE FinalGet(t)
                      BY <3>1, <3>2 DEF FinalGet
                <3>3. CASE ConnectChannels(t)
                      BY <1>1, <1>4, <3>3, AtFields DEF ConnectChannels
                <3>4. CASE RecvReply(t)
                      <4>1. CASE Become(t, At(t, "mark_step_succeeded"))
                            BY <1>1, <3>4, <4>1, AtFields DEF RecvReply
                      <4>2. CASE Become(t, At(t, "mark_step_failed"))
                            BY <1>1, <3>4, <4>2, AtFields DEF RecvReply
                      <4> QED BY <3>4, <4>1, <4>2 DEF RecvReply
                <3>5. CASE RecvTimeout(t)
                      BY <1>1, <3>5, AtFields DEF RecvTimeout
                <3>6. CASE RecvDisconnect(t)
                      BY <1>4, <3>6 DEF RecvDisconnect
                <3> QED BY <3>2, <3>3, <3>4, <3>5, <3>6
          <2>2. Arrives(t, next)
                BY <1>1, <2>1
                DEF Arrives, OpenPhases, StartPhases, DriverPhases,
                    SessionPhases, StepPhases, ClosePhases,
                    StaleDocumentPhases, SavePhases
          <2>3. Sends(t, next)
                BY <1>1, <2>1
                DEF Sends, BeforeSend, AfterSend, DriverPhases, SessionPhases,
                    StepPhases, ClosePhases
          <2> QED BY <1>1, <1>2, <2>1, <2>2, <2>3, QuietShape
    <1> QED BY <1>3, <1>4
(***************************************************************************)
(* A repository method other than mark_running, and the phase after it.    *)
(***************************************************************************)
LEMMA WriteShape ==
    ASSUME TypeOK, NEW t \in Task, NEW phase \in SavePhases \ {"mark_running"},
           NEW new, NEW next, Save(t, phase, new, next),
           new.status \in {task[t].st.status} \cup TerminalStatus,
           new.kernel = IF phase = "bind_jupyter"
                        THEN task[t].kernel ELSE task[t].st.kernel,
           next.pc # "free" => next.job = task[t].job,
           next.st = Absent \/ next.pc = "delete_session",
           next.pc \in BeforeSend \cup ClosePhases \cup CallbackPhases
                          \cup {"free"},
           next.pc \in BeforeSend \cup ClosePhases =>
               /\ phase \in StepPhases \cup ClosePhases \cup {"bind_jupyter"}
               /\ next.kernel = task[t].kernel,
           next.pc \in BeforeSend =>
               \/ phase \in BeforeSend /\ next.step = task[t].step
               \/ phase = "bind_jupyter" /\ next.step = 1
               \/ phase \in AfterSend /\ next.step = task[t].step + 1
    PROVE  \E after : Shape(t, after)
    <1>1. /\ task[t].pc = phase
          /\ UNCHANGED <<kernel, requests>>
          BY DEF Save
    <1>2. Written(task[t], new)
          BY <1>1 DEF Written
    <1>3. phase = "bind_jupyter" => task[t].kernel \in Kernels
          BY <1>1 DEF TypeOK, TaskOK, DriverPhases, SessionPhases
    <1>4. next.pc \notin OpenPhases
          BY DEF OpenPhases, StartPhases, SessionPhases, BeforeSend,
                 ClosePhases, CallbackPhases
    <1>5. phase # "bind_jupyter" => phase \notin OpenPhases
          BY DEF OpenPhases, StartPhases, SessionPhases, SavePhases
    <1>6. next.pc \in DriverPhases =>
              /\ next.pc \in BeforeSend \cup ClosePhases
              /\ phase \in DriverPhases \ {"create_session"}
          BY DEF DriverPhases, SessionPhases, StepPhases, ClosePhases,
                 BeforeSend, CallbackPhases
    <1>7. ASSUME store'[task[t].job] = new PROVE Arrives(t, next)
          <2>1. next.pc \notin StartPhases \cup SessionPhases
                BY <1>4 DEF OpenPhases
          <2>2. next.pc # "mark_running" /\ phase \notin StartPhases
                BY <2>1 DEF StartPhases, SavePhases
          <2>3. next.pc = "delete_session" => next.pc \notin StaleDocumentPhases
                BY DEF StaleDocumentPhases, SavePhases
          <2>4. next.pc \in StepPhases \cup ClosePhases =>
                    next.pc \in DriverPhases
                BY DEF DriverPhases
          <2>5. new.kernel # NoKernel \/ phase # "bind_jupyter"
                BY <1>3, NoKernelAssumption
          <2> QED BY <1>1, <1>5, <1>6, <1>7, <2>1, <2>2, <2>3, <2>4, <2>5
                  DEF Arrives
    <1>8. Sends(t, next)
          <2>1. phase # "send" /\ next.pc \notin AfterSend
                BY DEF SavePhases, AfterSend, BeforeSend, ClosePhases,
                       CallbackPhases
          <2> QED BY <1>1, <1>6, <2>1 DEF Sends
    <1> QED BY <1>2, <1>7, <1>8, SaveShape

LEMMA SessionWriteShape ==
    ASSUME TypeOK, NEW t \in Task,
           SetBinding(t) \/ SetStepRunning(t) \/ SetRequestStarted(t)
              \/ SetStepSucceeded(t) \/ SetStepFailed(t) \/ SetSucceeded(t)
    PROVE  \E next : Shape(t, next)
    <1> DEFINE st == task[t].st
               i == task[t].step
               k == task[t].kernel
    <1>1. task[t] \in TaskState /\ st \in ExecutionState
          BY DEF TypeOK, TaskState
    <1>2. /\ BindJupyter(st, k).status = st.status
          /\ BindJupyter(st, k).kernel = k
          /\ MarkStepRunning(st, i).status = st.status
          /\ MarkStepRunning(st, i).kernel = st.kernel
          /\ SetRequestMsgId(st, i).status = st.status
          /\ SetRequestMsgId(st, i).kernel = st.kernel
          /\ MarkStepSucceeded(st, i).status = st.status
          /\ MarkStepSucceeded(st, i).kernel = st.kernel
          /\ MarkStepFailed(st, i).status = "FAILED"
          /\ MarkStepFailed(st, i).kernel = st.kernel
          /\ MarkSucceeded(st).status = "SUCCEEDED"
          /\ MarkSucceeded(st).kernel = st.kernel
          BY <1>1 DEF BindJupyter, MarkStepRunning, SetRequestMsgId,
                      MarkStepSucceeded, MarkStepFailed, MarkSucceeded,
                      ExecutionState
    <1>3. \A new : LET next == [task[t] EXCEPT !.pc = "delete_session",
                                              !.st = new]
                   IN /\ next.pc = "delete_session"
                      /\ next.job = task[t].job
                      /\ next.kernel = k
          BY <1>1 DEF TaskState
    <1> USE DEF BeforeSend, AfterSend, SavePhases, StepPhases, ClosePhases,
                TerminalStatus
    <1>4. CASE SetBinding(t)
          <2> DEFINE next == [At(t, "mark_step_running") EXCEPT !.step = 1]
          <2>1. /\ next.pc = "mark_step_running" /\ next.st = Absent
                /\ next.job = task[t].job /\ next.kernel = k
                /\ next.step = 1
                BY <1>1 DEF At, TaskState
          <2> HIDE DEF next
          <2>2. Save(t, "bind_jupyter", BindJupyter(st, k), next)
                BY <1>4 DEF SetBinding, next
          <2> QED BY <1>2, <2>1, <2>2, WriteShape
    <1>5. CASE SetStepRunning(t)
          BY <1>1, <1>2, <1>5, AtFields, WriteShape DEF SetStepRunning
    <1>6. CASE SetRequestStarted(t)
          BY <1>1, <1>2, <1>6, AtFields, WriteShape DEF SetRequestStarted
    <1>7. CASE SetStepSucceeded(t)
          BY <1>1, <1>2, <1>7, AfterStepFields, WriteShape DEF SetStepSucceeded
    <1>8. CASE SetStepFailed(t)
          <2> DEFINE new == MarkStepFailed(st, i)
                     next == IF task[t].job \in StopOnError
                             THEN [task[t] EXCEPT !.pc = "delete_session",
                                                  !.st = new]
                             ELSE AfterStep(t, TRUE)
          <2>1. Save(t, "mark_step_failed", new, next)
                BY <1>8 DEF SetStepFailed
          <2>2. /\ next.pc \in {"delete_session", "mark_step_running",
                                "final_get", "mark_succeeded"}
                /\ next.job = task[t].job /\ next.kernel = k
                /\ next.st = Absent \/ next.pc = "delete_session"
                /\ next.pc = "mark_step_running" => next.step = i + 1
                BY <1>1, <1>3, AfterStepFields
          <2>3. new.status \in TerminalStatus /\ new.kernel = st.kernel
                BY <1>2
          <2> HIDE DEF next, new
          <2> QED BY <2>1, <2>2, <2>3, WriteShape
    <1>9. CASE SetSucceeded(t)
          <2> DEFINE new == MarkSucceeded(st)
                     next == [task[t] EXCEPT !.pc = "delete_session",
                                             !.st = new]
          <2>1. Save(t, "mark_succeeded", new, next)
                BY <1>9 DEF SetSucceeded
          <2>2. /\ next.pc = "delete_session"
                /\ next.job = task[t].job /\ next.kernel = k
                BY <1>3
          <2>3. new.status \in TerminalStatus /\ new.kernel = st.kernel
                BY <1>2
          <2> HIDE DEF next, new
          <2> QED BY <2>1, <2>2, <2>3, WriteShape
    <1> QED BY <1>4, <1>5, <1>6, <1>7, <1>8, <1>9
(***************************************************************************)
(* A step without a write into a phase outside the Jupyter session.        *)
(***************************************************************************)
LEMMA OutsideShape ==
    ASSUME TypeOK, NEW t \in Task, NEW next, ~Free(t), Become(t, next),
           UNCHANGED <<store, stream, delivered, kernel, requests>>,
           pending' \subseteq pending, stale' \subseteq stale,
           task[t].pc \in RecoverPhases \cup CallbackPhases,
           next.pc \in {"get_kernel", "mark_infrastructure_failed"}
                          \cup CallbackPhases,
           next.st = Absent,
           next.job = task[t].job,
           task[t].pc = "recover_get" =>
               store[task[t].job].kernel # NoKernel
    PROVE  Shape(t, next)
    <1>1. /\ next.pc \notin StartPhases \cup DriverPhases
          /\ next.pc \notin BeforeSend \cup AfterSend
          /\ task[t].pc \notin StartPhases \cup SessionPhases
          /\ task[t].pc # "send"
          BY DEF StartPhases, DriverPhases, SessionPhases, StepPhases,
                 ClosePhases, BeforeSend, AfterSend, CallbackPhases,
                 RecoverPhases
    <1>2. Arrives(t, next)
          BY <1>1 DEF Arrives, OpenPhases, DriverPhases, StartPhases
    <1>3. Sends(t, next)
          BY <1>1 DEF Sends
    <1> QED BY <1>1, <1>2, <1>3, QuietShape

LEMMA RecoverShape ==
    ASSUME TypeOK, NEW t \in Task, RecoverStep(t)
    PROVE  \E next : Shape(t, next)
    <1> USE DEF redisVars
    <1>1. task[t] \in TaskState /\ task[t].st \in ExecutionState
          BY DEF TypeOK, TaskState
    <1>2. ~Free(t) /\ task[t].pc \in RecoverPhases /\ task[t].pc # "send"
          BY DEF RecoverStep, RecoverGet, GetKernel, SetInfrastructureFailed,
                 Save, Free, RecoverPhases
    <1>3. CASE RecoverGet(t)
          <2> DEFINE k == store[task[t].job].kernel
                     next == [task[t] EXCEPT !.pc = "get_kernel", !.kernel = k]
          <2>1. CASE k = NoKernel
                BY <1>2, <1>3, <2>1, EndShape DEF RecoverGet, Writes
          <2>2. CASE k # NoKernel
                <3>1. Become(t, next)
                      BY <1>3, <2>2 DEF RecoverGet
                <3>2. /\ task[t].pc = "recover_get"
                      /\ UNCHANGED <<store, stream, delivered, kernel, requests,
                                     pending, stale>>
                      BY <1>3 DEF RecoverGet
                <3>3. /\ next.pc = "get_kernel"
                      /\ next.job = task[t].job
                      BY <1>1 DEF TaskState
                <3> HIDE DEF next
                <3>4. Arrives(t, next)
                      BY <2>2, <3>2, <3>3
                      DEF Arrives, OpenPhases, StartPhases, DriverPhases,
                          SessionPhases, StepPhases, ClosePhases,
                          StaleDocumentPhases, SavePhases
                <3>5. Sends(t, next)
                      BY <3>2, <3>3
                      DEF Sends, BeforeSend, AfterSend, DriverPhases,
                          SessionPhases, StepPhases, ClosePhases
                <3> QED BY <1>2, <3>1, <3>2, <3>3, <3>4, <3>5, QuietShape
          <2> QED BY <2>1, <2>2
    <1>4. CASE GetKernel(t)
          <2>1. CASE End(t)
                BY <1>2, <1>4, <2>1, EndShape DEF GetKernel, Writes
          <2>2. CASE ~End(t)
                BY <1>1, <1>2, <1>4, <2>2, AtFields, OutsideShape DEF GetKernel
          <2> QED BY <2>1, <2>2
    <1>5. CASE SetInfrastructureFailed(t)
          <2> DEFINE new == MarkInfrastructureFailed(task[t].st)
                     next == Deliver(task[t].job, new)
          <2>1. /\ new.status = "FAILED"
                /\ new.kernel = task[t].st.kernel
                BY <1>1 DEF MarkInfrastructureFailed, ExecutionState
          <2>2. /\ next.pc \in {"acknowledge", "mark_callback_pending", "free"}
                /\ next.st = Absent
                /\ next.pc # "free" => next.job = task[t].job
                BY DeliverFields
          <2>3. Save(t, "mark_infrastructure_failed", new, next)
                BY <1>5 DEF SetInfrastructureFailed
          <2> HIDE DEF new, next
          <2> QED BY <2>1, <2>2, <2>3, WriteShape
                  DEF SavePhases, TerminalStatus, CallbackPhases, BeforeSend,
                      ClosePhases
    <1> QED BY <1>3, <1>4, <1>5 DEF RecoverStep

LEMMA CallbackShape ==
    ASSUME TypeOK, NEW t \in Task, CallbackStep(t)
    PROVE  \E next : Shape(t, next)
    <1> USE DEF redisVars
    <1> DEFINE st == task[t].st
    <1>1. task[t] \in TaskState /\ st \in ExecutionState
          BY DEF TypeOK, TaskState
    <1>2. /\ MarkCallbackPending(st, task[t].event).status = st.status
          /\ MarkCallbackPending(st, task[t].event).kernel = st.kernel
          /\ MarkCallbackDelivered(st).status = st.status
          /\ MarkCallbackDelivered(st).kernel = st.kernel
          /\ MarkCallbackFailed(st).status = st.status
          /\ MarkCallbackFailed(st).kernel = st.kernel
          BY <1>1 DEF MarkCallbackPending, MarkCallbackDelivered,
                      MarkCallbackFailed, ExecutionState
    <1>3. ASSUME NEW phase \in SavePhases \cap CallbackPhases, NEW new, NEW next,
                 Save(t, phase, new, next),
                 new.status = st.status, new.kernel = st.kernel,
                 next.pc \in CallbackPhases \cup {"free"}, next.st = Absent,
                 next.pc # "free" => next.job = task[t].job
          PROVE  \E after : Shape(t, after)
          <2>1. /\ phase \in SavePhases \ {"mark_running"}
                /\ phase # "bind_jupyter"
                /\ next.pc \notin BeforeSend \cup ClosePhases
                BY <1>3 DEF SavePhases, CallbackPhases, BeforeSend, ClosePhases
          <2> QED BY <1>3, <2>1, WriteShape
    <1>4. CASE SetCallbackPending(t)
          <2> DEFINE new == MarkCallbackPending(st, task[t].event)
                     sending == [At(t, "callback_send") EXCEPT
                                     !.report = new.status, !.attempt = 1]
                     next == IF IsTerminal(new) THEN sending ELSE FreeTask
          <2>1. /\ sending.pc = "callback_send"
                /\ sending.st = Absent
                /\ sending.job = task[t].job
                <3> HIDE DEF new
                <3> QED BY <1>1 DEF At, TaskState
          <2>2. FreeTask.pc = "free" /\ FreeTask.st = Absent
                BY DEF FreeTask
          <2> HIDE DEF sending
          <2>3. /\ next.pc \in {"callback_send", "free"}
                /\ next.st = Absent
                /\ next.pc # "free" => next.job = task[t].job
                BY <2>1, <2>2
          <2>4. Save(t, "mark_callback_pending", new, next)
                BY <1>4 DEF SetCallbackPending, sending
          <2>5. new.status = st.status /\ new.kernel = st.kernel
                BY <1>2
          <2> HIDE DEF new, next
          <2> QED BY <1>3, <2>3, <2>4, <2>5 DEF SavePhases, CallbackPhases
    <1>5. CASE SendCallback(t)
          <2>1. \/ Become(t, At(t, "record_success"))
                \/ Become(t, At(t, "record_failure"))
                BY <1>5 DEF SendCallback
          <2>2. /\ ~Free(t)
                /\ task[t].pc = "callback_send"
                /\ UNCHANGED <<store, stream, delivered, pending, stale, kernel,
                               requests>>
                BY <1>5 DEF SendCallback, Free
          <2> QED BY <1>1, <2>1, <2>2, AtFields, OutsideShape
                  DEF CallbackPhases
    <1>6. CASE RecordSuccess(t)
          BY <1>1, <1>3, <1>6, AtFields
          DEF RecordSuccess, RecordCallbackAttempt, SavePhases, CallbackPhases
    <1>7. CASE RecordFailure(t)
          <2> DEFINE next == IF task[t].attempt < MaxAttempts
                             THEN [At(t, "callback_send") EXCEPT !.attempt = @ + 1]
                             ELSE At(t, "mark_callback_failed")
          <2>1. /\ next.pc \in {"callback_send", "mark_callback_failed"}
                /\ next.st = Absent
                /\ next.job = task[t].job
                <3>1. CASE task[t].attempt < MaxAttempts
                      BY <1>1, <3>1 DEF At, TaskState
                <3>2. CASE ~(task[t].attempt < MaxAttempts)
                      BY <1>1, <3>2, AtFields
                <3> QED BY <3>1, <3>2
          <2>2. Save(t, "record_failure", st, next)
                BY <1>7 DEF RecordFailure, RecordCallbackAttempt
          <2> HIDE DEF next
          <2> QED BY <1>3, <2>1, <2>2 DEF SavePhases, CallbackPhases
    <1>8. CASE SetCallbackDelivered(t)
          BY <1>1, <1>2, <1>3, <1>8, AtFields
          DEF SetCallbackDelivered, SavePhases, CallbackPhases
    <1>9. CASE SetCallbackFailed(t)
          BY <1>1, <1>2, <1>3, <1>9, AtFields
          DEF SetCallbackFailed, SavePhases, CallbackPhases
    <1>10. CASE Acknowledge(t)
          BY <1>10, EndShape DEF Acknowledge, Writes, Free
    <1> QED BY <1>4, <1>5, <1>6, <1>7, <1>8, <1>9, <1>10 DEF CallbackStep

LEMMA StepShape ==
    ASSUME TypeOK, NEW t \in Task,
           TaskStep(t) \/ RedisError(t) \/ JupyterError(t)
    PROVE  \E next : Shape(t, next)
    <1>1. CASE SessionStep(t)
          BY <1>1, CreateShape, SendShape, DeleteShape, QuietSessionShape,
             SessionWriteShape DEF SessionStep
    <1>2. CASE RedisError(t) \/ JupyterError(t)
          <2>1. ~Free(t)
                BY <1>2 DEF RedisError, JupyterError, Free, RedisPhases, SavePhases
          <2> QED BY <1>2, <2>1, EndShape
                  DEF RedisError, JupyterError, Writes, redisVars
    <1> QED BY <1>1, <1>2, ServiceShape, RecoverShape, CallbackShape
            DEF TaskStep

------------------------------------------------------------------------------
(* The layers of the invariant are kept by the steps of tasks. *)

LEMMA FrameTasks ==
    ASSUME TypeOK, NEW t \in Task, NEW next, Frame(t, next)
    PROVE  /\ task'[t] = next
           /\ \A u \in Task \ {t} : task'[u] = task[u]
           /\ \A u \in Task : task'[u].pc # "free" =>
                 task[u].pc # "free" /\ task'[u].job = task[u].job
           /\ task[t].job \in Executions
    <1>1. /\ task'[t] = next
          /\ \A u \in Task \ {t} : task'[u] = task[u]
          BY DEF Frame, TypeOK
    <1>2. task[t].job \in Executions
          BY DEF Frame, TypeOK, TaskOK, Free
    <1> QED BY <1>1, <1>2 DEF Frame, Free

(***************************************************************************)
(* A document that is written is one of a started execution.               *)
(***************************************************************************)
LEMMA WritesStarted ==
    ASSUME TypeOK, OwnerInv, NEW t \in Task, NEW next, Shape(t, next),
           NEW e \in Executions, store'[e] # store[e]
    PROVE  /\ e = task[t].job
           /\ task[t].pc \in SavePhases
           /\ Loaded(t)
           /\ Written(task[t], store'[e])
           /\ store'[e].status \notin {"ABSENT", "QUEUED"}
    <1>1. /\ e = task[t].job
          /\ task[t].pc \in SavePhases
          /\ Loaded(t)
          /\ Written(task[t], store'[e])
          BY DEF Shape, Writes
    <1>2. CASE task[t].pc = "mark_running"
          BY <1>1, <1>2 DEF Written
    <1>3. CASE task[t].pc # "mark_running"
          <2>1. task[t].st.status \notin {"ABSENT", "QUEUED"}
                BY <1>1, <1>3 DEF OwnerInv, StaleDocumentPhases
          <2> QED BY <1>1, <1>3, <2>1 DEF Written, TerminalStatus
    <1> QED BY <1>1, <1>2, <1>3

LEMMA DeliveryShape ==
    ASSUME TypeOK, DeliveryInv, OwnerInv, NEW t \in Task, NEW next,
           Shape(t, next)
    PROVE  DeliveryInv'
    <1>1. /\ stream' = stream /\ delivered' = delivered
          /\ pending' \subseteq pending
          BY DEF Shape, Frame
    <1>2. \A e \in Executions :
              store[e].status # "ABSENT" => store'[e].status # "ABSENT"
          BY WritesStarted
    <1>3. \A u \in Task : task'[u].pc # "free" =>
              task[u].pc # "free" /\ task'[u].job = task[u].job
          BY FrameTasks DEF Shape
    <1>4. /\ \A i \in 1..Len(stream) : stream[i] \in Executions
          /\ pending \subseteq Executions
          /\ \A u \in Task : task[u].pc # "free" => task[u].job \in Executions
          BY DEF TypeOK, TaskOK
    <1>5. \A i \in (delivered' + 1)..Len(stream') :
              stream'[i] \notin pending' /\ \A u \in Task : ~Works(u, stream[i])'
          BY <1>1, <1>3 DEF DeliveryInv, Works, Free
    <1>6. \A u \in Task : task'[u].pc # "free" =>
              store'[task'[u].job].status # "ABSENT"
          BY <1>2, <1>3, <1>4 DEF DeliveryInv, Free
    <1> QED BY <1>1, <1>2, <1>4, <1>5, <1>6 DEF DeliveryInv, Free, Works

LEMMA OwnerShape ==
    ASSUME TypeOK, DeliveryInv, OwnerInv, NEW t \in Task, NEW next,
           Shape(t, next)
    PROVE  OwnerInv'
    <1> DEFINE e == task[t].job
    <1>1. /\ task'[t] = next
          /\ \A u \in Task \ {t} : task'[u] = task[u]
          /\ \A u \in Task : task'[u].pc # "free" =>
                task[u].pc # "free" /\ task'[u].job = task[u].job
          /\ e \in Executions
          BY FrameTasks DEF Shape
    <1>2. "free" \notin StartPhases /\ "mark_running" \in StartPhases
          BY DEF StartPhases
    <1>3. \A u \in Task : task'[u].pc \in StartPhases =>
              task[u].pc \in StartPhases /\ task'[u].job = task[u].job
          BY <1>1, <1>2 DEF Shape, Arrives
    <1>4. stale' \subseteq stale
          BY DEF Shape, Frame
    <1>5. \A f \in Executions : store'[f].status = "QUEUED" =>
              store'[f] = store[f]
          BY WritesStarted
    <1>6. \A u \in Task : task'[u].pc \in StartPhases => task'[u].job \notin stale'
          BY <1>3, <1>4 DEF OwnerInv
    <1>7. \A u, v \in Task :
              task'[u].pc \in StartPhases /\ task'[v].pc \in StartPhases
                 /\ task'[u].job = task'[v].job => u = v
          BY <1>3 DEF OwnerInv
    <1>8. ASSUME NEW u \in Task, task'[u].pc # "free",
                 store'[task'[u].job].status = "QUEUED"
          PROVE  task'[u].pc \in StartPhases
          <2>1. task'[u].job = task[u].job /\ task[u].job \in Executions
                BY <1>1, <1>8 DEF TypeOK, TaskOK
          <2>2. store'[task[u].job] = store[task[u].job]
                BY <1>5, <1>8, <2>1
          <2>3. task[u].pc \in StartPhases
                BY <1>1, <1>8, <2>1, <2>2 DEF OwnerInv, Free
          <2>4. CASE u # t
                BY <1>1, <2>3, <2>4
          <2>5. CASE u = t
                BY <1>1, <1>8, <2>1, <2>2, <2>3, <2>5 DEF Shape, Arrives
          <2> QED BY <2>4, <2>5
    <1>9. ASSUME NEW u \in Task, task'[u].pc = "mark_running"
          PROVE  /\ store'[task'[u].job].status = "QUEUED"
                 /\ task'[u].st # Absent => task'[u].st = store'[task'[u].job]
          <2>1. /\ task'[u].job = task[u].job
                /\ task[u].pc \in StartPhases
                /\ task[u].job \in Executions
                BY <1>2, <1>3, <1>9 DEF TypeOK, TaskOK
          <2>2. CASE u # t
                <3>1. task'[u] = task[u]
                      BY <1>1, <2>2
                <3>2. store[task[u].job].status = "QUEUED"
                      BY <1>9, <3>1 DEF OwnerInv
                <3>3. store'[task[u].job] = store[task[u].job]
                      <4> SUFFICES ASSUME store'[task[u].job] # store[task[u].job]
                                   PROVE  FALSE
                          OBVIOUS
                      <4>1. e = task[u].job /\ task[t].pc \in SavePhases
                            BY <2>1, WritesStarted
                      <4>2. ~Free(t)
                            BY DEF Shape, Frame
                      <4>3. task[t].pc \in StartPhases
                            BY <3>2, <4>1, <4>2 DEF OwnerInv
                      <4> QED BY <2>1, <2>2, <4>1, <4>3 DEF OwnerInv
                <3> QED BY <1>9, <3>1, <3>2, <3>3 DEF OwnerInv, Loaded
          <2>3. CASE u = t
                <3>1. /\ store'[e] = store[e]
                      /\ task[t].pc = "mark_running" \/ store[e].status = "QUEUED"
                      /\ next.st \in {Absent, store[e]}
                      BY <1>1, <1>2, <1>9, <2>3 DEF Shape, Arrives
                <3>2. store[e].status = "QUEUED"
                      BY <3>1 DEF OwnerInv
                <3> QED BY <1>1, <2>1, <2>3, <3>1, <3>2
          <2> QED BY <2>2, <2>3
    <1>10. ASSUME NEW u \in Task, task'[u].pc \in StaleDocumentPhases,
                  task'[u].st # Absent
           PROVE  task'[u].st.status \notin {"ABSENT", "QUEUED"}
          <2>1. CASE u # t
                BY <1>1, <1>10, <2>1 DEF OwnerInv, Loaded
          <2>2. CASE u = t
                <3>1. task[t].pc \in StaleDocumentPhases /\ next.st = store[e]
                      BY <1>1, <1>10, <2>2 DEF Shape, Arrives
                <3>2. ~Free(t)
                      BY DEF Shape, Frame
                <3>3. task[t].pc \notin StartPhases
                      BY <3>1 DEF StaleDocumentPhases, SavePhases, StartPhases
                <3> QED BY <1>1, <2>2, <3>1, <3>2, <3>3 DEF OwnerInv, DeliveryInv
          <2> QED BY <2>1, <2>2
    <1> QED BY <1>6, <1>7, <1>8, <1>9, <1>10 DEF OwnerInv, Free, Loaded
LEMMA DriverShape ==
    ASSUME TypeOK, OwnerInv, SingleDriver, NEW t \in Task, NEW next,
           Shape(t, next)
    PROVE  SingleDriver'
    <1> DEFINE e == task[t].job
    <1>1. /\ task'[t] = next
          /\ \A u \in Task \ {t} : task'[u] = task[u]
          /\ \A u \in Task : task'[u].pc # "free" =>
                task[u].pc # "free" /\ task'[u].job = task[u].job
          /\ e \in Executions
          BY FrameTasks DEF Shape
    <1>2. /\ "free" \notin DriverPhases
          /\ DriverPhases \cap StartPhases = {}
          BY DEF DriverPhases, SessionPhases, StepPhases, ClosePhases, StartPhases
    <1>3. ASSUME NEW u \in Task \ {t}, task[u].pc \in DriverPhases,
                 task[u].job = e, next.pc \in DriverPhases
          PROVE  FALSE
          <2>1. CASE task[t].pc \in DriverPhases
                BY <1>3, <2>1 DEF SingleDriver
          <2>2. CASE task[t].pc = "mark_running"
                <3>1. store[e].status = "QUEUED"
                      BY <2>2 DEF OwnerInv
                <3>2. task[u].pc \in StartPhases
                      BY <1>2, <1>3, <3>1 DEF OwnerInv, Free
                <3> QED BY <1>2, <1>3, <3>2
          <2> QED BY <1>3, <2>1, <2>2 DEF Shape, Arrives
    <1>4. ASSUME NEW u \in Task, NEW v \in Task,
                 task'[u].pc \in DriverPhases, task'[v].pc \in DriverPhases,
                 task'[u].job = task'[v].job
          PROVE  u = v
          <2>1. task[u].job = task[v].job
                BY <1>1, <1>2, <1>4
          <2>2. CASE u # t /\ v # t
                BY <1>1, <1>4, <2>2 DEF SingleDriver
          <2>3. CASE u = t /\ v # t
                BY <1>1, <1>3, <1>4, <2>1, <2>3
          <2>4. CASE u # t /\ v = t
                BY <1>1, <1>3, <1>4, <2>1, <2>4
          <2> QED BY <2>2, <2>3, <2>4
    <1> QED BY <1>4 DEF SingleDriver

(***************************************************************************)
(* A kernel binding that is stored stays, and bind_jupyter is the only     *)
(* phase that stores one.                                                  *)
(***************************************************************************)
LEMMA KernelKept ==
    ASSUME TypeOK, OwnerInv, BindingInv, NEW t \in Task, NEW next,
           Shape(t, next), NEW e \in Executions,
           store'[e].kernel # store[e].kernel
    PROVE  /\ e = task[t].job
           /\ task[t].pc = "bind_jupyter"
           /\ store[e].kernel = NoKernel
           /\ store'[e].kernel = task[t].kernel
           /\ store'[e].kernel # NoKernel
    <1>1. /\ e = task[t].job
          /\ task[t].pc \in SavePhases
          /\ Loaded(t)
          /\ Written(task[t], store'[e])
          BY WritesStarted
    <1>2. CASE task[t].pc = "mark_running"
          BY <1>1, <1>2 DEF OwnerInv, Written
    <1>3. CASE task[t].pc \notin {"mark_running", "bind_jupyter"}
          BY <1>1, <1>3 DEF BindingInv, StaleDocumentPhases, Written
    <1>4. CASE task[t].pc = "bind_jupyter"
          <2>1. task[t].kernel \in Kernels
                BY <1>4 DEF TypeOK, TaskOK, DriverPhases, SessionPhases
          <2>2. store[e].kernel = NoKernel
                BY <1>1, <1>4 DEF BindingInv, SessionPhases
          <2> QED BY <1>1, <1>4, <2>1, <2>2, NoKernelAssumption DEF Written
    <1> QED BY <1>2, <1>3, <1>4

LEMMA BindingShape ==
    ASSUME TypeOK, OwnerInv, SingleDriver, BindingInv, NEW t \in Task, NEW next,
           Shape(t, next)
    PROVE  BindingInv'
    <1> DEFINE e == task[t].job
    <1>1. /\ task'[t] = next
          /\ \A u \in Task \ {t} : task'[u] = task[u]
          /\ \A u \in Task : task'[u].pc # "free" =>
                task[u].pc # "free" /\ task'[u].job = task[u].job
          /\ e \in Executions
          BY FrameTasks DEF Shape
    <1>2. \A u \in Task : task[u].pc # "free" => task[u].job \in Executions
          BY DEF TypeOK, TaskOK
    <1>3. \A f \in Executions :
              store[f].kernel # NoKernel => store'[f].kernel = store[f].kernel
          BY KernelKept
    <1>4. ASSUME NEW f \in Executions, Unstarted(f)'
          PROVE  store'[f].kernel = NoKernel
          BY <1>4, WritesStarted DEF Unstarted, BindingInv
    <1>5. ASSUME NEW f \in Executions, store'[f].kernel = NoKernel
          PROVE  ~IsTerminal(store'[f]) /\ store'[f].callback # "DELIVERED"
          <2>1. store[f].kernel = NoKernel
                BY <1>3, <1>5
          <2>2. CASE store'[f] = store[f]
                BY <2>1, <2>2 DEF BindingInv
          <2>3. CASE store'[f] # store[f]
                <3>1. /\ f = e
                      /\ task[t].pc \in SavePhases
                      /\ Loaded(t)
                      /\ Written(task[t], store'[f])
                      BY <2>3, WritesStarted
                <3>2. ~Free(t)
                      BY DEF Shape, Frame
                <3>3. task[t].pc \in StartPhases \cup SessionPhases \cup {"recover_get"}
                      BY <2>1, <3>1, <3>2 DEF BindingInv
                <3>4. task[t].pc \in {"mark_running", "bind_jupyter"}
                      BY <3>1, <3>3 DEF SavePhases, StartPhases, SessionPhases
                <3>5. task[t].pc = "mark_running"
                      <4>1. ASSUME task[t].pc = "bind_jupyter"
                            PROVE  task[t].kernel # NoKernel
                            BY <4>1, NoKernelAssumption
                            DEF TypeOK, TaskOK, DriverPhases, SessionPhases
                      <4> QED BY <1>5, <3>1, <3>4, <4>1 DEF Written
                <3>6. /\ store'[f].status = "RUNNING"
                      /\ store'[f].callback = store[f].callback
                      BY <3>1, <3>5 DEF Written, OwnerInv
                <3> QED BY <2>1, <3>6 DEF BindingInv, IsTerminal, TerminalStatus
          <2> QED BY <2>2, <2>3
    <1>6. ASSUME NEW u \in Task, task'[u].pc # "free",
                 store'[task'[u].job].kernel = NoKernel
          PROVE  task'[u].pc \in OpenPhases
          <2>1. /\ task'[u].job = task[u].job
                /\ store[task[u].job].kernel = NoKernel
                BY <1>1, <1>2, <1>3, <1>6
          <2>2. task[u].pc \in OpenPhases
                BY <1>1, <1>6, <2>1 DEF BindingInv, Free, OpenPhases
          <2>3. CASE u # t
                BY <1>1, <2>2, <2>3
          <2>4. CASE u = t
                <3>1. ~IsTerminal(store[e]) /\ store[e].callback # "DELIVERED"
                      BY <1>1, <2>1, <2>4 DEF BindingInv
                <3> QED BY <1>1, <1>6, <2>1, <2>2, <2>4, <3>1 DEF Shape, Arrives
          <2> QED BY <2>3, <2>4
    <1>7. ASSUME NEW u \in Task, task'[u].pc \in SessionPhases
          PROVE  store'[task'[u].job].kernel = NoKernel
          <2>1. /\ task'[u].pc # "free"
                /\ task'[u].job = task[u].job
                /\ task[u].job \in Executions
                BY <1>1, <1>2, <1>7 DEF SessionPhases
          <2>2. CASE u # t
                <3>1. /\ task[u].pc \in SessionPhases
                      /\ store[task[u].job].kernel = NoKernel
                      BY <1>1, <1>7, <2>2 DEF BindingInv
                <3>2. ASSUME store'[task[u].job].kernel # store[task[u].job].kernel
                      PROVE  FALSE
                      <4>1. task[u].job = e /\ task[t].pc = "bind_jupyter"
                            BY <2>1, <3>2, KernelKept
                      <4> QED BY <2>2, <3>1, <4>1
                              DEF SingleDriver, DriverPhases, SessionPhases
                <3> QED BY <2>1, <3>1, <3>2
          <2>3. CASE u = t
                <3>1. CASE task[t].pc = "mark_running"
                      <4>1. store[e].kernel = NoKernel
                            BY <1>1, <3>1 DEF OwnerInv, BindingInv, Unstarted
                      <4> QED BY <1>1, <2>1, <2>3, <3>1, <4>1, KernelKept
                <3>2. CASE task[t].pc \in SessionPhases /\ store'[e] = store[e]
                      BY <2>1, <2>3, <3>2 DEF BindingInv
                <3> QED BY <1>1, <1>7, <2>3, <3>1, <3>2 DEF Shape, Arrives
          <2> QED BY <2>2, <2>3
    <1>8. ASSUME NEW u \in Task, task'[u].pc \in StepPhases \cup ClosePhases
          PROVE  store'[task'[u].job].kernel = task'[u].kernel
          <2>1. /\ task'[u].pc # "free"
                /\ task'[u].job = task[u].job
                /\ task[u].job \in Executions
                BY <1>1, <1>2, <1>8 DEF StepPhases, ClosePhases
          <2>2. ASSUME task[u].pc \in StepPhases \cup ClosePhases
                PROVE  store'[task[u].job].kernel = task[u].kernel
                <3>1. task[u].kernel \in Kernels
                      BY <2>2
                      DEF TypeOK, TaskOK, DriverPhases, StepPhases, ClosePhases
                <3>2. store[task[u].job].kernel = task[u].kernel
                      BY <2>2 DEF BindingInv
                <3> QED BY <1>3, <2>1, <3>1, <3>2, NoKernelAssumption
          <2>3. CASE u # t
                BY <1>1, <1>8, <2>1, <2>2, <2>3
          <2>4. CASE u = t
                BY <1>1, <1>8, <2>1, <2>2, <2>4 DEF Shape, Arrives
          <2> QED BY <2>3, <2>4
    <1>9. ASSUME NEW u \in Task,
                 task'[u].pc \in StaleDocumentPhases \ {"bind_jupyter"},
                 task'[u].st # Absent
          PROVE  task'[u].st.kernel = store'[task'[u].job].kernel
          <2>1. /\ task'[u].pc # "free"
                /\ task'[u].job = task[u].job
                /\ task[u].job \in Executions
                BY <1>1, <1>2, <1>9 DEF StaleDocumentPhases, SavePhases
          <2>2. CASE u # t
                <3>1. /\ task[u].pc \in StaleDocumentPhases \ {"bind_jupyter"}
                      /\ task'[u].st.kernel = store[task[u].job].kernel
                      BY <1>1, <1>9, <2>2 DEF BindingInv, Loaded
                <3>2. store[task[u].job].kernel # NoKernel
                      BY <1>1, <2>1, <3>1
                      DEF BindingInv, Free, StaleDocumentPhases, SavePhases,
                          StartPhases, SessionPhases
                <3> QED BY <1>3, <2>1, <3>1, <3>2
          <2>3. CASE u = t
                BY <1>1, <1>9, <2>1, <2>3 DEF Shape, Arrives
          <2> QED BY <2>2, <2>3
    <1> QED BY <1>4, <1>5, <1>6, <1>7, <1>8, <1>9
            DEF BindingInv, Free, Loaded, OpenPhases
(***************************************************************************)
(* A kernel receives code of an execution only from its driver, in "send". *)
(***************************************************************************)
LEMMA RequestsSent ==
    ASSUME TypeOK, SingleDriver, BindingInv, LogInv,
           NEW t \in Task, NEW next, Shape(t, next),
           NEW e \in Executions, requests'[e] # requests[e]
    PROVE  /\ e = task[t].job
           /\ task[t].pc = "send"
           /\ store' = store
           /\ store[e].kernel = task[t].kernel
           /\ task[t].kernel \in Kernels
           /\ kernel[task[t].kernel] = "up"
           /\ Len(requests[e]) = task[t].step - 1
           /\ requests'[e] = Append(requests[e], [step |-> task[t].step,
                                                  kernel |-> task[t].kernel])
           /\ \A u \in Task \ {t} :
                 task[u].pc \in DriverPhases => task[u].job # e
    <1>1. /\ e = task[t].job
          /\ task[t].pc = "send"
          /\ store' = store
          /\ kernel[task[t].kernel] = "up"
          /\ requests'[e] = Append(requests[e], [step |-> task[t].step,
                                                 kernel |-> task[t].kernel])
          BY DEF Shape, Sends
    <1>2. "send" \in StepPhases /\ StepPhases \subseteq DriverPhases
          BY DEF StepPhases, DriverPhases
    <1>3. store[e].kernel = task[t].kernel
          BY <1>1, <1>2 DEF BindingInv
    <1>4. task[t].kernel \in Kernels
          BY <1>1 DEF TypeOK, TaskOK, DriverPhases, StepPhases
    <1>5. Len(requests[e]) = task[t].step - 1
          BY <1>1 DEF LogInv
    <1>6. \A u \in Task \ {t} : task[u].pc \in DriverPhases => task[u].job # e
          BY <1>1, <1>2 DEF SingleDriver
    <1> QED BY <1>1, <1>3, <1>4, <1>5, <1>6

LEMMA LogShape ==
    ASSUME TypeOK, OwnerInv, SingleDriver, BindingInv, LogInv,
           NEW t \in Task, NEW next, Shape(t, next)
    PROVE  LogInv'
    <1> DEFINE e == task[t].job
               k == task[t].kernel
    <1>1. /\ task'[t] = next
          /\ \A u \in Task \ {t} : task'[u] = task[u]
          /\ \A u \in Task : task'[u].pc # "free" =>
                task[u].pc # "free" /\ task'[u].job = task[u].job
          /\ e \in Executions
          BY FrameTasks DEF Shape
    <1>2. /\ "free" \notin DriverPhases
          /\ SessionPhases \subseteq DriverPhases
          /\ StepPhases \subseteq DriverPhases \ {"create_session"}
          /\ BeforeSend \subseteq StepPhases
          /\ AfterSend \subseteq StepPhases
          /\ StepPhases \subseteq BeforeSend \cup AfterSend
          /\ "send" \notin SessionPhases
          BY DEF DriverPhases, SessionPhases, StepPhases, ClosePhases,
                 BeforeSend, AfterSend
    <1>3. \A u \in Task : task[u].pc \in DriverPhases \ {"create_session"} =>
              task[u].kernel \in Kernels
          BY DEF TypeOK, TaskOK
    <1>4. \A l \in Kernels : kernel[l] # "unused" =>
              kernel'[l] # "unused" /\ (kernel'[l] = "up" => kernel[l] = "up")
          BY DEF Shape, Sends
    <1>5. ASSUME NEW u \in Task \ {t}, task[u].pc \in DriverPhases
          PROVE  /\ task'[u] = task[u]
                 /\ requests'[task[u].job] = requests[task[u].job]
                 /\ task[u].pc # "create_session" =>
                       /\ kernel'[task[u].kernel] # "unused"
                       /\ kernel'[task[u].kernel] = "up" =>
                             kernel[task[u].kernel] = "up"
          <2>1. task[u].job \in Executions
                BY <1>2, <1>5 DEF TypeOK, TaskOK
          <2>2. requests'[task[u].job] = requests[task[u].job]
                BY <1>5, <2>1, RequestsSent
          <2> QED BY <1>1, <1>3, <1>4, <1>5, <2>2 DEF LogInv
    <1>6. \A f \in Executions : Len(requests[f]) \in Nat
          BY DEF TypeOK
    <1>7. task[t].step \in Nat
          BY NumStepsAssumption DEF TypeOK, TaskState
    <1>8. next.pc \in StepPhases =>
              /\ next.job = e
              /\ next.kernel = k
              /\ task[t].pc \in DriverPhases \ {"create_session"}
              /\ kernel'[k] = "up" => kernel[k] = "up"
          BY <1>1, <1>2, <1>3, <1>4 DEF Shape, Sends, Frame, LogInv, SessionPhases,
             StepPhases
    <1>9. task[t].pc = "bind_jupyter" => requests[e] = <<>>
          BY DEF LogInv, SessionPhases
    <1>10. task[t].pc # "send" => requests'[e] = requests[e]
          BY <1>1, RequestsSent
    <1>11. ASSUME NEW f \in Executions, Unstarted(f)'
           PROVE  requests'[f] = <<>>
          <2>1. store'[f] = store[f]
                BY <1>11, WritesStarted DEF Unstarted
          <2>2. Unstarted(f) /\ store[f].kernel = NoKernel
                BY <1>11, <2>1 DEF Unstarted, BindingInv
          <2>3. requests'[f] = requests[f]
                BY <2>2, RequestsSent, NoKernelAssumption
          <2> QED BY <2>2, <2>3 DEF LogInv
    <1>12. ASSUME NEW u \in Task, task'[u].pc \in SessionPhases
           PROVE  requests'[task'[u].job] = <<>>
          <2>1. CASE u # t
                BY <1>1, <1>2, <1>5, <1>12, <2>1 DEF LogInv
          <2>2. CASE u = t
                <3>1. task'[u].job = e
                      BY <1>1, <1>2, <1>12, <2>2
                <3>2. task[t].pc = "mark_running" \/ task[t].pc \in SessionPhases
                      BY <1>1, <1>12, <2>2 DEF Shape, Arrives
                <3>3. requests[e] = <<>>
                      BY <1>1, <3>2 DEF LogInv, OwnerInv, Unstarted
                <3> QED BY <1>2, <1>10, <3>1, <3>2, <3>3
          <2> QED BY <2>1, <2>2
    <1>13. ASSUME NEW u \in Task, task'[u].pc \in BeforeSend
           PROVE  /\ Len(requests'[task'[u].job]) < task'[u].step
                  /\ kernel'[task'[u].kernel] = "up" =>
                        Len(requests'[task'[u].job]) = task'[u].step - 1
          <2>1. CASE u # t
                <3>1. /\ task'[u] = task[u]
                      /\ requests'[task[u].job] = requests[task[u].job]
                      /\ kernel'[task[u].kernel] = "up" =>
                            kernel[task[u].kernel] = "up"
                      BY <1>1, <1>2, <1>5, <1>13, <2>1
                <3> QED BY <1>13, <3>1 DEF LogInv, BeforeSend
          <2>2. CASE u = t
                <3>1. /\ task'[u] = next
                      /\ next.job = e
                      /\ next.kernel = k
                      /\ kernel'[k] = "up" => kernel[k] = "up"
                      BY <1>1, <1>2, <1>8, <1>13, <2>2
                <3>2. CASE task[t].pc \in BeforeSend \ {"send"}
                           /\ next.step = task[t].step
                      BY <1>10, <3>1, <3>2 DEF LogInv, BeforeSend
                <3>3. CASE task[t].pc = "bind_jupyter" /\ next.step = 1
                      BY <1>9, <1>10, <3>1, <3>3
                <3>4. CASE task[t].pc \in AfterSend /\ next.step = task[t].step + 1
                      <4>1. /\ Len(requests[e]) <= task[t].step
                            /\ kernel[k] = "up" => Len(requests[e]) = task[t].step
                            BY <3>4 DEF LogInv, AfterSend
                      <4>2. requests'[e] = requests[e]
                            BY <1>10, <3>4 DEF AfterSend
                      <4> QED BY <1>1, <1>6, <1>7, <3>1, <3>4, <4>1, <4>2
                <3> QED BY <1>1, <1>13, <2>2, <3>2, <3>3, <3>4 DEF Shape, Sends
          <2> QED BY <2>1, <2>2
    <1>14. ASSUME NEW u \in Task, task'[u].pc \in AfterSend
           PROVE  /\ Len(requests'[task'[u].job]) <= task'[u].step
                  /\ kernel'[task'[u].kernel] = "up" =>
                        Len(requests'[task'[u].job]) = task'[u].step
          <2>1. CASE u # t
                <3>1. /\ task'[u] = task[u]
                      /\ requests'[task[u].job] = requests[task[u].job]
                      /\ kernel'[task[u].kernel] = "up" =>
                            kernel[task[u].kernel] = "up"
                      BY <1>1, <1>2, <1>5, <1>14, <2>1
                <3> QED BY <1>14, <3>1 DEF LogInv, AfterSend
          <2>2. CASE u = t
                <3>1. /\ task'[u] = next
                      /\ next.job = e
                      /\ next.kernel = k
                      /\ next.step = task[t].step
                      /\ task[t].pc \in AfterSend \cup {"send"}
                      /\ kernel'[k] = "up" => kernel[k] = "up"
                      BY <1>1, <1>2, <1>8, <1>14, <2>2 DEF Shape, Sends
                <3>2. CASE task[t].pc \in AfterSend
                      <4>1. requests'[e] = requests[e]
                            BY <1>10, <3>2 DEF AfterSend
                      <4> QED BY <3>1, <3>2, <4>1 DEF LogInv, AfterSend
                <3>3. CASE task[t].pc = "send"
                      <4>1. /\ Len(requests[e]) < task[t].step
                            /\ kernel[k] = "up" =>
                                  Len(requests[e]) = task[t].step - 1
                            BY <3>3 DEF LogInv
                      <4>2. CASE requests'[e] = requests[e]
                            <5>1. kernel[k] # "up" \/ requests'[e] # requests[e]
                                  <6>1. kernel[k] = "up" =>
                                          requests'[e] =
                                            Append(requests[e],
                                                   [step |-> task[t].step,
                                                    kernel |-> k])
                                        BY <1>1, <1>2, <1>14, <2>2, <3>3
                                        DEF Shape, Sends
                                  <6>2. requests[e] \in Seq(Request)
                                        BY <1>1 DEF TypeOK
                                  <6>3. [step |-> task[t].step, kernel |-> k]
                                            \in Request
                                        BY <3>3 DEF TypeOK, TaskOK, Request,
                                           StepPhases, DriverPhases
                                  <6> QED BY <6>1, <6>2, <6>3
                            <5> QED BY <1>1, <1>6, <1>7, <3>1, <4>1, <4>2, <5>1
                      <4>3. CASE requests'[e] # requests[e]
                            <5>1. /\ Len(requests[e]) = task[t].step - 1
                                  /\ requests'[e] =
                                       Append(requests[e],
                                              [step |-> task[t].step,
                                               kernel |-> k])
                                  BY <1>1, <4>3, RequestsSent
                            <5>2. Len(requests'[e]) = Len(requests[e]) + 1
                                  BY <1>1, <5>1, <3>3
                                  DEF TypeOK, TaskOK, Request, StepPhases,
                                      DriverPhases
                            <5> QED BY <1>6, <1>7, <3>1, <5>1, <5>2
                      <4> QED BY <4>2, <4>3
                <3> QED BY <3>1, <3>2, <3>3
          <2> QED BY <2>1, <2>2
    <1>15. ASSUME NEW u \in Task, task'[u].pc \in StepPhases
           PROVE  \A i \in DOMAIN requests'[task'[u].job] :
                      requests'[task'[u].job][i] =
                          [step |-> i, kernel |-> task'[u].kernel]
          <2>1. CASE u # t
                <3>1. /\ task'[u] = task[u]
                      /\ requests'[task[u].job] = requests[task[u].job]
                      BY <1>1, <1>2, <1>5, <1>15, <2>1
                <3> QED BY <1>15, <3>1 DEF LogInv
          <2>2. CASE u = t
                <3>1. task'[u].job = e /\ task'[u].kernel = k
                      BY <1>1, <1>8, <1>15, <2>2
                <3>2. task[t].pc \in StepPhases \/ task[t].pc = "bind_jupyter"
                      BY <1>1, <1>2, <1>15, <2>2
                      DEF Shape, Sends, BeforeSend, AfterSend, StepPhases
                <3>3. \A i \in DOMAIN requests[e] :
                          requests[e][i] = [step |-> i, kernel |-> k]
                      <4>1. CASE task[t].pc = "bind_jupyter"
                            BY <1>9, <4>1
                      <4>2. CASE task[t].pc \in StepPhases
                            BY <4>2 DEF LogInv
                      <4> QED BY <3>2, <4>1, <4>2
                <3>4. CASE requests'[e] = requests[e]
                      BY <3>1, <3>3, <3>4
                <3>5. CASE requests'[e] # requests[e]
                      <4> DEFINE request == [step |-> task[t].step, kernel |-> k]
                      <4>1. /\ Len(requests[e]) = task[t].step - 1
                            /\ requests'[e] = Append(requests[e], request)
                            /\ task[t].pc = "send"
                            BY <1>1, <3>5, RequestsSent
                      <4>2. request \in Request /\ requests[e] \in Seq(Request)
                            BY <1>1, <4>1 DEF TypeOK, TaskOK, Request,
                               StepPhases, DriverPhases
                      <4> HIDE DEF request
                      <4>3. /\ DOMAIN requests[e] = 1..Len(requests[e])
                            /\ DOMAIN Append(requests[e], request) =
                                  1..(Len(requests[e]) + 1)
                            /\ \A i \in 1..Len(requests[e]) :
                                  Append(requests[e], request)[i] = requests[e][i]
                            /\ Append(requests[e], request)[Len(requests[e]) + 1]
                                  = request
                            BY <4>2
                      <4>4. Len(requests[e]) + 1 = task[t].step
                            BY <1>6, <1>7, <1>1, <4>1
                      <4>5. \A i \in DOMAIN requests'[e] :
                                requests'[e][i] = [step |-> i, kernel |-> k]
                            BY <1>6, <3>3, <4>1, <4>3, <4>4 DEF request
                      <4> QED BY <3>1, <4>5
                <3> QED BY <3>4, <3>5
          <2> QED BY <2>1, <2>2
    <1>16. ASSUME NEW u \in Task, task'[u].pc \in DriverPhases \ {"create_session"}
           PROVE  kernel'[task'[u].kernel] # "unused"
          <2>1. CASE u # t
                BY <1>1, <1>5, <1>16, <2>1
          <2>2. CASE u = t
                BY <1>1, <1>3, <1>4, <1>16, <2>2 DEF Shape, Sends, LogInv
          <2> QED BY <2>1, <2>2
    <1> QED BY <1>11, <1>12, <1>13, <1>14, <1>15, <1>16
            DEF LogInv, BeforeSend, AfterSend

(***************************************************************************)
(* Code that is sent continues what was sent, on the kernel in the store.  *)
(***************************************************************************)
LEMMA CodeShape ==
    ASSUME TypeOK, OwnerInv, SingleDriver, BindingInv, LogInv,
           CodeRunsOnceInOrder, KernelBoundBeforeCode,
           NEW t \in Task, NEW next, Shape(t, next)
    PROVE  CodeRunsOnceInOrder' /\ KernelBoundBeforeCode'
    <1> SUFFICES ASSUME NEW e \in Executions
                 PROVE  /\ \A i \in DOMAIN requests'[e] : requests'[e][i] =
                              [step |-> i, kernel |-> requests'[e][1].kernel]
                        /\ requests'[e] # <<>> =>
                              store'[e].kernel = requests'[e][1].kernel
        BY DEF CodeRunsOnceInOrder, KernelBoundBeforeCode
    <1>1. requests[e] \in Seq(Request)
          BY DEF TypeOK
    <1>2. CASE requests'[e] = requests[e]
          <2>1. requests[e] # <<>> => requests[e][1].kernel \in Kernels
                <3>1. requests[e] # <<>> => requests[e][1] \in Request
                      BY <1>1
                <3> QED BY <3>1 DEF Request
          <2>2. requests[e] # <<>> => store'[e].kernel = store[e].kernel
                BY <2>1, KernelKept, NoKernelAssumption DEF KernelBoundBeforeCode
          <2> QED BY <1>2, <2>2 DEF CodeRunsOnceInOrder, KernelBoundBeforeCode
    <1>3. CASE requests'[e] # requests[e]
          <2> DEFINE k == task[t].kernel
                     request == [step |-> task[t].step, kernel |-> k]
          <2>1. /\ e = task[t].job
                /\ task[t].pc = "send"
                /\ store' = store
                /\ store[e].kernel = k
                /\ Len(requests[e]) = task[t].step - 1
                /\ requests'[e] = Append(requests[e], request)
                BY <1>3, RequestsSent
          <2>2. \A i \in DOMAIN requests[e] :
                    requests[e][i] = [step |-> i, kernel |-> k]
                BY <2>1 DEF LogInv, StepPhases
          <2>3. request \in Request /\ task[t].step \in Nat
                BY <2>1, NumStepsAssumption DEF TypeOK, TaskOK, TaskState, Request,
                   StepPhases, DriverPhases
          <2> HIDE DEF request
          <2>4. /\ Len(requests[e]) \in Nat
                /\ DOMAIN requests[e] = 1..Len(requests[e])
                /\ DOMAIN Append(requests[e], request) = 1..(Len(requests[e]) + 1)
                /\ \A i \in 1..Len(requests[e]) :
                      Append(requests[e], request)[i] = requests[e][i]
                /\ Append(requests[e], request)[Len(requests[e]) + 1] = request
                BY <1>1, <2>3
          <2>5. \A i \in DOMAIN requests'[e] :
                    requests'[e][i] = [step |-> i, kernel |-> k]
                BY <2>1, <2>2, <2>3, <2>4 DEF request
          <2>6. requests'[e][1].kernel = k
                <3>1. 1 \in DOMAIN requests'[e]
                      BY <2>1, <2>4
                <3>2. requests'[e][1] = [step |-> 1, kernel |-> k]
                      BY <2>5, <3>1
                <3> QED BY <3>2
          <2> QED BY <2>1, <2>5, <2>6
    <1> QED BY <1>2, <1>3
------------------------------------------------------------------------------
(* The other steps: submission, delivery, time, crashes. *)

OwnershipSafety == OwnershipInv /\ CodeRunsOnceInOrder /\ KernelBoundBeforeCode

LEMMA SubmitSafety ==
    ASSUME TypeOK, OwnershipSafety, NEW e \in Executions,
           Submit(e) \/ SubmitWithoutXadd(e)
    PROVE  OwnershipSafety'
    <1> USE DEF OwnershipSafety, OwnershipInv
    <1>1. /\ store[e].status = "ABSENT"
          /\ stream' = stream \/ stream' = Append(stream, e)
          /\ UNCHANGED <<delivered, pending, stale, task, kernel, requests>>
          BY DEF Submit, SubmitWithoutXadd, Absent
    <1>2. store' = [store EXCEPT ![e] = BuildInitialState]
          BY DEF Submit, SubmitWithoutXadd
    <1>3. /\ store'[e] = BuildInitialState
          /\ \A f \in Executions \ {e} : store'[f] = store[f]
          BY <1>2 DEF TypeOK
    <1>4. /\ BuildInitialState.status = "QUEUED"
          /\ BuildInitialState.kernel = NoKernel
          /\ BuildInitialState.callback = "NOT_REQUESTED"
          BY DEF BuildInitialState, Absent
    <1>5. \A u \in Task : task[u].pc # "free" =>
              task[u].job \in Executions \ {e}
          BY <1>1 DEF TypeOK, TaskOK, DeliveryInv, Free
    <1>6. DeliveryInv'
          <2>1. /\ \A i \in 1..Len(stream) : stream[i] \in Executions \ {e}
                /\ pending \subseteq Executions \ {e}
                /\ delivered \in 0..Len(stream)
                /\ Len(stream) \in Nat
                BY <1>1 DEF TypeOK, DeliveryInv
          <2>2. CASE stream' = stream
                BY <1>1, <1>3, <1>5, <2>1, <2>2 DEF DeliveryInv, Works, Free
          <2>3. CASE stream' = Append(stream, e)
                <3>1. /\ Len(stream') = Len(stream) + 1
                      /\ \A i \in 1..Len(stream) : stream'[i] = stream[i]
                      /\ stream'[Len(stream) + 1] = e
                      BY <2>3 DEF TypeOK
                <3>2. \A i \in 1..Len(stream') :
                          i \in 1..Len(stream) \/ i = Len(stream) + 1
                      BY <2>1, <3>1
                <3>3. \A i \in 1..Len(stream') : store'[stream'[i]].status # "ABSENT"
                      BY <1>3, <1>4, <2>1, <3>1, <3>2 DEF DeliveryInv
                <3>4. \A i, j \in 1..Len(stream') :
                          stream'[i] = stream'[j] => i = j
                      BY <2>1, <3>1, <3>2 DEF DeliveryInv
                <3>5. ASSUME NEW i \in (delivered' + 1)..Len(stream')
                      PROVE  /\ stream'[i] \notin pending'
                             /\ \A u \in Task : ~Works(u, stream[i])'
                      <4>1. CASE i = Len(stream) + 1
                            BY <1>1, <1>5, <2>1, <3>1, <4>1 DEF Works, Free
                      <4>2. CASE i \in 1..Len(stream)
                            BY <1>1, <2>1, <3>1, <4>2 DEF DeliveryInv, Works, Free
                      <4> QED BY <1>1, <2>1, <3>1, <4>1, <4>2
                <3>6. /\ \A f \in pending' : store'[f].status # "ABSENT"
                      /\ \A u \in Task : task'[u].pc # "free" =>
                            store'[task'[u].job].status # "ABSENT"
                      BY <1>1, <1>3, <1>5, <2>1 DEF DeliveryInv, Free
                <3> QED BY <3>3, <3>4, <3>5, <3>6 DEF DeliveryInv, Free, Works
          <2> QED BY <1>1, <2>2, <2>3
    <1>7. /\ "free" \notin StartPhases \cup DriverPhases \cup StaleDocumentPhases
          /\ SessionPhases \cup StepPhases \cup ClosePhases = DriverPhases
          BY DEF StartPhases, DriverPhases, SessionPhases, StepPhases,
                 ClosePhases, StaleDocumentPhases, SavePhases
    <1>8. OwnerInv'
          BY <1>1, <1>3, <1>5, <1>7
          DEF OwnerInv, Free, Loaded, StartPhases
    <1>9. SingleDriver'
          BY <1>1 DEF SingleDriver
    <1>10. BindingInv'
          <2>1. \A f \in Executions : Unstarted(f)' => store'[f].kernel = NoKernel
                BY <1>3, <1>4 DEF BindingInv, Unstarted
          <2>2. \A f \in Executions : store'[f].kernel = NoKernel =>
                    ~IsTerminal(store'[f]) /\ store'[f].callback # "DELIVERED"
                BY <1>3, <1>4 DEF BindingInv, IsTerminal, TerminalStatus
          <2>3. \A u \in Task : task[u].pc # "free" =>
                    store'[task[u].job] = store[task[u].job]
                BY <1>3, <1>5
          <2> QED BY <1>1, <1>7, <2>1, <2>2, <2>3 DEF BindingInv, Free, Loaded
    <1>11. LogInv'
          <2>1. \A f \in Executions : Unstarted(f)' => requests[f] = <<>>
                BY <1>1, <1>3 DEF LogInv, Unstarted
          <2> QED BY <1>1, <2>1 DEF LogInv
    <1>12. CodeRunsOnceInOrder' /\ KernelBoundBeforeCode'
          <2>1. requests[e] = <<>>
                BY <1>1 DEF LogInv, Unstarted
          <2> QED BY <1>1, <1>3, <2>1
                  DEF CodeRunsOnceInOrder, KernelBoundBeforeCode
    <1> QED BY <1>6, <1>8, <1>9, <1>10, <1>11, <1>12

(***************************************************************************)
(* A step that writes no document and sends no code, after which every     *)
(* task is where it was, gone, or just started on an execution that no     *)
(* other task is about to start.                                           *)
(***************************************************************************)
LEMMA OtherSafety ==
    ASSUME TypeOK, OwnershipSafety,
           UNCHANGED <<store, stream, requests>>,
           DeliveryInv',
           \A u \in Task :
               \/ task'[u] = task[u]
               \/ task'[u].pc = "free"
               \/ task'[u].pc = "processor_get" /\ task'[u].st = Absent,
           \A u \in Task : task'[u].pc \in StartPhases =>
               /\ task'[u].job \notin stale'
               /\ \A v \in Task :
                     task'[v].pc \in StartPhases /\ task'[v].job = task'[u].job
                        => u = v,
           \A l \in Kernels : kernel[l] # "unused" =>
               kernel'[l] # "unused" /\ (kernel'[l] = "up" => kernel[l] = "up")
    PROVE  OwnershipSafety'
    <1> USE DEF OwnershipSafety, OwnershipInv
    <1>1. /\ {"free", "processor_get"} \cap
                (DriverPhases \cup StaleDocumentPhases \cup {"mark_running"}) = {}
          /\ "processor_get" \in StartPhases
          /\ "free" \notin StartPhases
          /\ DriverPhases = SessionPhases \cup StepPhases \cup ClosePhases
          BY DEF StartPhases, DriverPhases, SessionPhases, StepPhases,
                 ClosePhases, StaleDocumentPhases, SavePhases
    <1>2. OwnerInv'
          BY <1>1 DEF OwnerInv, Free, Loaded
    <1>3. SingleDriver'
          BY <1>1 DEF SingleDriver
    <1>4. BindingInv'
          BY <1>1 DEF BindingInv, Free, Loaded, Unstarted
    <1>5. LogInv'
          <2>1. \A u \in Task : task[u].pc \in DriverPhases \ {"create_session"} =>
                    task[u].kernel \in Kernels
                BY DEF TypeOK, TaskOK
          <2>2. /\ {"mark_step_running", "set_request_msg_id", "send"}
                       \subseteq StepPhases
                /\ {"recv", "mark_step_succeeded", "mark_step_failed"}
                       \subseteq StepPhases
                /\ "create_session" \notin StepPhases
                BY DEF StepPhases
          <2>3. \A f \in Executions : Unstarted(f)' => requests'[f] = <<>>
                BY DEF LogInv, Unstarted
          <2>4. ASSUME NEW u \in Task, task'[u].pc \in DriverPhases
                PROVE  /\ task'[u] = task[u]
                       /\ task[u].pc # "create_session" =>
                             /\ kernel'[task[u].kernel] # "unused"
                             /\ kernel'[task[u].kernel] = "up" =>
                                   kernel[task[u].kernel] = "up"
                <3>1. task'[u] = task[u]
                      BY <1>1, <2>4
                <3> QED BY <2>1, <2>4, <3>1 DEF LogInv
          <2> QED BY <1>1, <2>2, <2>3, <2>4 DEF LogInv
    <1> QED BY <1>2, <1>3, <1>4, <1>5 DEF CodeRunsOnceInOrder, KernelBoundBeforeCode
(***************************************************************************)
(* A delivered command is started by a task, or its delivery is lost.      *)
(***************************************************************************)
LEMMA StartedFields ==
    ASSUME TypeOK, NEW t \in Task, NEW e,
           Become(t, Start(e)) \/ UNCHANGED task
    PROVE  /\ \A u \in Task \ {t} : task'[u] = task[u]
           /\ \/ task'[t] = task[t]
              \/ /\ task'[t].pc = "processor_get"
                 /\ task'[t].st = Absent
                 /\ task'[t].job = e
    BY DEF TypeOK, Become, Start, FreeTask

LEMMA DeliverySafety ==
    ASSUME TypeOK, OwnershipSafety, NEW t \in Task,
           Consume(t) \/ \E e \in Executions : Claim(t, e)
    PROVE  OwnershipSafety'
    <1> USE DEF OwnershipSafety, OwnershipInv
    <1>1. /\ UNCHANGED <<store, stream, kernel, requests>>
          /\ Free(t)
          BY DEF Consume, Claim
    <1>2. "free" \notin StartPhases
          BY DEF StartPhases
    <1>3. ASSUME NEW e \in Executions,
                 Become(t, Start(e)) \/ UNCHANGED task,
                 e \notin stale',
                 stale' \subseteq stale,
                 \A u \in Task : task[u].pc \in StartPhases => task[u].job # e,
                 DeliveryInv'
          PROVE  OwnershipSafety'
          <2>1. /\ \A u \in Task \ {t} : task'[u] = task[u]
                /\ \/ task'[t] = task[t]
                   \/ /\ task'[t].pc = "processor_get"
                      /\ task'[t].st = Absent
                      /\ task'[t].job = e
                BY <1>3, StartedFields
          <2>2. task[t].pc \notin StartPhases
                BY <1>1, <1>2 DEF Free
          <2>3. ASSUME NEW u \in Task, task'[u].pc \in StartPhases
                PROVE  /\ task'[u].job \notin stale'
                       /\ \A v \in Task :
                             task'[v].pc \in StartPhases
                                /\ task'[v].job = task'[u].job => u = v
                BY <1>3, <2>1, <2>2, <2>3 DEF OwnerInv
          <2> QED BY <1>1, <1>3, <2>1, <2>3, OtherSafety
    <1>4. CASE Consume(t)
          <2> DEFINE e == stream[delivered + 1]
          <2>1. /\ delivered \in Nat /\ Len(stream) \in Nat
                /\ delivered + 1 \in 1..Len(stream)
                /\ delivered + 1 \in (delivered + 1)..Len(stream)
                /\ e \in Executions
                BY <1>4 DEF Consume, TypeOK
          <2>2. /\ e \notin pending
                /\ \A u \in Task : ~Works(u, e)
                /\ store[e].status # "ABSENT"
                BY <2>1 DEF DeliveryInv
          <2>3. /\ delivered' = delivered + 1
                /\ pending' = pending \cup {e}
                /\ stale' = stale
                /\ Become(t, Start(e)) \/ UNCHANGED task
                BY <1>4 DEF Consume
          <2>4. /\ e \notin stale'
                /\ \A u \in Task : task[u].pc \in StartPhases => task[u].job # e
                BY <1>2, <2>2, <2>3 DEF Works, Free, TypeOK
          <2>5. /\ \A u \in Task \ {t} : task'[u] = task[u]
                /\ \/ task'[t] = task[t]
                   \/ task'[t].pc = "processor_get" /\ task'[t].job = e
                BY <2>3, StartedFields
          <2>6. ASSUME NEW i \in (delivered' + 1)..Len(stream')
                PROVE  /\ stream'[i] \notin pending'
                       /\ \A u \in Task : ~Works(u, stream[i])'
                <3>1. /\ i \in (delivered + 1)..Len(stream)
                      /\ i \in 1..Len(stream)
                      /\ i # delivered + 1
                      /\ stream'[i] = stream[i]
                      BY <1>1, <2>1, <2>3
                <3>2. stream[i] # e
                      BY <2>1, <3>1 DEF DeliveryInv
                <3>3. /\ stream[i] \notin pending
                      /\ \A u \in Task : ~Works(u, stream[i])
                      BY <3>1 DEF DeliveryInv
                <3> QED BY <2>3, <2>5, <3>1, <3>2, <3>3 DEF Works, Free
          <2>7. DeliveryInv'
                BY <1>1, <2>2, <2>3, <2>5, <2>6 DEF DeliveryInv, Free, Works
          <2> HIDE DEF e
          <2> QED BY <1>3, <2>1, <2>3, <2>4, <2>7
    <1>5. CASE \E e \in Executions : Claim(t, e)
          <2>1. PICK e \in Executions : Claim(t, e)
                BY <1>5
          <2>2. /\ e \in stale /\ e \in pending
                /\ UNCHANGED <<delivered, pending>>
                /\ stale' = stale \ {e}
                /\ Become(t, Start(e)) \/ UNCHANGED task
                BY <2>1 DEF Claim, TypeOK
          <2>3. /\ \A u \in Task \ {t} : task'[u] = task[u]
                /\ \/ task'[t] = task[t]
                   \/ task'[t].pc = "processor_get" /\ task'[t].job = e
                BY <2>2, StartedFields
          <2>4. \A u \in Task : task[u].pc \in StartPhases => task[u].job # e
                BY <2>2 DEF OwnerInv
          <2>5. \A i \in (delivered + 1)..Len(stream) : stream[i] # e
                BY <2>2 DEF DeliveryInv
          <2>6. DeliveryInv'
                BY <1>1, <2>2, <2>3, <2>5 DEF DeliveryInv, Free, Works
          <2> QED BY <1>3, <2>2, <2>4, <2>6
    <1> QED BY <1>4, <1>5

(***************************************************************************)
(* Time, kernels and crashes.  A command whose task is in StartPhases      *)
(* cannot become stale: this is what PromptStart is needed for.            *)
(***************************************************************************)
LEMMA EnvironmentSafety ==
    ASSUME TypeOK, OwnershipSafety, PromptStart,
           \/ \E e \in Executions : BecomeStale(e)
           \/ \E k \in Kernels : KernelVanishes(k)
           \/ \E w \in Workers : Crash(w)
           \/ UNCHANGED vars
    PROVE  OwnershipSafety'
    <1> USE DEF OwnershipSafety, OwnershipInv
    <1>1. UNCHANGED <<store, stream, delivered, pending, requests>>
          BY DEF BecomeStale, KernelVanishes, Crash, vars, redisVars
    <1>2. \A u \in Task : task'[u] = task[u] \/ task'[u].pc = "free"
          BY DEF BecomeStale, KernelVanishes, Crash, vars, redisVars, FreeTask
    <1>3. DeliveryInv'
          BY <1>1, <1>2 DEF DeliveryInv, Free, Works
    <1>4. "free" \notin StartPhases
          BY DEF StartPhases
    <1>5. \A l \in Kernels : kernel[l] # "unused" =>
              kernel'[l] # "unused" /\ (kernel'[l] = "up" => kernel[l] = "up")
          BY DEF BecomeStale, KernelVanishes, Crash, vars, redisVars, TypeOK
    <1>6. ASSUME NEW u \in Task, task'[u].pc \in StartPhases
          PROVE  task'[u].job \notin stale'
          <2>1. task'[u] = task[u] /\ task[u].job \notin stale
                BY <1>2, <1>4, <1>6 DEF OwnerInv
          <2>2. CASE \E e \in Executions : BecomeStale(e)
                <3>1. PICK e \in Executions : BecomeStale(e)
                      BY <2>2
                <3>2. task[u].job # e
                      BY <1>6, <2>1, <3>1 DEF BecomeStale, PromptStart
                <3> QED BY <2>1, <3>1, <3>2 DEF BecomeStale
          <2>3. CASE stale' = stale
                BY <2>1, <2>3
          <2> QED BY <2>2, <2>3 DEF KernelVanishes, Crash, vars, redisVars
    <1>7. \A u, v \in Task :
              task'[u].pc \in StartPhases /\ task'[v].pc \in StartPhases
                 /\ task'[u].job = task'[v].job => u = v
          BY <1>2, <1>4 DEF OwnerInv
    <1> QED BY <1>1, <1>2, <1>3, <1>5, <1>6, <1>7, OtherSafety

LEMMA SafetyInit == Init => OwnershipSafety
    <1> SUFFICES ASSUME Init PROVE OwnershipSafety
        OBVIOUS
    <1>1. /\ \A e \in Executions : store[e] = Absent /\ requests[e] = <<>>
          /\ \A t \in Task : task[t].pc = "free"
          /\ stream = <<>> /\ delivered = 0 /\ pending = {}
          BY DEF Init, FreeTask
    <1>2. /\ Absent.status = "ABSENT"
          /\ Absent.kernel = NoKernel
          /\ Absent.callback = "NOT_REQUESTED"
          BY DEF Absent
    <1>3. "free" \notin StartPhases \cup DriverPhases \cup StaleDocumentPhases
          BY DEF StartPhases, DriverPhases, SessionPhases, StepPhases,
                 ClosePhases, StaleDocumentPhases, SavePhases
    <1>4. DeliveryInv
          BY <1>1 DEF DeliveryInv, Free
    <1>5. OwnerInv /\ SingleDriver
          BY <1>1, <1>3 DEF OwnerInv, SingleDriver, Free, StartPhases
    <1>6. BindingInv
          BY <1>1, <1>2, <1>3
          DEF BindingInv, IsTerminal, TerminalStatus, Free, DriverPhases
    <1>7. LogInv
          BY <1>1, <1>3 DEF LogInv, DriverPhases, StepPhases
    <1>8. CodeRunsOnceInOrder /\ KernelBoundBeforeCode
          BY <1>1 DEF CodeRunsOnceInOrder, KernelBoundBeforeCode
    <1> QED BY <1>4, <1>5, <1>6, <1>7, <1>8 DEF OwnershipSafety, OwnershipInv

LEMMA SafetyStep ==
    ASSUME PromptStart
    PROVE  TypeOK /\ OwnershipSafety /\ [Next]_vars => OwnershipSafety'
    <1> SUFFICES ASSUME TypeOK, OwnershipSafety, [Next]_vars
                 PROVE  OwnershipSafety'
        OBVIOUS
    <1>1. CASE \E t \in Task : TaskStep(t) \/ RedisError(t) \/ JupyterError(t)
          <2>1. PICK t \in Task : TaskStep(t) \/ RedisError(t) \/ JupyterError(t)
                BY <1>1
          <2>2. PICK next : Shape(t, next)
                BY <2>1, StepShape
          <2> QED BY <2>2, DeliveryShape, OwnerShape, DriverShape, BindingShape,
                     LogShape, CodeShape DEF OwnershipSafety, OwnershipInv
    <1>2. CASE \E t \in Task :
                  Consume(t) \/ \E e \in Executions : Claim(t, e)
          BY <1>2, DeliverySafety
    <1>3. CASE \E e \in Executions : Submit(e) \/ SubmitWithoutXadd(e)
          BY <1>3, SubmitSafety
    <1>4. CASE \/ \E e \in Executions : BecomeStale(e)
               \/ \E k \in Kernels : KernelVanishes(k)
               \/ \E w \in Workers : Crash(w)
               \/ UNCHANGED vars
          BY <1>4, EnvironmentSafety
    <1> QED BY <1>1, <1>2, <1>3, <1>4 DEF Next

------------------------------------------------------------------------------
(***************************************************************************)
(* The inductive invariant holds in every reachable state, so no two tasks *)
(* ever drive the Jupyter session of one execution at the same time.       *)
(***************************************************************************)
THEOREM OwnershipCorrect ==
    ASSUME PromptStart
    PROVE  Spec => []OwnershipInv
    <1>1. Init => OwnershipSafety
          BY SafetyInit
    <1>2. TypeOK /\ OwnershipSafety /\ [Next]_vars => OwnershipSafety'
          BY SafetyStep
    <1>3. OwnershipSafety => OwnershipInv
          BY DEF OwnershipSafety
    <1> QED BY <1>1, <1>2, <1>3, TypeCorrect, PTL DEF Spec

(***************************************************************************)
(* One task at most drives the Jupyter session of an execution, of all     *)
(* tasks of all workers.                                                   *)
(***************************************************************************)
THEOREM OneDriver ==
    ASSUME PromptStart
    PROVE  Spec => []SingleDriver
    <1>1. OwnershipInv => SingleDriver
          BY DEF OwnershipInv
    <1> QED BY <1>1, OwnershipCorrect, PTL

(***************************************************************************)
(* No redelivery, crash, lost reply or race of two workers makes a kernel  *)
(* receive code of an execution twice, out of order or on two kernels.     *)
(***************************************************************************)
THEOREM CodeRunsOnce ==
    ASSUME PromptStart
    PROVE  Spec => []CodeRunsOnceInOrder
    <1>1. Init => OwnershipSafety
          BY SafetyInit
    <1>2. TypeOK /\ OwnershipSafety /\ [Next]_vars => OwnershipSafety'
          BY SafetyStep
    <1>3. OwnershipSafety => CodeRunsOnceInOrder
          BY DEF OwnershipSafety
    <1> QED BY <1>1, <1>2, <1>3, TypeCorrect, PTL DEF Spec

(***************************************************************************)
(* Code reaches only the kernel that the stored document names, so that    *)
(* _recover_running asks Jupyter about the kernel that ran the code.       *)
(***************************************************************************)
THEOREM KernelIsBound ==
    ASSUME PromptStart
    PROVE  Spec => []KernelBoundBeforeCode
    <1>1. Init => OwnershipSafety
          BY SafetyInit
    <1>2. TypeOK /\ OwnershipSafety /\ [Next]_vars => OwnershipSafety'
          BY SafetyStep
    <1>3. OwnershipSafety => KernelBoundBeforeCode
          BY DEF OwnershipSafety
    <1> QED BY <1>1, <1>2, <1>3, TypeCorrect, PTL DEF Spec
==============================================================================
