------------------------ MODULE ExecutionTakeoverProofs ------------------------
(***************************************************************************)
(* A takeover does no harm, for every number of workers, slots,            *)
(* executions, kernels, steps and faults, provided that a command does not *)
(* become stale before its task has left StartPhases.  The steps of a task *)
(* are reduced to Shape (ExecutionOwnershipProofs) and to the details      *)
(* below; each part of the invariant is proved from the two.               *)
(***************************************************************************)
EXTENDS ExecutionTakeover, ExecutionOwnershipProofs, FiniteSetTheorems

------------------------------------------------------------------------------
(* What a step of task t does, beyond its shape. *)

\* The document new that a task writes, against the one it holds.
Edited(tk, new) ==
    /\ new.errorType = "KernelLost" =>
          \/ tk.st.errorType = "KernelLost"
          \/ tk.pc = "mark_infrastructure_failed"
    /\ \A i \in Step : new.steps[i] = "FAILED" =>
          \/ tk.st.steps[i] = "FAILED"
          \/ tk.pc = "mark_step_failed" /\ i = tk.step
    /\ new.request = IF tk.pc = "set_request_msg_id"
                     THEN tk.step ELSE tk.st.request
    /\ IsTerminal(new) =>
          \/ IsTerminal(tk.st)
          \/ tk.pc \in {"mark_step_failed", "mark_succeeded",
                        "mark_infrastructure_failed"}

Edits(t) ==
    LET e == task[t].job
    IN store'[e] = store[e] \/ Edited(task[t], store'[e])

\* The phases a task may enter, and on what it does so.
Enters(t) ==
    LET pc   == task[t].pc
        e    == task[t].job
        next == task'[t]
    IN /\ next.pc \in CodePhases => pc \in CodePhases \cup {"mark_running"}
       /\ pc = "mark_step_failed" /\ Loaded(t) /\ e \in StopOnError =>
             next.pc \notin CodePhases
       /\ next.pc = "send" =>
             pc = "set_request_msg_id" /\ store'[e].request = task[t].step
       /\ next.pc = "get_kernel" =>
             next.kernel = store[e].kernel /\ store'[e] = store[e]
       /\ next.pc = "mark_infrastructure_failed" =>
             \/ pc = next.pc
             \/ pc = "get_kernel" /\ kernel[task[t].kernel] = "gone"
       /\ next.pc \in TakeoverPhases \ {"mark_infrastructure_failed"} =>
             pc \in TakeoverPhases \cup ClosePhases \/ IsTerminal(store[e])

\* The kernels a task starts, and the one it has while it opens a session.
Opens(t) ==
    LET pc   == task[t].pc
        next == task'[t]
    IN /\ \A k \in Kernels : kernel'[k] = "up" /\ kernel[k] # "up" =>
             /\ pc = "create_session"
             /\ kernel[k] = "unused"
             /\ store' = store
             /\ next.pc \in {"free", "connect_channels"}
             /\ next.pc = "connect_channels" => next.kernel = k
             /\ \A l \in Kernels \ {k} : kernel'[l] = kernel[l]
       /\ next.pc \in SessionPhases =>
             \/ pc = "mark_running" /\ Loaded(t) /\ next.pc = "create_session"
             \/ /\ {pc, next.pc} \subseteq {"connect_channels", "bind_jupyter"}
                /\ next.kernel = task[t].kernel
             \/ /\ pc = "create_session" /\ next.pc = "connect_channels"
                /\ kernel[next.kernel] = "unused"
                /\ kernel'[next.kernel] = "up"

Details(t) == Edits(t) /\ Enters(t) /\ Opens(t)

------------------------------------------------------------------------------
(***************************************************************************)
(* Deliver starts a callback only for a final status.                      *)
(***************************************************************************)
LEMMA DeliverTerminal ==
    ASSUME NEW e, NEW s
    PROVE  /\ Deliver(e, s).pc \in {"acknowledge", "mark_callback_pending", "free"}
           /\ Deliver(e, s).pc = "mark_callback_pending" => IsTerminal(s)
    BY DEF Deliver, FreeTask

(***************************************************************************)
(* A task that ends enters nothing.                                        *)
(***************************************************************************)
LEMMA FreeDetails ==
    ASSUME TypeOK, NEW t \in Task, task' = [task EXCEPT ![t] = FreeTask]
    PROVE  /\ Enters(t)
           /\ UNCHANGED kernel => Opens(t)
    <1>1. task'[t].pc = "free"
          BY DEF FreeTask, TypeOK
    <1> QED BY <1>1 DEF Enters, Opens, CodePhases, SessionPhases, StepPhases,
                        TakeoverPhases, CallbackPhases

(***************************************************************************)
(* A repository method, which goes on to next if its reply arrives.        *)
(***************************************************************************)
LEMMA SaveDetails ==
    ASSUME TypeOK, NEW t \in Task, NEW phase \in SavePhases, NEW new, NEW next,
           Save(t, phase, new, next), Edited(task[t], new),
           next.pc \notin {"connect_channels", "bind_jupyter"},
           next.pc = "create_session" => phase = "mark_running",
           next.pc \in CodePhases =>
               /\ phase \in CodePhases \cup {"mark_running"}
               /\ ~(phase = "mark_step_failed" /\ task[t].job \in StopOnError),
           next.pc = "send" =>
               phase = "set_request_msg_id" /\ new.request = task[t].step,
           next.pc \notin {"get_kernel", "mark_infrastructure_failed"},
           next.pc \in TakeoverPhases => phase \in TakeoverPhases
    PROVE  Details(t)
    <1> DEFINE e == task[t].job
    <1>1. /\ task[t].pc = phase
          /\ Loaded(t)
          /\ UNCHANGED kernel
          BY DEF Save
    <1>2. e \in Executions
          BY <1>1 DEF TypeOK, TaskOK, SavePhases
    <1>3. store'[e] = new
          BY <1>2 DEF Save, TypeOK
    <1>4. Edits(t)
          BY <1>3 DEF Edits
    <1>5. CASE Become(t, next)
          <2>1. task'[t] = next
                BY <1>5 DEF Become, TypeOK
          <2>2. Enters(t)
                BY <1>1, <1>3, <2>1 DEF Enters
          <2>3. Opens(t)
                BY <1>1, <2>1 DEF Opens, SessionPhases
          <2> QED BY <1>4, <2>2, <2>3 DEF Details
    <1>6. CASE End(t)
          BY <1>1, <1>4, <1>6, FreeDetails DEF Details, End, Become
    <1> QED BY <1>5, <1>6 DEF Save

(***************************************************************************)
(* What the repository methods change of what concerns a takeover.         *)
(***************************************************************************)
LEMMA MethodsEdit ==
    ASSUME NEW tk, tk.st \in ExecutionState, tk.step \in Nat
    PROVE  /\ tk.pc = "mark_running" =>
                 Edited(tk, MarkRunning(tk.st))
           /\ tk.pc = "bind_jupyter" =>
                 Edited(tk, BindJupyter(tk.st, tk.kernel))
           /\ tk.pc = "mark_step_running" =>
                 Edited(tk, MarkStepRunning(tk.st, tk.step))
           /\ tk.pc = "set_request_msg_id" =>
                 Edited(tk, SetRequestMsgId(tk.st, tk.step))
           /\ tk.pc = "mark_step_succeeded" =>
                 Edited(tk, MarkStepSucceeded(tk.st, tk.step))
           /\ tk.pc = "mark_step_failed" =>
                 Edited(tk, MarkStepFailed(tk.st, tk.step))
           /\ tk.pc = "mark_succeeded" =>
                 Edited(tk, MarkSucceeded(tk.st))
           /\ tk.pc = "mark_infrastructure_failed" =>
                 Edited(tk, MarkInfrastructureFailed(tk.st))
           /\ tk.pc # "set_request_msg_id" =>
                 /\ \A event : Edited(tk, MarkCallbackPending(tk.st, event))
                 /\ Edited(tk, MarkCallbackDelivered(tk.st))
                 /\ Edited(tk, MarkCallbackFailed(tk.st))
                 /\ Edited(tk, tk.st)
    <1> DEFINE st == tk.st
               i == tk.step
               k == tk.kernel
    <1>1. ASSUME NEW new, new.request = st.request, new.errorType = st.errorType,
                 new.steps = st.steps, IsTerminal(new) => IsTerminal(st),
                 tk.pc # "set_request_msg_id"
          PROVE  Edited(tk, new)
          BY <1>1 DEF Edited
    <1> USE DEF ExecutionState, IsTerminal, TerminalStatus
    <1>2. ASSUME tk.pc = "mark_running" PROVE Edited(tk, MarkRunning(st))
          BY <1>1, <1>2 DEF MarkRunning
    <1>3. ASSUME tk.pc = "bind_jupyter" PROVE Edited(tk, BindJupyter(st, k))
          BY <1>1, <1>3 DEF BindJupyter
    <1>4. ASSUME tk.pc = "mark_step_running"
          PROVE  Edited(tk, MarkStepRunning(st, i))
          BY <1>4 DEF Edited, MarkStepRunning
    <1>5. ASSUME tk.pc = "set_request_msg_id"
          PROVE  Edited(tk, SetRequestMsgId(st, i))
          BY <1>5 DEF Edited, SetRequestMsgId
    <1>6. ASSUME tk.pc = "mark_step_succeeded"
          PROVE  Edited(tk, MarkStepSucceeded(st, i))
          BY <1>6 DEF Edited, MarkStepSucceeded
    <1>7. ASSUME tk.pc = "mark_step_failed"
          PROVE  Edited(tk, MarkStepFailed(st, i))
          BY <1>7 DEF Edited, MarkStepFailed
    <1>8. ASSUME tk.pc = "mark_succeeded" PROVE Edited(tk, MarkSucceeded(st))
          BY <1>8 DEF Edited, MarkSucceeded
    <1>9. ASSUME tk.pc = "mark_infrastructure_failed"
          PROVE  Edited(tk, MarkInfrastructureFailed(st))
          BY <1>9 DEF Edited, MarkInfrastructureFailed
    <1>10. ASSUME tk.pc # "set_request_msg_id"
          PROVE  /\ \A event : Edited(tk, MarkCallbackPending(st, event))
                 /\ Edited(tk, MarkCallbackDelivered(st))
                 /\ Edited(tk, MarkCallbackFailed(st))
                 /\ Edited(tk, st)
          <2>1. ASSUME NEW event PROVE Edited(tk, MarkCallbackPending(st, event))
                <3> DEFINE new == MarkCallbackPending(st, event)
                <3>1. /\ new.request = st.request
                      /\ new.errorType = st.errorType
                      /\ new.steps = st.steps
                      /\ new.status = st.status
                      BY DEF MarkCallbackPending
                <3> HIDE DEF new
                <3>2. Edited(tk, new)
                      BY <1>1, <1>10, <3>1
                <3> QED BY <3>2 DEF new
          <2>2. Edited(tk, MarkCallbackDelivered(st))
                BY <1>1, <1>10 DEF MarkCallbackDelivered
          <2>3. Edited(tk, MarkCallbackFailed(st))
                BY <1>1, <1>10 DEF MarkCallbackFailed
          <2>4. Edited(tk, st)
                BY <1>1, <1>10
          <2> QED BY <2>1, <2>2, <2>3, <2>4
    <1> HIDE DEF ExecutionState, IsTerminal, TerminalStatus
    <1> QED BY <1>2, <1>3, <1>4, <1>5, <1>6, <1>7, <1>8, <1>9, <1>10

(***************************************************************************)
(* A step that neither writes a document nor starts a kernel.              *)
(***************************************************************************)
LEMMA QuietDetails ==
    ASSUME NEW t \in Task, UNCHANGED <<store, kernel>>, Enters(t),
           task'[t].pc \notin SessionPhases
    PROVE  Details(t)
    BY DEF Details, Edits, Opens

LEMMA ServiceDetails ==
    ASSUME TypeOK, NEW t \in Task, ServiceStep(t)
    PROVE  Details(t)
    <1> DEFINE e == task[t].job
    <1> USE DEF redisVars
    <1>1. /\ task[t] \in TaskState /\ task[t].st \in ExecutionState
          /\ task[t].step \in Nat
          BY NumStepsAssumption DEF TypeOK, TaskState
    <1>2. CASE ProcessorGet(t) \/ ServiceGet(t)
          <2> DEFINE next == IF task[t].pc = "processor_get"
                             THEN ProcessorNext(e, store[e])
                             ELSE ServiceNext(e, store[e])
          <2>1. /\ task[t].pc \in {"processor_get", "service_get"}
                /\ Become(t, next)
                /\ UNCHANGED <<store, kernel>>
                BY <1>2 DEF ProcessorGet, ServiceGet
          <2>2. /\ next.pc \in {"free", "recover_get", "service_get",
                                "mark_running", "acknowledge",
                                "mark_callback_pending"}
                /\ next.pc = "mark_callback_pending" => IsTerminal(store[e])
                BY DeliverTerminal DEF ProcessorNext, ServiceNext, Start, FreeTask
          <2> HIDE DEF next
          <2>3. task'[t] = next
                BY <2>1 DEF Become, TypeOK
          <2>4. next.pc \notin CodePhases \cup {"mark_infrastructure_failed"}
                BY <2>2 DEF CodePhases, SessionPhases, StepPhases
          <2>5. next.pc \in TakeoverPhases => next.pc = "mark_callback_pending"
                BY <2>2 DEF TakeoverPhases, CallbackPhases
          <2>6. Enters(t)
                BY <2>2, <2>3, <2>4, <2>5 DEF Enters
          <2> QED BY <2>1, <2>3, <2>4, <2>6, QuietDetails DEF CodePhases
    <1>3. CASE RepositoryGet(t)
          <2>1. /\ task[t].pc \in SavePhases
                /\ ~Loaded(t)
                /\ UNCHANGED <<store, kernel>>
                /\ task' = [task EXCEPT ![t] = [task[t] EXCEPT !.st = store[e]]]
                BY <1>3 DEF RepositoryGet, Become
          <2>2. /\ task'[t].pc = task[t].pc
                /\ task'[t].kernel = task[t].kernel
                BY <1>1, <2>1 DEF TypeOK, TaskState
          <2>3. Enters(t)
                BY <2>1, <2>2 DEF Enters, SavePhases
          <2>4. Opens(t)
                BY <2>1, <2>2 DEF Opens, SessionPhases, SavePhases
          <2> QED BY <2>1, <2>3, <2>4 DEF Details, Edits
    <1>4. CASE SetRunning(t)
          <2> DEFINE new == MarkRunning(task[t].st)
                     next == At(t, "create_session")
          <2>1. Save(t, "mark_running", new, next)
                BY <1>4 DEF SetRunning
          <2>2. next.pc = "create_session"
                BY <1>1, AtFields
          <2>3. task[t].pc = "mark_running"
                BY <2>1 DEF Save
          <2>4. Edited(task[t], new)
                BY <1>1, <2>3, MethodsEdit
          <2> HIDE DEF new, next
          <2> QED BY <2>1, <2>2, <2>4, SaveDetails
                  DEF SavePhases, TakeoverPhases, CallbackPhases
    <1> QED BY <1>2, <1>3, <1>4 DEF ServiceStep

(***************************************************************************)
(* The steps of a Jupyter session that write no document.                  *)
(***************************************************************************)
LEMMA SessionDetails ==
    ASSUME TypeOK, NEW t \in Task,
           \/ CreateSession(t) \/ ConnectChannels(t) \/ Send(t)
           \/ RecvReply(t) \/ RecvTimeout(t) \/ RecvDisconnect(t)
           \/ FinalGet(t) \/ DeleteSession(t)
    PROVE  Details(t)
    <1> USE DEF redisVars
    <1>1. task[t] \in TaskState
          BY DEF TypeOK
    <1>2. CASE CreateSession(t)
          <2>1. PICK k \in Kernels :
                    /\ kernel[k] = "unused"
                    /\ kernel' = [kernel EXCEPT ![k] = "up"]
                    /\ \/ Become(t, [task[t] EXCEPT !.pc = "connect_channels",
                                                    !.kernel = k])
                       \/ End(t)
                BY <1>2 DEF CreateSession
          <2>2. /\ task[t].pc = "create_session"
                /\ store' = store
                /\ kernel'[k] = "up"
                /\ \A l \in Kernels \ {k} : kernel'[l] = kernel[l]
                BY <1>2, <2>1 DEF CreateSession, TypeOK
          <2>3. CASE End(t)
                <3>1. task'[t].pc = "free"
                      BY <2>3 DEF End, Become, FreeTask, TypeOK
                <3>2. Enters(t)
                      BY <2>3, FreeDetails DEF End, Become
                <3>3. Opens(t)
                      BY <2>1, <2>2, <3>1 DEF Opens, SessionPhases
                <3> QED BY <2>2, <3>2, <3>3 DEF Details, Edits
          <2>4. CASE ~End(t)
                <3>1. /\ task'[t].pc = "connect_channels"
                      /\ task'[t].kernel = k
                      BY <1>1, <2>1, <2>4 DEF Become, TypeOK, TaskState
                <3>2. Enters(t)
                      BY <2>2, <3>1
                      DEF Enters, CodePhases, SessionPhases, TakeoverPhases,
                          CallbackPhases
                <3>3. Opens(t)
                      BY <2>1, <2>2, <3>1 DEF Opens
                <3> QED BY <2>2, <3>2, <3>3 DEF Details, Edits
          <2> QED BY <2>3, <2>4
    <1>3. CASE ConnectChannels(t)
          <2>1. /\ task[t].pc = "connect_channels"
                /\ UNCHANGED <<store, kernel>>
                /\ Become(t, At(t, "bind_jupyter")) \/ End(t)
                BY <1>3 DEF ConnectChannels
          <2>2. CASE End(t)
                BY <2>1, <2>2, FreeDetails DEF Details, Edits, End, Become
          <2>3. CASE Become(t, At(t, "bind_jupyter"))
                <3>1. /\ task'[t].pc = "bind_jupyter"
                      /\ task'[t].kernel = task[t].kernel
                      BY <1>1, <2>3, AtFields DEF Become, TypeOK
                <3>2. Enters(t)
                      BY <2>1, <3>1
                      DEF Enters, CodePhases, SessionPhases, TakeoverPhases,
                          CallbackPhases
                <3>3. Opens(t)
                      BY <2>1, <3>1 DEF Opens
                <3> QED BY <2>1, <3>2, <3>3 DEF Details, Edits
          <2> QED BY <2>1, <2>2, <2>3
    <1>4. CASE Send(t) \/ RecvReply(t) \/ RecvTimeout(t) \/ RecvDisconnect(t)
          <2>1. /\ task[t].pc \in {"send", "recv"}
                /\ UNCHANGED <<store, kernel>>
                /\ \/ End(t)
                   \/ \E pc \in {"recv", "mark_step_succeeded",
                                 "mark_step_failed"} : Become(t, At(t, pc))
                BY <1>4 DEF Send, RecvReply, RecvTimeout, RecvDisconnect
          <2>2. CASE End(t)
                BY <2>1, <2>2, FreeDetails DEF Details, Edits, End, Become
          <2>3. CASE ~End(t)
                <3>1. task'[t].pc \in {"recv", "mark_step_succeeded",
                                       "mark_step_failed"}
                      BY <1>1, <2>1, <2>3, AtFields DEF Become, TypeOK
                <3>2. Enters(t)
                      BY <2>1, <3>1
                      DEF Enters, CodePhases, StepPhases, TakeoverPhases,
                          CallbackPhases
                <3> QED BY <2>1, <3>1, <3>2, QuietDetails DEF SessionPhases
          <2> QED BY <2>2, <2>3
    <1>5. CASE FinalGet(t)
          <2>1. task[t].pc = "final_get" /\ UNCHANGED <<store, kernel>>
                BY <1>5 DEF FinalGet
          <2>2. task'[t].pc = "delete_session"
                BY <1>1, <1>5 DEF FinalGet, Become, TypeOK, TaskState
          <2>3. Enters(t)
                BY <2>1, <2>2
                DEF Enters, CodePhases, SessionPhases, StepPhases,
                    TakeoverPhases, CallbackPhases
          <2> QED BY <2>1, <2>2, <2>3, QuietDetails DEF SessionPhases
    <1>6. CASE DeleteSession(t)
          <2>1. task[t].pc = "delete_session" /\ store' = store
                BY <1>6 DEF DeleteSession
          <2>2. task'[t].pc \in {"acknowledge", "mark_callback_pending", "free"}
                BY <1>6, DeliverTerminal DEF DeleteSession, Become, TypeOK
          <2>3. \A k \in Kernels : kernel'[k] = "up" => kernel[k] = "up"
                BY <1>6 DEF DeleteSession, TypeOK
          <2>4. Enters(t)
                BY <2>1, <2>2
                DEF Enters, CodePhases, SessionPhases, StepPhases, ClosePhases
          <2>5. Opens(t)
                BY <2>2, <2>3 DEF Opens, SessionPhases
          <2> QED BY <2>1, <2>4, <2>5 DEF Details, Edits
    <1> QED BY <1>2, <1>3, <1>4, <1>5, <1>6

(***************************************************************************)
(* The steps of a Jupyter session that write a document.                   *)
(***************************************************************************)
LEMMA SessionWriteDetails ==
    ASSUME TypeOK, NEW t \in Task,
           SetBinding(t) \/ SetStepRunning(t) \/ SetRequestStarted(t)
              \/ SetStepSucceeded(t) \/ SetStepFailed(t) \/ SetSucceeded(t)
    PROVE  Details(t)
    <1> DEFINE st == task[t].st
               i == task[t].step
               k == task[t].kernel
    <1>1. /\ task[t] \in TaskState /\ st \in ExecutionState
          /\ i \in Nat
          BY NumStepsAssumption DEF TypeOK, TaskState
    <1>2. \A new : [task[t] EXCEPT !.pc = "delete_session", !.st = new].pc
                       = "delete_session"
          BY <1>1 DEF TaskState
    <1> USE DEF SavePhases, CodePhases, SessionPhases, StepPhases,
                TakeoverPhases, CallbackPhases
    <1>3. CASE SetBinding(t)
          <2> DEFINE new == BindJupyter(st, k)
                     next == [At(t, "mark_step_running") EXCEPT !.step = 1]
          <2>1. Save(t, "bind_jupyter", new, next)
                BY <1>3 DEF SetBinding
          <2>2. next.pc = "mark_step_running"
                BY <1>1 DEF At, TaskState
          <2>3. task[t].pc = "bind_jupyter"
                BY <2>1 DEF Save
          <2>4. Edited(task[t], new)
                BY <1>1, <2>3, MethodsEdit
          <2> HIDE DEF new, next
          <2> QED BY <2>1, <2>2, <2>4, SaveDetails
    <1>4. CASE SetStepRunning(t)
          <2> DEFINE new == MarkStepRunning(st, i)
                     next == At(t, "set_request_msg_id")
          <2>1. Save(t, "mark_step_running", new, next)
                BY <1>4 DEF SetStepRunning
          <2>2. next.pc = "set_request_msg_id"
                BY <1>1, AtFields
          <2>3. task[t].pc = "mark_step_running"
                BY <2>1 DEF Save
          <2>4. Edited(task[t], new)
                BY <1>1, <2>3, MethodsEdit
          <2> HIDE DEF new, next
          <2> QED BY <2>1, <2>2, <2>4, SaveDetails
    <1>5. CASE SetRequestStarted(t)
          <2> DEFINE new == SetRequestMsgId(st, i)
                     next == At(t, "send")
          <2>1. Save(t, "set_request_msg_id", new, next)
                BY <1>5 DEF SetRequestStarted
          <2>2. next.pc = "send"
                BY <1>1, AtFields
          <2>3. task[t].pc = "set_request_msg_id"
                BY <2>1 DEF Save
          <2>4. new.request = i
                BY <1>1 DEF SetRequestMsgId, ExecutionState
          <2>5. Edited(task[t], new)
                BY <1>1, <2>3, MethodsEdit
          <2> HIDE DEF new, next
          <2> QED BY <2>1, <2>2, <2>4, <2>5, SaveDetails
    <1>6. CASE SetStepSucceeded(t)
          <2> DEFINE new == MarkStepSucceeded(st, i)
                     next == AfterStep(t, task[t].failed)
          <2>1. Save(t, "mark_step_succeeded", new, next)
                BY <1>6 DEF SetStepSucceeded
          <2>2. next.pc \in {"mark_step_running", "final_get", "mark_succeeded"}
                BY <1>1, AfterStepFields
          <2>3. task[t].pc = "mark_step_succeeded"
                BY <2>1 DEF Save
          <2>4. Edited(task[t], new)
                BY <1>1, <2>3, MethodsEdit
          <2> HIDE DEF new, next
          <2> QED BY <2>1, <2>2, <2>4, SaveDetails
    <1>7. CASE SetStepFailed(t)
          <2> DEFINE new == MarkStepFailed(st, i)
                     next == IF task[t].job \in StopOnError
                             THEN [task[t] EXCEPT !.pc = "delete_session",
                                                  !.st = new]
                             ELSE AfterStep(t, TRUE)
          <2>1. Save(t, "mark_step_failed", new, next)
                BY <1>7 DEF SetStepFailed
          <2>2. /\ task[t].job \in StopOnError => next.pc = "delete_session"
                /\ next.pc \in {"delete_session", "mark_step_running",
                                "final_get", "mark_succeeded"}
                BY <1>1, <1>2, AfterStepFields, ZenonT(30)
          <2>3. task[t].pc = "mark_step_failed"
                BY <2>1 DEF Save
          <2>4. Edited(task[t], new)
                BY <1>1, <2>3, MethodsEdit
          <2> HIDE DEF new, next
          <2> QED BY <2>1, <2>2, <2>4, SaveDetails
    <1>8. CASE SetSucceeded(t)
          <2> DEFINE new == MarkSucceeded(st)
                     next == [task[t] EXCEPT !.pc = "delete_session",
                                             !.st = new]
          <2>1. Save(t, "mark_succeeded", new, next)
                BY <1>8 DEF SetSucceeded
          <2>2. next.pc = "delete_session"
                BY <1>2
          <2>3. task[t].pc = "mark_succeeded"
                BY <2>1 DEF Save
          <2>4. Edited(task[t], new)
                BY <1>1, <2>3, MethodsEdit
          <2> HIDE DEF new, next
          <2> QED BY <2>1, <2>2, <2>4, SaveDetails
    <1> QED BY <1>3, <1>4, <1>5, <1>6, <1>7, <1>8

LEMMA RecoverDetails ==
    ASSUME TypeOK, NEW t \in Task, RecoverStep(t)
    PROVE  Details(t)
    <1> USE DEF redisVars
    <1>1. /\ task[t] \in TaskState /\ task[t].st \in ExecutionState
          /\ task[t].step \in Nat
          BY NumStepsAssumption DEF TypeOK, TaskState
    <1>2. CASE RecoverGet(t) /\ ~End(t)
          <2> DEFINE k == store[task[t].job].kernel
          <2>1. /\ UNCHANGED <<store, kernel>>
                /\ Become(t, [task[t] EXCEPT !.pc = "get_kernel", !.kernel = k])
                BY <1>2 DEF RecoverGet
          <2>2. task'[t].pc = "get_kernel" /\ task'[t].kernel = k
                BY <1>1, <2>1 DEF Become, TypeOK, TaskState
          <2>3. Enters(t)
                BY <1>2, <2>1, <2>2
                DEF Enters, RecoverGet, CodePhases, SessionPhases, StepPhases,
                    TakeoverPhases, CallbackPhases
          <2> QED BY <2>1, <2>2, <2>3, QuietDetails DEF SessionPhases
    <1>3. CASE GetKernel(t) /\ ~End(t)
          <2>1. /\ UNCHANGED <<store, kernel>>
                /\ task[t].pc = "get_kernel"
                /\ kernel[task[t].kernel] = "gone"
                /\ Become(t, At(t, "mark_infrastructure_failed"))
                BY <1>3 DEF GetKernel
          <2>2. task'[t].pc = "mark_infrastructure_failed"
                BY <1>1, <2>1, AtFields DEF Become, TypeOK
          <2>3. Enters(t)
                BY <2>1, <2>2
                DEF Enters, CodePhases, SessionPhases, StepPhases
          <2> QED BY <2>1, <2>2, <2>3, QuietDetails DEF SessionPhases
    <1>4. CASE SetInfrastructureFailed(t)
          <2> DEFINE new == MarkInfrastructureFailed(task[t].st)
                     next == Deliver(task[t].job, new)
          <2>1. Save(t, "mark_infrastructure_failed", new, next)
                BY <1>4 DEF SetInfrastructureFailed
          <2>2. next.pc \in {"acknowledge", "mark_callback_pending", "free"}
                BY DeliverTerminal
          <2>3. task[t].pc = "mark_infrastructure_failed"
                BY <2>1 DEF Save
          <2>4. Edited(task[t], new)
                BY <1>1, <2>3, MethodsEdit
          <2> HIDE DEF new, next
          <2> QED BY <2>1, <2>2, <2>4, SaveDetails
                  DEF SavePhases, CodePhases, SessionPhases, StepPhases,
                      TakeoverPhases
    <1>5. CASE (RecoverGet(t) \/ GetKernel(t)) /\ End(t)
          BY <1>5, FreeDetails
          DEF Details, Edits, RecoverGet, GetKernel, End, Become
    <1> QED BY <1>2, <1>3, <1>4, <1>5 DEF RecoverStep

LEMMA CallbackDetails ==
    ASSUME TypeOK, NEW t \in Task, CallbackStep(t)
    PROVE  Details(t)
    <1> DEFINE st == task[t].st
    <1> USE DEF redisVars
    <1>1. /\ task[t] \in TaskState /\ st \in ExecutionState
          /\ task[t].step \in Nat
          BY NumStepsAssumption DEF TypeOK, TaskState
    <1>2. ASSUME NEW phase \in SavePhases \cap CallbackPhases, NEW new, NEW next,
                 Save(t, phase, new, next),
                 new \in {MarkCallbackPending(st, task[t].event), st,
                          MarkCallbackDelivered(st), MarkCallbackFailed(st)},
                 next.pc \in CallbackPhases \cup {"free"}
          PROVE  Details(t)
          <2>1. /\ task[t].pc = phase
                /\ phase \in TakeoverPhases
                /\ phase # "set_request_msg_id"
                BY <1>2 DEF Save, TakeoverPhases, SavePhases, CallbackPhases
          <2>2. Edited(task[t], new)
                BY <1>1, <1>2, <2>1, MethodsEdit
          <2>3. next.pc \notin CodePhases \cup {"get_kernel",
                                               "mark_infrastructure_failed"}
                BY <1>2 DEF CodePhases, SessionPhases, StepPhases, CallbackPhases
          <2> QED BY <1>2, <2>1, <2>2, <2>3, SaveDetails
                  DEF CodePhases, SessionPhases, StepPhases
    <1>3. CASE SetCallbackPending(t)
          <2> DEFINE new == MarkCallbackPending(st, task[t].event)
                     sending == [At(t, "callback_send") EXCEPT
                                     !.report = new.status, !.attempt = 1]
                     next == IF IsTerminal(new) THEN sending ELSE FreeTask
          <2>1. sending.pc = "callback_send"
                <3> HIDE DEF new
                <3> QED BY <1>1 DEF At, TaskState
          <2> HIDE DEF sending
          <2>2. next.pc \in {"callback_send", "free"}
                BY <2>1 DEF FreeTask
          <2>3. Save(t, "mark_callback_pending", new, next)
                BY <1>3 DEF SetCallbackPending, sending
          <2> HIDE DEF next
          <2> QED BY <1>2, <2>2, <2>3 DEF SavePhases, CallbackPhases
    <1>4. CASE SendCallback(t)
          <2>1. /\ UNCHANGED <<store, kernel>>
                /\ task[t].pc = "callback_send"
                /\ \/ Become(t, At(t, "record_success"))
                   \/ Become(t, At(t, "record_failure"))
                BY <1>4 DEF SendCallback
          <2>2. task'[t].pc \in {"record_success", "record_failure"}
                BY <1>1, <2>1, AtFields DEF Become, TypeOK
          <2>3. Enters(t)
                BY <2>1, <2>2
                DEF Enters, CodePhases, SessionPhases, StepPhases,
                    TakeoverPhases, CallbackPhases
          <2> QED BY <2>1, <2>2, <2>3, QuietDetails DEF SessionPhases
    <1>5. CASE RecordSuccess(t)
          BY <1>1, <1>2, <1>5, AtFields
          DEF RecordSuccess, RecordCallbackAttempt, SavePhases, CallbackPhases
    <1>6. CASE RecordFailure(t)
          <2> DEFINE next == IF task[t].attempt < MaxAttempts
                             THEN [At(t, "callback_send") EXCEPT !.attempt = @ + 1]
                             ELSE At(t, "mark_callback_failed")
          <2>1. next.pc \in {"callback_send", "mark_callback_failed"}
                <3>1. CASE task[t].attempt < MaxAttempts
                      BY <1>1, <3>1 DEF At, TaskState
                <3>2. CASE ~(task[t].attempt < MaxAttempts)
                      BY <1>1, <3>2, AtFields
                <3> QED BY <3>1, <3>2
          <2>2. Save(t, "record_failure", st, next)
                BY <1>6 DEF RecordFailure, RecordCallbackAttempt
          <2> HIDE DEF next
          <2> QED BY <1>2, <2>1, <2>2 DEF SavePhases, CallbackPhases
    <1>7. CASE SetCallbackDelivered(t)
          BY <1>1, <1>2, <1>7, AtFields
          DEF SetCallbackDelivered, SavePhases, CallbackPhases
    <1>8. CASE SetCallbackFailed(t)
          BY <1>1, <1>2, <1>8, AtFields
          DEF SetCallbackFailed, SavePhases, CallbackPhases
    <1>9. CASE Acknowledge(t)
          BY <1>9, FreeDetails DEF Acknowledge, Details, Edits, End, Become
    <1> QED BY <1>3, <1>4, <1>5, <1>6, <1>7, <1>8, <1>9 DEF CallbackStep

(***************************************************************************)
(* Every step of a task has shape and details.                             *)
(***************************************************************************)
LEMMA StepDetails ==
    ASSUME TypeOK, NEW t \in Task,
           TaskStep(t) \/ RedisError(t) \/ JupyterError(t)
    PROVE  \E next : Shape(t, next) /\ Details(t)
    <1>1. SessionStep(t) => Details(t)
          BY SessionDetails, SessionWriteDetails DEF SessionStep
    <1>2. RedisError(t) \/ JupyterError(t) => Details(t)
          BY FreeDetails
          DEF RedisError, JupyterError, Details, Edits, End, Become, redisVars
    <1>3. Details(t)
          BY <1>1, <1>2, ServiceDetails, RecoverDetails, CallbackDetails
          DEF TaskStep
    <1> QED BY <1>3, StepShape

------------------------------------------------------------------------------
(* From shape and details to the invariant. *)

Moves(t, next) ==
    TypeOK /\ TypeOK' /\ OwnershipInv /\ Shape(t, next) /\ Details(t)

(***************************************************************************)
(* What moves and what stays: a document changes only as the holder edits  *)
(* it, a task holds what it held or the stored document.                   *)
(***************************************************************************)
LEMMA MovesFrame ==
    ASSUME NEW t \in Task, NEW next, Moves(t, next)
    PROVE  LET e == task[t].job
           IN /\ e \in Executions /\ ~Free(t)
              /\ task'[t] = next
              /\ \A u \in Task \ {t} : task'[u] = task[u]
              /\ \A u \in Task : task'[u].pc # "free" =>
                    ~Free(u) /\ task'[u].job = task[u].job
              /\ \A k \in Kernels : kernel[k] = "gone" => kernel'[k] = "gone"
              /\ \A f \in Executions : store'[f] # store[f] =>
                    /\ f = e
                    /\ Holds(t, e)
                    /\ Edited(task[t], store'[f])
                    /\ ~Unstarted(f)'
              /\ \A u \in Task, f \in Executions : Holds(u, f)' =>
                    \/ u # t /\ Holds(u, f)
                    \/ /\ u = t /\ f = e
                       /\ task'[u].st = store[e]
                       /\ store'[e] = store[e]
    <1> DEFINE e == task[t].job
    <1> USE DEF Moves
    <1>1. Shape(t, next) /\ Details(t)
          OBVIOUS
    <1>2. /\ task'[t] = next
          /\ \A u \in Task \ {t} : task'[u] = task[u]
          /\ \A u \in Task : task'[u].pc # "free" =>
                task[u].pc # "free" /\ task'[u].job = task[u].job
          /\ e \in Executions
          BY FrameTasks DEF Shape
    <1>3. ~Free(t)
          BY DEF Shape, Frame
    <1>4. \A k \in Kernels : kernel[k] = "gone" => kernel'[k] = "gone"
          <2>1. \A k \in Kernels : kernel'[k] \in KernelLife
                BY DEF TypeOK
          <2> QED BY <2>1 DEF Shape, Sends, KernelLife
    <1>5. ASSUME NEW f \in Executions, store'[f] # store[f]
          PROVE  /\ f = e
                 /\ Holds(t, e)
                 /\ Edited(task[t], store'[f])
                 /\ ~Unstarted(f)'
          <2>1. /\ f = e
                /\ task[t].pc \in SavePhases
                /\ Loaded(t)
                /\ store'[f].status \notin {"ABSENT", "QUEUED"}
                BY <1>5, WritesStarted DEF OwnershipInv
          <2> QED BY <1>5, <2>1 DEF Holds, Unstarted, Details, Edits
    <1>6. ASSUME NEW u \in Task, NEW f \in Executions, Holds(u, f)'
          PROVE  \/ u # t /\ Holds(u, f)
                 \/ /\ u = t /\ f = e
                    /\ task'[u].st = store[e]
                    /\ store'[e] = store[e]
          <2>1. CASE u # t
                BY <1>2, <1>6, <2>1 DEF Holds, Loaded
          <2>2. CASE u = t
                <3>1. /\ next.pc \in SavePhases
                      /\ next.st # Absent
                      /\ f = e
                      BY <1>2, <1>6, <2>2 DEF Holds, Loaded, SavePhases
                <3> QED BY <1>2, <2>2, <3>1
                        DEF Shape, Arrives, StaleDocumentPhases, StartPhases
          <2> QED BY <2>1, <2>2
    <1> QED BY <1>2, <1>3, <1>4, <1>5, <1>6 DEF Free

(***************************************************************************)
(* A kernel that is lost stays lost.                                       *)
(***************************************************************************)
LEMMA LostKept ==
    ASSUME NEW t \in Task, NEW next, Moves(t, next), NEW f \in Executions,
           Lost(f)
    PROVE  Lost(f)'
    <1>1. store'[f].kernel = store[f].kernel
          BY KernelKept DEF Moves, OwnershipInv, Lost
    <1>2. store[f].kernel \in Kernels
          BY DEF Moves, TypeOK, ExecutionState, Lost
    <1> QED BY <1>1, <1>2, MovesFrame DEF Lost

LEMMA LostMoves ==
    ASSUME NEW t \in Task, NEW next, Moves(t, next), LostInv
    PROVE  LostInv'
    <1> DEFINE e == task[t].job
    <1>1. /\ e \in Executions
          /\ \A u \in Task \ {t} : task'[u] = task[u]
          /\ \A u \in Task : task'[u].pc # "free" =>
                ~Free(u) /\ task'[u].job = task[u].job
          /\ \A f \in Executions : store'[f] # store[f] =>
                /\ f = e
                /\ Holds(t, e)
                /\ Edited(task[t], store'[f])
          /\ \A u \in Task, f \in Executions : Holds(u, f)' =>
                \/ u # t /\ Holds(u, f)
                \/ /\ u = t /\ f = e
                   /\ task'[u].st = store[e]
                   /\ store'[e] = store[e]
          BY MovesFrame
    <1>2. \A u \in Task : ~Free(u) => task[u].job \in Executions
          BY DEF Moves, TypeOK, TaskOK, Free
    <1>3. \A u \in Task : task[u].pc = "get_kernel" => task[u].kernel # NoKernel
          BY NoKernelAssumption DEF Moves, TypeOK, TaskOK
    <1>4. \A f \in Executions : Lost(f) => Lost(f)'
          BY LostKept
    <1>5. ASSUME NEW f \in Executions, store'[f].errorType = "KernelLost"
          PROVE  Lost(f)'
          <2>1. CASE store'[f] = store[f]
                BY <1>4, <1>5, <2>1 DEF LostInv, KernelLostIsTrue, Lost
          <2>2. CASE store'[f] # store[f]
                <3>1. /\ f = e
                      /\ Holds(t, e)
                      /\ \/ task[t].st.errorType = "KernelLost"
                         \/ task[t].pc = "mark_infrastructure_failed"
                      BY <1>1, <1>5, <2>2 DEF Edited
                <3> QED BY <1>4, <3>1 DEF LostInv
          <2> QED BY <2>1, <2>2
    <1>6. ASSUME NEW u \in Task, NEW f \in Executions, Holds(u, f)',
                 task'[u].st.errorType = "KernelLost"
          PROVE  Lost(f)'
          <2>1. CASE u # t /\ Holds(u, f)
                BY <1>1, <1>4, <1>6, <2>1 DEF LostInv
          <2>2. CASE f = e /\ task'[u].st = store[e]
                BY <1>4, <1>6, <2>2 DEF LostInv, KernelLostIsTrue, Lost
          <2> QED BY <1>1, <1>6, <2>1, <2>2
    <1>7. ASSUME NEW u \in Task, task'[u].pc = "mark_infrastructure_failed"
          PROVE  /\ store'[task'[u].job].kernel # NoKernel
                 /\ kernel'[store'[task'[u].job].kernel] = "gone"
          <2>1. /\ task'[u].job = task[u].job
                /\ task[u].job \in Executions
                BY <1>1, <1>2, <1>7
          <2>2. CASE task[u].pc = "mark_infrastructure_failed"
                BY <1>4, <2>1, <2>2 DEF LostInv, Lost
          <2>3. CASE task[u].pc # "mark_infrastructure_failed"
                <3>1. /\ u = t
                      /\ task[t].pc = "get_kernel"
                      /\ kernel[task[t].kernel] = "gone"
                      BY <1>1, <1>7, <2>3 DEF Moves, Details, Enters
                <3>2. Lost(e)
                      BY <1>3, <3>1 DEF LostInv, Lost
                <3> QED BY <1>4, <2>1, <3>1, <3>2 DEF Lost
          <2> QED BY <2>2, <2>3
    <1>8. ASSUME NEW u \in Task, task'[u].pc = "get_kernel"
          PROVE  task'[u].kernel = store'[task'[u].job].kernel
          <2>1. /\ task'[u].job = task[u].job
                /\ task[u].job \in Executions
                BY <1>1, <1>2, <1>8
          <2>2. CASE u = t
                BY <1>8, <2>1, <2>2 DEF Moves, Details, Enters
          <2>3. CASE u # t
                <3>1. /\ task'[u] = task[u]
                      /\ task[u].kernel = store[task[u].job].kernel
                      /\ task[u].kernel # NoKernel
                      BY <1>1, <1>3, <1>8, <2>3 DEF LostInv
                <3> QED BY <2>1, <3>1, KernelKept DEF Moves, OwnershipInv
          <2> QED BY <2>2, <2>3
    <1> QED BY <1>5, <1>6, <1>7, <1>8 DEF LostInv, KernelLostIsTrue, Lost

------------------------------------------------------------------------------
(***************************************************************************)
(* A task that holds a document of e, or works outside StartPhases, works  *)
(* on a started execution, unless it is the one that starts it.            *)
(***************************************************************************)
LEMMA WorkIsStarted ==
    ASSUME TypeOK, OwnershipInv, NEW t \in Task, ~Free(t),
           task[t].pc \notin StartPhases
    PROVE  ~Unstarted(task[t].job)
    BY DEF OwnershipInv, OwnerInv, DeliveryInv, Unstarted

LEMMA StarterHolds ==
    ASSUME TypeOK, OwnershipInv, NEW t \in Task, Loaded(t),
           task[t].pc = "mark_running"
    PROVE  task[t].st = store[task[t].job] /\ Unstarted(task[t].job)
    BY DEF OwnershipInv, OwnerInv, Unstarted

(***************************************************************************)
(* An execution that is quiet stays quiet.                                 *)
(***************************************************************************)
LEMMA QuietKept ==
    ASSUME NEW t \in Task, NEW next, Moves(t, next), NEW f \in Executions,
           Quiet(f), ~Unstarted(f)
    PROVE  Quiet(f)'
    <1>1. /\ task'[t] = next
          /\ \A u \in Task \ {t} : task'[u] = task[u]
          /\ \A u \in Task : task'[u].pc # "free" =>
                ~Free(u) /\ task'[u].job = task[u].job
          /\ \A k \in Kernels : kernel[k] = "gone" => kernel'[k] = "gone"
          BY MovesFrame
    <1> SUFFICES ASSUME NEW u \in Task, task'[u].job = f,
                        task'[u].pc \in CodePhases
                 PROVE  /\ task'[u].pc \in StepPhases
                        /\ kernel'[task'[u].kernel] = "gone"
        BY DEF Quiet
    <1>2. task[u].job = f /\ ~Free(u)
          BY <1>1 DEF CodePhases, SessionPhases, StepPhases
    <1>3. task[u].pc \in StepPhases => task[u].kernel \in Kernels
          BY DEF Moves, TypeOK, TaskOK, DriverPhases, StepPhases
    <1>4. CASE u # t
          BY <1>1, <1>2, <1>3, <1>4 DEF Quiet
    <1>5. CASE u = t
          <2>1. task[t].pc \in CodePhases \cup {"mark_running"}
                BY <1>5 DEF Moves, Details, Enters
          <2>2. task[t].pc # "mark_running"
                BY <1>2, <1>5 DEF Moves, OwnershipInv, OwnerInv, Unstarted
          <2>3. task[t].pc \in StepPhases /\ kernel[task[t].kernel] = "gone"
                BY <1>2, <1>5, <2>1, <2>2 DEF Quiet
          <2>4. next.pc \notin SessionPhases
                BY <2>2, <2>3 DEF Moves, Shape, Arrives, SessionPhases, StepPhases
          <2>5. next.pc \in StepPhases
                BY <1>1, <1>5, <2>4 DEF CodePhases
          <2>6. next.kernel = task[t].kernel
                BY <2>5 DEF Moves, Shape, Arrives
          <2> QED BY <1>1, <1>3, <1>5, <2>3, <2>5, <2>6
    <1> QED BY <1>4, <1>5

(***************************************************************************)
(* When the driver leaves the step loop nobody else is in it.              *)
(***************************************************************************)
LEMMA DriverLeaves ==
    ASSUME NEW t \in Task, NEW next, Moves(t, next),
           task[t].pc \in DriverPhases, task'[t].pc \notin CodePhases
    PROVE  \A u \in Task :
               task'[u].job = task[t].job => task'[u].pc \notin CodePhases
    <1>1. \A u \in Task \ {t} : task'[u] = task[u]
          BY MovesFrame
    <1> QED BY <1>1 DEF Moves, OwnershipInv, SingleDriver, DriverPhases, CodePhases

LEMMA QuietMoves ==
    ASSUME NEW t \in Task, NEW next, Moves(t, next), LostInv, QuietInv
    PROVE  QuietInv'
    <1> DEFINE e == task[t].job
    <1>1. /\ e \in Executions
          /\ ~Free(t)
          /\ \A u \in Task \ {t} : task'[u] = task[u]
          /\ \A u \in Task : task'[u].pc # "free" =>
                ~Free(u) /\ task'[u].job = task[u].job
          /\ \A f \in Executions : store'[f] # store[f] =>
                /\ f = e
                /\ Holds(t, e)
                /\ Edited(task[t], store'[f])
          /\ \A u \in Task, f \in Executions : Holds(u, f)' =>
                \/ u # t /\ Holds(u, f)
                \/ /\ u = t /\ f = e
                   /\ task'[u].st = store[e]
                   /\ store'[e] = store[e]
          BY MovesFrame
    <1>2. \A f \in Executions : Quiet(f) /\ ~Unstarted(f) => Quiet(f)'
          BY QuietKept
    <1>3. \A f \in Executions : IsTerminal(store[f]) => ~Unstarted(f)
          BY DEF IsTerminal, TerminalStatus, Unstarted
    <1>4. ASSUME NEW u \in Task, ~Free(u), task[u].pc \notin StartPhases
          PROVE  ~Unstarted(task[u].job)
          BY <1>4, WorkIsStarted DEF Moves
    <1>5. \A u \in Task, f \in Executions :
              Holds(u, f) /\ IsTerminal(task[u].st) => ~Free(u) /\ ~Unstarted(f)
          <2> SUFFICES ASSUME NEW u \in Task, NEW f \in Executions, Holds(u, f),
                              IsTerminal(task[u].st)
                       PROVE  ~Free(u) /\ ~Unstarted(f)
              OBVIOUS
          <2>1. ~Free(u)
                BY DEF Holds, SavePhases, Free
          <2>2. CASE task[u].pc \in StartPhases
                <3>1. task[u].pc = "mark_running" /\ Loaded(u)
                      BY <2>2 DEF Holds, SavePhases, StartPhases
                <3>2. IsTerminal(store[f])
                      BY <3>1, StarterHolds DEF Holds, Moves
                <3> QED BY <1>3, <2>1, <3>2
          <2> QED BY <1>4, <2>1, <2>2 DEF Holds
    <1>6. ASSUME NEW f \in StopOnError, f \in Executions, IsTerminal(store'[f])
          PROVE  Quiet(f)'
          <2>1. CASE store'[f] = store[f]
                BY <1>2, <1>3, <1>6, <2>1 DEF QuietInv
          <2>2. CASE store'[f] # store[f]
                <3>1. /\ f = e
                      /\ Holds(t, e)
                      /\ \/ IsTerminal(task[t].st)
                         \/ task[t].pc \in {"mark_step_failed", "mark_succeeded",
                                            "mark_infrastructure_failed"}
                      BY <1>1, <1>6, <2>2 DEF Edited
                <3>2. CASE IsTerminal(task[t].st)
                      BY <1>2, <1>5, <1>6, <3>1, <3>2 DEF QuietInv
                <3>3. CASE task[t].pc = "mark_infrastructure_failed"
                      <4>1. Quiet(e)
                            BY <1>6, <3>1, <3>3 DEF QuietInv, TakeoverPhases
                      <4> QED BY <1>1, <1>2, <1>4, <3>1, <3>3, <4>1
                              DEF StartPhases
                <3>4. CASE task[t].pc \in {"mark_step_failed", "mark_succeeded"}
                      <4>1. task[t].pc \in DriverPhases
                            BY <3>4 DEF DriverPhases, StepPhases, ClosePhases
                      <4>2. task'[t].pc \notin CodePhases
                            BY <1>6, <3>1, <3>4
                            DEF Moves, Details, Enters, Holds, CodePhases,
                                SessionPhases, StepPhases
                      <4> QED BY <3>1, <4>1, <4>2, DriverLeaves DEF Quiet
                <3> QED BY <3>1, <3>2, <3>3, <3>4
          <2> QED BY <2>1, <2>2
    <1>7. ASSUME NEW f \in StopOnError, f \in Executions, NEW u \in Task,
                 task'[u].job = f, task'[u].pc \in TakeoverPhases
          PROVE  Quiet(f)'
          <2>1. task[u].job = f /\ ~Free(u)
                BY <1>1, <1>7 DEF TakeoverPhases, CallbackPhases
          <2>2. CASE task[u].pc \in TakeoverPhases
                <3>1. Quiet(f)
                      BY <1>7, <2>1, <2>2 DEF QuietInv
                <3>2. task[u].pc \notin StartPhases
                      BY <2>2 DEF TakeoverPhases, CallbackPhases, StartPhases
                <3> QED BY <1>2, <1>4, <1>7, <2>1, <3>1, <3>2
          <2>3. CASE task[u].pc \notin TakeoverPhases
                <3>1. /\ u = t /\ f = e
                      /\ \/ /\ task[t].pc = "get_kernel"
                            /\ kernel[task[t].kernel] = "gone"
                         \/ task[t].pc \in ClosePhases
                         \/ IsTerminal(store[e])
                      BY <1>1, <1>7, <2>1, <2>3
                      DEF Moves, Details, Enters, TakeoverPhases
                <3>2. CASE /\ task[t].pc = "get_kernel"
                           /\ kernel[task[t].kernel] = "gone"
                      <4>1. /\ store[e].kernel # NoKernel
                            /\ kernel[store[e].kernel] = "gone"
                            BY <3>2, NoKernelAssumption
                            DEF LostInv, Moves, TypeOK, TaskOK
                      <4>2. Quiet(e)
                            BY <4>1 DEF Quiet, CodePhases, Moves, OwnershipInv,
                                        BindingInv
                      <4> QED BY <1>1, <1>2, <1>4, <3>1, <3>2, <4>2
                              DEF StartPhases
                <3>3. CASE task[t].pc \in ClosePhases
                      <4>1. task'[t].pc \notin CodePhases
                            BY <1>7, <3>1
                            DEF TakeoverPhases, CallbackPhases, CodePhases,
                                SessionPhases, StepPhases
                      <4> QED BY <3>1, <3>3, <4>1, DriverLeaves
                              DEF Quiet, DriverPhases
                <3>4. CASE IsTerminal(store[e])
                      BY <1>2, <1>3, <1>7, <3>1, <3>4 DEF QuietInv
                <3> QED BY <3>1, <3>2, <3>3, <3>4
          <2> QED BY <2>2, <2>3
    <1>8. ASSUME NEW f \in StopOnError, f \in Executions, NEW u \in Task,
                 Holds(u, f)', IsTerminal(task'[u].st)
          PROVE  Quiet(f)'
          <2>1. CASE u # t /\ Holds(u, f)
                BY <1>1, <1>2, <1>5, <1>8, <2>1 DEF QuietInv
          <2>2. CASE f = e /\ task'[u].st = store[e]
                BY <1>2, <1>3, <1>8, <2>2 DEF QuietInv
          <2> QED BY <1>1, <1>8, <2>1, <2>2
    <1> QED BY <1>6, <1>7, <1>8, StopOnErrorAssumption DEF QuietInv

------------------------------------------------------------------------------
(***************************************************************************)
(* Once the step loop of e is left at step i nothing more is sent.         *)
(***************************************************************************)
LEMMA HaltedKept ==
    ASSUME NEW t \in Task, NEW next, Moves(t, next), NEW f \in Executions,
           NEW i, Halted(f, i)
    PROVE  Halted(f, i)'
    <1>1. /\ \A u \in Task \ {t} : task'[u] = task[u]
          /\ \A u \in Task : task'[u].pc # "free" =>
                ~Free(u) /\ task'[u].job = task[u].job
          /\ store'[f] # store[f] => ~Unstarted(f)'
          BY MovesFrame
    <1>2. requests'[f] = requests[f]
          <2>1. "send" \in CodePhases
                BY DEF CodePhases, StepPhases
          <2> QED BY <2>1, RequestsSent DEF Moves, OwnershipInv, Halted
    <1>3. ASSUME NEW u \in Task, task'[u].job = f, task'[u].pc \in CodePhases
          PROVE  FALSE
          <2>1. task[u].job = f
                BY <1>1, <1>3 DEF CodePhases, SessionPhases, StepPhases
          <2>2. u = t
                BY <1>1, <1>3, <2>1 DEF Halted
          <2>3. task[t].pc = "mark_running"
                BY <1>3, <2>1, <2>2 DEF Moves, Details, Enters, Halted
          <2> QED BY <2>1, <2>2, <2>3
                  DEF Moves, OwnershipInv, OwnerInv, Halted, Unstarted
    <1> QED BY <1>1, <1>2, <1>3 DEF Halted, Unstarted

LEMMA StopMoves ==
    ASSUME NEW t \in Task, NEW next, Moves(t, next), StopInv
    PROVE  StopInv'
    <1> DEFINE e == task[t].job
    <1>1. /\ e \in Executions
          /\ \A u \in Task \ {t} : task'[u] = task[u]
          /\ \A f \in Executions : store'[f] # store[f] =>
                /\ f = e
                /\ Holds(t, e)
                /\ Edited(task[t], store'[f])
                /\ ~Unstarted(f)'
          /\ \A u \in Task, f \in Executions : Holds(u, f)' =>
                \/ u # t /\ Holds(u, f)
                \/ /\ u = t /\ f = e
                   /\ task'[u].st = store[e]
                   /\ store'[e] = store[e]
          BY MovesFrame
    <1>2. \A f \in Executions, i \in Step : Halted(f, i) => Halted(f, i)'
          BY HaltedKept
    <1>3. ASSUME NEW f \in StopOnError, f \in Executions, NEW i \in Step,
                 store'[f].steps[i] = "FAILED"
          PROVE  Halted(f, i)'
          <2>1. CASE store'[f] = store[f]
                BY <1>2, <1>3, <2>1 DEF StopInv
          <2>2. CASE store'[f] # store[f]
                <3>1. /\ f = e
                      /\ Holds(t, e)
                      /\ ~Unstarted(f)'
                      /\ \/ task[t].st.steps[i] = "FAILED"
                         \/ task[t].pc = "mark_step_failed" /\ i = task[t].step
                      BY <1>1, <1>3, <2>2 DEF Edited
                <3>2. CASE task[t].st.steps[i] = "FAILED"
                      BY <1>2, <1>3, <3>1, <3>2 DEF StopInv
                <3>3. CASE task[t].pc = "mark_step_failed" /\ i = task[t].step
                      <4>1. Len(requests[e]) <= i
                            BY <3>3 DEF Moves, OwnershipInv, LogInv
                      <4>2. requests'[e] = requests[e]
                            BY <1>1, <3>3, RequestsSent DEF Moves, OwnershipInv
                      <4>3. task'[t].pc \notin CodePhases
                            BY <1>3, <3>1, <3>3
                            DEF Moves, Details, Enters, Holds
                      <4>4. task[t].pc \in DriverPhases
                            BY <3>3 DEF DriverPhases, StepPhases
                      <4> QED BY <3>1, <4>1, <4>2, <4>3, <4>4, DriverLeaves
                              DEF Halted
                <3> QED BY <3>1, <3>2, <3>3
          <2> QED BY <2>1, <2>2
    <1>4. ASSUME NEW f \in StopOnError, f \in Executions, NEW i \in Step,
                 NEW u \in Task, Holds(u, f)', task'[u].st.steps[i] = "FAILED"
          PROVE  Halted(f, i)'
          <2>1. CASE u # t /\ Holds(u, f)
                BY <1>1, <1>2, <1>4, <2>1 DEF StopInv
          <2>2. CASE f = e /\ task'[u].st = store[e]
                BY <1>2, <1>4, <2>2 DEF StopInv
          <2> QED BY <1>1, <1>4, <2>1, <2>2
    <1> QED BY <1>3, <1>4, StopOnErrorAssumption DEF StopInv

------------------------------------------------------------------------------
(***************************************************************************)
(* While the driver of e sends code to a kernel nobody else holds a        *)
(* document of e.                                                          *)
(***************************************************************************)
LEMMA SenderHoldsAlone ==
    ASSUME TypeOK, OwnershipInv, QuietInv, NEW e \in StopOnError,
           NEW t \in Task, task[t].pc = "send", task[t].job = e,
           kernel[task[t].kernel] = "up",
           NEW u \in Task \ {t}
    PROVE  ~Holds(u, e)
    <1> SUFFICES ASSUME Holds(u, e) PROVE FALSE
        OBVIOUS
    <1>1. /\ task[u].job = e
          /\ task[u].pc \in {"mark_running"} \cup DriverPhases \cup TakeoverPhases
          BY DEF Holds, SavePhases, DriverPhases, SessionPhases, StepPhases,
                 ClosePhases, TakeoverPhases, CallbackPhases
    <1>2. /\ task[t].pc \in DriverPhases
          /\ task[t].pc \in CodePhases
          /\ task[t].pc \notin StartPhases
          BY DEF DriverPhases, CodePhases, StepPhases, StartPhases
    <1>3. task[u].pc # "mark_running"
          BY <1>1, <1>2 DEF OwnershipInv, OwnerInv, Free
    <1>4. task[u].pc \notin DriverPhases
          BY <1>1, <1>2 DEF OwnershipInv, SingleDriver
    <1>5. task[u].pc \notin TakeoverPhases
          BY <1>1, <1>2 DEF QuietInv, Quiet
    <1> QED BY <1>1, <1>3, <1>4, <1>5

LEMMA RequestMoves ==
    ASSUME NEW t \in Task, NEW next, Moves(t, next), QuietInv, RequestInv
    PROVE  RequestInv'
    <1> DEFINE e == task[t].job
    <1>1. /\ e \in Executions
          /\ task'[t] = next
          /\ \A u \in Task \ {t} : task'[u] = task[u]
          /\ \A u \in Task : task'[u].pc # "free" =>
                ~Free(u) /\ task'[u].job = task[u].job
          /\ \A f \in Executions : store'[f] # store[f] =>
                /\ f = e
                /\ Holds(t, e)
                /\ Edited(task[t], store'[f])
          /\ \A u \in Task, f \in Executions : Holds(u, f)' =>
                \/ u # t /\ Holds(u, f)
                \/ /\ u = t /\ f = e
                   /\ task'[u].st = store[e]
                   /\ store'[e] = store[e]
          BY MovesFrame
    <1>2. ASSUME NEW f \in Executions, requests'[f] # requests[f]
          PROVE  /\ f = e
                 /\ task[t].pc = "send"
                 /\ store' = store
                 /\ kernel[task[t].kernel] = "up"
                 /\ Len(requests'[f]) = task[t].step
          <2>1. /\ f = e
                /\ task[t].pc = "send"
                /\ store' = store
                /\ kernel[task[t].kernel] = "up"
                /\ Len(requests[f]) = task[t].step - 1
                /\ requests'[f] = Append(requests[f],
                       [step |-> task[t].step, kernel |-> task[t].kernel])
                BY <1>2, RequestsSent DEF Moves, OwnershipInv
          <2>2. /\ requests[f] \in Seq(Request)
                /\ task[t].step \in Nat
                BY <1>2, NumStepsAssumption DEF Moves, TypeOK, TaskState
          <2>3. Len(requests'[f]) = Len(requests[f]) + 1
                BY <2>1, <2>2
          <2> QED BY <2>1, <2>2, <2>3
    <1>3. ASSUME NEW f \in StopOnError, f \in Executions
          PROVE  Len(requests'[f]) <= store'[f].request
          <2>1. CASE store'[f] = store[f] /\ requests'[f] = requests[f]
                BY <1>3, <2>1 DEF RequestInv, RequestRecordedBeforeSend
          <2>2. CASE requests'[f] # requests[f]
                BY <1>2, <1>3, <2>2 DEF RequestInv
          <2>3. CASE store'[f] # store[f]
                <3>1. /\ f = e
                      /\ Holds(t, e)
                      /\ store'[f].request =
                             IF task[t].pc = "set_request_msg_id"
                             THEN task[t].step ELSE task[t].st.request
                      BY <1>1, <1>3, <2>3 DEF Edited
                <3>2. requests'[f] = requests[f]
                      BY <1>2, <1>3, <2>3
                <3>3. CASE task[t].pc = "set_request_msg_id"
                      <4>1. Len(requests[e]) < task[t].step
                            BY <3>3 DEF Moves, OwnershipInv, LogInv
                      <4>2. /\ Len(requests[e]) \in Nat
                            /\ task[t].step \in Nat
                            BY <1>1, NumStepsAssumption
                            DEF Moves, TypeOK, TaskState
                      <4>3. Len(requests[e]) <= task[t].step
                            BY <4>1, <4>2
                      <4> QED BY <3>1, <3>2, <3>3, <4>3
                <3>4. CASE task[t].pc # "set_request_msg_id"
                      BY <1>3, <3>1, <3>2, <3>4 DEF RequestInv
                <3> QED BY <3>3, <3>4
          <2> QED BY <2>1, <2>2, <2>3
    <1>4. ASSUME NEW f \in StopOnError, f \in Executions, NEW u \in Task,
                 Holds(u, f)'
          PROVE  Len(requests'[f]) <= task'[u].st.request
          <2>1. CASE u # t /\ Holds(u, f)
                <3>1. requests'[f] = requests[f]
                      BY <1>2, <1>4, <2>1, SenderHoldsAlone DEF Moves
                <3> QED BY <1>1, <1>4, <2>1, <3>1 DEF RequestInv
          <2>2. CASE f = e /\ task'[u].st = store[e] /\ store'[e] = store[e]
                BY <1>3, <1>4, <2>2
          <2> QED BY <1>1, <1>4, <2>1, <2>2
    <1>5. ASSUME NEW f \in StopOnError, f \in Executions, NEW u \in Task,
                 task'[u].job = f, task'[u].pc = "send",
                 kernel'[task'[u].kernel] = "up"
          PROVE  task'[u].step <= store'[f].request
          <2>1. task[u].job = f
                BY <1>1, <1>5
          <2>2. CASE u = t
                <3>1. /\ task[t].pc = "set_request_msg_id"
                      /\ store'[e].request = task[t].step
                      BY <1>5, <2>2 DEF Moves, Details, Enters
                <3>2. next.step = task[t].step
                      BY <1>1, <1>5, <2>2, <3>1
                      DEF Moves, Shape, Sends, BeforeSend, AfterSend
                <3>3. task[t].step \in Nat
                      BY NumStepsAssumption DEF Moves, TypeOK, TaskState
                <3> QED BY <1>1, <2>1, <2>2, <3>1, <3>2, <3>3
          <2>3. CASE u # t
                <3>1. task'[u] = task[u]
                      BY <1>1, <2>3
                <3>2. /\ task[u].kernel \in Kernels
                      /\ kernel[task[u].kernel] # "unused"
                      BY <1>5, <3>1
                      DEF Moves, OwnershipInv, LogInv, TypeOK, TaskOK,
                          DriverPhases, SessionPhases, StepPhases
                <3>3. kernel[task[u].kernel] = "up"
                      BY <1>5, <3>1, <3>2 DEF Moves, Shape, Sends
                <3>4. store'[f] = store[f]
                      BY <1>1, <1>5, <2>1, <2>3, <3>1, <3>3, SenderHoldsAlone
                      DEF Moves
                <3> QED BY <1>5, <2>1, <3>1, <3>3, <3>4 DEF RequestInv
          <2> QED BY <2>2, <2>3
    <1> QED BY <1>3, <1>4, <1>5, StopOnErrorAssumption
            DEF RequestInv, RequestRecordedBeforeSend

------------------------------------------------------------------------------
(* Kernels that no document names. *)

\* owner gives every unbound kernel its execution, as LeakInv demands.
Owns(owner) ==
    /\ owner \in Injection(UnboundKernels, UnboundExecutions)
    /\ \A t \in Task, k \in UnboundKernels :
          task[t].pc \in SessionPhases =>
              (owner[k] = task[t].job
                  <=> task[t].pc # "create_session" /\ task[t].kernel = k)

(***************************************************************************)
(* An execution that runs unbound does so until its kernel is bound, and a *)
(* kernel without a binding is new or was so before.                       *)
(***************************************************************************)
LEMMA UnboundMoves ==
    ASSUME NEW t \in Task, NEW next, Moves(t, next), OwnershipInv'
    PROVE  /\ \A f \in UnboundExecutions :
                 f \in UnboundExecutions' \/ store'[f].kernel # store[f].kernel
           /\ \A k \in UnboundKernels' : k \in UnboundKernels \/ kernel[k] # "up"
    <1>1. ASSUME NEW f \in UnboundExecutions, store'[f].kernel = store[f].kernel
          PROVE  f \in UnboundExecutions'
          <2>1. /\ f \in Executions
                /\ store[f].status = "RUNNING"
                /\ store'[f].kernel = NoKernel
                BY <1>1 DEF UnboundExecutions
          <2>2. ~Unstarted(f)'
                BY <2>1, MovesFrame DEF Unstarted
          <2>3. ~IsTerminal(store'[f])
                BY <2>1 DEF OwnershipInv, BindingInv
          <2>4. store'[f] \in ExecutionState
                BY <2>1 DEF Moves, TypeOK
          <2>5. store'[f].status = "RUNNING"
                BY <2>2, <2>3, <2>4
                DEF Unstarted, IsTerminal, TerminalStatus, ExecutionState,
                    ExecutionStatus
          <2> QED BY <2>1, <2>5 DEF UnboundExecutions
    <1>2. ASSUME NEW k \in UnboundKernels', kernel[k] = "up"
          PROVE  k \in UnboundKernels
          <2>1. k \in Kernels /\ \A f \in Executions : store'[f].kernel # k
                BY <1>2 DEF UnboundKernels
          <2>2. \A f \in Executions : store[f].kernel # k
                BY <2>1, KernelKept, NoKernelAssumption DEF Moves, OwnershipInv
          <2> QED BY <1>2, <2>1, <2>2 DEF UnboundKernels
    <1> QED BY <1>1, <1>2

LEMMA LeakMoves ==
    ASSUME NEW t \in Task, NEW next, Moves(t, next), OwnershipInv', LeakInv
    PROVE  LeakInv'
    <1> DEFINE e == task[t].job
    <1>1. PICK owner : Owns(owner)
          BY DEF LeakInv, Owns
    <1>2. /\ owner \in [UnboundKernels -> UnboundExecutions]
          /\ \A k, l \in UnboundKernels : owner[k] = owner[l] => k = l
          BY <1>1 DEF Owns, Injection, IsInjective
    <1>3. /\ e \in Executions
          /\ task'[t] = next
          /\ \A u \in Task \ {t} : task'[u] = task[u]
          /\ \A u \in Task : task'[u].pc # "free" =>
                ~Free(u) /\ task'[u].job = task[u].job
          BY MovesFrame
    <1>4. "free" \notin SessionPhases /\ SessionPhases \subseteq DriverPhases
          BY DEF SessionPhases, DriverPhases
    <1>5. /\ UnboundKernels \subseteq Kernels
          /\ UnboundKernels' \subseteq Kernels
          /\ UnboundExecutions \subseteq Executions
          /\ \A k \in UnboundKernels : kernel[k] = "up"
          /\ \A k \in UnboundKernels' : kernel'[k] = "up"
          BY DEF UnboundKernels, UnboundExecutions
    <1>6. ASSUME NEW after \in [UnboundKernels' -> UnboundExecutions'],
                 \A k, l \in UnboundKernels' : after[k] = after[l] => k = l,
                 \A u \in Task, k \in UnboundKernels' :
                     task'[u].pc \in SessionPhases =>
                         (after[k] = task'[u].job
                             <=> /\ task'[u].pc # "create_session"
                                 /\ task'[u].kernel = k)
          PROVE  LeakInv'
          <2>1. after \in Injection(UnboundKernels', UnboundExecutions')
                BY <1>6 DEF Injection, IsInjective
          <2> QED BY <1>6, <2>1 DEF LeakInv
    <1>7. ASSUME UnboundKernels' \subseteq UnboundKernels,
                 \A k \in UnboundKernels' : owner[k] \in UnboundExecutions',
                 \A k \in UnboundKernels' :
                     next.pc \in SessionPhases =>
                         (owner[k] = e
                             <=> next.pc # "create_session" /\ next.kernel = k)
          PROVE  LeakInv'
          <2> DEFINE after == [k \in UnboundKernels' |-> owner[k]]
          <2>1. after \in [UnboundKernels' -> UnboundExecutions']
                BY <1>7
          <2>2. \A k, l \in UnboundKernels' : after[k] = after[l] => k = l
                BY <1>2, <1>7
          <2>3. ASSUME NEW u \in Task, NEW k \in UnboundKernels',
                       task'[u].pc \in SessionPhases
                PROVE  after[k] = task'[u].job
                           <=> /\ task'[u].pc # "create_session"
                               /\ task'[u].kernel = k
                <3>1. after[k] = owner[k] /\ k \in UnboundKernels
                      BY <1>7
                <3>2. CASE u = t
                      BY <1>3, <1>4, <1>7, <2>3, <3>1, <3>2
                <3>3. CASE u # t
                      BY <1>1, <1>3, <2>3, <3>1, <3>3 DEF Owns
                <3> QED BY <3>2, <3>3
          <2> HIDE DEF after
          <2> QED BY <1>6, <2>1, <2>2, <2>3
    <1>8. CASE \E f \in Executions : store'[f].kernel # store[f].kernel
          <2>1. PICK f \in Executions : store'[f].kernel # store[f].kernel
                BY <1>8
          <2>2. /\ f = e
                /\ task[t].pc = "bind_jupyter"
                /\ store'[e].kernel = task[t].kernel
                /\ store'[e].kernel # NoKernel
                BY <2>1, KernelKept DEF Moves, OwnershipInv
          <2>3. \A k \in Kernels : kernel'[k] = "up" => kernel[k] = "up"
                BY <2>2 DEF Moves, Details, Opens
          <2>4. UnboundKernels' \subseteq UnboundKernels
                BY <1>5, <2>3, UnboundMoves
          <2>5. \A k \in UnboundKernels' : k # task[t].kernel
                BY <1>3, <2>2 DEF UnboundKernels
          <2>6. \A k \in UnboundKernels' : owner[k] # e
                BY <1>1, <2>2, <2>4, <2>5 DEF Owns, SessionPhases
          <2>7. \A k \in UnboundKernels' : owner[k] \in UnboundExecutions'
                <3>1. \A g \in Executions : g # e =>
                          store'[g].kernel = store[g].kernel
                      BY KernelKept DEF Moves, OwnershipInv
                <3> QED BY <1>2, <1>5, <2>4, <2>6, <3>1, UnboundMoves
          <2>8. next.pc \notin SessionPhases
                BY <1>3, <1>4, <2>2 DEF OwnershipInv, BindingInv
          <2> QED BY <1>7, <2>4, <2>7, <2>8
    <1>9. CASE /\ \A f \in Executions : store'[f].kernel = store[f].kernel
               /\ \E k \in Kernels : kernel'[k] = "up" /\ kernel[k] # "up"
          <2>1. PICK k0 \in Kernels : kernel'[k0] = "up" /\ kernel[k0] # "up"
                BY <1>9
          <2>2. /\ task[t].pc = "create_session"
                /\ kernel[k0] = "unused"
                /\ store' = store
                /\ next.pc \in {"free", "connect_channels"}
                /\ next.pc = "connect_channels" => next.kernel = k0
                /\ \A l \in Kernels \ {k0} : kernel'[l] = kernel[l]
                BY <1>3, <2>1 DEF Moves, Details, Opens
          <2>3. /\ task[t].pc \in SessionPhases
                /\ task[t].pc \notin StartPhases
                BY <2>2 DEF SessionPhases, StartPhases
          <2>4. e \in UnboundExecutions
                <3>1. store[e].kernel = NoKernel
                      BY <2>3 DEF Moves, OwnershipInv, BindingInv
                <3>2. ~Unstarted(e)
                      BY <2>2, <2>3, WorkIsStarted DEF Moves, Free
                <3>3. ~IsTerminal(store[e])
                      BY <1>3, <3>1 DEF Moves, OwnershipInv, BindingInv
                <3>4. store[e] \in ExecutionState
                      BY <1>3 DEF Moves, TypeOK
                <3>5. store[e].status = "RUNNING"
                      BY <3>2, <3>3, <3>4
                      DEF Unstarted, IsTerminal, TerminalStatus, ExecutionState,
                          ExecutionStatus
                <3> QED BY <1>3, <3>1, <3>5 DEF UnboundExecutions
          <2>5. UnboundExecutions' = UnboundExecutions
                BY <2>2 DEF UnboundExecutions
          <2>6. /\ k0 \notin UnboundKernels
                /\ \A k \in UnboundKernels' : k = k0 \/ k \in UnboundKernels
                BY <1>5, <2>1, <2>2, UnboundMoves
          <2>7. \A k \in UnboundKernels : owner[k] # e
                BY <1>1, <2>2, <2>3 DEF Owns
          <2> DEFINE after == [k \in UnboundKernels' |->
                                   IF k = k0 THEN e ELSE owner[k]]
          <2>8. after \in [UnboundKernels' -> UnboundExecutions']
                BY <1>2, <2>4, <2>5, <2>6
          <2>9. \A k, l \in UnboundKernels' : after[k] = after[l] => k = l
                BY <1>2, <2>6, <2>7
          <2>10. ASSUME NEW u \in Task, NEW k \in UnboundKernels',
                        task'[u].pc \in SessionPhases
                 PROVE  after[k] = task'[u].job
                            <=> /\ task'[u].pc # "create_session"
                                /\ task'[u].kernel = k
                <3>1. after[k] = IF k = k0 THEN e ELSE owner[k]
                      OBVIOUS
                <3>2. task'[u].job = task[u].job
                      BY <1>3, <1>4, <2>10
                <3>3. CASE u = t
                      <4>1. next.pc = "connect_channels" /\ next.kernel = k0
                            BY <1>3, <1>4, <2>2, <2>10, <3>3
                      <4> QED BY <1>3, <2>6, <2>7, <3>1, <3>2, <3>3, <4>1
                <3>4. CASE u # t /\ k # k0
                      BY <1>1, <1>3, <2>6, <2>10, <3>1, <3>4 DEF Owns
                <3>5. CASE u # t /\ k = k0
                      <4>1. task'[u] = task[u]
                            BY <1>3, <3>5
                      <4>2. task[u].job # e
                            BY <1>4, <2>3, <2>10, <3>5, <4>1
                            DEF Moves, OwnershipInv, SingleDriver
                      <4>3. task[u].pc # "create_session" =>
                                task[u].kernel # k0
                            BY <1>4, <2>2, <2>10, <4>1
                            DEF Moves, OwnershipInv, LogInv
                      <4> QED BY <3>1, <3>5, <4>1, <4>2, <4>3
                <3> QED BY <3>3, <3>4, <3>5
          <2> HIDE DEF after
          <2> QED BY <1>6, <2>8, <2>9, <2>10
    <1>10. CASE /\ \A f \in Executions : store'[f].kernel = store[f].kernel
                /\ \A k \in Kernels : kernel'[k] = "up" => kernel[k] = "up"
          <2>1. UnboundKernels' \subseteq UnboundKernels
                BY <1>5, <1>10, UnboundMoves
          <2>2. \A k \in UnboundKernels' : owner[k] \in UnboundExecutions'
                BY <1>2, <1>5, <1>10, <2>1, UnboundMoves
          <2>3. ASSUME NEW k \in UnboundKernels', next.pc \in SessionPhases
                PROVE  owner[k] = e
                           <=> next.pc # "create_session" /\ next.kernel = k
                <3>1. CASE task[t].pc = "mark_running"
                           /\ next.pc = "create_session"
                      <4>1. store[e].status # "RUNNING"
                            BY <3>1 DEF Moves, OwnershipInv, OwnerInv
                      <4> QED BY <1>2, <2>1, <3>1, <4>1 DEF UnboundExecutions
                <3>2. CASE /\ {task[t].pc, next.pc}
                                  \subseteq {"connect_channels", "bind_jupyter"}
                           /\ next.kernel = task[t].kernel
                      <4>1. /\ task[t].pc \in SessionPhases
                            /\ task[t].pc # "create_session"
                            /\ next.pc # "create_session"
                            BY <3>2 DEF SessionPhases
                      <4> QED BY <1>1, <2>1, <3>2, <4>1 DEF Owns
                <3>3. ~(/\ next.pc = "connect_channels"
                        /\ kernel[next.kernel] = "unused"
                        /\ kernel'[next.kernel] = "up")
                      <4>1. next.pc = "connect_channels" =>
                                next.kernel \in Kernels
                            BY <1>3 DEF Moves, TypeOK, TaskOK, DriverPhases,
                                        SessionPhases
                      <4> QED BY <1>10, <4>1
                <3> QED BY <1>3, <2>3, <3>1, <3>2, <3>3 DEF Moves, Details, Opens
          <2> QED BY <1>7, <2>1, <2>2, <2>3
    <1> QED BY <1>8, <1>9, <1>10

------------------------------------------------------------------------------
(* The other steps: submission, delivery, time, crashes. *)

TakeoverSafety == TakeoverInv /\ LeakInv

(***************************************************************************)
(* LeakInv depends on the unbound kernels and executions and on the tasks  *)
(* that open a session; it is kept if no kernel is added, no execution     *)
(* removed and no such task new.                                           *)
(***************************************************************************)
LEMMA LeakKept ==
    ASSUME LeakInv,
           UnboundKernels' \subseteq UnboundKernels,
           UnboundExecutions \subseteq UnboundExecutions',
           \A u \in Task : task'[u].pc \in SessionPhases => task'[u] = task[u]
    PROVE  LeakInv'
    <1>1. PICK owner : Owns(owner)
          BY DEF LeakInv, Owns
    <1> DEFINE after == [k \in UnboundKernels' |-> owner[k]]
    <1>2. after \in Injection(UnboundKernels', UnboundExecutions')
          BY <1>1 DEF Owns, Injection, IsInjective
    <1>3. ASSUME NEW u \in Task, NEW k \in UnboundKernels',
                 task'[u].pc \in SessionPhases
          PROVE  after[k] = task'[u].job
                     <=> task'[u].pc # "create_session" /\ task'[u].kernel = k
          <2>1. after[k] = owner[k]
                OBVIOUS
          <2>2. k \in UnboundKernels
                OBVIOUS
          <2>3. task'[u] = task[u]
                BY <1>3
          <2> QED BY <1>1, <1>3, <2>1, <2>2, <2>3 DEF Owns
    <1> HIDE DEF after
    <1> QED BY <1>2, <1>3 DEF LeakInv

(***************************************************************************)
(* A step that writes no document and sends no code, after which every     *)
(* task is where it was, gone, or just started.                            *)
(***************************************************************************)
LEMMA OtherTakeover ==
    ASSUME TypeOK, TakeoverSafety,
           UNCHANGED <<store, requests>>,
           \A u \in Task :
               task'[u] = task[u] \/ task'[u].pc \in {"free", "processor_get"},
           \A k \in Kernels :
               /\ kernel[k] = "gone" => kernel'[k] = "gone"
               /\ kernel'[k] = "up" => kernel[k] = "up"
    PROVE  TakeoverSafety'
    <1> USE DEF TakeoverSafety, TakeoverInv
    <1>1. {"free", "processor_get"} \cap
              (SavePhases \cup CodePhases \cup TakeoverPhases
                  \cup {"get_kernel", "mark_infrastructure_failed"}) = {}
          BY DEF SavePhases, CodePhases, SessionPhases, StepPhases,
                 TakeoverPhases, CallbackPhases
    <1>2. \A e \in Executions : store[e].kernel \in Kernels \cup {NoKernel}
          BY DEF TypeOK, ExecutionState
    <1>3. \A u \in Task :
              /\ task[u].pc \in StepPhases => task[u].kernel \in Kernels
              /\ task[u].pc # "free" => task[u].job \in Executions
          BY DEF TypeOK, TaskOK, DriverPhases, StepPhases
    <1>4. \A e \in Executions : Lost(e) => Lost(e)'
          BY <1>2 DEF Lost
    <1>5. \A u \in Task, e \in Executions :
              Holds(u, e)' => task'[u] = task[u] /\ Holds(u, e)
          BY <1>1 DEF Holds, Loaded
    <1>6. LostInv'
          <2>1. KernelLostIsTrue'
                BY <1>4 DEF LostInv, KernelLostIsTrue, Lost
          <2>2. \A u \in Task, e \in Executions :
                    Holds(u, e)' /\ task'[u].st.errorType = "KernelLost"
                        => Lost(e)'
                BY <1>4, <1>5 DEF LostInv
          <2>3. ASSUME NEW u \in Task, task'[u].pc = "mark_infrastructure_failed"
                PROVE  /\ store'[task'[u].job].kernel # NoKernel
                       /\ kernel'[store'[task'[u].job].kernel] = "gone"
                <3>1. task'[u] = task[u] /\ task[u].job \in Executions
                      BY <1>1, <1>3, <2>3
                <3>2. Lost(task[u].job)
                      BY <2>3, <3>1 DEF LostInv
                <3> QED BY <1>2, <3>1, <3>2 DEF Lost
          <2>4. \A u \in Task : task'[u].pc = "get_kernel" =>
                    task'[u].kernel = store'[task'[u].job].kernel
                BY <1>1 DEF LostInv
          <2> QED BY <2>1, <2>2, <2>3, <2>4 DEF LostInv, Lost
    <1>7. \A e \in Executions : Quiet(e) => Quiet(e)'
          BY <1>1, <1>3 DEF Quiet
    <1>8. QuietInv'
          <2> SUFFICES ASSUME NEW e \in StopOnError, e \in Executions
                       PROVE  /\ IsTerminal(store'[e]) => Quiet(e)'
                              /\ \A u \in Task :
                                    /\ task'[u].job = e
                                       /\ task'[u].pc \in TakeoverPhases
                                       => Quiet(e)'
                                    /\ Holds(u, e)' /\ IsTerminal(task'[u].st)
                                       => Quiet(e)'
              BY StopOnErrorAssumption DEF QuietInv
          <2> QED BY <1>1, <1>5, <1>7 DEF QuietInv
    <1>9. \A e \in Executions, i \in Step : Halted(e, i) => Halted(e, i)'
          BY <1>1 DEF Halted, Unstarted
    <1>10. StopInv'
          BY <1>5, <1>9, StopOnErrorAssumption DEF StopInv
    <1>11. RequestInv'
          <2>1. \A u \in Task : task'[u].pc = "send" =>
                    /\ task'[u] = task[u]
                    /\ kernel'[task'[u].kernel] = "up" =>
                           kernel[task[u].kernel] = "up"
                BY <1>1, <1>3 DEF CodePhases, StepPhases
          <2> QED BY <1>5, <2>1, StopOnErrorAssumption
                  DEF RequestInv, RequestRecordedBeforeSend
    <1>12. LeakInv'
          <2>1. UnboundKernels' \subseteq UnboundKernels
                BY DEF UnboundKernels
          <2>2. UnboundExecutions' = UnboundExecutions
                BY DEF UnboundExecutions
          <2> QED BY <1>1, <2>1, <2>2, LeakKept DEF CodePhases
    <1> QED BY <1>6, <1>8, <1>10, <1>11, <1>12

LEMMA SubmitTakeover ==
    ASSUME TypeOK, OwnershipInv, TakeoverSafety, NEW e \in Executions,
           Submit(e) \/ SubmitWithoutXadd(e)
    PROVE  TakeoverSafety'
    <1> USE DEF TakeoverSafety, TakeoverInv
    <1>1. /\ store[e].status = "ABSENT"
          /\ store' = [store EXCEPT ![e] = BuildInitialState]
          /\ UNCHANGED <<task, kernel, requests>>
          BY DEF Submit, SubmitWithoutXadd, Absent
    <1>2. /\ store'[e] = BuildInitialState
          /\ \A f \in Executions : f # e => store'[f] = store[f]
          BY <1>1 DEF TypeOK
    <1>3. /\ BuildInitialState.status = "QUEUED"
          /\ BuildInitialState.kernel = NoKernel
          /\ BuildInitialState.errorType = "none"
          /\ BuildInitialState.request = 0
          /\ \A i \in Step : BuildInitialState.steps[i] = "PENDING"
          BY DEF BuildInitialState, Absent
    <1>4. /\ store[e].kernel = NoKernel
          /\ requests[e] = <<>>
          BY <1>1 DEF OwnershipInv, BindingInv, LogInv, Unstarted
    <1>5. \A u \in Task : task[u].pc # "free" =>
              task[u].job \in Executions /\ task[u].job # e
          BY <1>1 DEF TypeOK, TaskOK, OwnershipInv, DeliveryInv, Free
    <1>6. "free" \notin SavePhases \cup CodePhases \cup TakeoverPhases
              \cup {"get_kernel", "mark_infrastructure_failed", "send"}
          BY DEF SavePhases, CodePhases, SessionPhases, StepPhases,
                 TakeoverPhases, CallbackPhases
    <1>7. \A u \in Task, f \in Executions :
              Holds(u, f)' => f # e /\ Holds(u, f)
          BY <1>1, <1>5, <1>6 DEF Holds, Loaded
    <1>8. LostInv'
          <2>1. KernelLostIsTrue'
                BY <1>1, <1>2, <1>3 DEF LostInv, KernelLostIsTrue
          <2>2. \A u \in Task, f \in Executions :
                    Holds(u, f)' /\ task'[u].st.errorType = "KernelLost"
                        => Lost(f)'
                BY <1>1, <1>2, <1>7 DEF LostInv, Lost
          <2>3. \A u \in Task :
                    /\ task'[u].pc = "mark_infrastructure_failed" =>
                          /\ store'[task'[u].job].kernel # NoKernel
                          /\ kernel'[store'[task'[u].job].kernel] = "gone"
                    /\ task'[u].pc = "get_kernel" =>
                          task'[u].kernel = store'[task'[u].job].kernel
                BY <1>1, <1>2, <1>5 DEF LostInv, Lost
          <2> QED BY <2>1, <2>2, <2>3 DEF LostInv, Lost
    <1>9. \A f \in Executions : Quiet(f) => Quiet(f)'
          BY <1>1 DEF Quiet
    <1>10. QuietInv'
          <2>1. ~IsTerminal(store'[e])
                BY <1>2, <1>3 DEF IsTerminal, TerminalStatus
          <2>2. \A f \in StopOnError : IsTerminal(store'[f]) => Quiet(f)'
                BY <1>2, <1>9, <2>1, StopOnErrorAssumption DEF QuietInv
          <2>3. \A f \in StopOnError, u \in Task :
                    /\ task'[u].job = f /\ task'[u].pc \in TakeoverPhases
                       => Quiet(f)'
                    /\ Holds(u, f)' /\ IsTerminal(task'[u].st) => Quiet(f)'
                BY <1>1, <1>7, <1>9, StopOnErrorAssumption DEF QuietInv
          <2> QED BY <2>2, <2>3 DEF QuietInv
    <1>11. \A f \in Executions, i \in Step : Halted(f, i) => Halted(f, i)'
          BY <1>1, <1>2 DEF Halted, Unstarted
    <1>12. StopInv'
          <2>1. \A f \in StopOnError, i \in Step :
                    store'[f].steps[i] = "FAILED" => Halted(f, i)'
                BY <1>2, <1>3, <1>11, StopOnErrorAssumption DEF StopInv
          <2>2. \A f \in StopOnError, i \in Step, u \in Task :
                    Holds(u, f)' /\ task'[u].st.steps[i] = "FAILED"
                        => Halted(f, i)'
                BY <1>1, <1>7, <1>11, StopOnErrorAssumption DEF StopInv
          <2> QED BY <2>1, <2>2 DEF StopInv
    <1>13. RequestInv'
          <2>1. RequestRecordedBeforeSend'
                BY <1>1, <1>2, <1>3, <1>4, StopOnErrorAssumption
                DEF RequestInv, RequestRecordedBeforeSend
          <2>2. \A u \in Task, f \in StopOnError :
                    Holds(u, f)' => Len(requests'[f]) <= task'[u].st.request
                BY <1>1, <1>7, StopOnErrorAssumption DEF RequestInv
          <2>3. \A u \in Task, f \in StopOnError :
                    /\ task'[u].job = f
                    /\ task'[u].pc = "send"
                    /\ kernel'[task'[u].kernel] = "up"
                    => task'[u].step <= store'[f].request
                BY <1>1, <1>2, <1>5, StopOnErrorAssumption DEF RequestInv
          <2> QED BY <2>1, <2>2, <2>3 DEF RequestInv
    <1>14. LeakInv'
          <2>1. UnboundKernels' \subseteq UnboundKernels
                BY <1>1, <1>2, <1>3, <1>4 DEF UnboundKernels
          <2>2. UnboundExecutions \subseteq UnboundExecutions'
                BY <1>1, <1>2 DEF UnboundExecutions
          <2> QED BY <1>1, <2>1, <2>2, LeakKept
    <1> QED BY <1>8, <1>10, <1>12, <1>13, <1>14

LEMMA TakeoverInit == Init => TakeoverSafety
    <1> SUFFICES ASSUME Init PROVE TakeoverSafety
        OBVIOUS
    <1>1. /\ \A e \in Executions : store[e] = Absent /\ requests[e] = <<>>
          /\ \A t \in Task : task[t].pc = "free"
          /\ \A k \in Kernels : kernel[k] = "unused"
          BY DEF Init, FreeTask
    <1>2. /\ Absent.status = "ABSENT"
          /\ Absent.errorType = "none"
          /\ Absent.request = 0
          /\ \A i \in Step : Absent.steps[i] = "PENDING"
          BY DEF Absent
    <1>3. "free" \notin SavePhases \cup SessionPhases \cup TakeoverPhases
              \cup {"get_kernel", "mark_infrastructure_failed", "send"}
          BY DEF SavePhases, SessionPhases, TakeoverPhases, CallbackPhases
    <1>4. \A t \in Task, e \in Executions : ~Holds(t, e)
          BY <1>1, <1>3 DEF Holds
    <1>5. LostInv
          BY <1>1, <1>2, <1>4 DEF LostInv, KernelLostIsTrue
    <1>6. QuietInv
          BY <1>1, <1>2, <1>3, <1>4, StopOnErrorAssumption
          DEF QuietInv, IsTerminal, TerminalStatus
    <1>7. StopInv
          BY <1>1, <1>2, <1>4, StopOnErrorAssumption DEF StopInv
    <1>8. RequestInv
          BY <1>1, <1>2, <1>3, <1>4, StopOnErrorAssumption
          DEF RequestInv, RequestRecordedBeforeSend
    <1>9. LeakInv
          <2>1. UnboundKernels = {}
                BY <1>1 DEF UnboundKernels
          <2>2. [k \in {} |-> NoKernel] \in Injection({}, UnboundExecutions)
                BY DEF Injection, IsInjective
          <2> QED BY <2>1, <2>2 DEF LeakInv
    <1> QED BY <1>5, <1>6, <1>7, <1>8, <1>9 DEF TakeoverSafety, TakeoverInv

LEMMA TakeoverStep ==
    ASSUME TypeOK, TypeOK', OwnershipInv, OwnershipInv', TakeoverSafety,
           [Next]_vars
    PROVE  TakeoverSafety'
    <1>1. CASE \E t \in Task : TaskStep(t) \/ RedisError(t) \/ JupyterError(t)
          <2>1. PICK t \in Task : TaskStep(t) \/ RedisError(t) \/ JupyterError(t)
                BY <1>1
          <2>2. PICK next : Shape(t, next) /\ Details(t)
                BY <2>1, StepDetails
          <2>3. Moves(t, next)
                BY <2>2 DEF Moves
          <2> QED BY <2>3, LostMoves, QuietMoves, StopMoves, RequestMoves,
                     LeakMoves DEF TakeoverSafety, TakeoverInv
    <1>2. CASE \E t \in Task :
                  Consume(t) \/ \E e \in Executions : Claim(t, e)
          <2>1. PICK t \in Task :
                    Consume(t) \/ \E e \in Executions : Claim(t, e)
                BY <1>2
          <2>2. /\ UNCHANGED <<store, kernel, requests>>
                /\ \E e : Become(t, Start(e)) \/ UNCHANGED task
                BY <2>1 DEF Consume, Claim
          <2>3. \A u \in Task :
                    task'[u] = task[u] \/ task'[u].pc \in {"free", "processor_get"}
                BY <2>2, StartedFields
          <2> QED BY <2>2, <2>3, OtherTakeover
    <1>3. CASE \E e \in Executions : Submit(e) \/ SubmitWithoutXadd(e)
          BY <1>3, SubmitTakeover
    <1>4. CASE \/ \E e \in Executions : BecomeStale(e)
               \/ \E k \in Kernels : KernelVanishes(k)
               \/ \E w \in Workers : Crash(w)
               \/ UNCHANGED vars
          <2>1. UNCHANGED <<store, requests>>
                BY <1>4 DEF BecomeStale, KernelVanishes, Crash, vars, redisVars
          <2>2. \A u \in Task : task'[u] = task[u] \/ task'[u].pc = "free"
                BY <1>4
                DEF BecomeStale, KernelVanishes, Crash, vars, redisVars, FreeTask
          <2>3. \A k \in Kernels :
                    /\ kernel[k] = "gone" => kernel'[k] = "gone"
                    /\ kernel'[k] = "up" => kernel[k] = "up"
                BY <1>4
                DEF BecomeStale, KernelVanishes, Crash, vars, redisVars, TypeOK
          <2> QED BY <2>1, <2>2, <2>3, OtherTakeover
    <1> QED BY <1>1, <1>2, <1>3, <1>4 DEF Next

------------------------------------------------------------------------------
(***************************************************************************)
(* The inductive invariant holds in every reachable state: whoever else    *)
(* works on an execution beside its driver writes only once its kernel is  *)
(* out of reach, and every kernel without a binding has its execution.     *)
(***************************************************************************)
THEOREM TakeoverCorrect ==
    ASSUME PromptStart
    PROVE  Spec => [](TakeoverInv /\ LeakInv)
    <1>1. Init => TakeoverSafety
          BY TakeoverInit
    <1>2. /\ TypeOK /\ TypeOK' /\ OwnershipInv /\ OwnershipInv'
          /\ TakeoverSafety /\ [Next]_vars
          => TakeoverSafety'
          BY TakeoverStep
    <1>3. TakeoverSafety => TakeoverInv /\ LeakInv
          BY DEF TakeoverSafety
    <1> QED BY <1>1, <1>2, <1>3, TypeCorrect, OwnershipCorrect, PTL DEF Spec

(***************************************************************************)
(* _recover_running blames the kernel only for an execution whose bound    *)
(* kernel really is gone, and a kernel that is gone does not come back.    *)
(***************************************************************************)
THEOREM KernelLossIsReal ==
    ASSUME PromptStart
    PROVE  Spec => []KernelLostIsTrue
    <1>1. TakeoverInv => KernelLostIsTrue
          BY DEF TakeoverInv, LostInv
    <1> QED BY <1>1, TakeoverCorrect, PTL

(***************************************************************************)
(* With stop_on_error no code of a later step reaches a kernel once a step *)
(* is recorded as failed, whoever recorded it.                             *)
(***************************************************************************)
THEOREM FailureStopsCode ==
    ASSUME PromptStart
    PROVE  Spec => []StopsAtFailure
    <1>1. TakeoverInv => StopsAtFailure
          BY StopOnErrorAssumption DEF TakeoverInv, StopInv, StopsAtFailure, Halted
    <1> QED BY <1>1, TakeoverCorrect, PTL

(***************************************************************************)
(* With stop_on_error the document never knows of fewer requests than the  *)
(* kernel received: no save of a stale document takes one back.            *)
(***************************************************************************)
THEOREM RequestIsRecorded ==
    ASSUME PromptStart
    PROVE  Spec => []RequestRecordedBeforeSend
    <1>1. TakeoverInv => RequestRecordedBeforeSend
          BY DEF TakeoverInv, RequestInv
    <1> QED BY <1>1, TakeoverCorrect, PTL

(***************************************************************************)
(* There are at most as many leaked kernels as executions that are RUNNING *)
(* without a binding, those left to manual reconciliation: an execution    *)
(* that came to an end has leaked none.                                    *)
(***************************************************************************)
THEOREM LeaksAreVisible ==
    ASSUME PromptStart, IsFiniteSet(Executions)
    PROVE  Spec => []LeakIsVisible
    <1>1. ASSUME LeakInv
          PROVE  LeakIsVisible
          <2>1. PICK owner : Owns(owner)
                BY <1>1 DEF LeakInv, Owns
          <2>2. LeakedKernels \subseteq UnboundKernels
                BY DEF LeakedKernels, UnboundKernels
          <2> DEFINE after == [k \in LeakedKernels |-> owner[k]]
          <2>3. after \in Injection(LeakedKernels, UnboundExecutions)
                BY <2>1, <2>2 DEF Owns, Injection, IsInjective
          <2>4. IsFiniteSet(UnboundExecutions)
                BY FS_Subset DEF UnboundExecutions
          <2> HIDE DEF after
          <2>5. Cardinality(LeakedKernels) <= Cardinality(UnboundExecutions)
                BY <2>3, <2>4, FS_Injection
          <2> QED BY <2>5 DEF LeakIsVisible, UnboundExecutions
    <1> QED BY <1>1, TakeoverCorrect, PTL
==============================================================================
