---------------------------- MODULE ExecutionOutcome ----------------------------
(***************************************************************************)
(* Why outcome, callback and acknowledgement agree while every command has *)
(* one owner at a time (SlowPhases = {}): the inductive invariant behind   *)
(* OutcomeStable, AckedIsRecorded, CallbackTellsOutcome,                   *)
(* DeliveredIsReceived, SucceededIsClean, SessionReleased and the          *)
(* refinement of ExecutionLifecycle.                                       *)
(***************************************************************************)
EXTENDS ExecutionOwnership

(***************************************************************************)
(* A command that is worked on is pending and not stale, and one task      *)
(* works on it.                                                            *)
(***************************************************************************)
SoleOwner ==
    /\ \A t \in Task : ~Free(t) => task[t].job \in pending \ stale
    /\ \A t, u \in Task :
          ~Free(t) /\ ~Free(u) /\ task[t].job = task[u].job => t = u

NotRequested(s) == s.callback = "NOT_REQUESTED" /\ s.event = "none"

\* The fields of a stored document that go together.
DocumentOK(s) ==
    /\ ~IsTerminal(s) => NotRequested(s) /\ s.errorType = "none"
    /\ s.event \in {"none", s.status}
    /\ s.callback # "NOT_REQUESTED" => s.event # "none"
    /\ s.status = "SUCCEEDED" =>
          s.errorType = "none" /\ \A i \in Step : s.steps[i] = "SUCCEEDED"

AttemptPhases ==
    {"callback_send", "record_success", "record_failure",
     "mark_callback_delivered", "mark_callback_failed"}

(***************************************************************************)
(* What a task knows of the document s of its execution, phase by phase:   *)
(* with one owner a document that was read is the stored one.              *)
(***************************************************************************)
TaskKnows(tk, s) ==
    /\ tk.st # Absent => tk.st = s
    /\ tk.pc \in StartPhases \cup SessionPhases => ~tk.failed
    /\ tk.pc \in {"service_get", "mark_running"} => s.status = "QUEUED"
    /\ tk.pc \in SessionPhases => s.status = "RUNNING"
    /\ tk.pc \in StepPhases =>
          /\ NotRequested(s)
          /\ s.status = IF tk.failed THEN "FAILED" ELSE "RUNNING"
          /\ tk.failed => tk.job \notin StopOnError
          /\ ~tk.failed =>
                \A i \in 1..(tk.step - 1) : s.steps[i] = "SUCCEEDED"
    /\ tk.pc = "mark_succeeded" =>
          s.status = "RUNNING" /\ \A i \in Step : s.steps[i] = "SUCCEEDED"
    /\ tk.pc = "final_get" => s.status = "FAILED" /\ NotRequested(s)
    /\ tk.pc = "delete_session" =>
          tk.st = s /\ IsTerminal(s) /\ NotRequested(s)
    /\ tk.pc \in RecoverPhases => s.status = "RUNNING"
    /\ tk.pc \in {"get_kernel", "mark_infrastructure_failed"} =>
          tk.kernel = s.kernel /\ s.kernel # NoKernel
    /\ tk.pc \in CallbackPhases => IsTerminal(s)
    /\ tk.pc = "mark_callback_pending" =>
          tk.event = s.status /\ s.callback # "DELIVERED"
    /\ tk.pc \in AttemptPhases =>
          /\ s.callback = "PENDING"
          /\ s.event = s.status
          /\ tk.event = s.status
          /\ tk.report = s.status
    /\ tk.pc = "acknowledge" => s.callback \in {"DELIVERED", "FAILED"}

DocumentInv == \A e \in Executions : DocumentOK(store[e])

TaskInv == \A t \in Task : ~Free(t) => TaskKnows(task[t], store[task[t].job])

\* What the agent has is what is stored, or about to be stored, as delivered.
ToldInv ==
    /\ CallbackTellsOutcome
    /\ DeliveredIsReceived
    /\ \A c \in inbox : c.event # "none"
    /\ \A t \in Task :
          task[t].pc \in {"record_success", "mark_callback_delivered"} =>
              ExecutionCallback(t) \in inbox

(***************************************************************************)
(* Without faults, a kernel that is bound to an execution with a final     *)
(* status and still there has a driver that will delete its session.       *)
(***************************************************************************)
ReleaseInv ==
    /\ \A t \in Task : task[t].pc = "mark_infrastructure_failed" =>
          kernel[task[t].kernel] = "gone"
    /\ \A e \in Executions :
          /\ faults = 0
          /\ IsTerminal(store[e])
          /\ store[e].kernel # NoKernel
          /\ kernel[store[e].kernel] # "gone"
          => \E t \in Task : task[t].pc \in DriverPhases /\ task[t].job = e

\* A step is recorded as succeeded only if the kernel got its request.
RanInv ==
    \A t \in Task :
        /\ task[t].pc = "mark_step_succeeded" =>
              Len(requests[task[t].job]) = task[t].step
        /\ task[t].pc = "mark_succeeded" =>
              Len(requests[task[t].job]) = NumSteps

OutcomeInv ==
    /\ SoleOwner
    /\ DocumentInv
    /\ TaskInv
    /\ ToldInv
    /\ AckedIsRecorded
    /\ ReleaseInv
    /\ RanInv
==============================================================================
