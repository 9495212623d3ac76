-------------------------- MODULE ExecutionOwnership --------------------------
(***************************************************************************)
(* Why user code never runs twice: the inductive invariant behind          *)
(* CodeRunsOnceInOrder and KernelBoundBeforeCode.  It holds whenever a     *)
(* command does not become stale before its task has left StartPhases,     *)
(* that is for SlowPhases \cap StartPhases = {}, however long the later    *)
(* phases take and however often the command is claimed meanwhile.         *)
(***************************************************************************)
EXTENDS ExecutionProcessing

Works(t, e) == ~Free(t) /\ task[t].job = e

\* The document that task t would write; its own one in mark_running.
StaleDocumentPhases == SavePhases \ {"mark_running"}
Unstarted(e) == store[e].status \in {"ABSENT", "QUEUED"}

(***************************************************************************)
(* A command is added once, delivered once, and pending or worked on only  *)
(* after its delivery and for a stored execution.                          *)
(***************************************************************************)
DeliveryInv ==
    /\ \A i \in 1..Len(stream) : store[stream[i]].status # "ABSENT"
    /\ \A i, j \in 1..Len(stream) : stream[i] = stream[j] => i = j
    /\ \A i \in (delivered + 1)..Len(stream) :
          stream[i] \notin pending /\ \A t \in Task : ~Works(t, stream[i])
    /\ \A e \in pending : store[e].status # "ABSENT"
    /\ \A t \in Task : ~Free(t) => store[task[t].job].status # "ABSENT"

(***************************************************************************)
(* Before mark_running a command is not stale, so one task at most is      *)
(* there; that task is the only one that may start a QUEUED execution, and *)
(* after it no task finds, or holds in a document it read, QUEUED.         *)
(***************************************************************************)
OwnerInv ==
    /\ \A t \in Task : task[t].pc \in StartPhases => task[t].job \notin stale
    /\ \A t, u \in Task :
          /\ task[t].pc \in StartPhases
          /\ task[u].pc \in StartPhases
          /\ task[t].job = task[u].job
          => t = u
    /\ \A t \in Task :
          ~Free(t) /\ store[task[t].job].status = "QUEUED" =>
              task[t].pc \in StartPhases
    /\ \A t \in Task :
          task[t].pc = "mark_running" =>
              /\ store[task[t].job].status = "QUEUED"
              /\ Loaded(t) => task[t].st = store[task[t].job]
    /\ \A t \in Task :
          task[t].pc \in StaleDocumentPhases /\ Loaded(t) =>
              task[t].st.status \notin {"ABSENT", "QUEUED"}

(***************************************************************************)
(* One task at most drives the Jupyter session of an execution.            *)
(***************************************************************************)
SingleDriver ==
    \A t, u \in Task :
        /\ task[t].pc \in DriverPhases
        /\ task[u].pc \in DriverPhases
        /\ task[t].job = task[u].job
        => t = u

(***************************************************************************)
(* The kernel is bound once; until then nobody but the driver can write,   *)
(* and a document read later already has the binding.                      *)
(***************************************************************************)
BindingInv ==
    /\ \A e \in Executions :
          Unstarted(e) => store[e].kernel = NoKernel
    /\ \A e \in Executions :
          store[e].kernel = NoKernel =>
              ~IsTerminal(store[e]) /\ store[e].callback # "DELIVERED"
    /\ \A t \in Task :
          ~Free(t) /\ store[task[t].job].kernel = NoKernel =>
              task[t].pc \in StartPhases \cup SessionPhases \cup {"recover_get"}
    /\ \A t \in Task :
          task[t].pc \in SessionPhases => store[task[t].job].kernel = NoKernel
    /\ \A t \in Task :
          task[t].pc \in StepPhases \cup ClosePhases =>
              store[task[t].job].kernel = task[t].kernel
    /\ \A t \in Task :
          task[t].pc \in StaleDocumentPhases \ {"bind_jupyter"} /\ Loaded(t) =>
              task[t].st.kernel = store[task[t].job].kernel

(***************************************************************************)
(* The driver's step is in step with what its kernel received: exactly as  *)
(* long as the kernel is up, from above once it is gone.                   *)
(***************************************************************************)
LogInv ==
    /\ \A e \in Executions : Unstarted(e) => requests[e] = <<>>
    /\ \A t \in Task :
          task[t].pc \in SessionPhases => requests[task[t].job] = <<>>
    /\ \A t \in Task :
          task[t].pc \in {"mark_step_running", "set_request_msg_id", "send"} =>
              /\ Len(requests[task[t].job]) < task[t].step
              /\ kernel[task[t].kernel] = "up" =>
                    Len(requests[task[t].job]) = task[t].step - 1
    /\ \A t \in Task :
          task[t].pc \in {"recv", "mark_step_succeeded", "mark_step_failed"} =>
              /\ Len(requests[task[t].job]) <= task[t].step
              /\ kernel[task[t].kernel] = "up" =>
                    Len(requests[task[t].job]) = task[t].step
    /\ \A t \in Task :
          task[t].pc \in StepPhases =>
              \A i \in DOMAIN requests[task[t].job] :
                  requests[task[t].job][i] =
                      [step |-> i, kernel |-> task[t].kernel]
    /\ \A t \in Task :
          task[t].pc \in DriverPhases \ {"create_session"} =>
              kernel[task[t].kernel] # "unused"

(***************************************************************************)
(* The whole invariant; with SingleDriver it rules out that two tasks ever *)
(* work in the Jupyter session of one execution, and with it that code     *)
(* that was sent once is sent again.                                       *)
(***************************************************************************)
OwnershipInv ==
    DeliveryInv /\ OwnerInv /\ SingleDriver /\ BindingInv /\ LogInv
==============================================================================
