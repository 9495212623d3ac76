--------------------------- MODULE ExecutionTakeover ---------------------------
(***************************************************************************)
(* Why a takeover does no harm: a second task that works on an execution   *)
(* beside its driver writes only once no code can reach the kernel any     *)
(* more.  The inductive invariants behind KernelLostIsTrue,                *)
(* StopsAtFailure, RequestRecordedBeforeSend and LeakIsVisible; like       *)
(* OwnershipInv they hold for SlowPhases \cap StartPhases = {}.            *)
(***************************************************************************)
EXTENDS ExecutionOwnership, Functions

\* Task t has read the document of e and is about to write it.
Holds(t, e) == task[t].pc \in SavePhases /\ Loaded(t) /\ task[t].job = e

CodePhases == SessionPhases \cup StepPhases

\* Phases in which a task other than the driver writes.
TakeoverPhases ==
    {"mark_infrastructure_failed"} \cup (CallbackPhases \ {"acknowledge"})

\* The kernel that e is bound to is gone, which is for good.
Lost(e) == store[e].kernel # NoKernel /\ kernel[store[e].kernel] = "gone"

\* KernelLost is stored, or about to be, only for a kernel that is gone.
LostInv ==
    /\ KernelLostIsTrue
    /\ \A t \in Task, e \in Executions :
          Holds(t, e) /\ task[t].st.errorType = "KernelLost" => Lost(e)
    /\ \A t \in Task :
          /\ task[t].pc = "mark_infrastructure_failed" => Lost(task[t].job)
          /\ task[t].pc = "get_kernel" =>
                task[t].kernel = store[task[t].job].kernel

\* No task can send code of e to a kernel that would receive it.
Quiet(e) ==
    \A t \in Task :
        task[t].job = e /\ task[t].pc \in CodePhases =>
            task[t].pc \in StepPhases /\ kernel[task[t].kernel] = "gone"

(***************************************************************************)
(* With stop_on_error, a final status in the store or in a document a task *)
(* holds, and a task that records a loss or delivers the callback, mean    *)
(* that the execution is quiet.                                            *)
(***************************************************************************)
QuietInv ==
    \A e \in StopOnError :
        /\ IsTerminal(store[e]) => Quiet(e)
        /\ \A t \in Task :
              /\ task[t].job = e /\ task[t].pc \in TakeoverPhases => Quiet(e)
              /\ Holds(t, e) /\ IsTerminal(task[t].st) => Quiet(e)

\* The driver has left the step loop at step i or before.
Halted(e, i) ==
    /\ ~Unstarted(e)
    /\ Len(requests[e]) <= i
    /\ \A t \in Task : task[t].job = e => task[t].pc \notin CodePhases

StopInv ==
    \A e \in StopOnError, i \in Step :
        /\ store[e].steps[i] = "FAILED" => Halted(e, i)
        /\ \A t \in Task :
              Holds(t, e) /\ task[t].st.steps[i] = "FAILED" => Halted(e, i)

RequestInv ==
    /\ RequestRecordedBeforeSend
    /\ \A t \in Task, e \in StopOnError :
          /\ Holds(t, e) => Len(requests[e]) <= task[t].st.request
          /\ /\ task[t].job = e
             /\ task[t].pc = "send"
             /\ kernel[task[t].kernel] = "up"
             => task[t].step <= store[e].request

TakeoverInv == LostInv /\ QuietInv /\ StopInv /\ RequestInv

------------------------------------------------------------------------------
(* Kernels that no document names. *)

UnboundKernels ==
    {k \in Kernels :
        kernel[k] = "up" /\ \A e \in Executions : store[e].kernel # k}

UnboundExecutions ==
    {e \in Executions :
        store[e].status = "RUNNING" /\ store[e].kernel = NoKernel}

(***************************************************************************)
(* Every kernel that runs unbound was created for another execution that   *)
(* runs unbound; a task that opens a session has no other kernel there.    *)
(***************************************************************************)
LeakInv ==
    \E owner \in Injection(UnboundKernels, UnboundExecutions) :
        \A t \in Task, k \in UnboundKernels :
            task[t].pc \in SessionPhases =>
                (owner[k] = task[t].job
                    <=> task[t].pc # "create_session" /\ task[t].kernel = k)
==============================================================================
