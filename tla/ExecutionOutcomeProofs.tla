------------------------ MODULE ExecutionOutcomeProofs ------------------------
(***************************************************************************)
(* Outcome, callback and acknowledgement agree, and ExecutionProcessing    *)
(* implements ExecutionLifecycle, for every number of workers, slots,      *)
(* executions, kernels, steps and faults, while a command has one owner at *)
(* a time (SlowPhases = {}).                                               *)
(*                                                                         *)
(* Every step of a task is reduced once to what it does for its execution  *)
(* (Acts); the invariant, the stability of the outcome and the refinement  *)
(* are all proved from that.                                               *)
(***************************************************************************)
EXTENDS ExecutionOutcome, ExecutionRefinement, ExecutionOwnershipProofs

\* What is assumed of the timing: no command is claimed from a working task.
OneOwner == SlowPhases = {}

------------------------------------------------------------------------------
(* What a step of task t does for its execution, next being the task after *)
(* it.                                                                     *)

\* The document s may be replaced by new.
MayBecome(t, s, new) ==
    /\ DocumentOK(new)
    /\ \/ new.status = s.status
       \/ s.status = "QUEUED" /\ new.status = "RUNNING"
       \/ /\ s.status = "RUNNING"
          /\ new.status \in TerminalStatus
          /\ new.status = "SUCCEEDED" =>
                Len(requests[task[t].job]) = NumSteps
    /\ new.status # s.status => new.callback = s.callback
    /\ IsTerminal(s) /\ task[t].job \in StopOnError =>
          /\ new.steps = s.steps
          /\ new.errorStep = s.errorStep
          /\ new.errorType = s.errorType
    /\ s.event # "none" => new.event = s.event
    /\ new.callback # s.callback =>
          /\ IsTerminal(s)
          /\ \/ new.callback = "PENDING" /\ s.callback # "DELIVERED"
             \/ new.callback = "FAILED" /\ s.callback = "PENDING"
             \/ /\ new.callback = "DELIVERED" /\ s.callback = "PENDING"
                /\ task[t].pc = "mark_callback_delivered"

Rewrites(t) ==
    LET e == task[t].job
    IN /\ \A f \in Executions \ {e} : store'[f] = store[f]
       /\ MayBecome(t, store[e], store'[e])
       /\ UNCHANGED <<requests, inbox, pending, stale>>

Runs(t) ==
    LET e == task[t].job
    IN /\ task[t].pc = "send"
       /\ requests' = [requests EXCEPT ![e] =
                          Append(@, [step   |-> task[t].step,
                                     kernel |-> task[t].kernel])]
       /\ kernel[task[t].kernel] = "up"
       /\ UNCHANGED <<store, inbox, pending, stale>>

Tells(t) ==
    /\ task[t].pc = "callback_send"
    /\ inbox' = inbox \cup {ExecutionCallback(t)}
    /\ UNCHANGED <<store, requests, pending, stale>>

Settles(t) ==
    /\ task[t].pc = "acknowledge"
    /\ pending' = pending \ {task[t].job}
    /\ stale' = stale \ {task[t].job}
    /\ UNCHANGED <<store, requests, inbox>>

\* The callback that a task sends or has sent.
CallbackOf(tk) == [job |-> tk.job, event |-> tk.event, status |-> tk.report]

(***************************************************************************)
(* What the task is in its next phase: it knows the document, what it      *)
(* counts as told was told, what it counts as run was run, and a session   *)
(* is given up only when that needs no excuse.                             *)
(***************************************************************************)
Continues(t, next) ==
    LET e == task[t].job
    IN /\ next.pc # "free" => next.job = e /\ TaskKnows(next, store'[e])
       /\ next.pc \in {"record_success", "mark_callback_delivered"} =>
             CallbackOf(next) \in inbox'
       /\ next.pc = "mark_step_succeeded" => Len(requests'[e]) = next.step
       /\ next.pc = "mark_succeeded" => Len(requests'[e]) = NumSteps
       /\ next.pc = "mark_infrastructure_failed" =>
             kernel'[next.kernel] = "gone"
       /\ \/ next.pc \in DriverPhases
          \/ faults' # 0
          \/ ~IsTerminal(store'[e])
          \/ kernel'[store'[e].kernel] = "gone"
          \/ /\ task[t].pc \notin DriverPhases
             /\ IsTerminal(store[e])
             /\ store'[e].kernel = store[e].kernel

Acts(t, next) ==
    /\ ~Free(t)
    /\ task' = [task EXCEPT ![t] = next]
    /\ UNCHANGED <<stream, delivered>>
    /\ faults' = 0 => faults = 0
    /\ \A k \in Kernels : kernel[k] = "gone" => kernel'[k] = "gone"
    /\ Continues(t, next)
    /\ Rewrites(t) \/ Runs(t) \/ Tells(t) \/ Settles(t)
    /\ Settles(t) => next.pc = "free"

------------------------------------------------------------------------------
(***************************************************************************)
(* A document that is written back as it was read is a legal change.       *)
(***************************************************************************)
LEMMA SameDocument ==
    ASSUME NEW t, NEW s, DocumentOK(s)
    PROVE  MayBecome(t, s, s)
    BY DEF MayBecome

(***************************************************************************)
(* A free slot knows nothing and owes nothing.                             *)
(***************************************************************************)
LEMMA FreeContinues ==
    ASSUME NEW t, faults' # 0 \/ ~IsTerminal(store'[task[t].job])
                     \/ kernel'[store'[task[t].job].kernel] = "gone"
                     \/ (/\ task[t].pc \notin DriverPhases
                         /\ IsTerminal(store[task[t].job])
                         /\ store'[task[t].job].kernel
                                = store[task[t].job].kernel)
    PROVE  Continues(t, FreeTask) /\ FreeTask.pc = "free"
    BY DEF Continues, FreeTask

(***************************************************************************)
(* CallbackService.deliver on the document the task has.                   *)
(***************************************************************************)
LEMMA DeliverKnows ==
    ASSUME NEW e, NEW s \in ExecutionState, DocumentOK(s)
    PROVE  LET next == Deliver(e, s)
           IN /\ next.pc \in {"acknowledge", "mark_callback_pending", "free"}
              /\ next.pc # "free" => next.job = e /\ TaskKnows(next, s)
              /\ next.pc = "free" => ~IsTerminal(s)
    <1> USE DEF StartPhases, SessionPhases, StepPhases, RecoverPhases,
                AttemptPhases, CallbackPhases, NotRequested, TaskKnows
    <1>1. CASE s.callback = "DELIVERED"
          <2>1. IsTerminal(s)
                BY <1>1 DEF DocumentOK
          <2>2. Deliver(e, s) = [FreeTask EXCEPT !.pc = "acknowledge", !.job = e]
                BY <1>1 DEF Deliver
          <2> QED BY <1>1, <2>1, <2>2 DEF FreeTask
    <1>2. CASE s.callback # "DELIVERED" /\ IsTerminal(s)
          <2>1. DeliveryEvent(s) = s.status
                BY DEF DeliveryEvent, DocumentOK
          <2>2. Deliver(e, s) = [FreeTask EXCEPT !.pc = "mark_callback_pending",
                                                 !.job = e,
                                                 !.event = s.status]
                BY <1>2, <2>1 DEF Deliver
          <2> QED BY <1>2, <2>2 DEF FreeTask
    <1>3. CASE s.callback # "DELIVERED" /\ ~IsTerminal(s)
          BY <1>3 DEF Deliver, FreeTask
    <1> QED BY <1>1, <1>2, <1>3

------------------------------------------------------------------------------
(* From Acts to the invariant. *)

(***************************************************************************)
(* Only the execution of t is concerned, and no other task works on it.    *)
(***************************************************************************)
LEMMA ActsFrame ==
    ASSUME TypeOK, SoleOwner, DocumentInv, NEW t \in Task, NEW next, Acts(t, next)
    PROVE  LET e == task[t].job
           IN /\ e \in Executions
              /\ e \in pending /\ e \notin stale
              /\ task'[t] = next
              /\ \A u \in Task \ {t} :
                    task'[u] = task[u] /\ (~Free(u) => task[u].job # e)
              /\ \A f \in Executions \ {e} :
                    /\ store'[f] = store[f]
                    /\ requests'[f] = requests[f]
                    /\ f \in pending' <=> f \in pending
                    /\ f \in stale' <=> f \in stale
              /\ next.pc # "free" => UNCHANGED <<pending, stale>>
              /\ \/ UNCHANGED <<pending, stale>>
                 \/ task[t].pc = "acknowledge" /\ store'[e] = store[e]
              /\ MayBecome(t, store[e], store'[e])
    <1> DEFINE e == task[t].job
    <1>1. e \in Executions /\ ~Free(t)
          BY DEF Acts, TypeOK, TaskOK, Free
    <1>2. e \in pending /\ e \notin stale
          BY <1>1 DEF SoleOwner
    <1>3. task'[t] = next /\ \A u \in Task \ {t} : task'[u] = task[u]
          BY DEF Acts, TypeOK
    <1>4. \A u \in Task \ {t} : ~Free(u) => task[u].job # e
          BY <1>1 DEF SoleOwner
    <1>5. \A f \in Executions \ {e} :
              /\ store'[f] = store[f]
              /\ requests'[f] = requests[f]
              /\ f \in pending' <=> f \in pending
              /\ f \in stale' <=> f \in stale
          BY <1>1 DEF Acts, Rewrites, Runs, Tells, Settles, TypeOK
    <1>6. /\ next.pc # "free" => UNCHANGED <<pending, stale>>
          /\ \/ UNCHANGED <<pending, stale>>
             \/ task[t].pc = "acknowledge" /\ store'[e] = store[e]
          BY DEF Acts, Rewrites, Runs, Tells, Settles
    <1>7. MayBecome(t, store[e], store'[e])
          <2>1. MayBecome(t, store[e], store[e])
                BY <1>1, SameDocument DEF DocumentInv
          <2> QED BY <2>1 DEF Acts, Rewrites, Runs, Tells, Settles
    <1> QED BY <1>1, <1>2, <1>3, <1>4, <1>5, <1>6, <1>7

LEMMA OwnerActs ==
    ASSUME TypeOK, OutcomeInv, NEW t \in Task, NEW next, Acts(t, next)
    PROVE  SoleOwner' /\ DocumentInv' /\ TaskInv' /\ RanInv'
    <1> USE DEF OutcomeInv
    <1> DEFINE e == task[t].job
    <1>1. /\ e \in Executions
          /\ e \in pending /\ e \notin stale
          /\ task'[t] = next
          /\ \A u \in Task \ {t} :
                task'[u] = task[u] /\ (~Free(u) => task[u].job # e)
          /\ \A f \in Executions \ {e} :
                /\ store'[f] = store[f]
                /\ requests'[f] = requests[f]
                /\ f \in pending' <=> f \in pending
                /\ f \in stale' <=> f \in stale
          /\ next.pc # "free" => UNCHANGED <<pending, stale>>
          /\ MayBecome(t, store[e], store'[e])
          BY ActsFrame
    <1>2. \A u \in Task : task[u].pc # "free" => task[u].job \in Executions
          BY DEF TypeOK, TaskOK
    <1>3. Continues(t, next)
          BY DEF Acts
    <1>4. SoleOwner'
          <2>1. ASSUME NEW u \in Task, ~Free(u)'
                PROVE  task'[u].job \in (pending \ stale)'
                BY <1>1, <1>2, <1>3, <2>1 DEF SoleOwner, Continues, Free
          <2>2. ASSUME NEW u \in Task, NEW v \in Task, ~Free(u)', ~Free(v)',
                       task'[u].job = task'[v].job
                PROVE  u = v
                BY <1>1, <1>3, <2>2 DEF SoleOwner, Continues, Free
          <2> QED BY <2>1, <2>2 DEF SoleOwner
    <1>5. DocumentInv'
          BY <1>1 DEF DocumentInv, MayBecome
    <1>6. TaskInv'
          <2>1. ASSUME NEW u \in Task, ~Free(u)'
                PROVE  TaskKnows(task'[u], store'[task'[u].job])
                <3>1. CASE u = t
                      BY <1>1, <1>3, <2>1, <3>1 DEF Continues, Free
                <3>2. CASE u # t
                      <4>1. /\ task'[u] = task[u]
                            /\ ~Free(u)
                            /\ task[u].job \in Executions \ {e}
                            BY <1>1, <1>2, <2>1, <3>2 DEF Free
                      <4> QED BY <1>1, <4>1 DEF TaskInv
                <3> QED BY <3>1, <3>2
          <2> QED BY <2>1 DEF TaskInv
    <1>7. RanInv'
          <2>1. ASSUME NEW u \in Task
                PROVE  /\ task'[u].pc = "mark_step_succeeded" =>
                              Len(requests'[task'[u].job]) = task'[u].step
                       /\ task'[u].pc = "mark_succeeded" =>
                              Len(requests'[task'[u].job]) = NumSteps
                <3>1. CASE u = t
                      BY <1>1, <1>3, <3>1 DEF Continues
                <3>2. CASE u # t
                      BY <1>1, <1>2, <3>2 DEF RanInv, Free
                <3> QED BY <3>1, <3>2
          <2> QED BY <2>1 DEF RanInv
    <1> QED BY <1>4, <1>5, <1>6, <1>7

(***************************************************************************)
(* What the agent was told stays true, and what is stored as delivered was *)
(* told.                                                                   *)
(***************************************************************************)
LEMMA ToldActs ==
    ASSUME TypeOK, OutcomeInv, NEW t \in Task, NEW next, Acts(t, next)
    PROVE  ToldInv'
    <1> USE DEF OutcomeInv
    <1> DEFINE e == task[t].job
    <1>1. /\ e \in Executions
          /\ task'[t] = next
          /\ \A u \in Task \ {t} : task'[u] = task[u]
          /\ \A f \in Executions \ {e} : store'[f] = store[f]
          /\ MayBecome(t, store[e], store'[e])
          BY ActsFrame
    <1>2. /\ inbox \subseteq inbox'
          /\ \/ inbox' = inbox
             \/ /\ inbox' = inbox \cup {ExecutionCallback(t)}
                /\ store' = store
                /\ task[t].pc = "callback_send"
          BY DEF Acts, Rewrites, Runs, Tells, Settles
    <1>3. TaskKnows(task[t], store[e]) /\ DocumentOK(store[e])
          BY <1>1 DEF Acts, TaskInv, DocumentInv
    <1>4. \A c \in inbox : c.job \in Executions /\ c.event # "none"
          BY DEF TypeOK, Callback, ToldInv
    <1>5. CallbackTellsOutcome'
          <2>1. ASSUME NEW c \in inbox
                PROVE  /\ c.status = store'[c.job].status
                       /\ c.event = store'[c.job].event
                <3>1. /\ c.status = store[c.job].status
                      /\ c.event = store[c.job].event
                      BY DEF ToldInv, CallbackTellsOutcome
                <3>2. CASE c.job = e
                      <4>1. store[e].event # "none" /\ IsTerminal(store[e])
                            BY <1>3, <1>4, <3>1, <3>2 DEF DocumentOK, NotRequested
                      <4> QED BY <1>1, <3>1, <3>2, <4>1
                              DEF MayBecome, IsTerminal, TerminalStatus
                <3>3. CASE c.job # e
                      BY <1>1, <1>4, <3>1, <3>3
                <3> QED BY <3>2, <3>3
          <2>2. CASE inbox' = inbox
                BY <2>1, <2>2 DEF CallbackTellsOutcome
          <2>3. CASE /\ inbox' = inbox \cup {ExecutionCallback(t)}
                     /\ store' = store
                     /\ task[t].pc = "callback_send"
                <3>1. /\ task[t].report = store'[e].status
                      /\ task[t].event = store'[e].event
                      BY <1>3, <2>3 DEF TaskKnows, AttemptPhases
                <3> QED BY <2>1, <2>3, <3>1
                        DEF CallbackTellsOutcome, ExecutionCallback
          <2> QED BY <1>2, <2>2, <2>3
    <1>6. DeliveredIsReceived'
          <2>1. ASSUME NEW f \in Executions, store'[f].callback = "DELIVERED"
                PROVE  \E c \in inbox' : c.job = f /\ c.event = store'[f].event
                <3>1. CASE f # e \/ store[e].callback = "DELIVERED"
                      <4>1. store[f].callback = "DELIVERED"
                            BY <1>1, <2>1, <3>1
                      <4>2. PICK c \in inbox :
                                c.job = f /\ c.event = store[f].event
                            BY <4>1 DEF ToldInv, DeliveredIsReceived
                      <4>3. store'[f].event = store[f].event
                            BY <1>1, <1>4, <4>2 DEF MayBecome
                      <4> QED BY <1>2, <4>2, <4>3
                <3>2. CASE f = e /\ store[e].callback # "DELIVERED"
                      <4>1. task[t].pc = "mark_callback_delivered"
                            BY <1>1, <2>1, <3>2 DEF MayBecome
                      <4>2. ExecutionCallback(t) \in inbox
                            BY <4>1 DEF ToldInv
                      <4>3. /\ task[t].event = store[e].event
                            /\ store[e].event # "none"
                            BY <1>3, <1>4, <4>1, <4>2
                            DEF TaskKnows, AttemptPhases, ExecutionCallback
                      <4>4. store'[e].event = store[e].event
                            BY <1>1, <4>3 DEF MayBecome
                      <4> QED BY <1>2, <3>2, <4>2, <4>3, <4>4
                              DEF ExecutionCallback
                <3> QED BY <3>1, <3>2
          <2> QED BY <2>1 DEF DeliveredIsReceived
    <1>7. \A c \in inbox' : c.event # "none"
          <2>1. task[t].pc = "callback_send" =>
                    ExecutionCallback(t).event # "none"
                BY <1>3 DEF TaskKnows, AttemptPhases, ExecutionCallback,
                            DocumentOK, CallbackPhases, IsTerminal,
                            TerminalStatus
          <2> QED BY <1>2, <1>4, <2>1
    <1>8. ASSUME NEW u \in Task,
                 task'[u].pc \in {"record_success", "mark_callback_delivered"}
          PROVE  ExecutionCallback(u)' \in inbox'
          <2>1. CASE u = t
                <3>1. CallbackOf(next) \in inbox'
                      BY <1>1, <1>8, <2>1 DEF Acts, Continues
                <3> QED BY <1>1, <2>1, <3>1 DEF CallbackOf, ExecutionCallback
          <2>2. CASE u # t
                BY <1>1, <1>2, <1>8, <2>2 DEF ToldInv, ExecutionCallback
          <2> QED BY <2>1, <2>2
    <1> QED BY <1>5, <1>6, <1>7, <1>8 DEF ToldInv

(***************************************************************************)
(* The command leaves the pending list only from the phase acknowledge,    *)
(* and no session of a finished execution is left without its driver.      *)
(***************************************************************************)
LEMMA ReleaseActs ==
    ASSUME TypeOK, OutcomeInv, NEW t \in Task, NEW next, Acts(t, next)
    PROVE  AckedIsRecorded' /\ ReleaseInv'
    <1> USE DEF OutcomeInv
    <1> DEFINE e == task[t].job
    <1>1. /\ e \in Executions
          /\ e \in pending
          /\ task'[t] = next
          /\ \A u \in Task \ {t} :
                task'[u] = task[u] /\ (~Free(u) => task[u].job # e)
          /\ \A f \in Executions \ {e} :
                store'[f] = store[f] /\ (f \in pending' <=> f \in pending)
          /\ \/ UNCHANGED <<pending, stale>>
             \/ task[t].pc = "acknowledge" /\ store'[e] = store[e]
          BY ActsFrame
    <1>2. TaskKnows(task[t], store[e]) /\ Continues(t, next)
          BY <1>1 DEF Acts, TaskInv
    <1>3. AckedIsRecorded'
          <2>1. ASSUME NEW f \in Executions, Acked(f)'
                PROVE  /\ IsTerminal(store'[f])
                       /\ store'[f].callback \in {"DELIVERED", "FAILED"}
                <3>1. CASE f = e
                      BY <1>1, <1>2, <2>1, <3>1
                      DEF Acked, TaskKnows, CallbackPhases
                <3>2. CASE f # e
                      BY <1>1, <2>1, <3>2 DEF Acts, Acked, AckedIsRecorded
                <3> QED BY <3>1, <3>2
          <2> QED BY <2>1 DEF AckedIsRecorded
    <1>4. \A k \in Kernels : kernel[k] = "gone" => kernel'[k] = "gone"
          BY DEF Acts
    <1>5. "mark_infrastructure_failed" \notin DriverPhases
          BY DEF DriverPhases, SessionPhases, StepPhases, ClosePhases
    <1>6. ASSUME NEW u \in Task, task'[u].pc = "mark_infrastructure_failed"
          PROVE  kernel'[task'[u].kernel] = "gone"
          <2>1. CASE u = t
                BY <1>1, <1>2, <1>6, <2>1 DEF Continues
          <2>2. CASE u # t
                <3>1. /\ kernel[task[u].kernel] = "gone"
                      /\ ~Free(u)
                      BY <1>1, <1>6, <2>2 DEF ReleaseInv, Free
                <3>2. TaskKnows(task[u], store[task[u].job])
                      BY <3>1 DEF TaskInv
                <3>3. task[u].kernel \in Kernels
                      <4>1. store[task[u].job] \in ExecutionState
                            BY <3>1 DEF TypeOK, TaskOK, Free
                      <4>2. /\ task[u].kernel = store[task[u].job].kernel
                            /\ task[u].kernel # NoKernel
                            BY <1>1, <1>6, <2>2, <3>2 DEF TaskKnows
                      <4> QED BY <4>1, <4>2 DEF ExecutionState
                <3> QED BY <1>1, <1>4, <2>2, <3>1, <3>3
          <2> QED BY <2>1, <2>2
    <1>7. ASSUME NEW f \in Executions, faults' = 0, IsTerminal(store'[f]),
                 store'[f].kernel # NoKernel,
                 kernel'[store'[f].kernel] # "gone"
          PROVE  \E u \in Task : task'[u].pc \in DriverPhases /\ task'[u].job = f
          <2>1. CASE f # e
                <3>1. /\ store[f] \in ExecutionState
                      /\ store'[f] = store[f]
                      BY <1>1, <2>1 DEF TypeOK
                <3>2. kernel[store[f].kernel] # "gone"
                      BY <1>4, <1>7, <3>1 DEF ExecutionState
                <3>3. PICK u \in Task :
                          task[u].pc \in DriverPhases /\ task[u].job = f
                      BY <1>7, <3>1, <3>2 DEF Acts, ReleaseInv
                <3> QED BY <1>1, <2>1, <3>3
          <2>2. CASE f = e
                <3>1. CASE next.pc \in DriverPhases
                      <4>1. next.pc # "free"
                            BY <3>1 DEF DriverPhases, SessionPhases, StepPhases,
                                        ClosePhases
                      <4> QED BY <1>1, <1>2, <2>2, <3>1, <4>1 DEF Continues
                <3>2. CASE next.pc \notin DriverPhases
                      <4>1. /\ task[t].pc \notin DriverPhases
                            /\ IsTerminal(store[e])
                            /\ store'[e].kernel = store[e].kernel
                            BY <1>2, <1>7, <2>2, <3>2 DEF Continues
                      <4>2. store[e] \in ExecutionState
                            BY <1>1 DEF TypeOK
                      <4>3. kernel[store[e].kernel] # "gone"
                            BY <1>4, <1>7, <2>2, <4>1, <4>2 DEF ExecutionState
                      <4>4. PICK u \in Task :
                                task[u].pc \in DriverPhases /\ task[u].job = e
                            BY <1>7, <2>2, <4>1, <4>3 DEF Acts, ReleaseInv
                      <4>5. ~Free(u)
                            BY <4>4 DEF Free, DriverPhases, SessionPhases,
                                        StepPhases, ClosePhases
                      <4> QED BY <1>1, <4>1, <4>4, <4>5
                <3> QED BY <3>1, <3>2
          <2> QED BY <2>1, <2>2
    <1>8. ReleaseInv'
          BY <1>6, <1>7 DEF ReleaseInv
    <1> QED BY <1>3, <1>8

LEMMA OutcomeActs ==
    ASSUME TypeOK, OutcomeInv, NEW t \in Task, NEW next, Acts(t, next)
    PROVE  OutcomeInv'
    BY OwnerActs, ToldActs, ReleaseActs DEF OutcomeInv

------------------------------------------------------------------------------
(* Every step of a task is of this kind. *)

LEMMA Knows ==
    ASSUME TypeOK, OutcomeInv, NEW t \in Task, ~Free(t)
    PROVE  LET e == task[t].job
           IN /\ e \in Executions
              /\ task[t] \in TaskState
              /\ store[e] \in ExecutionState
              /\ TaskKnows(task[t], store[e])
              /\ DocumentOK(store[e])
              /\ Loaded(t) => task[t].st = store[e]
    <1>1. task[t].job \in Executions /\ task[t] \in TaskState
          BY DEF TypeOK, TaskOK, Free
    <1> QED BY <1>1 DEF OutcomeInv, TaskInv, DocumentInv, TypeOK, Loaded,
                        TaskKnows

LEMMA FaultCounts == ASSUME TypeOK, Fault PROVE faults' # 0
    BY DEF TypeOK, Fault

(***************************************************************************)
(* A step that changes neither documents nor requests nor callbacks.       *)
(***************************************************************************)
LEMMA QuietActs ==
    ASSUME TypeOK, OutcomeInv, NEW t \in Task, NEW next, ~Free(t),
           Become(t, next),
           UNCHANGED <<store, stream, delivered, pending, stale, requests, inbox>>,
           UNCHANGED faults \/ Fault,
           \A k \in Kernels : kernel[k] = "gone" => kernel'[k] = "gone",
           Continues(t, next)
    PROVE  Acts(t, next)
    <1>1. faults' = 0 => faults = 0
          BY FaultCounts
    <1>2. Rewrites(t)
          BY Knows, SameDocument DEF Rewrites
    <1>3. task[t].pc = "acknowledge" => pending' # pending \ {task[t].job}
          BY DEF OutcomeInv, SoleOwner
    <1> QED BY <1>1, <1>2, <1>3 DEF Acts, Become, Settles

(***************************************************************************)
(* A task ends by a fault.                                                 *)
(***************************************************************************)
LEMMA EndActs ==
    ASSUME TypeOK, OutcomeInv, NEW t \in Task, ~Free(t), Fault, End(t),
           UNCHANGED <<store, stream, delivered, pending, stale, requests, inbox>>,
           \A k \in Kernels : kernel[k] = "gone" => kernel'[k] = "gone"
    PROVE  Acts(t, FreeTask)
    BY FaultCounts, FreeContinues, QuietActs DEF End

(***************************************************************************)
(* A repository method replaces the document, its reply arrives or is lost.*)
(***************************************************************************)
LEMMA SaveActs ==
    ASSUME TypeOK, OutcomeInv, NEW t \in Task, NEW phase \in SavePhases,
           NEW new, NEW next, Save(t, phase, new, next),
           MayBecome(t, store[task[t].job], new),
           next.pc # "free" => next.job = task[t].job /\ TaskKnows(next, new),
           next.pc \notin {"record_success", "mark_step_succeeded",
                           "mark_infrastructure_failed"},
           next.pc = "mark_callback_delivered" => CallbackOf(next) \in inbox,
           next.pc = "mark_succeeded" =>
               Len(requests[task[t].job]) = NumSteps,
           \/ next.pc \in DriverPhases
           \/ ~IsTerminal(new)
           \/ kernel[new.kernel] = "gone"
           \/ /\ phase \notin DriverPhases
              /\ IsTerminal(store[task[t].job])
              /\ new.kernel = store[task[t].job].kernel
    PROVE  \E after : Acts(t, after)
    <1> DEFINE e == task[t].job
    <1>1. /\ ~Free(t)
          /\ task[t].pc = phase
          /\ phase # "acknowledge"
          BY DEF Save, Free, SavePhases
    <1>2. e \in Executions
          BY <1>1, Knows
    <1>3. store'[e] = new /\ \A f \in Executions \ {e} : store'[f] = store[f]
          BY <1>2 DEF Save, TypeOK
    <1>4. Rewrites(t) /\ ~Settles(t)
          BY <1>1, <1>3 DEF Rewrites, Save, Settles
    <1>5. UNCHANGED <<stream, delivered, kernel, requests, inbox>>
          BY DEF Save
    <1>6. CASE Become(t, next) /\ UNCHANGED faults
          <2>1. Continues(t, next)
                BY <1>1, <1>3, <1>5 DEF Continues
          <2> QED BY <1>1, <1>4, <1>5, <1>6, <2>1 DEF Acts, Become
    <1>7. CASE Fault /\ End(t)
          <2>1. faults' # 0
                BY <1>7, FaultCounts
          <2>2. Continues(t, FreeTask) /\ FreeTask.pc = "free"
                BY <2>1, FreeContinues
          <2> QED BY <1>1, <1>4, <1>5, <1>7, <2>1, <2>2 DEF Acts, End, Become
    <1> QED BY <1>6, <1>7 DEF Save

(***************************************************************************)
(* The steps of the processor and of the service before the session.       *)
(***************************************************************************)
LEMMA ServiceActs ==
    ASSUME TypeOK, OutcomeInv, NEW t \in Task, ServiceStep(t)
    PROVE  \E next : Acts(t, next)
    <1> DEFINE e == task[t].job
               s == store[e]
    <1> USE DEF redisVars
    <1>1. ~Free(t)
          BY DEF ServiceStep, ProcessorGet, ServiceGet, RepositoryGet,
                 SetRunning, Save, SavePhases, Free
    <1>2. /\ e \in Executions
          /\ task[t] \in TaskState
          /\ s \in ExecutionState
          /\ TaskKnows(task[t], s)
          /\ DocumentOK(s)
          /\ Loaded(t) => task[t].st = s
          BY <1>1, Knows
    <1>3. CASE ProcessorGet(t) \/ ServiceGet(t)
          <2> DEFINE next == IF task[t].pc = "processor_get"
                             THEN ProcessorNext(e, s) ELSE ServiceNext(e, s)
          <2>1. /\ task[t].pc \in {"processor_get", "service_get"}
                /\ Become(t, next)
                /\ UNCHANGED <<redisVars, kernel, requests, inbox, faults>>
                BY <1>3 DEF ProcessorGet, ServiceGet
          <2>2. /\ next.pc # "free" => next.job = e /\ TaskKnows(next, s)
                /\ next.pc \in {"recover_get", "service_get", "mark_running",
                                "acknowledge", "mark_callback_pending", "free"}
                <3>1. CASE s.status = "QUEUED" \/ s.status = "RUNNING"
                      <4>1. \/ next.pc = "free"
                            \/ /\ next.pc = "recover_get"
                               /\ s.status = "RUNNING"
                               /\ next.job = e /\ next.st = Absent
                            \/ /\ next.pc \in {"service_get", "mark_running"}
                               /\ s.status = "QUEUED"
                               /\ next.job = e /\ next.st = Absent
                               /\ ~next.failed
                            BY <3>1 DEF ProcessorNext, ServiceNext, Start, FreeTask
                      <4> HIDE DEF next
                      <4> QED BY <4>1
                              DEF TaskKnows, StartPhases, SessionPhases,
                                  StepPhases, RecoverPhases, CallbackPhases,
                                  AttemptPhases
                <3>2. CASE s.status # "QUEUED" /\ s.status # "RUNNING"
                      <4>1. next = Deliver(e, s)
                            BY <3>2 DEF ProcessorNext, ServiceNext
                      <4> QED BY <1>2, <4>1, DeliverKnows
                <3> QED BY <3>1, <3>2
          <2>3. task[t].pc \notin DriverPhases
                BY <2>1 DEF DriverPhases, SessionPhases, StepPhases, ClosePhases
          <2> HIDE DEF next
          <2>4. Continues(t, next)
                BY <2>1, <2>2, <2>3 DEF Continues
          <2>5. Acts(t, next)
                BY <1>1, <2>1, <2>4, QuietActs
          <2> QED BY <2>5
    <1>4. CASE RepositoryGet(t)
          <2> DEFINE next == [task[t] EXCEPT !.st = s]
          <2>1. /\ task[t].pc \in SavePhases
                /\ Become(t, next)
                /\ UNCHANGED <<redisVars, kernel, requests, inbox, faults>>
                BY <1>4 DEF RepositoryGet
          <2>2. /\ next.pc = task[t].pc /\ next.job = e /\ next.st = s
                /\ next.step = task[t].step /\ next.kernel = task[t].kernel
                /\ next.failed = task[t].failed /\ next.event = task[t].event
                /\ next.report = task[t].report
                BY <1>2 DEF TaskState
          <2> HIDE DEF next
          <2>3. TaskKnows(next, s)
                BY <1>2, <2>1, <2>2 DEF TaskKnows, SavePhases
          <2>4. next.pc \in {"record_success", "mark_callback_delivered"} =>
                    CallbackOf(next) \in inbox
                BY <2>2 DEF OutcomeInv, ToldInv, ExecutionCallback, CallbackOf
          <2>5. Continues(t, next)
                BY <2>1, <2>2, <2>3, <2>4
                DEF Continues, OutcomeInv, RanInv, ReleaseInv
          <2>6. Acts(t, next)
                BY <1>1, <2>1, <2>5, QuietActs
          <2> QED BY <2>6
    <1>5. CASE SetRunning(t)
          <2> DEFINE new == MarkRunning(task[t].st)
                     next == At(t, "create_session")
          <2>1. Save(t, "mark_running", new, next)
                BY <1>5 DEF SetRunning
          <2>2. task[t].pc = "mark_running" /\ task[t].st = s
                BY <1>2, <2>1 DEF Save
          <2>3. s.status = "QUEUED" /\ ~task[t].failed
                BY <1>2, <2>2 DEF TaskKnows, StartPhases
          <2>4. /\ new.status = "RUNNING"
                /\ new.callback = s.callback
                /\ new.event = s.event
                /\ new.errorType = s.errorType
                BY <1>2, <2>2 DEF MarkRunning, ExecutionState
          <2>5. MayBecome(t, s, new)
                BY <1>2, <2>3, <2>4
                DEF MayBecome, DocumentOK, IsTerminal, TerminalStatus,
                    NotRequested
          <2>6. /\ next.pc = "create_session" /\ next.st = Absent
                /\ next.job = e /\ ~next.failed
                BY <1>2, <2>3 DEF At, TaskState
          <2> HIDE DEF new, next
          <2>7. TaskKnows(next, new)
                BY <2>4, <2>6
                DEF TaskKnows, StartPhases, SessionPhases, StepPhases,
                    RecoverPhases, CallbackPhases, AttemptPhases
          <2>8. "mark_running" \in SavePhases /\ next.pc \in DriverPhases
                BY <2>6 DEF SavePhases, DriverPhases, SessionPhases
          <2> QED BY <2>1, <2>5, <2>6, <2>7, <2>8, SaveActs
    <1> QED BY <1>3, <1>4, <1>5 DEF ServiceStep

------------------------------------------------------------------------------
(* The Jupyter session. *)

LEMMA AtKeeps ==
    ASSUME NEW t, task[t] \in TaskState, NEW phase
    PROVE  /\ At(t, phase).pc = phase
           /\ At(t, phase).st = Absent
           /\ At(t, phase).job = task[t].job
           /\ At(t, phase).step = task[t].step
           /\ At(t, phase).kernel = task[t].kernel
           /\ At(t, phase).failed = task[t].failed
           /\ At(t, phase).event = task[t].event
           /\ At(t, phase).report = task[t].report
    BY DEF At, TaskState

\* What a driver knows of its document before and in the step loop.
SessionOK(tk, s) == ~tk.failed /\ s.status = "RUNNING"
LoopOK(tk, s) ==
    /\ NotRequested(s)
    /\ s.status = IF tk.failed THEN "FAILED" ELSE "RUNNING"
    /\ tk.failed => tk.job \notin StopOnError
    /\ ~tk.failed => \A i \in 1..(tk.step - 1) : s.steps[i] = "SUCCEEDED"

LEMMA DriverKnows ==
    ASSUME NEW tk, NEW s
    PROVE  /\ tk.pc \in SessionPhases /\ tk.st = Absent /\ SessionOK(tk, s)
                => TaskKnows(tk, s)
           /\ tk.pc \in StepPhases /\ tk.st = Absent /\ LoopOK(tk, s)
                => TaskKnows(tk, s)
           /\ TaskKnows(tk, s) =>
                /\ tk.pc \in SessionPhases => SessionOK(tk, s)
                /\ tk.pc \in StepPhases => LoopOK(tk, s)
    BY DEF TaskKnows, SessionOK, LoopOK, StartPhases, SessionPhases,
           StepPhases, RecoverPhases, CallbackPhases, AttemptPhases

LEMMA AfterLoopKnows ==
    ASSUME NEW tk, NEW s
    PROVE  /\ tk.pc = "mark_succeeded" /\ tk.st = Absent
                 /\ s.status = "RUNNING"
                 /\ (\A i \in Step : s.steps[i] = "SUCCEEDED")
              => TaskKnows(tk, s)
           /\ tk.pc = "final_get" /\ tk.st = Absent
                 /\ s.status = "FAILED" /\ NotRequested(s)
              => TaskKnows(tk, s)
           /\ tk.pc = "delete_session" /\ tk.st = s
                 /\ IsTerminal(s) /\ NotRequested(s)
              => TaskKnows(tk, s)
    BY DEF TaskKnows, StartPhases, SessionPhases, StepPhases, RecoverPhases,
           CallbackPhases, AttemptPhases

(***************************************************************************)
(* POST /api/sessions, and what follows it up to the first step.           *)
(***************************************************************************)
LEMMA CreateActs ==
    ASSUME TypeOK, OutcomeInv, NEW t \in Task, CreateSession(t)
    PROVE  \E next : Acts(t, next)
    <1>1. PICK k \in Kernels :
              /\ kernel[k] = "unused"
              /\ kernel' = [kernel EXCEPT ![k] = "up"]
              /\ \/ Become(t, [task[t] EXCEPT !.pc = "connect_channels",
                                              !.kernel = k])
                 \/ End(t)
          BY Zenon DEF CreateSession
    <1> DEFINE e == task[t].job
               s == store[e]
    <1>2. ~Free(t) /\ task[t].pc \in SessionPhases
          BY DEF CreateSession, Free, SessionPhases
    <1>3. /\ e \in Executions
          /\ task[t] \in TaskState
          /\ SessionOK(task[t], s)
          BY <1>2, Knows, DriverKnows
    <1>4. ~IsTerminal(s)
          BY <1>3 DEF SessionOK, IsTerminal, TerminalStatus
    <1>5. SessionPhases \subseteq DriverPhases
          BY DEF DriverPhases
    <1>6. UNCHANGED faults \/ Fault
          BY DEF CreateSession
    <1>7. \A l \in Kernels : kernel[l] = "gone" => kernel'[l] = "gone"
          <2>1. kernel[k] = "unused" /\ kernel' = [kernel EXCEPT ![k] = "up"]
                BY <1>1
          <2>2. kernel \in [Kernels -> KernelLife]
                BY DEF TypeOK
          <2> QED BY <2>1, <2>2
    <1>8. UNCHANGED <<store, stream, delivered, pending, stale, requests,
                      inbox>>
          BY DEF CreateSession, redisVars
    <1>9. CASE End(t)
          <2>1. Continues(t, FreeTask)
                BY <1>4, <1>8, FreeContinues
          <2>2. Acts(t, FreeTask)
                BY <1>2, <1>7, <1>8, <1>9, <1>6, <2>1, QuietActs DEF End
          <2> QED BY <2>2
    <1>10. CASE ~End(t)
          <2> DEFINE next == [task[t] EXCEPT !.pc = "connect_channels",
                                             !.kernel = k]
          <2>1. /\ next.pc = "connect_channels" /\ next.job = e
                /\ next.st = task[t].st /\ next.failed = task[t].failed
                BY <1>3 DEF TaskState
          <2>2. Become(t, next)
                BY <1>1, <1>10
          <2> HIDE DEF next
          <2>3. TaskKnows(next, s)
                <3>1. TaskKnows(task[t], s)
                      BY <1>2, Knows
                <3> QED BY <1>2, <1>3, <2>1, <3>1
                        DEF TaskKnows, SessionOK, StartPhases,
                            SessionPhases, StepPhases, RecoverPhases,
                            CallbackPhases, AttemptPhases
          <2>4. Continues(t, next)
                BY <1>4, <1>5, <1>8, <2>1, <2>3 DEF Continues
          <2>5. Acts(t, next)
                BY <1>2, <1>7, <1>8, <1>6, <2>2, <2>4, QuietActs
          <2> QED BY <2>5
    <1> QED BY <1>9, <1>10

(***************************************************************************)
(* Opening the WebSocket and binding the kernel.                           *)
(***************************************************************************)
LEMMA OpenActs ==
    ASSUME TypeOK, OutcomeInv, NEW t \in Task,
           ConnectChannels(t) \/ SetBinding(t)
    PROVE  \E next : Acts(t, next)
    <1> DEFINE e == task[t].job
               s == store[e]
    <1>1. /\ ~Free(t)
          /\ task[t].pc \in SessionPhases
          BY DEF ConnectChannels, SetBinding, Save, Free, SessionPhases
    <1>2. /\ e \in Executions
          /\ task[t] \in TaskState
          /\ s \in ExecutionState
          /\ DocumentOK(s)
          /\ Loaded(t) => task[t].st = s
          /\ SessionOK(task[t], s)
          BY <1>1, Knows, DriverKnows
    <1>3. ~IsTerminal(s) /\ NotRequested(s) /\ s.errorType = "none"
          BY <1>2 DEF SessionOK, DocumentOK, IsTerminal, TerminalStatus
    <1>4. SessionPhases \subseteq DriverPhases
          BY DEF DriverPhases
    <1>5. CASE ConnectChannels(t)
          <2> DEFINE next == At(t, "bind_jupyter")
          <2>1. /\ UNCHANGED <<store, stream, delivered, pending, stale,
                               requests, inbox, kernel, faults>>
                /\ Become(t, next) \/ End(t)
                BY <1>5 DEF ConnectChannels, redisVars
          <2>2. CASE End(t)
                <3>1. Continues(t, FreeTask)
                      BY <1>3, <2>1, FreeContinues
                <3>2. Acts(t, FreeTask)
                      BY <1>1, <2>1, <2>2, <3>1, QuietActs DEF End
                <3> QED BY <3>2
          <2>3. CASE Become(t, next)
                <3>1. /\ next.pc = "bind_jupyter" /\ next.job = e
                      /\ next.st = Absent /\ next.failed = task[t].failed
                      BY <1>2, AtKeeps
                <3> HIDE DEF next
                <3>2. TaskKnows(next, s)
                      BY <1>2, <3>1, DriverKnows DEF SessionOK, SessionPhases
                <3>3. Continues(t, next)
                      BY <1>3, <2>1, <3>1, <3>2 DEF Continues
                <3>4. Acts(t, next)
                      BY <1>1, <2>1, <2>3, <3>3, QuietActs
                <3> QED BY <3>4
          <2> QED BY <2>1, <2>2, <2>3
    <1>6. CASE SetBinding(t)
          <2> DEFINE new == BindJupyter(task[t].st, task[t].kernel)
                     next == [At(t, "mark_step_running") EXCEPT !.step = 1]
          <2>1. Save(t, "bind_jupyter", new, next)
                BY <1>6 DEF SetBinding
          <2>2. task[t].st = s
                BY <1>2, <2>1 DEF Save
          <2>3. /\ new.status = s.status
                /\ new.callback = s.callback
                /\ new.event = s.event
                /\ new.errorType = s.errorType
                BY <1>2, <2>2 DEF BindJupyter, ExecutionState
          <2>4. MayBecome(t, s, new) /\ ~IsTerminal(new)
                BY <1>2, <1>3, <2>3
                DEF MayBecome, DocumentOK, IsTerminal, TerminalStatus,
                    NotRequested
          <2>5. /\ next.pc = "mark_step_running" /\ next.st = Absent
                /\ next.job = e /\ next.step = 1
                /\ next.failed = task[t].failed
                BY <1>2 DEF At, TaskState
          <2> HIDE DEF new, next
          <2>6. TaskKnows(next, new)
                BY <1>2, <1>3, <2>3, <2>5, DriverKnows
                DEF SessionOK, LoopOK, NotRequested, StepPhases
          <2>7. "bind_jupyter" \in SavePhases
                BY DEF SavePhases
          <2> QED BY <2>1, <2>4, <2>5, <2>6, <2>7, SaveActs
    <1> QED BY <1>5, <1>6

(***************************************************************************)
(* A step of the loop up to the answer of the kernel.                      *)
(***************************************************************************)
LEMMA LoopActs ==
    ASSUME TypeOK, OutcomeInv, OwnershipInv, NEW t \in Task,
           SetStepRunning(t) \/ SetRequestStarted(t) \/ Send(t)
              \/ RecvReply(t) \/ RecvTimeout(t) \/ RecvDisconnect(t)
    PROVE  \E next : Acts(t, next)
    <1> DEFINE e == task[t].job
               s == store[e]
               i == task[t].step
    <1>1. /\ ~Free(t)
          /\ task[t].pc \in StepPhases
          BY DEF SetStepRunning, SetRequestStarted, Send, RecvReply,
                 RecvTimeout, RecvDisconnect, Save, Free, StepPhases
    <1>2. /\ e \in Executions
          /\ task[t] \in TaskState
          /\ s \in ExecutionState
          /\ DocumentOK(s)
          /\ Loaded(t) => task[t].st = s
          /\ LoopOK(task[t], s)
          BY <1>1, Knows, DriverKnows
    <1>3. /\ i \in Step
          /\ task[t].kernel \in Kernels
          /\ requests[e] \in Seq(Request)
          BY <1>1, <1>2 DEF TypeOK, TaskOK, DriverPhases, StepPhases
    <1>4. StepPhases \subseteq DriverPhases
          BY DEF DriverPhases
    <1>5. CASE SetStepRunning(t) \/ SetRequestStarted(t)
          <2>1. ASSUME NEW phase \in {"mark_step_running", "set_request_msg_id"},
                       NEW after \in {"set_request_msg_id", "send"},
                       NEW new,
                       Save(t, phase, new, At(t, after)),
                       /\ new.status = s.status
                       /\ new.callback = s.callback
                       /\ new.event = s.event
                       /\ new.errorType = s.errorType
                       /\ \A j \in 1..(i - 1) : new.steps[j] = s.steps[j]
                PROVE  \E next : Acts(t, next)
                <3>1. s.status \in {"RUNNING", "FAILED"} /\ NotRequested(s)
                      BY <1>2 DEF LoopOK
                <3>2. s.status = "FAILED" => e \notin StopOnError
                      BY <1>2 DEF LoopOK
                <3>3. MayBecome(t, s, new)
                      BY <1>2, <2>1, <3>1, <3>2
                      DEF MayBecome, DocumentOK, IsTerminal, TerminalStatus,
                          NotRequested
                <3>4. LoopOK(At(t, after), new)
                      BY <1>2, <2>1, AtKeeps DEF LoopOK, NotRequested
                <3>5. /\ TaskKnows(At(t, after), new)
                      /\ At(t, after).pc \in StepPhases
                      BY <1>2, <2>1, <3>4, AtKeeps, DriverKnows DEF StepPhases
                <3>6. phase \in SavePhases
                      BY DEF SavePhases
                <3> QED BY <1>2, <1>4, <2>1, <3>3, <3>5, <3>6, AtKeeps, SaveActs
          <2>2. CASE SetStepRunning(t)
                <3> DEFINE new == MarkStepRunning(task[t].st, i)
                <3>1. Save(t, "mark_step_running", new,
                           At(t, "set_request_msg_id"))
                      BY <2>2 DEF SetStepRunning
                <3>2. task[t].st = s
                      BY <1>2, <3>1 DEF Save
                <3>3. /\ new.status = s.status
                      /\ new.callback = s.callback
                      /\ new.event = s.event
                      /\ new.errorType = s.errorType
                      /\ \A j \in 1..(i - 1) : new.steps[j] = s.steps[j]
                      BY <1>2, <1>3, <3>2 DEF MarkStepRunning, ExecutionState, Step
                <3> HIDE DEF new
                <3> QED BY <2>1, <3>1, <3>3
          <2>3. CASE SetRequestStarted(t)
                <3> DEFINE new == SetRequestMsgId(task[t].st, i)
                <3>1. Save(t, "set_request_msg_id", new, At(t, "send"))
                      BY <2>3 DEF SetRequestStarted
                <3>2. task[t].st = s
                      BY <1>2, <3>1 DEF Save
                <3>3. /\ new.status = s.status
                      /\ new.callback = s.callback
                      /\ new.event = s.event
                      /\ new.errorType = s.errorType
                      /\ \A j \in 1..(i - 1) : new.steps[j] = s.steps[j]
                      BY <1>2, <1>3, <3>2 DEF SetRequestMsgId, ExecutionState, Step
                <3> HIDE DEF new
                <3> QED BY <2>1, <3>1, <3>3
          <2> QED BY <1>5, <2>2, <2>3
    <1>6. CASE Send(t)
          <2> DEFINE next == At(t, "recv")
          <2>1. /\ task[t].pc = "send"
                /\ Become(t, next)
                /\ UNCHANGED <<store, stream, delivered, pending, stale, kernel,
                               inbox, faults>>
                BY <1>6 DEF Send, redisVars
          <2>2. /\ next.pc = "recv" /\ next.job = e
                /\ TaskKnows(next, s)
                BY <1>2, AtKeeps, DriverKnows DEF LoopOK, StepPhases
          <2> HIDE DEF next
          <2>3. Continues(t, next)
                BY <1>4, <2>1, <2>2 DEF Continues, StepPhases
          <2>4. CASE kernel[task[t].kernel] = "up"
                <3>1. Runs(t)
                      BY <1>6, <2>1, <2>4 DEF Send, Runs
                <3>2. ~Settles(t)
                      BY <2>1 DEF Settles
                <3>3. Acts(t, next)
                      BY <1>1, <2>1, <2>3, <3>1, <3>2 DEF Acts, Become
                <3> QED BY <3>3
          <2>5. CASE kernel[task[t].kernel] # "up"
                <3>1. UNCHANGED requests
                      BY <1>6, <2>5 DEF Send
                <3>2. Acts(t, next)
                      BY <1>1, <2>1, <2>3, <3>1, QuietActs
                <3> QED BY <3>2
          <2> QED BY <2>4, <2>5
    <1>7. CASE RecvReply(t) \/ RecvTimeout(t)
          <2>1. PICK after \in {"mark_step_succeeded", "mark_step_failed"} :
                    /\ Become(t, At(t, after))
                    /\ after = "mark_step_succeeded" => Received(t)
                    /\ task[t].pc = "recv"
                    /\ UNCHANGED <<store, stream, delivered, pending, stale,
                                   requests, inbox, kernel, faults>>
                BY <1>7 DEF RecvReply, RecvTimeout, redisVars
          <2> DEFINE next == At(t, after)
          <2>2. /\ next.pc = after /\ next.job = e /\ next.step = i
                /\ TaskKnows(next, s)
                BY <1>2, AtKeeps, DriverKnows DEF LoopOK, StepPhases
          <2>3. after = "mark_step_succeeded" => Len(requests[e]) = i
                <3>1. SUFFICES ASSUME Received(t) PROVE Len(requests[e]) = i
                      BY <2>1
                <3>2. /\ requests[e] # <<>>
                      /\ requests[e][Len(requests[e])].step = i
                      BY <3>1 DEF Received
                <3>3. /\ Len(requests[e]) \in DOMAIN requests[e]
                      BY <1>3, <3>2
                <3>4. requests[e][Len(requests[e])] =
                          [step   |-> Len(requests[e]),
                           kernel |-> task[t].kernel]
                      BY <1>1, <3>3 DEF OwnershipInv, LogInv
                <3> QED BY <3>2, <3>4
          <2> HIDE DEF next
          <2>4. Continues(t, next)
                BY <1>4, <2>1, <2>2, <2>3 DEF Continues, StepPhases
          <2>5. Acts(t, next)
                BY <1>1, <2>1, <2>4, QuietActs DEF next
          <2> QED BY <2>5
    <1>8. CASE RecvDisconnect(t)
          <2>1. /\ End(t)
                /\ UNCHANGED <<store, stream, delivered, pending, stale,
                               requests, inbox, kernel>>
                BY <1>8 DEF RecvDisconnect, redisVars
          <2>2. CASE kernel[task[t].kernel] = "up"
                BY <1>1, <1>8, <2>1, <2>2, EndActs DEF RecvDisconnect
          <2>3. CASE kernel[task[t].kernel] # "up"
                <3>1. kernel[s.kernel] = "gone" /\ UNCHANGED faults
                      BY <1>1, <1>3, <1>4, <1>8, <2>3
                      DEF RecvDisconnect, OwnershipInv, BindingInv, LogInv,
                          TypeOK, KernelLife, StepPhases
                <3>2. Continues(t, FreeTask)
                      BY <2>1, <3>1, FreeContinues
                <3>3. Acts(t, FreeTask)
                      BY <1>1, <2>1, <3>1, <3>2, QuietActs DEF End
                <3> QED BY <3>3
          <2> QED BY <2>2, <2>3
    <1> QED BY <1>5, <1>6, <1>7, <1>8

(***************************************************************************)
(* The outcome of a step is stored, and the loop goes on or ends.          *)
(***************************************************************************)
LEMMA AfterStepKnows ==
    ASSUME NEW t \in Task, task[t] \in TaskState, task[t].step \in Step,
           NEW failed \in BOOLEAN, NEW s \in ExecutionState, NotRequested(s),
           s.status = IF failed THEN "FAILED" ELSE "RUNNING",
           failed => task[t].job \notin StopOnError,
           ~failed => \A i \in 1..task[t].step : s.steps[i] = "SUCCEEDED"
    PROVE  LET next == AfterStep(t, failed)
           IN /\ next.pc \in {"mark_step_running", "mark_succeeded", "final_get"}
              /\ next.job = task[t].job
              /\ TaskKnows(next, s)
              /\ next.pc = "mark_succeeded" =>
                    ~failed /\ task[t].step = NumSteps
    <1> DEFINE next == AfterStep(t, failed)
    <1>1. /\ task[t].step \in Nat /\ NumSteps \in Nat
          /\ task[t].step <= NumSteps
          BY NumStepsAssumption DEF Step
    <1>2. CASE task[t].step < NumSteps
          <2>1. next = [At(t, "mark_step_running") EXCEPT !.step = @ + 1,
                                                          !.failed = failed]
                BY <1>2 DEF AfterStep
          <2>2. /\ next.pc = "mark_step_running" /\ next.st = Absent
                /\ next.job = task[t].job
                /\ next.step = task[t].step + 1
                /\ next.failed = failed
                BY <2>1 DEF At, TaskState
          <2> HIDE DEF next
          <2>3. LoopOK(next, s)
                BY <1>1, <2>2 DEF LoopOK
          <2> QED BY <2>2, <2>3, DriverKnows DEF StepPhases, next
    <1>3. CASE ~(task[t].step < NumSteps)
          <2>1. next = [At(t, IF failed THEN "final_get" ELSE "mark_succeeded")
                            EXCEPT !.failed = failed]
                BY <1>3 DEF AfterStep
          <2>2. /\ next.pc = IF failed THEN "final_get" ELSE "mark_succeeded"
                /\ next.st = Absent
                /\ next.job = task[t].job
                BY <2>1 DEF At, TaskState
          <2>3. task[t].step = NumSteps
                BY <1>1, <1>3
          <2> HIDE DEF next
          <2>4. TaskKnows(next, s)
                BY <2>2, <2>3, AfterLoopKnows DEF Step
          <2> QED BY <2>2, <2>3, <2>4 DEF next
    <1> QED BY <1>2, <1>3

LEMMA StepOutcomeActs ==
    ASSUME TypeOK, OutcomeInv, NEW t \in Task,
           SetStepSucceeded(t) \/ SetStepFailed(t)
    PROVE  \E next : Acts(t, next)
    <1> DEFINE e == task[t].job
               s == store[e]
               i == task[t].step
    <1>1. /\ ~Free(t)
          /\ task[t].pc \in {"mark_step_succeeded", "mark_step_failed"}
          /\ task[t].pc \in StepPhases
          /\ Loaded(t)
          BY DEF SetStepSucceeded, SetStepFailed, Save, Free, StepPhases
    <1>2. /\ e \in Executions
          /\ task[t] \in TaskState
          /\ task[t].failed \in BOOLEAN
          /\ s \in ExecutionState
          /\ DocumentOK(s)
          /\ task[t].st = s
          /\ LoopOK(task[t], s)
          BY <1>1, Knows, DriverKnows DEF TaskState
    <1>3. i \in Step
          BY <1>1 DEF TypeOK, TaskOK
    <1>4. /\ s.status \in {"RUNNING", "FAILED"} /\ NotRequested(s)
          /\ s.status = "FAILED" => e \notin StopOnError
          BY <1>2 DEF LoopOK
    <1>5. {"mark_step_running", "mark_succeeded", "final_get",
           "delete_session"} \subseteq DriverPhases
          BY DEF DriverPhases, StepPhases, ClosePhases
    <1>6. CASE SetStepSucceeded(t)
          <2> DEFINE new == MarkStepSucceeded(s, i)
                     next == AfterStep(t, task[t].failed)
          <2>1. Save(t, "mark_step_succeeded", new, next)
                BY <1>2, <1>6 DEF SetStepSucceeded
          <2>2. new \in ExecutionState
                BY <1>2, <1>3, DocumentTypes DEF EventId
          <2>3. /\ new.status = s.status
                /\ new.callback = s.callback
                /\ new.event = s.event
                /\ new.errorType = s.errorType
                /\ new.steps = [s.steps EXCEPT ![i] = "SUCCEEDED"]
                BY <1>2 DEF MarkStepSucceeded, ExecutionState
          <2> HIDE DEF new
          <2>4. MayBecome(t, s, new)
                BY <1>2, <1>4, <2>3
                DEF MayBecome, DocumentOK, IsTerminal, TerminalStatus,
                    NotRequested
          <2>5. ~task[t].failed => \A j \in 1..i : new.steps[j] = "SUCCEEDED"
                <3>1. /\ i \in 1..NumSteps /\ NumSteps \in Nat
                      /\ s.steps \in [1..NumSteps -> StepStatus]
                      BY <1>2, <1>3, NumStepsAssumption DEF Step, ExecutionState
                <3>2. ~task[t].failed =>
                          \A j \in 1..(i - 1) : s.steps[j] = "SUCCEEDED"
                      BY <1>2 DEF LoopOK
                <3> QED BY <2>3, <3>1, <3>2
          <2>6. /\ NotRequested(new)
                /\ new.status = IF task[t].failed THEN "FAILED" ELSE "RUNNING"
                /\ task[t].failed => e \notin StopOnError
                BY <1>2, <2>3 DEF LoopOK, NotRequested
          <2>7. /\ next.pc \in {"mark_step_running", "mark_succeeded",
                                "final_get"}
                /\ next.job = e
                /\ TaskKnows(next, new)
                /\ next.pc = "mark_succeeded" => i = NumSteps
                BY <1>2, <1>3, <2>2, <2>5, <2>6, AfterStepKnows
          <2>8. Len(requests[e]) = i
                BY <2>1 DEF Save, OutcomeInv, RanInv
          <2>9. "mark_step_succeeded" \in SavePhases
                BY DEF SavePhases
          <2> HIDE DEF next
          <2> QED BY <1>5, <2>1, <2>4, <2>7, <2>8, <2>9, SaveActs
    <1>7. CASE SetStepFailed(t)
          <2> DEFINE new == MarkStepFailed(s, i)
                     stopped == [task[t] EXCEPT !.pc = "delete_session",
                                                !.st = new]
                     next == IF e \in StopOnError THEN stopped
                             ELSE AfterStep(t, TRUE)
          <2>1. Save(t, "mark_step_failed", new, next)
                BY <1>2, <1>7 DEF SetStepFailed
          <2>2. new \in ExecutionState
                BY <1>2, <1>3, DocumentTypes DEF EventId
          <2>3. /\ new.status = "FAILED"
                /\ new.callback = s.callback
                /\ new.event = s.event
                BY <1>2 DEF MarkStepFailed, ExecutionState
          <2>4. /\ stopped.pc = "delete_session" /\ stopped.job = e
                /\ stopped.st = new
                BY <1>2 DEF TaskState
          <2> HIDE DEF new, stopped
          <2>5. MayBecome(t, s, new) /\ NotRequested(new)
                BY <1>2, <1>4, <2>3
                DEF MayBecome, DocumentOK, IsTerminal, TerminalStatus,
                    NotRequested
          <2>6. /\ next.pc \in {"mark_step_running", "final_get",
                                "delete_session"}
                /\ next.job = e
                /\ TaskKnows(next, new)
                <3>1. CASE e \in StopOnError
                      BY <2>3, <2>4, <2>5, <3>1, AfterLoopKnows
                      DEF IsTerminal, TerminalStatus
                <3>2. CASE e \notin StopOnError
                      BY <1>2, <1>3, <2>2, <2>3, <2>5, <3>2, AfterStepKnows
                <3> QED BY <3>1, <3>2
          <2>7. "mark_step_failed" \in SavePhases
                BY DEF SavePhases
          <2> HIDE DEF next
          <2> QED BY <1>5, <2>1, <2>5, <2>6, <2>7, SaveActs
    <1> QED BY <1>6, <1>7

(***************************************************************************)
(* The execution ends: its outcome is stored or read, and the session is   *)
(* deleted before the callback.                                            *)
(***************************************************************************)
LEMMA CloseActs ==
    ASSUME TypeOK, OutcomeInv, OwnershipInv, NEW t \in Task,
           SetSucceeded(t) \/ FinalGet(t) \/ DeleteSession(t)
    PROVE  \E next : Acts(t, next)
    <1> DEFINE e == task[t].job
               s == store[e]
    <1>1. /\ ~Free(t)
          /\ task[t].pc \in ClosePhases
          BY DEF SetSucceeded, FinalGet, DeleteSession, Save, Free, ClosePhases
    <1>2. /\ e \in Executions
          /\ task[t] \in TaskState
          /\ s \in ExecutionState
          /\ DocumentOK(s)
          /\ Loaded(t) => task[t].st = s
          /\ TaskKnows(task[t], s)
          BY <1>1, Knows
    <1>3. ClosePhases \subseteq DriverPhases
          BY DEF DriverPhases
    <1>4. CASE SetSucceeded(t)
          <2> DEFINE new == MarkSucceeded(task[t].st)
                     next == [task[t] EXCEPT !.pc = "delete_session",
                                             !.st = new]
          <2>1. Save(t, "mark_succeeded", new, next)
                BY <1>4 DEF SetSucceeded
          <2>2. task[t].st = s /\ task[t].pc = "mark_succeeded"
                BY <1>2, <2>1 DEF Save
          <2>3. /\ s.status = "RUNNING"
                /\ \A i \in Step : s.steps[i] = "SUCCEEDED"
                BY <1>2, <2>2 DEF TaskKnows
          <2>4. NotRequested(s) /\ s.errorType = "none"
                BY <1>2, <2>3 DEF DocumentOK, IsTerminal, TerminalStatus
          <2>5. /\ new.status = "SUCCEEDED"
                /\ new.callback = s.callback
                /\ new.event = s.event
                /\ new.errorType = s.errorType
                /\ new.steps = s.steps
                BY <1>2, <2>2 DEF MarkSucceeded, ExecutionState
          <2>6. /\ next.pc = "delete_session" /\ next.job = e
                /\ next.st = new
                BY <1>2 DEF TaskState
          <2> HIDE DEF new, next
          <2>7. Len(requests[e]) = NumSteps
                BY <2>2 DEF OutcomeInv, RanInv
          <2>8. MayBecome(t, s, new) /\ NotRequested(new) /\ IsTerminal(new)
                BY <1>2, <2>3, <2>4, <2>5, <2>7
                DEF MayBecome, DocumentOK, IsTerminal, TerminalStatus,
                    NotRequested
          <2>9. TaskKnows(next, new)
                BY <2>6, <2>8, AfterLoopKnows
          <2>10. "mark_succeeded" \in SavePhases /\ next.pc \in DriverPhases
                BY <1>3, <2>6 DEF SavePhases, ClosePhases
          <2> QED BY <2>1, <2>6, <2>8, <2>9, <2>10, SaveActs
    <1>5. CASE FinalGet(t)
          <2> DEFINE next == [task[t] EXCEPT !.pc = "delete_session", !.st = s]
          <2>1. /\ task[t].pc = "final_get"
                /\ Become(t, next)
                /\ UNCHANGED <<store, stream, delivered, pending, stale,
                               requests, inbox, kernel, faults>>
                BY <1>5 DEF FinalGet, redisVars
          <2>2. /\ next.pc = "delete_session" /\ next.job = e
                /\ next.st = s
                BY <1>2 DEF TaskState
          <2> HIDE DEF next
          <2>3. TaskKnows(next, s)
                BY <1>2, <2>1, <2>2, AfterLoopKnows
                DEF TaskKnows, IsTerminal, TerminalStatus
          <2>4. Continues(t, next)
                BY <1>3, <2>1, <2>2, <2>3 DEF Continues, ClosePhases
          <2>5. Acts(t, next)
                BY <1>1, <2>1, <2>4, QuietActs
          <2> QED BY <2>5
    <1>6. CASE DeleteSession(t)
          <2> DEFINE next == Deliver(e, task[t].st)
          <2>1. /\ task[t].pc = "delete_session"
                /\ Become(t, next)
                /\ UNCHANGED <<store, stream, delivered, pending, stale,
                               requests, inbox>>
                /\ \/ /\ kernel' = [kernel EXCEPT ![task[t].kernel] = "gone"]
                      /\ UNCHANGED faults
                   \/ Fault /\ UNCHANGED kernel
                BY <1>6 DEF DeleteSession, redisVars
          <2>2. task[t].st = s
                BY <1>2, <2>1 DEF TaskKnows
          <2>3. s.kernel = task[t].kernel /\ task[t].kernel \in Kernels
                BY <2>1
                DEF OwnershipInv, BindingInv, ClosePhases, TypeOK, TaskOK,
                    DriverPhases
          <2>4. /\ \A k \in Kernels : kernel[k] = "gone" => kernel'[k] = "gone"
                /\ kernel'[s.kernel] = "gone" \/ faults' # 0
                BY <2>1, <2>3, FaultCounts DEF TypeOK
          <2>5. /\ next.pc \in {"acknowledge", "mark_callback_pending", "free"}
                /\ next.pc # "free" => next.job = e /\ TaskKnows(next, s)
                BY <1>2, <2>2, DeliverKnows
          <2> HIDE DEF next
          <2>6. Continues(t, next)
                BY <2>1, <2>4, <2>5 DEF Continues
          <2>7. Acts(t, next)
                BY <1>1, <2>1, <2>4, <2>6, QuietActs
          <2> QED BY <2>7
    <1> QED BY <1>4, <1>5, <1>6

------------------------------------------------------------------------------
(* Recovery, callback and acknowledgement. *)

LEMMA RecoverActs ==
    ASSUME TypeOK, OutcomeInv, NEW t \in Task, RecoverStep(t)
    PROVE  \E next : Acts(t, next)
    <1> DEFINE e == task[t].job
               s == store[e]
    <1>1. ~Free(t) /\ task[t].pc \in RecoverPhases
          BY DEF RecoverStep, RecoverGet, GetKernel, SetInfrastructureFailed,
                 Save, Free, RecoverPhases
    <1>2. /\ e \in Executions
          /\ task[t] \in TaskState
          /\ s \in ExecutionState
          /\ DocumentOK(s)
          /\ Loaded(t) => task[t].st = s
          /\ TaskKnows(task[t], s)
          BY <1>1, Knows
    <1>3. s.status = "RUNNING" /\ ~IsTerminal(s)
          BY <1>1, <1>2 DEF TaskKnows, IsTerminal, TerminalStatus
    <1>4. ASSUME End(t),
                 UNCHANGED <<store, stream, delivered, pending, stale,
                             requests, inbox, kernel, faults>>
          PROVE  \E next : Acts(t, next)
          <2>1. Continues(t, FreeTask)
                BY <1>3, <1>4, FreeContinues
          <2>2. Acts(t, FreeTask)
                BY <1>1, <1>4, <2>1, QuietActs DEF End
          <2> QED BY <2>2
    <1>5. ASSUME NEW next, Become(t, next),
                 UNCHANGED <<store, stream, delivered, pending, stale,
                             requests, inbox, kernel, faults>>,
                 next.pc \in {"get_kernel", "mark_infrastructure_failed"},
                 next.pc = "mark_infrastructure_failed" =>
                     kernel[next.kernel] = "gone",
                 next.job = e, next.st = Absent \/ next.st = s,
                 next.kernel = s.kernel, s.kernel # NoKernel
          PROVE  \E after : Acts(t, after)
          <2>1. TaskKnows(next, s)
                BY <1>3, <1>5
                DEF TaskKnows, StartPhases, SessionPhases, StepPhases,
                    RecoverPhases, CallbackPhases, AttemptPhases
          <2>2. Continues(t, next)
                BY <1>3, <1>5, <2>1 DEF Continues
          <2>3. Acts(t, next)
                BY <1>1, <1>5, <2>2, QuietActs
          <2> QED BY <2>3
    <1>6. CASE RecoverGet(t)
          <2>1. UNCHANGED <<store, stream, delivered, pending, stale,
                            requests, inbox, kernel, faults>>
                BY <1>6 DEF RecoverGet, redisVars
          <2>2. CASE s.kernel = NoKernel
                BY <1>4, <1>6, <2>1, <2>2 DEF RecoverGet
          <2>3. CASE s.kernel # NoKernel
                <3> DEFINE next == [task[t] EXCEPT !.pc = "get_kernel",
                                                   !.kernel = s.kernel]
                <3>1. Become(t, next)
                      BY <1>6, <2>3 DEF RecoverGet
                <3>2. /\ next.pc = "get_kernel" /\ next.job = e
                      /\ next.st = task[t].st /\ next.kernel = s.kernel
                      BY <1>2 DEF TaskState
                <3> HIDE DEF next
                <3> QED BY <1>2, <1>5, <2>1, <2>3, <3>1, <3>2 DEF TaskKnows
          <2> QED BY <2>2, <2>3
    <1>7. CASE GetKernel(t)
          <2>1. /\ UNCHANGED <<store, stream, delivered, pending, stale,
                               requests, inbox, kernel, faults>>
                /\ task[t].pc = "get_kernel"
                /\ \/ End(t)
                   \/ /\ kernel[task[t].kernel] = "gone"
                      /\ Become(t, At(t, "mark_infrastructure_failed"))
                BY <1>7 DEF GetKernel, redisVars
          <2>2. task[t].kernel = s.kernel /\ s.kernel # NoKernel
                BY <1>2, <2>1 DEF TaskKnows
          <2> QED BY <1>2, <1>4, <1>5, <2>1, <2>2, AtKeeps
    <1>8. CASE SetInfrastructureFailed(t)
          <2> DEFINE new == MarkInfrastructureFailed(s)
                     next == Deliver(e, new)
          <2>1. /\ Save(t, "mark_infrastructure_failed", new, next)
                /\ task[t].pc = "mark_infrastructure_failed"
                BY <1>2, <1>8 DEF SetInfrastructureFailed, Save
          <2>2. NotRequested(s) /\ s.errorType = "none"
                BY <1>2, <1>3 DEF DocumentOK
          <2>3. /\ new.status = "FAILED"
                /\ new.callback = s.callback
                /\ new.event = s.event
                /\ new.kernel = s.kernel
                BY <1>2 DEF MarkInfrastructureFailed, ExecutionState
          <2>4. new \in ExecutionState
                BY <1>2, PlainDocumentTypes
          <2> HIDE DEF new
          <2>5. MayBecome(t, s, new) /\ IsTerminal(new)
                BY <1>2, <1>3, <2>2, <2>3
                DEF MayBecome, DocumentOK, IsTerminal, TerminalStatus,
                    NotRequested
          <2>6. kernel[new.kernel] = "gone"
                BY <1>2, <2>1, <2>3 DEF TaskKnows, OutcomeInv, ReleaseInv
          <2>7. /\ next.pc \in {"acknowledge", "mark_callback_pending", "free"}
                /\ next.pc # "free" => next.job = e /\ TaskKnows(next, new)
                BY <2>4, <2>5, DeliverKnows DEF MayBecome
          <2>8. "mark_infrastructure_failed" \in SavePhases
                BY DEF SavePhases
          <2> HIDE DEF next
          <2> QED BY <2>1, <2>5, <2>6, <2>7, <2>8, SaveActs
    <1> QED BY <1>6, <1>7, <1>8 DEF RecoverStep

\* What a task in one of the AttemptPhases knows.
AttemptOK(tk, s) ==
    /\ IsTerminal(s)
    /\ s.callback = "PENDING"
    /\ s.event = s.status
    /\ tk.event = s.status
    /\ tk.report = s.status

LEMMA CallbackKnows ==
    ASSUME NEW tk, NEW s
    PROVE  /\ tk.pc \in AttemptPhases /\ tk.st = Absent /\ AttemptOK(tk, s)
                => TaskKnows(tk, s)
           /\ tk.pc = "acknowledge" /\ tk.st = Absent /\ IsTerminal(s)
                 /\ s.callback \in {"DELIVERED", "FAILED"}
                => TaskKnows(tk, s)
           /\ TaskKnows(tk, s) => (tk.pc \in AttemptPhases => AttemptOK(tk, s))
    BY DEF TaskKnows, AttemptOK, StartPhases, SessionPhases, StepPhases,
           RecoverPhases, CallbackPhases, AttemptPhases

(***************************************************************************)
(* The POST to the agent, and what is recorded of it.                      *)
(***************************************************************************)
LEMMA AttemptActs ==
    ASSUME TypeOK, OutcomeInv, NEW t \in Task,
           SendCallback(t) \/ RecordSuccess(t) \/ RecordFailure(t)
              \/ SetCallbackDelivered(t) \/ SetCallbackFailed(t)
    PROVE  \E next : Acts(t, next)
    <1> DEFINE e == task[t].job
               s == store[e]
    <1>1. ~Free(t) /\ task[t].pc \in AttemptPhases
          BY DEF SendCallback, RecordSuccess, RecordFailure,
                 SetCallbackDelivered, SetCallbackFailed, Save, Free,
                 AttemptPhases
    <1>2. /\ e \in Executions
          /\ task[t] \in TaskState
          /\ s \in ExecutionState
          /\ DocumentOK(s)
          /\ Loaded(t) => task[t].st = s
          /\ AttemptOK(task[t], s)
          BY <1>1, Knows, CallbackKnows
    <1>3. /\ AttemptPhases \cap DriverPhases = {}
          /\ "acknowledge" \notin AttemptPhases
          BY DEF AttemptPhases, DriverPhases, SessionPhases, StepPhases,
                 ClosePhases
    <1>4. MayBecome(t, s, s) /\ IsTerminal(s)
          BY <1>2, SameDocument DEF AttemptOK
    <1>5. CASE SendCallback(t)
          <2>1. PICK phase \in {"record_success", "record_failure"} :
                    /\ Become(t, At(t, phase))
                    /\ inbox' \in {inbox, inbox \cup {ExecutionCallback(t)}}
                    /\ phase = "record_success" =>
                          inbox' = inbox \cup {ExecutionCallback(t)}
                    /\ task[t].pc = "callback_send"
                    /\ UNCHANGED <<store, stream, delivered, pending, stale,
                                   requests, kernel, faults>>
                BY <1>5 DEF SendCallback, redisVars
          <2> DEFINE next == At(t, phase)
          <2>2. /\ next.pc = phase /\ next.job = e
                /\ CallbackOf(next) = ExecutionCallback(t)
                /\ TaskKnows(next, s)
                <3>1. AttemptOK(next, s)
                      BY <1>2, AtKeeps DEF AttemptOK
                <3> QED BY <1>2, <2>1, <3>1, AtKeeps, CallbackKnows
                        DEF AttemptPhases, CallbackOf, ExecutionCallback
          <2> HIDE DEF next
          <2>3. Continues(t, next)
                <3>1. task[t].pc \notin DriverPhases
                      BY <1>1, <1>3
                <3> QED BY <1>4, <2>1, <2>2, <3>1 DEF Continues
          <2>4. CASE inbox' = inbox
                <3>1. Acts(t, next)
                      BY <1>1, <2>1, <2>3, <2>4, QuietActs DEF next
                <3> QED BY <3>1
          <2>5. CASE inbox' = inbox \cup {ExecutionCallback(t)}
                <3>1. Tells(t) /\ ~Settles(t)
                      BY <2>1, <2>5 DEF Tells, Settles
                <3>2. Acts(t, next)
                      BY <1>1, <2>1, <2>3, <3>1 DEF Acts, Become, next
                <3> QED BY <3>2
          <2> QED BY <2>1, <2>4, <2>5
    <1>6. ASSUME NEW phase \in AttemptPhases, NEW next, NEW new,
                 Save(t, phase, new, next), phase \in SavePhases,
                 MayBecome(t, s, new), new.kernel = s.kernel,
                 next.pc \in AttemptPhases \cup {"acknowledge"},
                 next.pc # "record_success", next.job = e,
                 TaskKnows(next, new),
                 next.pc = "mark_callback_delivered" => CallbackOf(next) \in inbox
          PROVE  \E after : Acts(t, after)
          <2>1. /\ next.pc \notin {"mark_step_succeeded", "mark_succeeded",
                                   "mark_infrastructure_failed"}
                /\ phase \notin DriverPhases
                BY <1>3, <1>6 DEF AttemptPhases
          <2> QED BY <1>4, <1>6, <2>1, SaveActs
    <1>7. CASE RecordSuccess(t)
          <2> DEFINE next == At(t, "mark_callback_delivered")
          <2>1. Save(t, "record_success", s, next) /\ task[t].pc = "record_success"
                BY <1>2, <1>7 DEF RecordSuccess, Save, RecordCallbackAttempt
          <2>2. /\ next.pc = "mark_callback_delivered" /\ next.job = e
                /\ CallbackOf(next) = ExecutionCallback(t)
                BY <1>2, AtKeeps DEF CallbackOf, ExecutionCallback
          <2>3. TaskKnows(next, s)
                BY <1>2, AtKeeps, CallbackKnows DEF AttemptOK, AttemptPhases
          <2>4. ExecutionCallback(t) \in inbox
                BY <2>1 DEF OutcomeInv, ToldInv
          <2> HIDE DEF next
          <2> QED BY <1>4, <1>6, <2>1, <2>2, <2>3, <2>4
                  DEF AttemptPhases, SavePhases
    <1>8. CASE RecordFailure(t)
          <2> DEFINE again == [At(t, "callback_send") EXCEPT !.attempt = @ + 1]
                     next == IF task[t].attempt < MaxAttempts THEN again
                             ELSE At(t, "mark_callback_failed")
          <2>1. Save(t, "record_failure", s, next)
                BY <1>2, <1>8 DEF RecordFailure, Save, RecordCallbackAttempt
          <2>2. /\ again.pc = "callback_send" /\ again.job = e
                /\ again.st = Absent /\ again.event = task[t].event
                /\ again.report = task[t].report
                BY <1>2 DEF At, TaskState
          <2> HIDE DEF again
          <2>3. /\ next.pc \in {"callback_send", "mark_callback_failed"}
                /\ next.job = e /\ next.st = Absent
                /\ next.event = task[t].event /\ next.report = task[t].report
                BY <1>2, <2>2, AtKeeps
          <2> HIDE DEF next
          <2>4. TaskKnows(next, s)
                BY <1>2, <2>3, CallbackKnows DEF AttemptOK, AttemptPhases
          <2> QED BY <1>4, <1>6, <2>1, <2>3, <2>4 DEF AttemptPhases, SavePhases
    <1>9. CASE SetCallbackDelivered(t) \/ SetCallbackFailed(t)
          <2>1. PICK phase \in {"mark_callback_delivered",
                                "mark_callback_failed"},
                         new \in {MarkCallbackDelivered(s), MarkCallbackFailed(s)} :
                    /\ Save(t, phase, new, At(t, "acknowledge"))
                    /\ new = IF phase = "mark_callback_delivered"
                             THEN MarkCallbackDelivered(s)
                             ELSE MarkCallbackFailed(s)
                BY <1>2, <1>9
                DEF SetCallbackDelivered, SetCallbackFailed, Save
          <2>2. /\ new.status = s.status
                /\ new.event = s.event
                /\ new.kernel = s.kernel
                /\ new.steps = s.steps
                /\ new.errorStep = s.errorStep
                /\ new.errorType = s.errorType
                /\ new.callback = IF phase = "mark_callback_delivered"
                                  THEN "DELIVERED" ELSE "FAILED"
                BY <1>2, <2>1
                DEF MarkCallbackDelivered, MarkCallbackFailed, ExecutionState
          <2>3. task[t].pc = phase
                BY <2>1 DEF Save
          <2>4. MayBecome(t, s, new)
                BY <1>2, <2>2, <2>3
                DEF MayBecome, DocumentOK, IsTerminal, TerminalStatus,
                    AttemptOK
          <2>5. TaskKnows(At(t, "acknowledge"), new)
                BY <1>2, <1>4, <2>2, AtKeeps, CallbackKnows
                DEF IsTerminal
          <2> QED BY <1>2, <1>6, <2>1, <2>2, <2>4, <2>5, AtKeeps
                  DEF AttemptPhases, SavePhases
    <1> QED BY <1>5, <1>7, <1>8, <1>9

LEMMA CallbackActs ==
    ASSUME TypeOK, OutcomeInv, NEW t \in Task, CallbackStep(t)
    PROVE  \E next : Acts(t, next)
    <1> DEFINE e == task[t].job
               s == store[e]
    <1>1. CASE SetCallbackPending(t)
          <2>1. /\ ~Free(t)
                /\ task[t].pc = "mark_callback_pending"
                /\ Loaded(t)
                BY <1>1 DEF SetCallbackPending, Save, Free
          <2>2. /\ e \in Executions
                /\ task[t] \in TaskState
                /\ s \in ExecutionState
                /\ DocumentOK(s)
                /\ task[t].st = s
                /\ TaskKnows(task[t], s)
                BY <2>1, Knows
          <2>3. /\ IsTerminal(s)
                /\ task[t].event = s.status
                /\ s.callback # "DELIVERED"
                BY <2>1, <2>2 DEF TaskKnows, CallbackPhases
          <2> DEFINE new == MarkCallbackPending(s, task[t].event)
                     next == [At(t, "callback_send") EXCEPT
                                  !.report = new.status, !.attempt = 1]
          <2>4. /\ new.status = s.status
                /\ new.event = s.status
                /\ new.callback = "PENDING"
                /\ new.kernel = s.kernel
                /\ new.steps = s.steps
                /\ new.errorStep = s.errorStep
                /\ new.errorType = s.errorType
                BY <2>2, <2>3 DEF MarkCallbackPending, ExecutionState
          <2>5. Save(t, "mark_callback_pending", new, next)
                <3>1. Save(t, "mark_callback_pending", new,
                           IF IsTerminal(new) THEN next ELSE FreeTask)
                      BY <1>1, <2>2 DEF SetCallbackPending
                <3>2. IsTerminal(new)
                      BY <2>3, <2>4 DEF IsTerminal
                <3> QED BY <3>1, <3>2
          <2> HIDE DEF new
          <2>6. /\ next.pc = "callback_send" /\ next.job = e
                /\ next.st = Absent /\ next.event = task[t].event
                /\ next.report = new.status
                BY <2>2 DEF At, TaskState
          <2> HIDE DEF next
          <2>7. MayBecome(t, s, new)
                BY <2>2, <2>3, <2>4
                DEF MayBecome, DocumentOK, IsTerminal, TerminalStatus
          <2>8. TaskKnows(next, new)
                BY <2>3, <2>4, <2>6, CallbackKnows
                DEF AttemptOK, AttemptPhases, IsTerminal
          <2>9. /\ "mark_callback_pending" \in SavePhases
                /\ "mark_callback_pending" \notin DriverPhases
                BY DEF SavePhases, DriverPhases, SessionPhases, StepPhases,
                       ClosePhases
          <2> QED BY <2>3, <2>4, <2>5, <2>6, <2>7, <2>8, <2>9, SaveActs
    <1>2. CASE Acknowledge(t)
          <2>1. /\ ~Free(t)
                /\ task[t].pc = "acknowledge"
                /\ End(t)
                /\ UNCHANGED <<store, stream, delivered, requests, inbox,
                               kernel, faults>>
                BY <1>2 DEF Acknowledge, Free
          <2>2. Settles(t)
                BY <1>2 DEF Acknowledge, Settles
          <2>3. IsTerminal(s) /\ task[t].pc \notin DriverPhases
                BY <2>1, Knows
                DEF TaskKnows, CallbackPhases, DriverPhases, SessionPhases,
                    StepPhases, ClosePhases
          <2>4. Continues(t, FreeTask) /\ FreeTask.pc = "free"
                BY <2>1, <2>3, FreeContinues
          <2>5. Acts(t, FreeTask)
                BY <2>1, <2>2, <2>4 DEF Acts, End, Become
          <2> QED BY <2>5
    <1> QED BY <1>1, <1>2, AttemptActs DEF CallbackStep

(***************************************************************************)
(* Every step of a task, also one that fails.                              *)
(***************************************************************************)
LEMMA StepActs ==
    ASSUME TypeOK, OutcomeInv, OwnershipInv, NEW t \in Task,
           TaskStep(t) \/ RedisError(t) \/ JupyterError(t)
    PROVE  \E next : Acts(t, next)
    <1>1. CASE TaskStep(t)
          BY <1>1, ServiceActs, CreateActs, OpenActs, LoopActs,
             StepOutcomeActs, CloseActs, RecoverActs, CallbackActs
          DEF TaskStep, SessionStep
    <1>2. CASE RedisError(t) \/ JupyterError(t)
          <2>1. /\ ~Free(t)
                /\ Fault /\ End(t)
                /\ UNCHANGED <<store, stream, delivered, pending, stale,
                               requests, inbox, kernel>>
                BY <1>2 DEF RedisError, JupyterError, Free, RedisPhases,
                            SavePhases, redisVars
          <2> QED BY <2>1, EndActs
    <1> QED BY <1>1, <1>2

------------------------------------------------------------------------------
(* Steps that no task takes. *)

LEMMA OutcomeInit == Init => OutcomeInv
    <1> SUFFICES ASSUME Init PROVE OutcomeInv
        OBVIOUS
    <1>1. /\ \A t \in Task : task[t].pc = "free"
          /\ \A e \in Executions : store[e] = Absent
          /\ delivered = 0 /\ inbox = {}
          BY DEF Init, FreeTask
    <1>2. /\ Absent.status = "ABSENT" /\ Absent.callback = "NOT_REQUESTED"
          /\ Absent.event = "none" /\ Absent.errorType = "none"
          BY DEF Absent
    <1>3. SoleOwner /\ TaskInv /\ RanInv
          BY <1>1 DEF SoleOwner, TaskInv, RanInv, Free
    <1>4. DocumentInv
          BY <1>1, <1>2
          DEF DocumentInv, DocumentOK, NotRequested, IsTerminal, TerminalStatus
    <1>5. ToldInv
          BY <1>1, <1>2
          DEF ToldInv, CallbackTellsOutcome, DeliveredIsReceived
    <1>6. AckedIsRecorded
          BY <1>1 DEF AckedIsRecorded, Acked
    <1>7. ReleaseInv
          BY <1>1, <1>2 DEF ReleaseInv, IsTerminal, TerminalStatus
    <1> QED BY <1>3, <1>4, <1>5, <1>6, <1>7 DEF OutcomeInv

(***************************************************************************)
(* A new document: nobody works on it and nobody was told of it.           *)
(***************************************************************************)
LEMMA SubmitOutcome ==
    ASSUME TypeOK, OutcomeInv, DeliveryInv, NEW e \in Executions,
           Submit(e) \/ SubmitWithoutXadd(e)
    PROVE  OutcomeInv'
    <1> USE DEF OutcomeInv
    <1>1. /\ store[e] = Absent
          /\ store' = [store EXCEPT ![e] = BuildInitialState]
          /\ UNCHANGED <<delivered, pending, stale, task, kernel, requests, inbox>>
          BY DEF Submit, SubmitWithoutXadd
    <1>2. faults' = 0 => faults = 0
          BY FaultCounts DEF Submit, SubmitWithoutXadd
    <1>3. /\ store'[e] = BuildInitialState
          /\ \A f \in Executions \ {e} : store'[f] = store[f]
          BY <1>1 DEF TypeOK
    <1>4. /\ store[e].status = "ABSENT" /\ store[e].event = "none"
          /\ BuildInitialState.status = "QUEUED"
          /\ BuildInitialState.callback = "NOT_REQUESTED"
          /\ BuildInitialState.event = "none"
          /\ BuildInitialState.errorType = "none"
          BY <1>1 DEF Absent, BuildInitialState
    <1>5. \A t \in Task : ~Free(t) =>
              task[t].job \in Executions /\ task[t].job # e
          BY <1>4 DEF DeliveryInv, TypeOK, TaskOK, Free
    <1>6. SoleOwner' /\ TaskInv' /\ RanInv'
          <2>1. SoleOwner' /\ RanInv'
                BY <1>1 DEF SoleOwner, RanInv, Free
          <2>2. TaskInv'
                BY <1>1, <1>3, <1>5 DEF TaskInv, Free
          <2> QED BY <2>1, <2>2
    <1>7. DocumentInv'
          <2>1. DocumentOK(BuildInitialState)
                BY <1>4 DEF DocumentOK, NotRequested
          <2> QED BY <1>3, <2>1 DEF DocumentInv
    <1>8. ToldInv'
          <2>1. \A c \in inbox : c.job \in Executions /\ c.job # e
                BY <1>4 DEF ToldInv, CallbackTellsOutcome, TypeOK, Callback
          <2>2. CallbackTellsOutcome'
                BY <1>1, <1>3, <2>1 DEF ToldInv, CallbackTellsOutcome
          <2>3. DeliveredIsReceived'
                BY <1>1, <1>3, <1>4 DEF ToldInv, DeliveredIsReceived
          <2> QED BY <1>1, <2>2, <2>3 DEF ToldInv, ExecutionCallback
    <1>9. AckedIsRecorded'
          <2>1. ASSUME NEW f \in Executions, Acked(f)' PROVE Acked(f) /\ f # e
                <3>1. PICK i \in 1..delivered : stream'[i] = f
                      BY <1>1, <2>1 DEF Acked
                <3>2. i \in 1..Len(stream)
                      BY <3>1 DEF TypeOK
                <3>3. stream'[i] = stream[i]
                      <4>1. CASE Submit(e)
                            BY <3>2, <4>1 DEF Submit, TypeOK
                      <4>2. CASE SubmitWithoutXadd(e)
                            BY <4>2 DEF SubmitWithoutXadd
                      <4> QED BY <4>1, <4>2
                <3>4. f # e
                      BY <1>4, <3>1, <3>2, <3>3 DEF DeliveryInv
                <3> QED BY <1>1, <2>1, <3>1, <3>3, <3>4 DEF Acked
          <2> QED BY <1>3, <2>1 DEF AckedIsRecorded
    <1>10. ReleaseInv'
          <2>1. ~IsTerminal(BuildInitialState)
                BY <1>4 DEF IsTerminal, TerminalStatus
          <2> QED BY <1>1, <1>2, <1>3, <2>1 DEF ReleaseInv
    <1> QED BY <1>6, <1>7, <1>8, <1>9, <1>10

(***************************************************************************)
(* A slot takes a command that nobody works on, or the reply is lost.      *)
(***************************************************************************)
LEMMA TakeOutcome ==
    ASSUME TypeOK, OutcomeInv, NEW t \in Task, NEW e \in Executions, Free(t),
           \A u \in Task : ~Works(u, e),
           \/ Become(t, Start(e)) /\ UNCHANGED faults
           \/ Fault /\ UNCHANGED task,
           e \in (pending \ stale)',
           \A f \in Executions \ {e} :
               /\ f \in pending' <=> f \in pending
               /\ f \in stale' <=> f \in stale,
           \A f \in Executions : Acked(f)' => Acked(f),
           UNCHANGED <<store, kernel, requests, inbox>>
    PROVE  OutcomeInv'
    <1> USE DEF OutcomeInv
    <1>1. /\ \A u \in Task \ {t} : task'[u] = task[u]
          /\ \/ task'[t] = task[t]
             \/ /\ task'[t].pc = "processor_get"
                /\ task'[t].st = Absent
                /\ task'[t].job = e
                /\ ~task'[t].failed
          BY DEF TypeOK, Become, Start, FreeTask
    <1>2. faults' = 0 => faults = 0
          BY FaultCounts
    <1>3. \A u \in Task : ~Free(u) => task[u].job \in Executions
          BY DEF TypeOK, TaskOK, Free
    <1>4. "processor_get" \in StartPhases /\ "processor_get" \notin DriverPhases
          BY DEF StartPhases, DriverPhases, SessionPhases, StepPhases,
                 ClosePhases
    <1>5. SoleOwner'
          <2>1. ASSUME NEW u \in Task, ~Free(u)'
                PROVE  task'[u].job \in (pending \ stale)'
                BY <1>1, <1>3, <2>1 DEF SoleOwner, Free
          <2>2. ASSUME NEW u \in Task, NEW v \in Task, ~Free(u)', ~Free(v)',
                       task'[u].job = task'[v].job
                PROVE  u = v
                BY <1>1, <1>3, <2>2 DEF SoleOwner, Free, Works
          <2> QED BY <2>1, <2>2 DEF SoleOwner
    <1>6. TaskInv'
          <2>1. ASSUME NEW tk, tk.pc = "processor_get", tk.st = Absent,
                       ~tk.failed, NEW s
                PROVE  TaskKnows(tk, s)
                BY <2>1 DEF TaskKnows, SessionPhases, StepPhases, RecoverPhases,
                            CallbackPhases, AttemptPhases
          <2> QED BY <1>1, <2>1 DEF TaskInv, Free
    <1>7. DocumentInv' /\ AckedIsRecorded' /\ RanInv'
          BY <1>1 DEF DocumentInv, AckedIsRecorded, RanInv
    <1>8. ToldInv'
          BY <1>1
          DEF ToldInv, CallbackTellsOutcome, DeliveredIsReceived,
              ExecutionCallback
    <1>9. ReleaseInv'
          <2>1. "free" \notin DriverPhases
                BY DEF DriverPhases, SessionPhases, StepPhases, ClosePhases
          <2>2. \A u \in Task : task[u].pc \in DriverPhases =>
                    task'[u] = task[u]
                BY <1>1, <2>1 DEF Free
          <2>3. \A u \in Task : task'[u].pc = "mark_infrastructure_failed" =>
                    task'[u] = task[u]
                BY <1>1
          <2> QED BY <1>2, <2>2, <2>3 DEF ReleaseInv
    <1> QED BY <1>5, <1>6, <1>7, <1>8, <1>9

LEMMA DeliveryOutcome ==
    ASSUME TypeOK, OutcomeInv, DeliveryInv, NEW t \in Task,
           Consume(t) \/ \E e \in Executions : Claim(t, e)
    PROVE  OutcomeInv'
    <1>1. CASE Consume(t)
          <2> DEFINE e == stream[delivered + 1]
          <2>1. /\ delivered \in Nat /\ Len(stream) \in Nat
                /\ delivered + 1 \in 1..Len(stream)
                /\ delivered + 1 \in (delivered + 1)..Len(stream)
                /\ e \in Executions
                BY <1>1 DEF Consume, TypeOK
          <2>2. /\ e \notin pending /\ e \notin stale
                /\ \A u \in Task : ~Works(u, e)
                BY <2>1 DEF DeliveryInv, TypeOK
          <2>3. /\ Free(t)
                /\ \/ Become(t, Start(e)) /\ UNCHANGED faults
                   \/ Fault /\ UNCHANGED task
                /\ pending' = pending \cup {e}
                /\ delivered' = delivered + 1
                /\ UNCHANGED <<store, stream, stale, kernel, requests, inbox>>
                BY <1>1 DEF Consume
          <2> HIDE DEF e
          <2>4. ASSUME NEW f \in Executions, Acked(f)' PROVE Acked(f)
                <3>1. /\ f \notin pending' /\ f # e
                      /\ \E i \in 1..(delivered + 1) : stream[i] = f
                      BY <2>3, <2>4 DEF Acked
                <3>2. PICK i \in 1..(delivered + 1) : stream[i] = f
                      BY <3>1
                <3>3. i \in 1..delivered
                      BY <2>1, <3>1, <3>2 DEF e
                <3> QED BY <2>3, <3>1, <3>2, <3>3 DEF Acked
          <2>5. /\ e \in (pending \ stale)'
                /\ \A f \in Executions \ {e} :
                      /\ f \in pending' <=> f \in pending
                      /\ f \in stale' <=> f \in stale
                BY <2>2, <2>3
          <2> QED BY <2>1, <2>2, <2>3, <2>4, <2>5, TakeOutcome
    <1>2. CASE \E e \in Executions : Claim(t, e)
          <2>1. PICK e \in Executions : Claim(t, e)
                BY <1>2
          <2>2. /\ Free(t)
                /\ e \in stale /\ e \in pending
                /\ \/ Become(t, Start(e)) /\ UNCHANGED faults
                   \/ Fault /\ UNCHANGED task
                /\ stale' = stale \ {e}
                /\ UNCHANGED <<store, stream, delivered, pending, kernel,
                               requests, inbox>>
                BY <2>1 DEF Claim, TypeOK
          <2>3. \A u \in Task : ~Works(u, e)
                BY <2>2 DEF OutcomeInv, SoleOwner, Works
          <2>4. \A f \in Executions : Acked(f)' => Acked(f)
                BY <2>2 DEF Acked
          <2> QED BY <2>2, <2>3, <2>4, TakeOutcome
    <1> QED BY <1>1, <1>2

(***************************************************************************)
(* Time, kernels and crashes.  No command becomes stale while it has a     *)
(* task: this is what OneOwner is needed for.                              *)
(***************************************************************************)
LEMMA EnvironmentOutcome ==
    ASSUME TypeOK, OutcomeInv, OneOwner,
           \/ \E e \in Executions : BecomeStale(e)
           \/ \E k \in Kernels : KernelVanishes(k)
           \/ \E w \in Workers : Crash(w)
           \/ UNCHANGED vars
    PROVE  OutcomeInv'
    <1> USE DEF OutcomeInv
    <1>1. UNCHANGED <<store, stream, delivered, pending, requests, inbox>>
          BY DEF BecomeStale, KernelVanishes, Crash, vars, redisVars
    <1>2. /\ \A u \in Task : task'[u] = task[u] \/ task'[u].pc = "free"
          /\ task' = task \/ faults' # 0
          BY FaultCounts
          DEF BecomeStale, KernelVanishes, Crash, vars, redisVars, FreeTask
    <1>3. faults' = 0 => faults = 0
          BY FaultCounts DEF BecomeStale, KernelVanishes, Crash, vars
    <1>4. \A l \in Kernels : kernel[l] = "gone" => kernel'[l] = "gone"
          BY DEF BecomeStale, KernelVanishes, Crash, vars, redisVars, TypeOK
    <1>5. SoleOwner'
          <2>1. ASSUME NEW u \in Task, ~Free(u)'
                PROVE  task'[u].job \in (pending \ stale)'
                <3>1. task'[u] = task[u] /\ ~Free(u)
                      BY <1>2, <2>1 DEF Free
                <3>2. task[u].job \in pending \ stale
                      BY <3>1 DEF SoleOwner
                <3>3. CASE \E e \in Executions : BecomeStale(e)
                      <4>1. PICK e \in Executions : BecomeStale(e)
                            BY <3>3
                      <4>2. task[u].job # e
                            BY <4>1 DEF BecomeStale, OneOwner
                      <4> QED BY <1>1, <3>1, <3>2, <4>1, <4>2 DEF BecomeStale
                <3>4. CASE stale' = stale
                      BY <1>1, <3>1, <3>2, <3>4
                <3> QED BY <3>3, <3>4
                        DEF KernelVanishes, Crash, vars, redisVars
          <2>2. \A u, v \in Task :
                    ~Free(u)' /\ ~Free(v)' /\ task'[u].job = task'[v].job
                       => u = v
                BY <1>2 DEF SoleOwner, Free
          <2> QED BY <2>1, <2>2 DEF SoleOwner
    <1>6. TaskInv' /\ RanInv' /\ DocumentInv'
          BY <1>1, <1>2 DEF TaskInv, RanInv, DocumentInv, Free
    <1>7. ToldInv'
          BY <1>1, <1>2
          DEF ToldInv, CallbackTellsOutcome, DeliveredIsReceived,
              ExecutionCallback
    <1>8. AckedIsRecorded'
          BY <1>1 DEF AckedIsRecorded, Acked
    <1>9. ReleaseInv'
          <2>1. ASSUME NEW u \in Task,
                       task'[u].pc = "mark_infrastructure_failed"
                PROVE  kernel'[task'[u].kernel] = "gone"
                <3>1. task'[u] = task[u] /\ ~Free(u)
                      BY <1>2, <2>1 DEF Free
                <3>2. /\ kernel[task[u].kernel] = "gone"
                      /\ task[u].kernel = store[task[u].job].kernel
                      /\ task[u].kernel # NoKernel
                      BY <2>1, <3>1 DEF ReleaseInv, TaskInv, TaskKnows
                <3>3. store[task[u].job] \in ExecutionState
                      BY <3>1 DEF TypeOK, TaskOK, Free
                <3>4. task[u].kernel \in Kernels
                      BY <3>2, <3>3 DEF ExecutionState
                <3> QED BY <1>4, <3>1, <3>2, <3>4
          <2>2. ASSUME NEW e \in Executions, faults' = 0, IsTerminal(store'[e]),
                       store'[e].kernel # NoKernel,
                       kernel'[store'[e].kernel] # "gone"
                PROVE  \E u \in Task :
                           task'[u].pc \in DriverPhases /\ task'[u].job = e
                <3>1. task' = task /\ store' = store /\ faults = 0
                      BY <1>1, <1>2, <1>3, <2>2
                <3>2. store[e].kernel \in Kernels
                      BY <2>2, <3>1 DEF TypeOK, ExecutionState
                <3> QED BY <1>4, <2>2, <3>1, <3>2 DEF ReleaseInv
          <2> QED BY <2>1, <2>2 DEF ReleaseInv
    <1> QED BY <1>5, <1>6, <1>7, <1>8, <1>9

LEMMA OutcomeStep ==
    ASSUME OneOwner
    PROVE  TypeOK /\ OwnershipInv /\ OutcomeInv /\ [Next]_vars => OutcomeInv'
    <1> SUFFICES ASSUME TypeOK, OwnershipInv, OutcomeInv, [Next]_vars
                 PROVE  OutcomeInv'
        OBVIOUS
    <1>1. DeliveryInv
          BY DEF OwnershipInv
    <1>2. CASE \E t \in Task : TaskStep(t) \/ RedisError(t) \/ JupyterError(t)
          <2>1. PICK t \in Task : TaskStep(t) \/ RedisError(t) \/ JupyterError(t)
                BY <1>2
          <2>2. PICK next : Acts(t, next)
                BY <2>1, StepActs
          <2> QED BY <2>2, OutcomeActs
    <1>3. CASE \E t \in Task :
                  Consume(t) \/ \E e \in Executions : Claim(t, e)
          BY <1>1, <1>3, DeliveryOutcome
    <1>4. CASE \E e \in Executions : Submit(e) \/ SubmitWithoutXadd(e)
          BY <1>1, <1>4, SubmitOutcome
    <1>5. CASE \/ \E e \in Executions : BecomeStale(e)
               \/ \E k \in Kernels : KernelVanishes(k)
               \/ \E w \in Workers : Crash(w)
               \/ UNCHANGED vars
          BY <1>5, EnvironmentOutcome
    <1> QED BY <1>2, <1>3, <1>4, <1>5 DEF Next

------------------------------------------------------------------------------
(***************************************************************************)
(* The outcome invariant holds in every reachable state.                   *)
(***************************************************************************)
THEOREM OutcomeCorrect ==
    ASSUME OneOwner
    PROVE  Spec => []OutcomeInv
    <1>1. PromptStart
          BY DEF OneOwner, PromptStart
    <1>2. Init => OutcomeInv
          BY OutcomeInit
    <1>3. TypeOK /\ OwnershipInv /\ OutcomeInv /\ [Next]_vars => OutcomeInv'
          BY OutcomeStep
    <1>4. Spec => []OwnershipInv
          BY <1>1, OwnershipCorrect
    <1> QED BY <1>2, <1>3, <1>4, TypeCorrect, PTL DEF Spec

(***************************************************************************)
(* An execution is SUCCEEDED only with every step SUCCEEDED and no error.  *)
(***************************************************************************)
THEOREM SucceededCorrect ==
    ASSUME OneOwner
    PROVE  Spec => []SucceededIsClean
    <1>1. OutcomeInv => SucceededIsClean
          BY DEF OutcomeInv, DocumentInv, DocumentOK, SucceededIsClean
    <1> QED BY <1>1, OutcomeCorrect, PTL

(***************************************************************************)
(* A command is acknowledged only with its outcome and the fate of its     *)
(* callback recorded, whatever crashes or fails between.                   *)
(***************************************************************************)
THEOREM AcknowledgedCorrect ==
    ASSUME OneOwner
    PROVE  Spec => []AckedIsRecorded
    <1>1. OutcomeInv => AckedIsRecorded
          BY DEF OutcomeInv
    <1> QED BY <1>1, OutcomeCorrect, PTL

(***************************************************************************)
(* All callbacks of an execution, repeated ones included, carry its stored *)
(* status and its one event id.                                            *)
(***************************************************************************)
THEOREM CallbackCorrect ==
    ASSUME OneOwner
    PROVE  Spec => []CallbackTellsOutcome
    <1>1. OutcomeInv => CallbackTellsOutcome
          BY DEF OutcomeInv, ToldInv
    <1> QED BY <1>1, OutcomeCorrect, PTL

(***************************************************************************)
(* DELIVERED is recorded only for a callback that the agent received.      *)
(***************************************************************************)
THEOREM DeliveryCorrect ==
    ASSUME OneOwner
    PROVE  Spec => []DeliveredIsReceived
    <1>1. OutcomeInv => DeliveredIsReceived
          BY DEF OutcomeInv, ToldInv
    <1> QED BY <1>1, OutcomeCorrect, PTL

(***************************************************************************)
(* Without faults, an acknowledged execution has no Jupyter session left:  *)
(* DELETE comes before the callback and the callback before XACK.          *)
(***************************************************************************)
THEOREM ReleaseCorrect ==
    ASSUME OneOwner
    PROVE  Spec => []SessionReleased
    <1>1. TypeOK /\ OutcomeInv => SessionReleased
          <2> SUFFICES ASSUME TypeOK, OutcomeInv, NEW e \in Executions,
                              faults = 0, Acked(e), store[e].kernel # NoKernel,
                              kernel[store[e].kernel] # "gone"
                       PROVE  FALSE
              BY DEF SessionReleased
          <2>1. IsTerminal(store[e])
                BY DEF OutcomeInv, AckedIsRecorded
          <2>2. PICK t \in Task : task[t].pc \in DriverPhases /\ task[t].job = e
                BY <2>1 DEF OutcomeInv, ReleaseInv
          <2>3. ~Free(t)
                BY <2>2 DEF Free, DriverPhases, SessionPhases, StepPhases,
                            ClosePhases
          <2>4. e \in pending
                BY <2>2, <2>3 DEF OutcomeInv, SoleOwner
          <2> QED BY <2>4 DEF Acked
    <1> QED BY <1>1, OutcomeCorrect, TypeCorrect, PTL

------------------------------------------------------------------------------
(***************************************************************************)
(* A step either is a step of a task for its execution, or writes at most  *)
(* a new document.                                                         *)
(***************************************************************************)
LEMMA StableStep ==
    ASSUME TypeOK, OwnershipInv, OutcomeInv, [Next]_vars,
           NEW e \in Executions, IsTerminal(store[e])
    PROVE  /\ store'[e].status = store[e].status
           /\ e \in StopOnError =>
                 /\ store'[e].steps = store[e].steps
                 /\ store'[e].errorStep = store[e].errorStep
                 /\ store'[e].errorType = store[e].errorType
    <1>1. CASE \E t \in Task : TaskStep(t) \/ RedisError(t) \/ JupyterError(t)
          <2>1. PICK t \in Task : TaskStep(t) \/ RedisError(t) \/ JupyterError(t)
                BY <1>1
          <2>2. PICK next : Acts(t, next)
                BY <2>1, StepActs
          <2>3. /\ \A f \in Executions \ {task[t].job} : store'[f] = store[f]
                /\ MayBecome(t, store[task[t].job], store'[task[t].job])
                BY <2>2, ActsFrame DEF OutcomeInv
          <2>4. CASE e = task[t].job
                BY <2>3, <2>4 DEF MayBecome, IsTerminal, TerminalStatus
          <2>5. CASE e # task[t].job
                BY <2>3, <2>5
          <2> QED BY <2>4, <2>5
    <1>2. CASE \E f \in Executions : Submit(f) \/ SubmitWithoutXadd(f)
          <2>1. PICK f \in Executions : Submit(f) \/ SubmitWithoutXadd(f)
                BY <1>2
          <2>2. /\ store[f] = Absent
                /\ store' = [store EXCEPT ![f] = BuildInitialState]
                BY <2>1 DEF Submit, SubmitWithoutXadd
          <2>3. e # f
                BY <2>2 DEF IsTerminal, TerminalStatus, Absent
          <2> QED BY <2>2, <2>3 DEF TypeOK
    <1>3. CASE store' = store
          BY <1>3
    <1> QED BY <1>1, <1>2, <1>3
            DEF Next, Consume, Claim, BecomeStale, KernelVanishes, Crash, vars,
                redisVars

(***************************************************************************)
(* A final status is final, and so is the recorded error of an execution   *)
(* with stop_on_error: no late write of any worker replaces it.            *)
(***************************************************************************)
THEOREM OutcomeIsStable ==
    ASSUME OneOwner
    PROVE  Spec => OutcomeStable
    <1>1. PromptStart
          BY DEF OneOwner, PromptStart
    <1>2. TypeOK /\ OwnershipInv /\ OutcomeInv /\ [Next]_vars =>
              [\A e \in Executions :
                  IsTerminal(store[e]) =>
                    /\ store'[e].status = store[e].status
                    /\ e \in StopOnError =>
                          /\ store'[e].steps = store[e].steps
                          /\ store'[e].errorStep = store[e].errorStep
                          /\ store'[e].errorType = store[e].errorType]_vars
          BY StableStep
    <1>3. Spec => []OwnershipInv
          BY <1>1, OwnershipCorrect
    <1> QED BY <1>2, <1>3, OutcomeCorrect, TypeCorrect, PTL
            DEF Spec, OutcomeStable

------------------------------------------------------------------------------
(* The promised life of an execution. *)

\* What ExecutionLifecycle sees of the callback.
Fate(s) == IF s.callback \in {"DELIVERED", "FAILED"} THEN s.callback ELSE "open"

StatusKept(f) == store'[f].status = store[f].status
FateKept(f) == Fate(store'[f]) = Fate(store[f])
RanKept(f) == Len(requests'[f]) = Len(requests[f])
SettledKept(f) == Acked(f)' <=> Acked(f)
Kept(f) == StatusKept(f) /\ FateKept(f) /\ RanKept(f) /\ SettledKept(f)

(***************************************************************************)
(* Each change of one execution, and the step of ExecutionLifecycle it is. *)
(***************************************************************************)
LEMMA StutterMaps ==
    ASSUME \A f \in Executions : Kept(f), UNCHANGED inbox
    PROVE  UNCHANGED Lifecycle!vars
    BY DEF Lifecycle!vars, Kept, StatusKept, FateKept, RanKept, SettledKept, Fate

LEMMA StatusMaps ==
    ASSUME NEW e \in Executions, \A f \in Executions \ {e} : Kept(f),
           FateKept(e), RanKept(e), SettledKept(e), UNCHANGED inbox,
           \/ store[e].status = "ABSENT" /\ store'[e].status = "QUEUED"
           \/ store[e].status = "QUEUED" /\ store'[e].status = "RUNNING"
           \/ /\ store[e].status = "RUNNING"
              /\ store'[e].status \in TerminalStatus
              /\ store'[e].status = "SUCCEEDED" => Len(requests[e]) = NumSteps
    PROVE  Lifecycle!Next
    <1>1. [f \in Executions |-> store'[f].status] =
              [[f \in Executions |-> store[f].status]
                   EXCEPT ![e] = store'[e].status]
          BY DEF Kept, StatusKept
    <1>2. /\ [f \in Executions |-> Len(requests'[f])] =
                 [f \in Executions |-> Len(requests[f])]
          /\ {f \in Executions : Acked(f)'} = {f \in Executions : Acked(f)}
          /\ {<<c.job, c.status>> : c \in inbox'} =
                 {<<c.job, c.status>> : c \in inbox}
          BY DEF Kept, RanKept, SettledKept
    <1>3. [f \in Executions |-> Fate(store'[f])] =
              [f \in Executions |-> Fate(store[f])]
          BY DEF Kept, FateKept
    <1>4. CASE store[e].status = "ABSENT" /\ store'[e].status = "QUEUED"
          <2>1. Lifecycle!Submit(e)
                BY <1>1, <1>2, <1>3, <1>4 DEF Lifecycle!Submit, Fate
          <2> QED BY <2>1 DEF Lifecycle!Next
    <1>5. CASE store[e].status = "QUEUED" /\ store'[e].status = "RUNNING"
          <2>1. Lifecycle!Begin(e)
                BY <1>1, <1>2, <1>3, <1>5 DEF Lifecycle!Begin, Fate
          <2> QED BY <2>1 DEF Lifecycle!Next
    <1>6. CASE /\ store[e].status = "RUNNING"
               /\ store'[e].status \in TerminalStatus
               /\ store'[e].status = "SUCCEEDED" => Len(requests[e]) = NumSteps
          <2>1. CASE store'[e].status = "SUCCEEDED"
                <3>1. Lifecycle!Finish(e, "SUCCEEDED")
                      BY <1>1, <1>2, <1>3, <1>6, <2>1 DEF Lifecycle!Finish, Fate
                <3> QED BY <3>1 DEF Lifecycle!Next, Lifecycle!Final
          <2>2. CASE store'[e].status = "FAILED"
                <3>1. Lifecycle!Finish(e, "FAILED")
                      BY <1>1, <1>2, <1>3, <1>6, <2>2 DEF Lifecycle!Finish, Fate
                <3> QED BY <3>1 DEF Lifecycle!Next, Lifecycle!Final
          <2> QED BY <1>6, <2>1, <2>2 DEF TerminalStatus
    <1> QED BY <1>4, <1>5, <1>6

LEMMA FateMaps ==
    ASSUME NEW e \in Executions, \A f \in Executions \ {e} : Kept(f),
           StatusKept(e), RanKept(e), SettledKept(e), UNCHANGED inbox,
           \/ /\ Fate(store[e]) = "FAILED" /\ Fate(store'[e]) = "open"
              /\ ~Acked(e)
           \/ /\ Fate(store[e]) = "open"
              /\ Fate(store'[e]) \in {"DELIVERED", "FAILED"}
              /\ IsTerminal(store[e])
              /\ Fate(store'[e]) = "DELIVERED" =>
                    \E c \in inbox : c.job = e /\ c.status = store[e].status
    PROVE  Lifecycle!Next
    <1>1. [f \in Executions |-> Fate(store'[f])] =
              [[f \in Executions |-> Fate(store[f])]
                   EXCEPT ![e] = Fate(store'[e])]
          BY DEF Kept, FateKept
    <1>2. /\ [f \in Executions |-> Len(requests'[f])] =
                 [f \in Executions |-> Len(requests[f])]
          /\ {f \in Executions : Acked(f)'} = {f \in Executions : Acked(f)}
          /\ {<<c.job, c.status>> : c \in inbox'} =
                 {<<c.job, c.status>> : c \in inbox}
          BY DEF Kept, RanKept, SettledKept
    <1>3. [f \in Executions |-> store'[f].status] =
              [f \in Executions |-> store[f].status]
          BY DEF Kept, StatusKept
    <1>4. CASE /\ Fate(store[e]) = "FAILED" /\ Fate(store'[e]) = "open"
               /\ ~Acked(e)
          <2>1. Lifecycle!Reopen(e)
                BY <1>1, <1>2, <1>3, <1>4 DEF Lifecycle!Reopen, Fate
          <2> QED BY <2>1 DEF Lifecycle!Next
    <1>5. CASE /\ Fate(store[e]) = "open"
               /\ Fate(store'[e]) \in {"DELIVERED", "FAILED"}
               /\ IsTerminal(store[e])
               /\ Fate(store'[e]) = "DELIVERED" =>
                     \E c \in inbox : c.job = e /\ c.status = store[e].status
          <2>1. Fate(store'[e]) = "DELIVERED" =>
                    <<e, store[e].status>> \in
                        {<<c.job, c.status>> : c \in inbox}
                BY <1>5
          <2> USE DEF Lifecycle!Record, Lifecycle!Final, Fate, IsTerminal,
                      TerminalStatus
          <2>2. CASE Fate(store'[e]) = "DELIVERED"
                <3>1. Lifecycle!Record(e, "DELIVERED")
                      BY <1>1, <1>2, <1>3, <1>5, <2>1, <2>2
                <3> QED BY <3>1 DEF Lifecycle!Next
          <2>3. CASE Fate(store'[e]) = "FAILED"
                <3>1. Lifecycle!Record(e, "FAILED")
                      BY <1>1, <1>2, <1>3, <1>5, <2>3
                <3> QED BY <3>1 DEF Lifecycle!Next
          <2> QED BY <1>5, <2>2, <2>3
    <1> QED BY <1>4, <1>5

LEMMA RunMaps ==
    ASSUME TypeOK, NEW e \in Executions, NEW r, UNCHANGED <<store, inbox>>,
           \A f \in Executions : SettledKept(f),
           requests' = [requests EXCEPT ![e] = Append(@, r)],
           r \in Request,
           Len(requests[e]) < NumSteps,
           \/ store[e].status = "RUNNING"
           \/ /\ store[e].status = "FAILED" /\ e \notin StopOnError
              /\ Fate(store[e]) = "open"
    PROVE  Lifecycle!Next
    <1>1. /\ requests[e] \in Seq(Request)
          /\ requests'[e] = Append(requests[e], r)
          /\ \A f \in Executions \ {e} : requests'[f] = requests[f]
          BY DEF TypeOK
    <1>2. Len(requests'[e]) = Len(requests[e]) + 1
          BY <1>1
    <1>3. [f \in Executions |-> Len(requests'[f])] =
              [[f \in Executions |-> Len(requests[f])]
                   EXCEPT ![e] = @ + 1]
          <2> DEFINE old == [f \in Executions |-> Len(requests[f])]
          <2>1. /\ DOMAIN old = Executions
                /\ old[e] = Len(requests[e])
                OBVIOUS
          <2>2. \A f \in Executions : old[f] = Len(requests[f])
                OBVIOUS
          <2>3. \A f \in Executions :
                    Len(requests'[f]) = IF f = e THEN old[e] + 1 ELSE old[f]
                BY <1>1, <1>2, <2>1, <2>2
          <2> HIDE DEF old
          <2>4. [f \in Executions |-> Len(requests'[f])] =
                    [old EXCEPT ![e] = old[e] + 1]
                BY <2>1, <2>3
          <2> QED BY <2>4 DEF old
    <1>4. {f \in Executions : Acked(f)'} = {f \in Executions : Acked(f)}
          BY DEF SettledKept
    <1>5. Lifecycle!RunStep(e)
          BY <1>3, <1>4 DEF Lifecycle!RunStep, Fate
    <1> QED BY <1>5 DEF Lifecycle!Next

LEMMA TellMaps ==
    ASSUME NEW e \in Executions, NEW event, UNCHANGED <<store, requests>>,
           \A f \in Executions : SettledKept(f), ~Acked(e),
           IsTerminal(store[e]),
           inbox' = inbox \cup {[job |-> e, event |-> event,
                                 status |-> store[e].status]}
    PROVE  Lifecycle!Next
    <1>1. {<<c.job, c.status>> : c \in inbox'} =
              {<<c.job, c.status>> : c \in inbox}
                  \cup {<<e, store[e].status>>}
          <2> DEFINE new == [job |-> e, event |-> event,
                             status |-> store[e].status]
          <2>1. <<new.job, new.status>> = <<e, store[e].status>>
                OBVIOUS
          <2>2. inbox' = inbox \cup {new}
                OBVIOUS
          <2> HIDE DEF new
          <2>3. {<<c.job, c.status>> : c \in inbox \cup {new}} =
                    {<<c.job, c.status>> : c \in inbox}
                        \cup {<<new.job, new.status>>}
                OBVIOUS
          <2> QED BY <2>1, <2>2, <2>3
    <1>2. {f \in Executions : Acked(f)'} = {f \in Executions : Acked(f)}
          BY DEF SettledKept
    <1>3. Lifecycle!Tell(e)
          BY <1>1, <1>2
          DEF Lifecycle!Tell, Lifecycle!Final, IsTerminal, TerminalStatus
    <1> QED BY <1>3 DEF Lifecycle!Next

LEMMA SettleMaps ==
    ASSUME NEW e \in Executions, UNCHANGED <<store, requests, inbox>>,
           \A f \in Executions \ {e} : SettledKept(f),
           ~Acked(e), Fate(store[e]) # "open"
    PROVE  [Lifecycle!Next]_(Lifecycle!vars)
    <1>1. CASE ~Acked(e)'
          <2>1. \A f \in Executions : Kept(f)
                BY <1>1 DEF Kept, StatusKept, FateKept, RanKept, SettledKept
          <2> QED BY <2>1, StutterMaps
    <1>2. CASE Acked(e)'
          <2>1. {f \in Executions : Acked(f)'} =
                    {f \in Executions : Acked(f)} \cup {e}
                BY <1>2 DEF SettledKept
          <2>2. Lifecycle!Settle(e)
                BY <2>1 DEF Lifecycle!Settle, Fate
          <2> QED BY <2>2 DEF Lifecycle!Next
    <1> QED BY <1>1, <1>2

------------------------------------------------------------------------------
(***************************************************************************)
(* A step of a task is a step in the promised life of its execution, or    *)
(* changes nothing of it.                                                  *)
(***************************************************************************)
LEMMA RewritesMaps ==
    ASSUME TypeOK, OutcomeInv, NEW t \in Task, NEW next, Acts(t, next),
           Rewrites(t)
    PROVE  [Lifecycle!Next]_(Lifecycle!vars)
    <1> DEFINE e == task[t].job
    <1>1. /\ e \in Executions
          /\ ~Free(t)
          /\ e \in pending
          /\ MayBecome(t, store[e], store'[e])
          BY ActsFrame DEF Acts, OutcomeInv
    <1>2. UNCHANGED <<requests, inbox, pending, stream, delivered>>
          BY DEF Acts, Rewrites
    <1>3. \A f \in Executions : RanKept(f) /\ SettledKept(f)
          BY <1>2 DEF RanKept, SettledKept, Acked
    <1>4. \A f \in Executions \ {e} : Kept(f)
          BY <1>3 DEF Rewrites, Kept, StatusKept, FateKept
    <1>5. TaskKnows(task[t], store[e])
          BY <1>1 DEF OutcomeInv, TaskInv
    <1>6. CASE store'[e].status # store[e].status
          <2>1. FateKept(e)
                BY <1>1, <1>6 DEF MayBecome, FateKept, Fate
          <2>2. \/ store[e].status = "QUEUED" /\ store'[e].status = "RUNNING"
                \/ /\ store[e].status = "RUNNING"
                   /\ store'[e].status \in TerminalStatus
                   /\ store'[e].status = "SUCCEEDED" =>
                         Len(requests[e]) = NumSteps
                BY <1>1, <1>6 DEF MayBecome
          <2> HIDE DEF e
          <2> QED BY <1>1, <1>2, <1>3, <1>4, <2>1, <2>2, StatusMaps
    <1>7. CASE StatusKept(e) /\ FateKept(e)
          <2>1. \A f \in Executions : Kept(f)
                BY <1>3, <1>4, <1>7 DEF Kept
          <2> QED BY <1>2, <2>1, StutterMaps
    <1>8. CASE StatusKept(e) /\ ~FateKept(e)
          <2>1. /\ IsTerminal(store[e])
                /\ \/ /\ store[e].callback = "FAILED"
                      /\ store'[e].callback = "PENDING"
                   \/ /\ store[e].callback = "PENDING"
                      /\ store'[e].callback = "FAILED"
                   \/ /\ store[e].callback = "PENDING"
                      /\ store'[e].callback = "DELIVERED"
                      /\ task[t].pc = "mark_callback_delivered"
                BY <1>1, <1>8 DEF MayBecome, FateKept, Fate
          <2>2. ~Acked(e)
                BY <1>1 DEF Acked
          <2>3. Fate(store'[e]) = "DELIVERED" =>
                    \E c \in inbox : c.job = e /\ c.status = store[e].status
                <3>1. CASE task[t].pc = "mark_callback_delivered"
                      <4>1. ExecutionCallback(t) \in inbox
                            BY <3>1 DEF OutcomeInv, ToldInv
                      <4>2. task[t].report = store[e].status
                            BY <1>5, <3>1 DEF TaskKnows, AttemptPhases
                      <4> QED BY <4>1, <4>2 DEF ExecutionCallback
                <3>2. CASE task[t].pc # "mark_callback_delivered"
                      BY <2>1, <3>2 DEF Fate
                <3> QED BY <3>1, <3>2
          <2>4. \/ /\ Fate(store[e]) = "FAILED" /\ Fate(store'[e]) = "open"
                   /\ ~Acked(e)
                \/ /\ Fate(store[e]) = "open"
                   /\ Fate(store'[e]) \in {"DELIVERED", "FAILED"}
                   /\ IsTerminal(store[e])
                   /\ Fate(store'[e]) = "DELIVERED" =>
                         \E c \in inbox : c.job = e /\ c.status = store[e].status
                BY <2>1, <2>2, <2>3 DEF Fate
          <2> HIDE DEF e
          <2> QED BY <1>1, <1>2, <1>3, <1>4, <1>8, <2>4, FateMaps
    <1> QED BY <1>6, <1>7, <1>8 DEF StatusKept

LEMMA ActsMaps ==
    ASSUME TypeOK, OwnershipInv, OutcomeInv, NEW t \in Task, NEW next,
           Acts(t, next)
    PROVE  [Lifecycle!Next]_(Lifecycle!vars)
    <1> DEFINE e == task[t].job
    <1>1. /\ e \in Executions
          /\ ~Free(t)
          /\ e \in pending
          BY ActsFrame DEF Acts, OutcomeInv
    <1>2. TaskKnows(task[t], store[e])
          BY <1>1 DEF OutcomeInv, TaskInv
    <1>3. UNCHANGED <<stream, delivered>>
          BY DEF Acts
    <1>4. ~Acked(e)
          BY <1>1 DEF Acked
    <1>5. CASE Rewrites(t)
          BY <1>5, RewritesMaps
    <1>6. CASE Runs(t)
          <2> DEFINE r == [step |-> task[t].step, kernel |-> task[t].kernel]
          <2>1. task[t].pc = "send" /\ task[t].pc \in StepPhases
                BY <1>6 DEF Runs, StepPhases
          <2>2. task[t].step \in Step /\ task[t].kernel \in Kernels
                BY <2>1 DEF TypeOK, TaskOK, DriverPhases
          <2>3. r \in Request
                BY <2>2 DEF Request
          <2>4. Len(requests[e]) < task[t].step
                BY <1>6 DEF Runs, OwnershipInv, LogInv
          <2>5. requests[e] \in Seq(Request)
                BY <1>1 DEF TypeOK
          <2>6. Len(requests[e]) < NumSteps
                BY <2>2, <2>4, <2>5, NumStepsAssumption DEF Step
          <2>7. \/ store[e].status = "RUNNING"
                \/ /\ store[e].status = "FAILED" /\ e \notin StopOnError
                   /\ Fate(store[e]) = "open"
                BY <1>2, <2>1 DEF TaskKnows, NotRequested, Fate
          <2>8. \A f \in Executions : SettledKept(f)
                BY <1>3, <1>6 DEF Runs, SettledKept, Acked
          <2>9. /\ requests' = [requests EXCEPT ![e] = Append(@, r)]
                /\ UNCHANGED <<store, inbox>>
                BY <1>6 DEF Runs
          <2> HIDE DEF e, r
          <2> QED BY <1>1, <2>3, <2>6, <2>7, <2>8, <2>9, RunMaps
    <1>7. CASE Tells(t)
          <2>1. /\ IsTerminal(store[e])
                /\ task[t].report = store[e].status
                BY <1>2, <1>7 DEF Tells, TaskKnows, AttemptPhases, CallbackPhases
          <2>2. inbox' = inbox \cup {[job |-> e, event |-> task[t].event,
                                      status |-> store[e].status]}
                BY <1>7, <2>1 DEF Tells, ExecutionCallback
          <2>3. /\ UNCHANGED <<store, requests>>
                /\ \A f \in Executions : SettledKept(f)
                BY <1>3, <1>7 DEF Tells, SettledKept, Acked
          <2> HIDE DEF e
          <2> QED BY <1>1, <1>4, <2>1, <2>2, <2>3, TellMaps
    <1>8. CASE Settles(t)
          <2>1. Fate(store[e]) # "open"
                BY <1>2, <1>8 DEF Settles, TaskKnows, Fate
          <2>2. /\ UNCHANGED <<store, requests, inbox>>
                /\ \A f \in Executions \ {e} : SettledKept(f)
                BY <1>3, <1>8 DEF Settles, SettledKept, Acked
          <2> HIDE DEF e
          <2> QED BY <1>1, <1>4, <2>1, <2>2, SettleMaps
    <1> QED BY <1>5, <1>6, <1>7, <1>8 DEF Acts

(***************************************************************************)
(* Submission begins that life.                                            *)
(***************************************************************************)
LEMMA SubmitMaps ==
    ASSUME TypeOK, NEW e \in Executions, Submit(e) \/ SubmitWithoutXadd(e)
    PROVE  Lifecycle!Next
    <1>1. /\ store[e] = Absent
          /\ store' = [store EXCEPT ![e] = BuildInitialState]
          /\ UNCHANGED <<delivered, pending, requests, inbox>>
          /\ stream' = stream \/ stream' = Append(stream, e)
          BY DEF Submit, SubmitWithoutXadd
    <1>2. stream \in Seq(Executions) /\ delivered \in 0..Len(stream)
          BY DEF TypeOK
    <1>3. \A i \in 1..delivered : stream'[i] = stream[i]
          BY <1>1, <1>2
    <1>4. \A f \in Executions : SettledKept(f)
          BY <1>1, <1>3 DEF SettledKept, Acked
    <1>5. \A f \in Executions : RanKept(f)
          BY <1>1 DEF RanKept
    <1>6. \A f \in Executions \ {e} : store'[f] = store[f]
          BY <1>1 DEF TypeOK
    <1>7. store'[e] = BuildInitialState
          BY <1>1 DEF TypeOK
    <1>8. \A f \in Executions \ {e} : Kept(f)
          BY <1>4, <1>5, <1>6 DEF Kept, StatusKept, FateKept
    <1>9. FateKept(e)
          BY <1>1, <1>7 DEF FateKept, Fate, BuildInitialState, Absent
    <1>10. store[e].status = "ABSENT" /\ store'[e].status = "QUEUED"
          BY <1>1, <1>7 DEF BuildInitialState, Absent
    <1> QED BY <1>1, <1>4, <1>5, <1>8, <1>9, <1>10, StatusMaps

(***************************************************************************)
(* Delivery, claims, time, kernels that vanish and crashes change nothing  *)
(* of what was promised; a command that is delivered now was not           *)
(* acknowledged before.                                                    *)
(***************************************************************************)
LEMMA OtherMaps ==
    ASSUME TypeOK, OwnershipInv,
           \/ \E t \in Task :
                 Consume(t) \/ \E e \in Executions : Claim(t, e)
           \/ \E e \in Executions : BecomeStale(e)
           \/ \E k \in Kernels : KernelVanishes(k)
           \/ \E w \in Workers : Crash(w)
           \/ UNCHANGED vars
    PROVE  UNCHANGED Lifecycle!vars
    <1>1. UNCHANGED <<store, stream, requests, inbox>>
          BY DEF Consume, Claim, BecomeStale, KernelVanishes, Crash, vars,
                 redisVars
    <1>2. \A f \in Executions : Acked(f)' <=> Acked(f)
          <2>1. CASE \E t \in Task : Consume(t)
                <3>1. /\ delivered < Len(stream)
                      /\ delivered' = delivered + 1
                      /\ pending' = pending \cup {stream[delivered + 1]}
                      BY <2>1 DEF Consume
                <3>2. stream \in Seq(Executions) /\ delivered \in 0..Len(stream)
                      BY DEF TypeOK
                <3>3. \A i \in 1..delivered : stream[i] # stream[delivered + 1]
                      BY <3>1, <3>2 DEF OwnershipInv, DeliveryInv
                <3>4. 1..delivered' = (1..delivered) \cup {delivered + 1}
                      BY <3>1, <3>2
                <3> QED BY <1>1, <3>1, <3>3, <3>4 DEF Acked
          <2>2. CASE UNCHANGED <<delivered, pending>>
                BY <1>1, <2>2 DEF Acked
          <2> QED BY <2>1, <2>2 DEF Claim, BecomeStale, KernelVanishes, Crash,
                                    vars, redisVars
    <1>3. \A f \in Executions : Kept(f)
          BY <1>1, <1>2
          DEF Kept, StatusKept, FateKept, RanKept, SettledKept
    <1> QED BY <1>1, <1>3, StutterMaps

LEMMA LifecycleInit == Init => Lifecycle!Init
    <1> SUFFICES ASSUME Init PROVE Lifecycle!Init
        OBVIOUS
    <1>1. /\ [e \in Executions |-> store[e].status] =
                 [e \in Executions |-> "ABSENT"]
          /\ [e \in Executions |-> Len(requests[e])] =
                 [e \in Executions |-> 0]
          /\ {<<c.job, c.status>> : c \in inbox} = {}
          BY DEF Init, Absent
    <1>2. [e \in Executions |-> Fate(store[e])] =
              [e \in Executions |-> "open"]
          BY DEF Init, Absent, Fate
    <1>3. {e \in Executions : Acked(e)} = {}
          BY DEF Init, Acked
    <1> QED BY <1>1, <1>2, <1>3 DEF Lifecycle!Init, Fate

(***************************************************************************)
(* Workers, Redis, Jupyter and the agent together keep what                *)
(* ExecutionLifecycle promises: steps at most once each, one final status, *)
(* no other status told, and the command settled only after all of it.     *)
(***************************************************************************)
THEOREM LifecycleImplemented ==
    ASSUME OneOwner
    PROVE  Spec => ImplementsLifecycle
    <1>1. PromptStart
          BY DEF OneOwner, PromptStart
    <1>2. Spec => []OwnershipInv
          BY <1>1, OwnershipCorrect
    <1>3. TypeOK /\ OwnershipInv /\ OutcomeInv /\ [Next]_vars =>
              [Lifecycle!Next]_(Lifecycle!vars)
          <2> SUFFICES ASSUME TypeOK, OwnershipInv, OutcomeInv, [Next]_vars
                       PROVE  [Lifecycle!Next]_(Lifecycle!vars)
              OBVIOUS
          <2>1. CASE \E t \in Task :
                        TaskStep(t) \/ RedisError(t) \/ JupyterError(t)
                <3>1. PICK t \in Task :
                          TaskStep(t) \/ RedisError(t) \/ JupyterError(t)
                      BY <2>1
                <3>2. PICK next : Acts(t, next)
                      BY <3>1, StepActs
                <3> QED BY <3>2, ActsMaps
          <2>2. CASE \E e \in Executions : Submit(e) \/ SubmitWithoutXadd(e)
                BY <2>2, SubmitMaps
          <2>3. CASE \/ \E t \in Task :
                           Consume(t) \/ \E e \in Executions : Claim(t, e)
                     \/ \E e \in Executions : BecomeStale(e)
                     \/ \E k \in Kernels : KernelVanishes(k)
                     \/ \E w \in Workers : Crash(w)
                     \/ UNCHANGED vars
                BY <2>3, OtherMaps
          <2> QED BY <2>1, <2>2, <2>3 DEF Next
    <1> QED BY <1>2, <1>3, LifecycleInit, OutcomeCorrect, TypeCorrect, PTL
            DEF Spec, ImplementsLifecycle, Lifecycle!Spec
==============================================================================
