--------------------------- MODULE JupyterSession ---------------------------
(***************************************************************************)
(* The steps of one execution in one Jupyter session: JupyterSessionRunner *)
(* sends one execute_request after the other to the kernel and collects    *)
(* what comes back, with a timeout per step, for ExecutionService.         *)
(*                                                                         *)
(* The kernel handles requests in order.  Its replies (shell) and its      *)
(* outputs, errors and idle messages (iopub) travel on two channels that   *)
(* the server merges onto one WebSocket in any order.  Saving the state    *)
(* between the steps is in ExecutionProcessing, the frames are in          *)
(* WireFormat.                                                             *)
(***************************************************************************)
EXTENDS JupyterCollector

CONSTANTS
    NumSteps,   \* steps of the command
    Values,     \* what code may print
    MaxPublish  \* bound on the outputs and clears of a command

Step == 1..NumSteps

ASSUME SessionConstants ==
    /\ NumSteps \in Nat \ {0}
    /\ MaxPublish \in Nat

VARIABLES
    stopOnError,  \* command.stop_on_error
    protocol,     \* "legacy" or "v1", what the server's WebSocket speaks
    pc,         \* runner: the await it is at, or how the session ended
    step,       \* runner: the step it is at
    collector,  \* runner: the collector of this step
    result,     \* what ExecutionService gets for each step
    queue,      \* kernel: requests received and not begun
    executing,  \* kernel: the step whose code runs, 0 if none
    aborting,   \* kernel: requests are answered "aborted"
    signal,     \* server: an interrupt is on its way to the kernel
    ended,      \* kernel: how the code of each step ended
    published,  \* kernel: what each request printed and cleared, in order
    iopub,      \* messages on their way, by channel
    shell

runnerVars == <<pc, step, collector, result>>
kernelVars == <<queue, executing, aborting, signal, ended, published>>
given == <<stopOnError, protocol>>
vars == <<given, runnerVars, kernelVars, iopub, shell>>

\* What a thread prints after the code that started it has ended.
Late == "late"

NoResult == [status |-> "none", outputs |-> <<>>, error |-> "none"]
Timeout == [status |-> "failed", outputs |-> <<>>, error |-> "ExecutionTimeout"]

\* "closed": the session was deleted.  "disconnected" and "unsendable": an
\* InfrastructureError left it to itself.
Over == {"closed", "disconnected", "unsendable"}

Init ==
    /\ stopOnError \in BOOLEAN
    /\ protocol \in {"legacy", "v1"}
    /\ pc = "send"
    /\ step = 1
    /\ collector = NewCollector
    /\ result = [i \in Step |-> NoResult]
    /\ queue = <<>>
    /\ executing = 0
    /\ aborting = FALSE
    /\ signal = FALSE
    /\ ended = [i \in Step |-> "no"]
    /\ published = [i \in Step |-> <<>>]
    /\ iopub = <<>>
    /\ shell = <<>>

------------------------------------------------------------------------------
(* JupyterSessionRunner.run, in the loop of ExecutionService.execute. *)

(***************************************************************************)
(* header.date of a message that jupyter_client builds is a datetime.  The *)
(* legacy text frame is made with json.dumps(default=str); _json_bytes of  *)
(* the v1 frame has no default, and json.dumps raises TypeError.           *)
(***************************************************************************)
Encodable == protocol = "legacy"

Send ==
    /\ pc = "send"
    /\ IF Encodable
       THEN pc' = "recv" /\ queue' = Append(queue, step)
       ELSE pc' = "unsendable" /\ UNCHANGED queue
    /\ UNCHANGED <<step, collector, result, executing, aborting, signal,
                   ended, published, iopub, shell>>

\* Mutant of StepDone: stop_on_error is not looked at.
StepDoneGoesOn(r) ==
    /\ result' = [result EXCEPT ![step] = r]
    /\ collector' = NewCollector
    /\ IF step = NumSteps
       THEN pc' = "closed" /\ UNCHANGED step
       ELSE pc' = "send" /\ step' = step + 1

\* Mutant of StepDone: the end of the command is missed by one.
StepDonePastEnd(r) ==
    /\ result' = [result EXCEPT ![step] = r]
    /\ collector' = NewCollector
    /\ IF step > NumSteps \/ (r.status = "failed" /\ stopOnError)
       THEN pc' = "closed" /\ UNCHANGED step
       ELSE pc' = "send" /\ step' = step + 1

\* run() returns or raises CodeExecutionError, and the service goes on.
StepDone(r) ==
    /\ result' = [result EXCEPT ![step] = r]
    /\ collector' = NewCollector
    /\ IF step = NumSteps \/ (r.status = "failed" /\ stopOnError)
       THEN pc' = "closed" /\ UNCHANGED step
       ELSE pc' = "send" /\ step' = step + 1

Receive(m) ==
    LET c == Collect(collector, step, m)
    IN IF IsComplete(c) THEN StepDone(BuildResult(c))
       ELSE collector' = c /\ UNCHANGED <<pc, step, result>>

RecvIOPub ==
    /\ pc = "recv"
    /\ iopub # <<>>
    /\ Receive(Head(iopub))
    /\ iopub' = Tail(iopub)
    /\ UNCHANGED <<kernelVars, shell>>

RecvShell ==
    /\ pc = "recv"
    /\ shell # <<>>
    /\ Receive(Head(shell))
    /\ shell' = Tail(shell)
    /\ UNCHANGED <<kernelVars, iopub>>

StepTimeout ==
    /\ pc = "recv"
    /\ pc' = "interrupt"
    /\ UNCHANGED <<step, collector, result, kernelVars, iopub, shell>>

\* ConnectionClosed, or a frame that cannot be decoded.
Disconnect ==
    /\ pc \in {"send", "recv"}
    /\ pc' = "disconnected"
    /\ UNCHANGED <<step, collector, result, kernelVars, iopub, shell>>

------------------------------------------------------------------------------
(* The kernel. *)

Running == executing # 0 /\ pc # "closed"

\* Error, reply and idle; a failing request aborts the ones behind it.
Finish(i, status) ==
    /\ ended' = [ended EXCEPT ![i] = status]
    /\ executing' = 0
    /\ LET failed == status # "ok"
       IN /\ aborting' = failed
          /\ iopub' = iopub \o (IF failed
                                THEN <<Error(i, "CodeExecutionError"), Idle(i)>>
                                ELSE <<Idle(i)>>)
          /\ shell' = Append(shell, Reply(i, IF failed THEN "error" ELSE "ok"))

KernelBegins ==
    /\ pc # "closed" /\ queue # <<>> /\ executing = 0 /\ ~aborting
    /\ executing' = Head(queue)
    /\ queue' = Tail(queue)
    /\ UNCHANGED <<runnerVars, aborting, signal, ended, published, iopub, shell>>

Publish(i, m) ==
    /\ FoldFunction(LAMBDA messages, n : Len(messages) + n, 0, published)
          < MaxPublish
    /\ published' = [published EXCEPT ![i] = Append(@, m)]
    /\ iopub' = Append(iopub, m)
    /\ UNCHANGED <<runnerVars, queue, executing, aborting, signal, ended, shell>>

KernelPublishes ==
    /\ Running
    /\ \E m \in {Output(executing, v) : v \in Values}
                  \cup {Clear(executing, wait) : wait \in BOOLEAN} :
          Publish(executing, m)

(***************************************************************************)
(* A thread that the code of a step left behind prints something, in the   *)
(* name of that step: after the idle message, so that the collector takes  *)
(* it when the reply of the step is still to come, and only then.          *)
(***************************************************************************)
ThreadPrints ==
    /\ pc # "closed"
    /\ \E i \in Step :
          /\ ended[i] \notin {"no", "aborted"}
          /\ Publish(i, Output(i, Late))

CodeEnds ==
    /\ Running
    /\ \E status \in {"ok", "error"} : Finish(executing, status)
    /\ UNCHANGED <<runnerVars, queue, signal, published>>

KernelAborts ==
    /\ pc # "closed" /\ aborting /\ queue # <<>>
    /\ LET i == Head(queue)
       IN /\ ended' = [ended EXCEPT ![i] = "aborted"]
          /\ shell' = Append(shell, Reply(i, "aborted"))
          /\ iopub' = Append(iopub, Idle(i))
    /\ queue' = Tail(queue)
    /\ UNCHANGED <<runnerVars, executing, aborting, signal, published>>

KernelStopsAborting ==
    /\ pc # "closed" /\ aborting /\ queue = <<>>
    /\ aborting' = FALSE
    /\ UNCHANGED <<runnerVars, queue, executing, signal, ended, published,
                   iopub, shell>>

\* SIGINT ends the running code, or is swallowed by it or by an idle kernel.
Interrupted ==
    \/ executing # 0 /\ Finish(executing, "interrupted")
    \/ UNCHANGED <<executing, aborting, ended, iopub, shell>>

\* Mutant of Interrupt: the step is given up only when the kernel is free.
InterruptUntilIdle ==
    /\ pc = "interrupt"
    /\ executing = 0
    /\ StepDone(Timeout)
    /\ Interrupted
    /\ UNCHANGED <<queue, signal, published>>

(***************************************************************************)
(* _interrupt_best_effort, then CodeExecutionError(ExecutionTimeout): the  *)
(* server confirms that it interrupted the kernel, or the request is lost, *)
(* or the HTTP request times out and the interrupt is carried out later.   *)
(***************************************************************************)
Interrupt ==
    /\ pc = "interrupt"
    /\ StepDone(Timeout)
    /\ \/ Interrupted /\ UNCHANGED signal
       \/ signal' = TRUE /\ UNCHANGED <<executing, aborting, ended, iopub, shell>>
    /\ UNCHANGED <<queue, published>>

LateInterrupt ==
    /\ pc # "closed"
    /\ signal
    /\ signal' = FALSE
    /\ Interrupted
    /\ UNCHANGED <<runnerVars, queue, published>>

------------------------------------------------------------------------------

RunnerStep == Send \/ RecvIOPub \/ RecvShell \/ StepTimeout \/ Interrupt

Next ==
    /\ \/ RunnerStep \/ Disconnect
       \/ KernelBegins \/ KernelPublishes \/ ThreadPrints \/ CodeEnds
       \/ KernelAborts \/ KernelStopsAborting \/ LateInterrupt
    /\ UNCHANGED given

Spec == Init /\ [][Next]_vars

(***************************************************************************)
(* Only the runner's own steps are fair: code may run for ever, but the    *)
(* timer of asyncio.timeout fires, and the HTTP client has a timeout.      *)
(***************************************************************************)
Fairness ==
    /\ WF_vars(Send /\ UNCHANGED given)
    /\ WF_vars(StepTimeout /\ UNCHANGED given)
    /\ WF_vars(Interrupt /\ UNCHANGED given)

FairSpec == Spec /\ Fairness

------------------------------------------------------------------------------
(* What must hold. *)

TypeOK ==
    /\ pc \in {"send", "recv", "interrupt"} \cup Over
    /\ step \in Step
    /\ collector.reply \in {"none"} \cup ReplyStatus
    /\ collector.idle \in BOOLEAN
    /\ collector.clearNext \in BOOLEAN
    /\ \A i \in Step : result[i].status \in {"none", "ok", "failed"}
    /\ executing \in 0..NumSteps
    /\ aborting \in BOOLEAN
    /\ signal \in BOOLEAN
    /\ ended \in [Step -> {"no", "ok", "error", "interrupted", "aborted"}]
    /\ \A n \in DOMAIN queue : queue[n] \in Step
    /\ \A n \in DOMAIN iopub : iopub[n].type \in MessageTypes
    /\ \A n \in DOMAIN shell : shell[n].type = "execute_reply"

\* The outputs are the screen of the messages up to one of them, and what comes
\* after that one was printed late.
ShowsCode(outputs, messages) ==
    \E n \in 0..Len(messages) :
        /\ IsScreenOf(outputs, SubSeq(messages, 1, n))
        /\ \A p \in (n + 1)..Len(messages) : messages[p].value = Late

(***************************************************************************)
(* The result of a step that succeeded is all that its own code printed    *)
(* and did not clear, in order, however the reply overtakes the outputs    *)
(* and whatever earlier steps still print, and its code ended well.  What  *)
(* threads of the step print after its code has ended may or may not be in *)
(* it, but nothing is left out before something that is.                   *)
(***************************************************************************)
ResultIsComplete ==
    \A i \in Step :
        result[i].status = "ok" =>
            /\ ended[i] = "ok"
            /\ ShowsCode(result[i].outputs, published[i])

(***************************************************************************)
(* A failure is the step's own: what is recorded as an error of its code   *)
(* was raised by this code, not by an interrupt meant for another step.    *)
(* (Of commands that stop on errors: without that, an interrupt that is    *)
(* carried out late may hit the next step, and the kernel refuses a step   *)
(* that was queued behind the interrupted one.)                            *)
(***************************************************************************)
FailureIsOwn ==
    \A i \in Step :
        stopOnError /\ result[i].status = "failed" =>
            \/ result[i].error = "ExecutionTimeout"
            \/ result[i].error = "CodeExecutionError" /\ ended[i] = "error"

(***************************************************************************)
(* Steps run in the order of the command: no code begins before the code   *)
(* of the steps before it has ended, even when those were given up, and a  *)
(* command that stops on errors runs nothing after a failed step.          *)
(***************************************************************************)
StepsInOrder ==
    \A i, j \in Step : i < j /\ (executing = j \/ ended[j] = "ok") =>
        /\ ended[i] # "no"
        /\ result[i].status # "none"
        /\ stopOnError => result[i].status = "ok"

(***************************************************************************)
(* The session keeps its promise to ExecutionService: every step of it is  *)
(* a step of SequentialSteps, which knows no messages, or changes nothing  *)
(* there.                                                                  *)
(***************************************************************************)
Promise ==
    INSTANCE SequentialSteps WITH
        code    <- [i \in Step |-> IF ended[i] \in {"no", "ok"} THEN ended[i]
                                   ELSE "failed"],
        outcome <- [i \in Step |-> result[i].status],
        open    <- pc \notin Over

ImplementsSequentialSteps == Promise!Spec

\* Whatever the kernel does, the runner comes to an end.
SessionEnds == <>(pc \in Over)
==============================================================================
