------------------------ MODULE JupyterSessionProofs ------------------------
(***************************************************************************)
(* Steps of a command run in order, a result is all that the code of its   *)
(* step printed, a failure is the step's own, and a session keeps the      *)
(* promise that SequentialSteps states, for every number of steps, every   *)
(* code and every order in which messages, timeouts and interrupts arrive. *)
(***************************************************************************)
EXTENDS JupyterSteps, TLAPS

------------------------------------------------------------------------------
(* The collector. *)

Message == IOPubMessage \cup ShellMessage

\* A new collector is one, and a timeout is a result.
LEMMA NewTyped == NewCollector \in Collector /\ Timeout \in Result /\ NoResult \in Result
BY DEF NewCollector, Collector, Timeout, NoResult, Result, ErrorType

\* Collecting a message leaves a collector.
LEMMA CollectTyped ==
    ASSUME NEW c \in Collector, NEW request \in Step, NEW m \in Message
    PROVE  Collect(c, request, m) \in Collector
<1>1. CASE ~IsRelated(request, m)
    BY <1>1 DEF Collect
<1>2. CASE IsRelated(request, m) /\ m.type = "output"
    <2>1. m.value \in Datum
        BY <1>2 DEF Message, IOPubMessage, ShellMessage
    <2>2. c.outputs \in Seq(Datum)
        BY DEF Collector
    <2>3. Append(c.outputs, m.value) \in Seq(Datum) /\ <<m.value>> \in Seq(Datum)
        BY <2>1, <2>2
    <2>4. PICK s \in Seq(Datum) :
              CollectOutput(c, m.value) = [c EXCEPT !.outputs = s, !.clearNext = FALSE]
        BY <2>3 DEF CollectOutput
    <2>5. CollectOutput(c, m.value) \in Collector
        BY <2>4 DEF Collector
    <2>. QED  BY <1>2, <2>5 DEF Collect
<1>3. CASE IsRelated(request, m) /\ m.type = "clear_output"
    <2>1. <<>> \in Seq(Datum)
        OBVIOUS
    <2>2. [c EXCEPT !.clearNext = TRUE] \in Collector
        BY DEF Collector
    <2>3. [c EXCEPT !.outputs = <<>>] \in Collector
        BY <2>1 DEF Collector
    <2>. QED  BY <1>3, <2>2, <2>3 DEF Collect, CollectClear
<1>4. CASE IsRelated(request, m) /\ m.type = "error"
    <2>1. m.value \in Datum
        BY <1>4 DEF Message, IOPubMessage, ShellMessage
    <2>2. [c EXCEPT !.error = m.value] \in Collector
        BY <2>1 DEF Collector
    <2>. QED  BY <1>4, <2>2 DEF Collect
<1>5. CASE IsRelated(request, m) /\ m.type = "execute_reply"
    <2>1. m.value \in ReplyStatus
        BY <1>5 DEF Message, IOPubMessage, ShellMessage
    <2>2. CollectReply(c, m.value) \in Collector
        BY <2>1 DEF CollectReply, Collector, ErrorType
    <2>. QED  BY <1>5, <2>2 DEF Collect
<1>6. CASE IsRelated(request, m) /\ m.type = "status_idle"
    <2>1. [c EXCEPT !.idle = TRUE] \in Collector
        BY DEF Collector
    <2>. QED  BY <1>6, <2>1 DEF Collect
<1>7. m.type \in MessageTypes
    BY DEF Message, IOPubMessage, ShellMessage, MessageTypes
<1>. QED  BY <1>1, <1>2, <1>3, <1>4, <1>5, <1>6, <1>7 DEF MessageTypes

\* What is built from a complete collector is a result.
LEMMA BuildTyped ==
    ASSUME NEW c \in Collector
    PROVE  BuildResult(c) \in Result
BY DEF BuildResult, Collector, Result, ErrorType

------------------------------------------------------------------------------
(* Types. *)

\* The messages of the kernel are messages.
LEMMA MessagesTyped ==
    ASSUME NEW i \in Step
    PROVE  /\ \A v \in Datum : Output(i, v) \in IOPubMessage
           /\ \A wait \in BOOLEAN : Clear(i, wait) \in IOPubMessage
           /\ Error(i, "CodeExecutionError") \in IOPubMessage
           /\ Idle(i) \in IOPubMessage
           /\ \A s \in ReplyStatus : Reply(i, s) \in ShellMessage
BY DEF Output, Clear, Error, Idle, Reply, IOPubMessage, ShellMessage,
       MessageTypes, Datum

\* The end of code: what is appended to the channels.
LEMMA FinishTyped ==
    ASSUME Types, NEW i \in Step, NEW status \in {"ok", "error", "interrupted"},
           Finish(i, status)
    PROVE  /\ ended' \in [Step -> {"no", "ok", "error", "interrupted", "aborted"}]
           /\ executing' \in 0..NumSteps
           /\ aborting' \in BOOLEAN
           /\ iopub' \in Seq(IOPubMessage)
           /\ shell' \in Seq(ShellMessage)
<1>. USE DEF Finish
<1>1. ended' \in [Step -> {"no", "ok", "error", "interrupted", "aborted"}]
    BY DEF Types
<1>2. executing' \in 0..NumSteps /\ aborting' \in BOOLEAN
    BY SessionConstants
<1>3. <<Error(i, "CodeExecutionError"), Idle(i)>> \in Seq(IOPubMessage)
    BY MessagesTyped
<1>4. <<Idle(i)>> \in Seq(IOPubMessage)
    BY MessagesTyped
<1>5. iopub' \in Seq(IOPubMessage)
    BY <1>3, <1>4 DEF Types
<1>6. Reply(i, "error") \in ShellMessage /\ Reply(i, "ok") \in ShellMessage
    BY MessagesTyped DEF ReplyStatus
<1>7. shell' \in Seq(ShellMessage)
    BY <1>6 DEF Types
<1>. QED  BY <1>1, <1>2, <1>5, <1>7

\* An interrupt changes what the end of code changes, or nothing.
LEMMA InterruptedTyped ==
    ASSUME Types, Interrupted
    PROVE  /\ ended' \in [Step -> {"no", "ok", "error", "interrupted", "aborted"}]
           /\ executing' \in 0..NumSteps
           /\ aborting' \in BOOLEAN
           /\ iopub' \in Seq(IOPubMessage)
           /\ shell' \in Seq(ShellMessage)
<1>1. CASE executing # 0 /\ Finish(executing, "interrupted")
    <2>1. executing \in Step
        BY <1>1 DEF Types, Step
    <2>. QED  BY <1>1, <2>1, FinishTyped
<1>2. CASE UNCHANGED <<executing, aborting, ended, iopub, shell>>
    BY <1>2 DEF Types
<1>. QED  BY <1>1, <1>2 DEF Interrupted

\* The end of a step in the runner.
LEMMA StepDoneTyped ==
    ASSUME Types, NEW r \in Result, StepDone(r)
    PROVE  /\ pc' \in {"send", "recv", "interrupt"} \cup Over
           /\ step' \in Step
           /\ collector' \in Collector
           /\ result' \in [Step -> Result]
<1>. USE DEF StepDone
<1>1. pc' \in {"send", "recv", "interrupt"} \cup Over
    BY DEF Over
<1>2. step' \in Step
    BY SessionConstants DEF Types, Step
<1>3. collector' \in Collector
    BY NewTyped
<1>4. result' \in [Step -> Result]
    BY DEF Types
<1>. QED  BY <1>1, <1>2, <1>3, <1>4

\* A message received, of either channel.
LEMMA ReceiveTyped ==
    ASSUME Types, NEW m \in Message, Receive(m)
    PROVE  /\ pc' \in {"send", "recv", "interrupt"} \cup Over
           /\ step' \in Step
           /\ collector' \in Collector
           /\ result' \in [Step -> Result]
<1>. DEFINE c == Collect(collector, step, m)
<1>1. c \in Collector
    BY CollectTyped DEF Types
<1>2. BuildResult(c) \in Result
    BY <1>1, BuildTyped
<1>3. CASE StepDone(BuildResult(c))
    BY <1>2, <1>3, StepDoneTyped
<1>4. CASE collector' = c /\ UNCHANGED <<pc, step, result>>
    BY <1>1, <1>4 DEF Types
<1>. QED  BY <1>3, <1>4 DEF Receive

\* The code that runs is that of a step.
LEMMA RunningStep ==
    ASSUME Types, Running
    PROVE  executing \in Step
BY DEF Types, Running, Step

\* What is printed changes nothing but the channel and the record of it.
LEMMA PrintsAlone ==
    ASSUME KernelPublishes \/ ThreadPrints
    PROVE  UNCHANGED <<pc, step, collector, result, queue, executing, aborting,
                       signal, ended, shell>>
<1>1. ASSUME NEW i, NEW m, Publish(i, m)
      PROVE  UNCHANGED <<runnerVars, queue, executing, aborting, signal, ended, shell>>
    BY <1>1, Zenon DEF Publish
<1>2. UNCHANGED <<runnerVars, queue, executing, aborting, signal, ended, shell>>
    BY <1>1, Zenon DEF KernelPublishes, ThreadPrints
<1>. QED  BY <1>2 DEF runnerVars

\* A message is printed by the code that runs, or later by a thread of a step.
LEMMA PrintEffect ==
    ASSUME Types, KernelPublishes \/ ThreadPrints
    PROVE  \E e \in Step, m \in IOPubMessage :
              /\ m.parent = e
              /\ \/ m.type = "output"
                 \/ m.type = "clear_output" /\ m.value \in {"wait", "now"}
              /\ \/ KernelPublishes /\ executing = e
                 \/ ThreadPrints /\ ended[e] # "no" /\ m.value = Late
              /\ published' = [published EXCEPT ![e] = Append(published[e], m)]
              /\ iopub' = Append(iopub, m)
<1>1. ASSUME NEW i, NEW m, Publish(i, m)
      PROVE  /\ published' = [published EXCEPT ![i] = Append(published[i], m)]
             /\ iopub' = Append(iopub, m)
    BY <1>1, Zenon DEF Publish
<1>2. CASE KernelPublishes
    <2>1. PICK m \in {Output(executing, v) : v \in Values}
                       \cup {Clear(executing, wait) : wait \in BOOLEAN} :
              Publish(executing, m)
        BY <1>2, Zenon DEF KernelPublishes
    <2>2. executing \in Step
        BY <1>2, RunningStep, Zenon DEF KernelPublishes
    <2>3. m \in IOPubMessage
        BY <2>2, MessagesTyped DEF Datum
    <2>4. /\ m.parent = executing
          /\ \/ m.type = "output"
             \/ m.type = "clear_output" /\ m.value \in {"wait", "now"}
        BY DEF Output, Clear
    <2>. QED  BY <1>1, <1>2, <2>1, <2>2, <2>3, <2>4
<1>3. CASE ThreadPrints
    <2>1. PICK i \in Step : /\ ended[i] \notin {"no", "aborted"}
                            /\ Publish(i, Output(i, Late))
        BY <1>3, Zenon DEF ThreadPrints
    <2>2. Output(i, Late) \in IOPubMessage
        BY MessagesTyped DEF Datum
    <2>3. /\ Output(i, Late).parent = i /\ Output(i, Late).type = "output"
          /\ Output(i, Late).value = Late
        BY DEF Output
    <2>. QED  BY <1>1, <1>3, <2>1, <2>2, <2>3
<1>. QED  BY <1>2, <1>3

\* Every action keeps the types.
LEMMA TypesKept ==
    ASSUME Types, [Next]_vars
    PROVE  Types'
<1>. USE DEF Types
<1>0. CASE UNCHANGED vars
    BY <1>0 DEF vars, given, runnerVars, kernelVars
<1>1. CASE Send /\ UNCHANGED given
    <2>1. Append(queue, step) \in Seq(Step)
        OBVIOUS
    <2>. QED  BY <1>1, <2>1 DEF Send, given, Over
<1>2. CASE RecvIOPub /\ UNCHANGED given
    <2>1. Head(iopub) \in Message /\ Tail(iopub) \in Seq(IOPubMessage)
        BY <1>2 DEF RecvIOPub, Message
    <2>2. /\ pc' \in {"send", "recv", "interrupt"} \cup Over
          /\ step' \in Step
          /\ collector' \in Collector
          /\ result' \in [Step -> Result]
        BY <1>2, <2>1, ReceiveTyped DEF RecvIOPub
    <2>. QED  BY <1>2, <2>1, <2>2 DEF RecvIOPub, given, kernelVars
<1>3. CASE RecvShell /\ UNCHANGED given
    <2>1. Head(shell) \in Message /\ Tail(shell) \in Seq(ShellMessage)
        BY <1>3 DEF RecvShell, Message
    <2>2. /\ pc' \in {"send", "recv", "interrupt"} \cup Over
          /\ step' \in Step
          /\ collector' \in Collector
          /\ result' \in [Step -> Result]
        BY <1>3, <2>1, ReceiveTyped DEF RecvShell
    <2>. QED  BY <1>3, <2>1, <2>2 DEF RecvShell, given, kernelVars
<1>4. CASE StepTimeout /\ UNCHANGED given
    BY <1>4 DEF StepTimeout, given, kernelVars
<1>5. CASE Interrupt /\ UNCHANGED given
    <2>1. StepDone(Timeout) /\ UNCHANGED <<queue, published>> /\ UNCHANGED given
        BY <1>5 DEF Interrupt
    <2>2. /\ pc' \in {"send", "recv", "interrupt"} \cup Over
          /\ step' \in Step
          /\ collector' \in Collector
          /\ result' \in [Step -> Result]
        BY <2>1, NewTyped, StepDoneTyped
    <2>3. CASE Interrupted /\ UNCHANGED signal
        BY <2>1, <2>2, <2>3, InterruptedTyped DEF given
    <2>4. CASE signal' = TRUE /\ UNCHANGED <<executing, aborting, ended, iopub, shell>>
        BY <2>1, <2>2, <2>4 DEF given
    <2>. QED  BY <1>5, <2>3, <2>4 DEF Interrupt
<1>6. CASE Disconnect /\ UNCHANGED given
    BY <1>6 DEF Disconnect, given, kernelVars, Over
<1>7. CASE KernelBegins /\ UNCHANGED given
    <2>1. Head(queue) \in Step /\ Tail(queue) \in Seq(Step)
        BY <1>7 DEF KernelBegins
    <2>2. Head(queue) \in 0..NumSteps
        BY <2>1, SessionConstants DEF Step
    <2>. QED  BY <1>7, <2>1, <2>2 DEF KernelBegins, given, runnerVars
<1>8. CASE (KernelPublishes \/ ThreadPrints) /\ UNCHANGED given
    <2>1. PICK e \in Step, m \in IOPubMessage :
              /\ published' = [published EXCEPT ![e] = Append(published[e], m)]
              /\ iopub' = Append(iopub, m)
        BY <1>8, PrintEffect
    <2>. QED  BY <1>8, <2>1, PrintsAlone DEF given
<1>10. CASE CodeEnds /\ UNCHANGED given
    <2>1. executing \in Step
        BY <1>10 DEF CodeEnds, Running, Step
    <2>2. PICK status \in {"ok", "error"} : Finish(executing, status)
        BY <1>10 DEF CodeEnds
    <2>. QED  BY <1>10, <2>1, <2>2, FinishTyped DEF CodeEnds, given, runnerVars
<1>11. CASE KernelAborts /\ UNCHANGED given
    <2>1. Head(queue) \in Step /\ Tail(queue) \in Seq(Step)
        BY <1>11 DEF KernelAborts
    <2>2. /\ Reply(Head(queue), "aborted") \in ShellMessage
          /\ Idle(Head(queue)) \in IOPubMessage
        BY <2>1, MessagesTyped DEF ReplyStatus
    <2>. QED  BY <1>11, <2>1, <2>2 DEF KernelAborts, given, runnerVars
<1>12. CASE KernelStopsAborting /\ UNCHANGED given
    BY <1>12 DEF KernelStopsAborting, given, runnerVars
<1>13. CASE LateInterrupt /\ UNCHANGED given
    BY <1>13, InterruptedTyped DEF LateInterrupt, given, runnerVars
<1>. QED
    BY <1>0, <1>1, <1>2, <1>3, <1>4, <1>5, <1>6, <1>7, <1>8, <1>10,
       <1>11, <1>12, <1>13 DEF Next, RunnerStep

------------------------------------------------------------------------------
(* The order of the requests. *)

\* The end of code, or an interrupt, takes no request.
LEMMA FinishTaken ==
    ASSUME Types, NEW n \in Nat, NEW t \in Nat, Taken(n, t), executing # 0,
           NEW status \in {"ok", "error", "interrupted"},
           Finish(executing, status), queue' = queue
    PROVE  Taken(n, t)'
<1>1. executing = t /\ executing' = 0
    BY DEF Taken, Finish
<1>2. ended' = [ended EXCEPT ![t] = status]
    BY <1>1 DEF Finish
<1>3. ASSUME NEW j \in Step
      PROVE  ended'[j] = "no" <=> j > t
    <2>1. ended[j] = "no" <=> j > t \/ j = t
        BY <1>1 DEF Taken
    <2>2. CASE j = t
        BY <1>2, <2>2 DEF Types, Step
    <2>3. CASE j # t
        BY <1>2, <2>1, <2>3 DEF Types
    <2>. QED  BY <2>2, <2>3
<1>4. \A j \in Step : j # 0
    BY DEF Step
<1>. QED  BY <1>1, <1>3, <1>4 DEF Taken

LEMMA InterruptedTaken ==
    ASSUME Types, NEW n \in Nat, NEW t \in Nat, Taken(n, t),
           Interrupted, queue' = queue
    PROVE  Taken(n, t)'
<1>1. CASE executing # 0 /\ Finish(executing, "interrupted")
    BY <1>1, FinishTaken
<1>2. CASE UNCHANGED <<executing, aborting, ended, iopub, shell>>
    BY <1>2 DEF Taken
<1>. QED  BY <1>1, <1>2 DEF Interrupted

\* The runner goes on, or ends, only with the request of its step.
LEMMA StepDoneSent ==
    ASSUME Types, NEW n \in Nat, Sent(n), pc \in {"recv", "interrupt"},
           NEW r, StepDone(r)
    PROVE  Sent(n)'
<1>1. n = step
    BY DEF Sent
<1>2. CASE pc' = "closed" /\ UNCHANGED step
    BY <1>1, <1>2 DEF Sent
<1>3. CASE pc' = "send" /\ step' = step + 1
    BY <1>1, <1>3 DEF Sent, Types, Step
<1>. QED  BY <1>2, <1>3 DEF StepDone

LEMMA ReceiveSent ==
    ASSUME Types, NEW n \in Nat, Sent(n), pc = "recv", NEW m, Receive(m)
    PROVE  Sent(n)'
<1>. DEFINE c == Collect(collector, step, m)
<1>1. CASE StepDone(BuildResult(c))
    BY <1>1, StepDoneSent
<1>2. CASE UNCHANGED <<pc, step, result>>
    BY <1>2 DEF Sent
<1>. QED  BY <1>1, <1>2 DEF Receive

\* The kernel takes the request at the head of its queue.
LEMMA TakenNext ==
    ASSUME Types, NEW n \in 0..NumSteps, NEW t \in Nat, Taken(n, t),
           executing = 0, queue # <<>>
    PROVE  /\ Head(queue) = t + 1
           /\ t + 1 \in Step
           /\ t + 1 <= n
           /\ n = (t + 1) + Len(Tail(queue))
           /\ \A k \in DOMAIN Tail(queue) : Tail(queue)[k] = (t + 1) + k
           /\ \A j \in Step : ended[j] = "no" <=> j > t
<1>. USE DEF Taken
<1>1. Len(queue) \in Nat /\ Len(queue) > 0 /\ Len(Tail(queue)) = Len(queue) - 1
    BY DEF Types
<1>2. Head(queue) = queue[1] /\ 1 \in DOMAIN queue
    BY <1>1 DEF Types
<1>3. \A k \in DOMAIN Tail(queue) : k \in Nat /\ Tail(queue)[k] = queue[k + 1]
                                     /\ k + 1 \in DOMAIN queue
    BY <1>1 DEF Types
<1>4. \A j \in Step : j # 0
    BY DEF Step
<1>. QED  BY <1>1, <1>2, <1>3, <1>4, SessionConstants DEF Step

\* Every action keeps the order of the requests.
LEMMA KernelKept ==
    ASSUME Types, Types', KernelInv, aborting => executing = 0, [Next]_vars
    PROVE  KernelInv'
<1>1. PICK n \in 0..NumSteps, t \in 0..NumSteps : Sent(n) /\ Taken(n, t)
    BY DEF KernelInv
<1>2. SUFFICES \E a \in 0..NumSteps, b \in 0..NumSteps : Sent(a)' /\ Taken(a, b)'
    BY DEF KernelInv
<1>3. n \in Nat /\ t \in Nat
    BY SessionConstants
<1>4. ASSUME UNCHANGED <<pc, step>>
      PROVE  Sent(n)'
    BY <1>1, <1>4 DEF Sent
<1>5. ASSUME UNCHANGED <<queue, executing, ended>>
      PROVE  Taken(n, t)'
    BY <1>1, <1>5 DEF Taken
<1>10. CASE UNCHANGED vars
    BY <1>1, <1>4, <1>5, <1>10 DEF vars, runnerVars, kernelVars
<1>11. CASE Send
    <2>1. n = step - 1
        BY <1>1, <1>11 DEF Send, Sent
    <2>2. CASE Encodable
        <3>1. pc' = "recv" /\ queue' = Append(queue, step) /\ step' = step
              /\ executing' = executing /\ ended' = ended
            BY <1>11, <2>2 DEF Send
        <3>2. n + 1 \in 0..NumSteps /\ step = n + 1
            BY <2>1, <1>3 DEF Types, Step
        <3>3. Sent(n + 1)'
            BY <3>1, <3>2 DEF Sent
        <3>4. Len(queue') = Len(queue) + 1 /\ Len(queue) \in Nat
            BY <3>1 DEF Types
        <3>5. \A k \in DOMAIN queue' : queue'[k] = t + k
            <4>1. TAKE k \in DOMAIN queue'
            <4>2. CASE k \in DOMAIN queue
                BY <1>1, <3>1, <4>2 DEF Taken, Types
            <4>3. CASE k = Len(queue) + 1
                BY <1>1, <1>3, <3>1, <3>2, <3>4, <4>3 DEF Taken, Types
            <4>. QED  BY <3>1, <4>2, <4>3, SMTT(30) DEF Types
        <3>6. Taken(n + 1, t)'
            BY <1>1, <1>3, <3>1, <3>2, <3>4, <3>5 DEF Taken
        <3>. QED  BY <3>2, <3>3, <3>6
    <2>3. CASE ~Encodable
        <3>1. pc' = "unsendable" /\ UNCHANGED <<step, queue, executing, ended>>
            BY <1>11, <2>3 DEF Send
        <3>2. Sent(n)'
            BY <1>1, <2>1, <3>1 DEF Sent
        <3>. QED  BY <1>5, <3>1, <3>2
    <2>. QED  BY <2>2, <2>3
<1>12. CASE RecvIOPub \/ RecvShell
    <2>1. PICK m : pc = "recv" /\ Receive(m) /\ UNCHANGED kernelVars
        BY <1>12 DEF RecvIOPub, RecvShell
    <2>2. Sent(n)'
        BY <1>1, <1>3, <2>1, ReceiveSent
    <2>. QED  BY <1>5, <2>1, <2>2 DEF kernelVars
<1>13. CASE StepTimeout
    BY <1>1, <1>5, <1>13 DEF StepTimeout, kernelVars, Sent
<1>14. CASE Interrupt
    <2>1. Sent(n)'
        BY <1>1, <1>3, <1>14, StepDoneSent DEF Interrupt
    <2>2. Taken(n, t)'
        BY <1>1, <1>3, <1>5, <1>14, InterruptedTaken DEF Interrupt
    <2>. QED  BY <2>1, <2>2
<1>15. CASE Disconnect
    BY <1>1, <1>5, <1>15 DEF Disconnect, kernelVars, Sent
<1>16. CASE KernelBegins
    <2>1. /\ executing' = Head(queue) /\ queue' = Tail(queue)
          /\ UNCHANGED <<pc, step, ended>>
        BY <1>16 DEF KernelBegins, runnerVars
    <2>2. /\ Head(queue) = t + 1
          /\ t + 1 \in Step
          /\ n = (t + 1) + Len(Tail(queue))
          /\ \A k \in DOMAIN Tail(queue) : Tail(queue)[k] = (t + 1) + k
          /\ \A j \in Step : ended[j] = "no" <=> j > t
        BY <1>1, <1>3, <1>16, TakenNext DEF KernelBegins
    <2>3. \A j \in Step : ended'[j] = "no" <=> j > t + 1 \/ j = executing'
        BY <1>3, <2>1, <2>2 DEF Step
    <2>4. Taken(n, t + 1)'
        BY <1>3, <2>1, <2>2, <2>3 DEF Taken
    <2>5. t + 1 \in 0..NumSteps
        BY <2>2 DEF Step
    <2>. QED  BY <1>4, <2>1, <2>4, <2>5
<1>17. CASE KernelPublishes \/ ThreadPrints
    BY <1>4, <1>5, <1>17, PrintsAlone
<1>19. CASE CodeEnds
    <2>1. executing # 0 /\ UNCHANGED <<pc, step, queue>>
        BY <1>19 DEF CodeEnds, Running, runnerVars
    <2>2. Taken(n, t)'
        BY <1>1, <1>3, <1>19, <2>1, FinishTaken DEF CodeEnds
    <2>. QED  BY <1>4, <2>1, <2>2
<1>20. CASE KernelAborts
    <2>1. /\ executing = 0 /\ executing' = 0 /\ queue' = Tail(queue)
          /\ ended' = [ended EXCEPT ![Head(queue)] = "aborted"]
          /\ UNCHANGED <<pc, step>>
        BY <1>20 DEF KernelAborts, runnerVars
    <2>2. /\ Head(queue) = t + 1
          /\ t + 1 \in Step
          /\ n = (t + 1) + Len(Tail(queue))
          /\ \A k \in DOMAIN Tail(queue) : Tail(queue)[k] = (t + 1) + k
          /\ \A j \in Step : ended[j] = "no" <=> j > t
        BY <1>1, <1>3, <1>20, <2>1, TakenNext DEF KernelAborts
    <2>3. \A j \in Step : ended'[j] = "no" <=> j > t + 1 \/ j = executing'
        BY <1>3, <2>1, <2>2, SMTT(30) DEF Step, Types
    <2>4. Taken(n, t + 1)'
        BY <1>3, <2>1, <2>2, <2>3 DEF Taken
    <2>5. t + 1 \in 0..NumSteps
        BY <2>2 DEF Step
    <2>. QED  BY <1>4, <2>1, <2>4, <2>5
<1>21. CASE KernelStopsAborting
    BY <1>4, <1>5, <1>21 DEF KernelStopsAborting, runnerVars
<1>22. CASE LateInterrupt
    BY <1>1, <1>3, <1>4, <1>22, InterruptedTaken DEF LateInterrupt, runnerVars
<1>. QED
    BY <1>10, <1>11, <1>12, <1>13, <1>14, <1>15, <1>16, <1>17, <1>19,
       <1>20, <1>21, <1>22 DEF Next, RunnerStep

------------------------------------------------------------------------------
(* What the runner records. *)

\* Where the kernel is, seen from the step of the runner.
LEMMA KernelFacts ==
    ASSUME Types, KernelInv
    PROVE  /\ executing # 0 =>
                /\ executing \in Step
                /\ executing <= step
                /\ queue # <<>> => executing < step
                /\ ended[executing] = "no"
                /\ \A j \in Step : j < executing => ended[j] # "no"
           /\ queue # <<>> =>
                /\ Head(queue) \in Step
                /\ Head(queue) <= step
                /\ ended[Head(queue)] = "no"
                /\ executing = 0 => \A j \in Step : j < Head(queue) => ended[j] # "no"
           /\ \A j \in Step : j > step => ended[j] = "no"
           /\ pc \in {"send", "unsendable"} => ended[step] = "no" /\ executing # step
<1>1. PICK n \in 0..NumSteps, t \in 0..NumSteps : Sent(n) /\ Taken(n, t)
    BY DEF KernelInv
<1>2. n <= step /\ n \in Nat /\ t \in Nat /\ step \in Nat /\ step <= NumSteps
    BY <1>1 DEF Sent, Types, Step
<1>3. Len(queue) \in Nat /\ (queue # <<>> => Len(queue) > 0 /\ Head(queue) = queue[1])
    BY DEF Types
<1>4. t <= n /\ n = t + Len(queue)
    BY <1>1, <1>2, <1>3 DEF Taken
<1>5. ASSUME executing # 0
      PROVE  /\ executing \in Step
             /\ executing <= step
             /\ queue # <<>> => executing < step
             /\ ended[executing] = "no"
             /\ \A j \in Step : j < executing => ended[j] # "no"
    <2>1. executing = t /\ executing \in Step
        BY <1>1, <1>5 DEF Taken, Types, Step
    <2>. QED  BY <1>1, <1>2, <1>3, <1>4, <2>1 DEF Taken, Step
<1>6. ASSUME queue # <<>>
      PROVE  /\ Head(queue) \in Step
             /\ Head(queue) <= step
             /\ ended[Head(queue)] = "no"
             /\ executing = 0 => \A j \in Step : j < Head(queue) => ended[j] # "no"
    <2>1. Head(queue) = t + 1 /\ t + 1 <= n
        BY <1>1, <1>2, <1>3, <1>4, <1>6 DEF Taken, Types
    <2>2. Head(queue) \in Step
        BY <1>2, <2>1, SessionConstants DEF Step
    <2>. QED  BY <1>1, <1>2, <2>1, <2>2 DEF Taken, Step
<1>7. \A j \in Step : j > step => ended[j] = "no"
    BY <1>1, <1>2, <1>4 DEF Taken, Step
<1>8. ASSUME pc \in {"send", "unsendable"}
      PROVE  ended[step] = "no" /\ executing # step
    <2>1. n = step - 1
        BY <1>1, <1>8 DEF Sent
    <2>2. step > t
        BY <1>2, <1>4, <2>1
    <2>. QED  BY <1>1, <1>2, <2>2 DEF Taken, Types, Step
<1>. QED  BY <1>5, <1>6, <1>7, <1>8

\* How code has ended is not taken back.
LEMMA EndedStays ==
    ASSUME Types, KernelInv, [Next]_vars
    PROVE  \A j \in Step : ended[j] # "no" => ended'[j] = ended[j]
<1>1. ASSUME NEW status, executing # 0, Finish(executing, status)
      PROVE  \A j \in Step : ended[j] # "no" => ended'[j] = ended[j]
    BY <1>1, KernelFacts DEF Finish, Types
<1>2. ASSUME Interrupted
      PROVE  \A j \in Step : ended[j] # "no" => ended'[j] = ended[j]
    BY <1>1, <1>2 DEF Interrupted
<1>3. CASE CodeEnds
    BY <1>1, <1>3 DEF CodeEnds, Running
<1>4. CASE LateInterrupt
    BY <1>2, <1>4 DEF LateInterrupt
<1>5. CASE Interrupt
    BY <1>2, <1>5 DEF Interrupt
<1>6. CASE KernelAborts
    BY <1>6, KernelFacts DEF KernelAborts, Types
<1>7. CASE KernelPublishes \/ ThreadPrints
    BY <1>7, PrintsAlone
<1>8. CASE \/ UNCHANGED vars
           \/ Send \/ RecvIOPub \/ RecvShell \/ StepTimeout \/ Disconnect
           \/ KernelBegins \/ KernelStopsAborting
    <2>1. ended' = ended
        BY <1>8 DEF vars, kernelVars, Send, RecvIOPub, RecvShell, StepTimeout,
            Disconnect, KernelBegins, KernelStopsAborting
    <2>. QED  BY <2>1
<1>. QED
    BY <1>3, <1>4, <1>5, <1>6, <1>7, <1>8 DEF Next, RunnerStep

\* What the runner does: it receives, gives up, or moves between its awaits.
LEMMA RunnerEffect ==
    ASSUME [Next]_vars
    PROVE  \/ /\ UNCHANGED <<step, collector, result>>
              /\ pc' = "closed" <=> pc = "closed"
              /\ pc' = "send" => pc = "send"
              /\ pc' = "recv" => pc \in {"send", "recv"}
           \/ /\ pc = "recv"
              /\ UNCHANGED kernelVars
              /\ \/ /\ iopub # <<>> /\ Receive(Head(iopub))
                    /\ iopub' = Tail(iopub) /\ shell' = shell
                 \/ /\ shell # <<>> /\ Receive(Head(shell))
                    /\ shell' = Tail(shell) /\ iopub' = iopub
           \/ Interrupt
<1>1. CASE UNCHANGED vars
    BY <1>1 DEF vars, runnerVars
<1>2. CASE Send \/ StepTimeout \/ Disconnect
    BY <1>2 DEF Send, StepTimeout, Disconnect
<1>3. CASE RecvIOPub \/ RecvShell
    BY <1>3 DEF RecvIOPub, RecvShell
<1>4. CASE KernelPublishes \/ ThreadPrints
    BY <1>4, PrintsAlone
<1>5. CASE KernelBegins \/ CodeEnds \/ KernelAborts
           \/ KernelStopsAborting \/ LateInterrupt
    BY <1>5 DEF KernelBegins, CodeEnds, KernelAborts,
                KernelStopsAborting, LateInterrupt, runnerVars
<1>. QED
    BY <1>1, <1>2, <1>3, <1>4, <1>5, Zenon DEF Next, RunnerStep

\* stop_on_error does not change.
LEMMA GivenStays ==
    ASSUME [Next]_vars
    PROVE  stopOnError' = stopOnError /\ protocol' = protocol
<1>1. ([Next]_vars) => UNCHANGED given
    BY Zenon DEF Next, vars
<1>. QED  BY <1>1 DEF given

\* Collecting keeps a collector's reply and error true to its request.
LEMMA CollectTells ==
    ASSUME NEW c \in Collector, NEW request \in Step, NEW m \in Message, NEW end,
           Tells(c.reply, end),
           c.reply = "error" => c.error = "CodeExecutionError",
           m.type = "error" => m.value = "CodeExecutionError",
           m.type = "execute_reply" /\ m.parent = request => Tells(m.value, end)
    PROVE  /\ Tells(Collect(c, request, m).reply, end)
           /\ Collect(c, request, m).reply = "error" =>
                Collect(c, request, m).error = "CodeExecutionError"
<1>1. CASE ~IsRelated(request, m)
    BY <1>1 DEF Collect
<1>2. CASE IsRelated(request, m) /\ m.type = "output"
    <2>1. /\ CollectOutput(c, m.value).reply = c.reply
          /\ CollectOutput(c, m.value).error = c.error
        BY DEF CollectOutput, Collector
    <2>. QED  BY <1>2, <2>1 DEF Collect
<1>3. CASE IsRelated(request, m) /\ m.type = "clear_output"
    <2>1. /\ CollectClear(c, m.value).reply = c.reply
          /\ CollectClear(c, m.value).error = c.error
        BY DEF CollectClear, Collector
    <2>. QED  BY <1>3, <2>1 DEF Collect
<1>4. CASE IsRelated(request, m) /\ m.type = "error"
    <2>1. /\ [c EXCEPT !.error = m.value].reply = c.reply
          /\ [c EXCEPT !.error = m.value].error = m.value
        BY DEF Collector
    <2>. QED  BY <1>4, <2>1 DEF Collect
<1>5. CASE IsRelated(request, m) /\ m.type = "execute_reply"
    <2>1. /\ CollectReply(c, m.value).reply = m.value
          /\ m.value = "error" => CollectReply(c, m.value).error = "CodeExecutionError"
        BY DEF CollectReply, Collector
    <2>. QED  BY <1>5, <2>1 DEF Collect, IsRelated
<1>6. CASE IsRelated(request, m) /\ m.type = "status_idle"
    <2>1. /\ [c EXCEPT !.idle = TRUE].reply = c.reply
          /\ [c EXCEPT !.idle = TRUE].error = c.error
        BY DEF Collector
    <2>. QED  BY <1>6, <2>1 DEF Collect
<1>7. m.type \in MessageTypes
    BY DEF Message, IOPubMessage, ShellMessage, MessageTypes
<1>. QED  BY <1>1, <1>2, <1>3, <1>4, <1>5, <1>6, <1>7 DEF MessageTypes

\* What the runner does with a message: the step is done, or goes on.
LEMMA ReceiveEffect ==
    ASSUME Types, ReplyInv, NEW m \in Message, Receive(m),
           \/ iopub # <<>> /\ m = Head(iopub)
           \/ shell # <<>> /\ m = Head(shell)
    PROVE  \E c \in Collector :
             /\ c = Collect(collector, step, m)
             /\ Tells(c.reply, ended[step])
             /\ c.reply = "error" => c.error = "CodeExecutionError"
             /\ \/ IsComplete(c) /\ StepDone(BuildResult(c))
                \/ collector' = c /\ UNCHANGED <<pc, step, result>>
<1>. DEFINE c == Collect(collector, step, m)
<1>1. collector \in Collector /\ step \in Step
    BY DEF Types
<1>2. /\ m.type = "error" => m.value = "CodeExecutionError"
      /\ m.type = "execute_reply" /\ m.parent = step => Tells(m.value, ended[step])
    <2>1. CASE iopub # <<>> /\ m = Head(iopub)
        <3>1. 1 \in DOMAIN iopub /\ m = iopub[1] /\ m \in IOPubMessage
            BY <2>1 DEF Types
        <3>2. m.type # "execute_reply"
            BY <3>1 DEF IOPubMessage
        <3>. QED  BY <3>1, <3>2 DEF ReplyInv
    <2>2. CASE shell # <<>> /\ m = Head(shell)
        <3>1. 1 \in DOMAIN shell /\ m = shell[1] /\ m \in ShellMessage
            BY <2>2 DEF Types
        <3>2. m.type = "execute_reply"
            BY <3>1 DEF ShellMessage
        <3>. QED  BY <3>1, <3>2 DEF ReplyInv
    <2>. QED  BY <2>1, <2>2
<1>3. c \in Collector
    BY <1>1, CollectTyped
<1>4. Tells(c.reply, ended[step]) /\ (c.reply = "error" => c.error = "CodeExecutionError")
    BY <1>1, <1>2, CollectTells DEF ReplyInv
<1>5. \/ IsComplete(c) /\ StepDone(BuildResult(c))
      \/ collector' = c /\ UNCHANGED <<pc, step, result>>
    BY DEF Receive
<1>. QED  BY <1>3, <1>4, <1>5

\* The end of a step keeps the record of the results.
LEMMA StepDoneRecords ==
    ASSUME Types, RunnerInv, NEW r \in Result, r.status \in {"ok", "failed"},
           r.status = "ok" => ended[step] = "ok",
           pc \in {"recv", "interrupt"}, StepDone(r), stopOnError' = stopOnError,
           \A j \in Step : ended[j] # "no" => ended'[j] = ended[j]
    PROVE  RunnerInv'
<1>1. step \in Step /\ result' = [result EXCEPT ![step] = r] /\ step \in Nat
    BY DEF Types, StepDone, Step
<1>2. \A j \in Step : result'[j] = IF j = step THEN r ELSE result[j]
    BY <1>1 DEF Types
<1>3. \A j \in Step : result'[j].status # "none" <=> j <= step
    BY <1>1, <1>2 DEF RunnerInv, Step
<1>4. \A j \in Step : result'[j].status = "ok" => ended'[j] = "ok"
    BY <1>1, <1>2 DEF RunnerInv
<1>5. CASE pc' = "closed" /\ UNCHANGED step
    <2>1. \A j \in Step : result'[j].status # "none" <=> j < step' \/ (j = step' /\ pc' = "closed")
        BY <1>1, <1>3, <1>5 DEF Step
    <2>2. stopOnError' => \A j \in Step : j < step' => result'[j].status = "ok"
        BY <1>2, <1>5 DEF RunnerInv, Step
    <2>. QED  BY <1>4, <1>5, <2>1, <2>2 DEF RunnerInv
<1>6. CASE pc' = "send" /\ step' = step + 1 /\ ~(r.status = "failed" /\ stopOnError)
    <2>1. \A j \in Step : result'[j].status # "none" <=> j < step' \/ (j = step' /\ pc' = "closed")
        BY <1>1, <1>3, <1>6 DEF Step
    <2>2. stopOnError' => \A j \in Step : j < step' => result'[j].status = "ok"
        BY <1>1, <1>2, <1>6 DEF RunnerInv, Step
    <2>3. collector' = NewCollector
        BY DEF StepDone
    <2>. QED  BY <1>4, <2>1, <2>2, <2>3 DEF RunnerInv, NewCollector
<1>. QED  BY <1>5, <1>6 DEF StepDone

\* Every action keeps the record of the results.
LEMMA RunnerKept ==
    ASSUME Types, KernelInv, RunnerInv, ReplyInv, [Next]_vars
    PROVE  RunnerInv'
<1>1. \A j \in Step : ended[j] # "no" => ended'[j] = ended[j]
    BY EndedStays
<1>2. stopOnError' = stopOnError
    BY GivenStays
<1>3. CASE /\ UNCHANGED <<step, collector, result>>
           /\ pc' = "closed" <=> pc = "closed"
           /\ pc' = "send" => pc = "send"
    <2>1. \A j \in Step : /\ result'[j].status # "none" <=> j < step' \/ (j = step' /\ pc' = "closed")
                          /\ result'[j].status = "ok" => ended'[j] = "ok"
        BY <1>1, <1>3 DEF RunnerInv
    <2>2. stopOnError' => \A j \in Step : j < step' => result'[j].status = "ok"
        BY <1>2, <1>3 DEF RunnerInv
    <2>3. pc' = "send" => collector' = NewCollector'
        BY <1>3 DEF RunnerInv, NewCollector
    <2>. QED  BY <2>1, <2>2, <2>3 DEF RunnerInv
<1>4. ASSUME NEW m \in Message, Receive(m), pc = "recv", UNCHANGED kernelVars,
             \/ iopub # <<>> /\ m = Head(iopub)
             \/ shell # <<>> /\ m = Head(shell)
      PROVE  RunnerInv'
    <2>1. PICK c \in Collector :
              /\ Tells(c.reply, ended[step])
              /\ \/ IsComplete(c) /\ StepDone(BuildResult(c))
                 \/ collector' = c /\ UNCHANGED <<pc, step, result>>
        BY <1>4, ReceiveEffect
    <2>2. CASE StepDone(BuildResult(c))
        <3>1. BuildResult(c) \in Result
            BY BuildTyped
        <3>2. /\ BuildResult(c).status \in {"ok", "failed"}
              /\ BuildResult(c).status = "ok" => ended[step] = "ok"
            BY <2>1 DEF BuildResult, Tells
        <3>. QED  BY <1>1, <1>2, <1>4, <2>2, <3>1, <3>2, StepDoneRecords
    <2>3. CASE UNCHANGED <<pc, step, result>>
        BY <1>1, <1>2, <1>4, <2>3 DEF RunnerInv
    <2>. QED  BY <2>1, <2>2, <2>3
<1>5. iopub # <<>> => Head(iopub) \in Message
    BY DEF Types, Message
<1>6. shell # <<>> => Head(shell) \in Message
    BY DEF Types, Message
<1>7. CASE Interrupt
    <2>1. /\ Timeout.status \in {"ok", "failed"} /\ Timeout.status # "ok"
          /\ Timeout \in Result
        BY NewTyped DEF Timeout
    <2>. QED  BY <1>1, <1>2, <1>7, <2>1, StepDoneRecords DEF Interrupt
<1>. QED  BY <1>3, <1>4, <1>5, <1>6, <1>7, RunnerEffect

------------------------------------------------------------------------------
(* What replies and errors say. *)

\* A message on the shell was there, or tells how code has ended just now.
ShellGrows ==
    \A n \in DOMAIN shell' :
        \/ \E k \in DOMAIN shell : shell'[n] = shell[k]
        \/ \E i \in Step, s \in ReplyStatus :
              shell'[n] = Reply(i, s) /\ Tells(s, ended'[i])

\* An error on iopub was there, or is that of failing code.
IOPubGrows ==
    \A n \in DOMAIN iopub' :
        \/ \E k \in DOMAIN iopub : iopub'[n] = iopub[k]
        \/ iopub'[n].type = "error" => iopub'[n].value = "CodeExecutionError"

LEMMA ReplyGrows ==
    ASSUME shell \in Seq(ShellMessage), NEW i \in Step, NEW s \in ReplyStatus,
           Tells(s, ended'[i]), shell' = Append(shell, Reply(i, s))
    PROVE  ShellGrows
<1>1. SUFFICES ASSUME NEW n \in DOMAIN shell'
               PROVE  \/ \E k \in DOMAIN shell : shell'[n] = shell[k]
                      \/ shell'[n] = Reply(i, s)
    BY DEF ShellGrows
<1>2. n \in DOMAIN shell \/ n = Len(shell) + 1
    OBVIOUS
<1>3. CASE n \in DOMAIN shell
    BY <1>3
<1>4. CASE n = Len(shell) + 1
    BY <1>4
<1>. QED  BY <1>2, <1>3, <1>4

LEMMA FinishGrows ==
    ASSUME Types, executing # 0, NEW status \in {"ok", "error", "interrupted"},
           Finish(executing, status)
    PROVE  ShellGrows /\ IOPubGrows
<1>1. executing \in Step
    BY DEF Types, Step
<1>2. ended'[executing] = status
    BY <1>1 DEF Types, Finish
<1>3. ASSUME NEW s \in ReplyStatus, Tells(s, status), shell' = Append(shell, Reply(executing, s))
      PROVE  ShellGrows
    BY <1>1, <1>2, <1>3, ReplyGrows DEF Types
<1>4. ShellGrows
    BY <1>3 DEF Finish, Tells, ReplyStatus
<1>5. ASSUME NEW s \in Seq(IOPubMessage), iopub' = iopub \o s,
             \A n \in DOMAIN s : s[n].type = "error" => s[n].value = "CodeExecutionError"
      PROVE  IOPubGrows
    <2>1. iopub \in Seq(IOPubMessage)
        BY DEF Types
    <2>2. \A n \in DOMAIN iopub' : n \in DOMAIN iopub \/ n - Len(iopub) \in DOMAIN s
        BY <1>5, <2>1
    <2>3. \A n \in DOMAIN iopub' : iopub'[n] = IF n \in DOMAIN iopub THEN iopub[n]
                                               ELSE s[n - Len(iopub)]
        BY <1>5, <2>1
    <2>. QED  BY <1>5, <2>2, <2>3 DEF IOPubGrows
<1>6. DEFINE e == Error(executing, "CodeExecutionError")
<1>7. e \in IOPubMessage /\ Idle(executing) \in IOPubMessage
    BY <1>1, MessagesTyped
<1>8. e.value = "CodeExecutionError" /\ Idle(executing).type # "error"
    BY DEF Error, Idle
<1>. HIDE DEF e
<1>9. /\ <<e, Idle(executing)>> \in Seq(IOPubMessage)
      /\ \A n \in DOMAIN <<e, Idle(executing)>> :
            <<e, Idle(executing)>>[n].type = "error" =>
                <<e, Idle(executing)>>[n].value = "CodeExecutionError"
    BY <1>7, <1>8
<1>10. /\ <<Idle(executing)>> \in Seq(IOPubMessage)
       /\ \A n \in DOMAIN <<Idle(executing)>> : <<Idle(executing)>>[n].type # "error"
    BY <1>7, <1>8
<1>11. \/ iopub' = iopub \o <<e, Idle(executing)>>
       \/ iopub' = iopub \o <<Idle(executing)>>
    BY DEF Finish, e
<1>12. IOPubGrows
    BY <1>5, <1>9, <1>10, <1>11
<1>. QED  BY <1>4, <1>12

LEMMA ChannelEffect ==
    ASSUME Types, KernelInv, [Next]_vars
    PROVE  ShellGrows /\ IOPubGrows
<1>1. ASSUME UNCHANGED shell
      PROVE  ShellGrows
    BY <1>1 DEF ShellGrows
<1>2. ASSUME UNCHANGED iopub
      PROVE  IOPubGrows
    BY <1>2 DEF IOPubGrows
<1>3. ASSUME NEW m, m.type # "error", iopub' = Append(iopub, m)
      PROVE  IOPubGrows
    BY <1>3 DEF IOPubGrows, Types
<1>4. ASSUME Interrupted
      PROVE  ShellGrows /\ IOPubGrows
    BY <1>1, <1>2, <1>4, FinishGrows DEF Interrupted
<1>5. CASE RecvIOPub
    <2>1. \A n \in DOMAIN iopub' : n + 1 \in DOMAIN iopub /\ iopub'[n] = iopub[n + 1]
        BY <1>5 DEF RecvIOPub, Types
    <2>. QED  BY <1>1, <1>5, <2>1 DEF RecvIOPub, IOPubGrows
<1>6. CASE RecvShell
    <2>1. \A n \in DOMAIN shell' : n + 1 \in DOMAIN shell /\ shell'[n] = shell[n + 1]
        BY <1>6 DEF RecvShell, Types
    <2>. QED  BY <1>2, <1>6, <2>1 DEF RecvShell, ShellGrows
<1>7. CASE Interrupt
    BY <1>1, <1>2, <1>4, <1>7 DEF Interrupt
<1>8. CASE LateInterrupt
    BY <1>4, <1>8 DEF LateInterrupt
<1>9. CASE CodeEnds
    BY <1>9, FinishGrows DEF CodeEnds, Running
<1>10. CASE KernelPublishes \/ ThreadPrints
    <2>1. PICK m \in IOPubMessage : m.type # "error" /\ iopub' = Append(iopub, m)
        BY <1>10, PrintEffect
    <2>. QED  BY <1>1, <1>3, <1>10, <2>1, PrintsAlone
<1>12. CASE KernelAborts
    <2>1. Head(queue) \in Step
        BY <1>12, KernelFacts DEF KernelAborts
    <2>2. /\ ended'[Head(queue)] = "aborted"
          /\ shell' = Append(shell, Reply(Head(queue), "aborted"))
          /\ iopub' = Append(iopub, Idle(Head(queue)))
        BY <1>12, <2>1 DEF KernelAborts, Types
    <2>3. Idle(Head(queue)).type # "error"
        BY DEF Idle
    <2>4. Tells("aborted", "aborted") /\ "aborted" \in ReplyStatus
        BY DEF Tells, ReplyStatus
    <2>5. ShellGrows
        BY <2>1, <2>2, <2>4, ReplyGrows DEF Types
    <2>. QED  BY <1>3, <2>2, <2>3, <2>5
<1>13. CASE \/ UNCHANGED vars
            \/ Send \/ StepTimeout \/ Disconnect \/ KernelBegins \/ KernelStopsAborting
    BY <1>1, <1>2, <1>13 DEF vars, Send, StepTimeout, Disconnect, KernelBegins,
        KernelStopsAborting
<1>. QED
    BY <1>5, <1>6, <1>7, <1>8, <1>9, <1>10, <1>12, <1>13, Zenon
       DEF Next, RunnerStep

\* Every action keeps replies and errors true.
LEMMA ReplyKept ==
    ASSUME Types, Types', KernelInv, RunnerInv, ReplyInv, [Next]_vars
    PROVE  ReplyInv'
<1>1. \A j \in Step : ended[j] # "no" => ended'[j] = ended[j]
    BY EndedStays
<1>2. ASSUME NEW j \in Step, NEW s \in {"none"} \cup ReplyStatus, Tells(s, ended[j])
      PROVE  Tells(s, ended'[j])
    BY <1>1, <1>2 DEF Tells, ReplyStatus
<1>3. \A n \in DOMAIN shell' : Tells(shell'[n].value, ended'[shell'[n].parent])
    <2>1. TAKE n \in DOMAIN shell'
    <2>2. CASE \E k \in DOMAIN shell : shell'[n] = shell[k]
        <3>1. PICK k \in DOMAIN shell : shell'[n] = shell[k]
            BY <2>2
        <3>2. shell[k] \in ShellMessage
            BY DEF Types
        <3>3. shell[k].parent \in Step /\ shell[k].value \in ReplyStatus
            BY <3>2 DEF ShellMessage
        <3>4. Tells(shell[k].value, ended[shell[k].parent])
            BY DEF ReplyInv
        <3>. QED  BY <1>2, <3>1, <3>3, <3>4
    <2>3. CASE \E i \in Step, s \in ReplyStatus :
                  shell'[n] = Reply(i, s) /\ Tells(s, ended'[i])
        BY <2>3 DEF Reply
    <2>. QED  BY <2>2, <2>3, ChannelEffect DEF ShellGrows
<1>4. \A n \in DOMAIN iopub' :
          iopub'[n].type = "error" => iopub'[n].value = "CodeExecutionError"
    BY ChannelEffect DEF IOPubGrows, ReplyInv
<1>5. NewCollector.reply = "none"
    BY DEF NewCollector
<1>6. ASSUME NEW r, StepDone(r)
      PROVE  /\ Tells(collector'.reply, ended'[step'])
             /\ collector'.reply = "error" => collector'.error = "CodeExecutionError"
    BY <1>5, <1>6 DEF StepDone, Tells
<1>7. /\ Tells(collector'.reply, ended'[step'])
      /\ collector'.reply = "error" => collector'.error = "CodeExecutionError"
    <2>1. CASE UNCHANGED <<step, collector, result>>
        <3>1. collector.reply \in {"none"} \cup ReplyStatus /\ step \in Step
            BY DEF Types, Collector
        <3>. QED  BY <1>2, <2>1, <3>1 DEF ReplyInv
    <2>2. ASSUME NEW m \in Message, Receive(m), UNCHANGED kernelVars,
                 \/ iopub # <<>> /\ m = Head(iopub)
                 \/ shell # <<>> /\ m = Head(shell)
          PROVE  /\ Tells(collector'.reply, ended'[step'])
                 /\ collector'.reply = "error" => collector'.error = "CodeExecutionError"
        <3>1. PICK c \in Collector :
                  /\ Tells(c.reply, ended[step])
                  /\ c.reply = "error" => c.error = "CodeExecutionError"
                  /\ \/ IsComplete(c) /\ StepDone(BuildResult(c))
                     \/ collector' = c /\ UNCHANGED <<pc, step, result>>
            BY <2>2, ReceiveEffect
        <3>. QED  BY <1>6, <2>2, <3>1 DEF kernelVars
    <2>3. /\ iopub # <<>> => Head(iopub) \in Message
          /\ shell # <<>> => Head(shell) \in Message
        BY DEF Types, Message
    <2>4. CASE Interrupt
        BY <1>6, <2>4 DEF Interrupt
    <2>. QED  BY <2>1, <2>2, <2>3, <2>4, RunnerEffect
<1>. QED  BY <1>3, <1>4, <1>7 DEF ReplyInv

------------------------------------------------------------------------------
(* Commands that stop on errors. *)

\* Of such a command only the code of the runner's step can still run, and it
\* has nothing behind it.
LEMMA RunsAlone ==
    ASSUME Types, KernelInv, RunnerInv, stopOnError, executing # 0
    PROVE  executing = step /\ queue = <<>>
<1>1. /\ executing \in Step
      /\ executing <= step
      /\ queue # <<>> => executing < step
      /\ ended[executing] = "no"
    BY KernelFacts
<1>2. executing < step => ended[executing] = "ok"
    BY <1>1 DEF RunnerInv
<1>3. executing \in Nat /\ step \in Nat
    BY <1>1 DEF Types, Step
<1>. QED  BY <1>1, <1>2, <1>3

LEMMA FinishStops ==
    ASSUME Types, KernelInv, RunnerInv, StopInv, stopOnError, executing # 0,
           NEW status \in {"ok", "error", "interrupted"}, Finish(executing, status),
           queue' = queue, step' = step
    PROVE  /\ ended' = [ended EXCEPT ![step] = status]
           /\ \A j \in Step : ended'[j] # "aborted"
           /\ aborting' => queue' = <<>> /\ ended'[step'] \notin {"no", "ok"}
<1>1. executing = step /\ queue = <<>> /\ step \in Step
    BY RunsAlone DEF Types
<1>2. ended' = [ended EXCEPT ![step] = status] /\ (aborting' <=> status # "ok")
    BY <1>1 DEF Finish
<1>3. ended'[step] = status
    BY <1>1, <1>2 DEF Types
<1>4. \A j \in Step : ended'[j] # "aborted"
    BY <1>2, <1>3 DEF Types, StopInv
<1>5. ended'[step'] = status
    BY <1>3
<1>6. aborting' => queue' = <<>> /\ ended'[step'] \notin {"no", "ok"}
    BY <1>1, <1>2, <1>5
<1>. QED  BY <1>2, <1>4, <1>6

\* After a failed result nothing is sent; after a good one nothing is aborted.
LEMMA StepDoneStops ==
    ASSUME Types, StopInv, NEW r, r.status \in {"ok", "failed"},
           r.status = "ok" => ended[step] = "ok", StepDone(r), stopOnError
    PROVE  \/ pc' = "closed" /\ step' = step
           \/ pc' = "send" /\ ~aborting
<1>1. CASE pc' = "closed" /\ UNCHANGED step
    BY <1>1
<1>2. CASE pc' = "send" /\ ~(r.status = "failed" /\ stopOnError)
    <2>1. ended[step] = "ok"
        BY <1>2
    <2>2. aborting => ended[step] # "ok"
        BY Zenon DEF StopInv
    <2>. QED  BY <1>2, <2>1, <2>2
<1>. QED  BY <1>1, <1>2 DEF StepDone

LEMMA StopKept ==
    ASSUME Types, KernelInv, RunnerInv, ReplyInv, StopInv, [Next]_vars
    PROVE  StopInv'
<1>1. stopOnError' = stopOnError
    BY GivenStays
<1>2. CASE UNCHANGED vars \/ ThreadPrints \/ KernelPublishes
    <2>1. CASE KernelPublishes \/ ThreadPrints
        BY <1>1, <2>1, PrintsAlone DEF StopInv
    <2>2. CASE UNCHANGED vars
        BY <1>1, <2>2 DEF vars, runnerVars, kernelVars, StopInv
    <2>. QED  BY <1>2, <2>1, <2>2
<1>3. CASE Send
    <2>1. stopOnError => ~aborting
        BY <1>3, KernelFacts DEF Send, StopInv
    <2>2. UNCHANGED <<step, executing, aborting, signal, ended>> /\ pc # "closed"
        BY <1>3 DEF Send
    <2>. QED  BY <1>1, <2>1, <2>2 DEF StopInv
<1>4. ASSUME NEW m \in Message, Receive(m), pc = "recv", UNCHANGED kernelVars,
             \/ iopub # <<>> /\ m = Head(iopub)
             \/ shell # <<>> /\ m = Head(shell)
      PROVE  StopInv'
    <2>1. PICK c \in Collector :
              /\ Tells(c.reply, ended[step])
              /\ \/ IsComplete(c) /\ StepDone(BuildResult(c))
                 \/ collector' = c /\ UNCHANGED <<pc, step, result>>
        BY <1>4, ReceiveEffect
    <2>2. CASE StepDone(BuildResult(c))
        <3>1. /\ BuildResult(c).status \in {"ok", "failed"}
              /\ BuildResult(c).status = "ok" => ended[step] = "ok"
            BY <2>1 DEF BuildResult, Tells
        <3>2. stopOnError => \/ pc' = "closed" /\ step' = step
                             \/ pc' = "send" /\ ~aborting
            BY <2>2, <3>1, StepDoneStops
        <3>. QED  BY <1>1, <1>4, <3>2 DEF StopInv, kernelVars
    <2>3. CASE UNCHANGED <<pc, step, result>>
        BY <1>1, <1>4, <2>3 DEF StopInv, kernelVars
    <2>. QED  BY <2>1, <2>2, <2>3
<1>5. CASE RecvIOPub \/ RecvShell
    <2>1. /\ iopub # <<>> => Head(iopub) \in Message
          /\ shell # <<>> => Head(shell) \in Message
        BY DEF Types, Message
    <2>. QED  BY <1>4, <1>5, <2>1 DEF RecvIOPub, RecvShell
<1>6. CASE StepTimeout \/ Disconnect
    BY <1>1, <1>6 DEF StepTimeout, Disconnect, StopInv, kernelVars
<1>7. CASE Interrupt
    <2>1. Timeout.status = "failed"
        BY DEF Timeout
    <2>2. stopOnError => pc' = "closed" /\ step' = step
        BY <1>7, <2>1 DEF Interrupt, StepDone
    <2>3. CASE executing # 0 /\ Finish(executing, "interrupted")
        <3>1. stopOnError => /\ \A j \in Step : ended'[j] # "aborted"
                             /\ aborting' => queue' = <<>> /\ ended'[step'] \notin {"no", "ok"}
            BY <1>7, <2>2, <2>3, FinishStops DEF Interrupt
        <3>2. executing' = 0
            BY <2>3 DEF Finish
        <3>. QED  BY <1>1, <2>2, <3>1, <3>2 DEF StopInv
    <2>4. CASE UNCHANGED <<executing, aborting, ended>>
        BY <1>1, <1>7, <2>2, <2>4 DEF Interrupt, StopInv
    <2>. QED  BY <1>7, <2>3, <2>4 DEF Interrupt, Interrupted
<1>8. CASE KernelBegins
    BY <1>1, <1>8 DEF KernelBegins, StopInv, runnerVars
<1>9. CASE CodeEnds
    <2>1. PICK status \in {"ok", "error"} : Finish(executing, status)
        BY <1>9 DEF CodeEnds
    <2>2. executing # 0 /\ UNCHANGED <<pc, step, queue, signal>>
        BY <1>9 DEF CodeEnds, Running, runnerVars
    <2>3. stopOnError => /\ ended' = [ended EXCEPT ![step] = status]
                         /\ \A j \in Step : ended'[j] # "aborted"
                         /\ aborting' => queue' = <<>> /\ ended'[step'] \notin {"no", "ok"}
        BY <2>1, <2>2, FinishStops
    <2>4. stopOnError /\ pc # "closed" => \A j \in Step : ended'[j] # "interrupted"
        BY <2>3 DEF StopInv, Types
    <2>5. executing' = 0
        BY <2>1 DEF Finish
    <2>. QED  BY <1>1, <2>2, <2>3, <2>4, <2>5 DEF StopInv
<1>10. CASE KernelAborts
    BY <1>1, <1>10 DEF KernelAborts, StopInv, runnerVars
<1>11. CASE KernelStopsAborting
    BY <1>1, <1>11 DEF KernelStopsAborting, StopInv, runnerVars
<1>12. CASE LateInterrupt
    <2>1. ~stopOnError
        BY <1>12 DEF LateInterrupt, StopInv
    <2>2. aborting' => executing' = 0
        BY <1>12 DEF LateInterrupt, Interrupted, Finish, StopInv
    <2>. QED  BY <1>1, <2>1, <2>2 DEF StopInv
<1>. QED
    BY <1>2, <1>3, <1>5, <1>6, <1>7, <1>8, <1>9, <1>10, <1>11, <1>12, Zenon
       DEF Next, RunnerStep

LEMMA FailureKept ==
    ASSUME Types, KernelInv, ReplyInv, StopInv, FailureIsOwn, [Next]_vars
    PROVE  FailureIsOwn'
<1>1. stopOnError' = stopOnError
    BY GivenStays
<1>2. \A j \in Step : ended[j] # "no" => ended'[j] = ended[j]
    BY EndedStays
<1>3. ASSUME UNCHANGED result
      PROVE  FailureIsOwn'
    BY <1>1, <1>2, <1>3 DEF FailureIsOwn
<1>4. ASSUME NEW r, StepDone(r),
             stopOnError /\ r.status = "failed" =>
                 \/ r.error = "ExecutionTimeout"
                 \/ r.error = "CodeExecutionError" /\ ended[step] = "error"
      PROVE  FailureIsOwn'
    <2>1. step \in Step /\ result' = [result EXCEPT ![step] = r]
        BY <1>4 DEF Types, StepDone
    <2>2. \A j \in Step : result'[j] = IF j = step THEN r ELSE result[j]
        BY <2>1 DEF Types
    <2>. QED  BY <1>1, <1>2, <1>4, <2>1, <2>2 DEF FailureIsOwn
<1>5. ASSUME NEW m \in Message, Receive(m), pc = "recv",
             \/ iopub # <<>> /\ m = Head(iopub)
             \/ shell # <<>> /\ m = Head(shell)
      PROVE  FailureIsOwn'
    <2>1. PICK c \in Collector :
              /\ Tells(c.reply, ended[step])
              /\ c.reply = "error" => c.error = "CodeExecutionError"
              /\ \/ IsComplete(c) /\ StepDone(BuildResult(c))
                 \/ collector' = c /\ UNCHANGED <<pc, step, result>>
        BY <1>5, ReceiveEffect
    <2>2. CASE IsComplete(c) /\ StepDone(BuildResult(c))
        <3>1. c.reply \in {"ok", "error", "aborted"}
            BY <2>2 DEF IsComplete, Collector, ReplyStatus
        <3>2. stopOnError => c.reply # "aborted" /\ ended[step] # "interrupted"
            BY <1>5, <2>1 DEF StopInv, Tells, Types
        <3>3. /\ c.reply = "ok" => BuildResult(c).status = "ok"
              /\ c.reply = "error" => BuildResult(c).error = c.error
            BY DEF BuildResult
        <3>4. c.reply = "error" /\ stopOnError => ended[step] = "error"
            BY <2>1, <3>2 DEF Tells
        <3>. QED  BY <1>4, <2>1, <2>2, <3>1, <3>2, <3>3, <3>4
    <2>. QED  BY <1>3, <2>1, <2>2
<1>6. /\ iopub # <<>> => Head(iopub) \in Message
      /\ shell # <<>> => Head(shell) \in Message
    BY DEF Types, Message
<1>7. CASE Interrupt
    <2>1. Timeout.error = "ExecutionTimeout"
        BY DEF Timeout
    <2>. QED  BY <1>4, <1>7, <2>1 DEF Interrupt
<1>. QED  BY <1>3, <1>5, <1>6, <1>7, RunnerEffect

------------------------------------------------------------------------------
(* The invariant, and what follows from it. *)

LEMMA OrderInit ==
    ASSUME Init
    PROVE  OrderInv
<1>. USE DEF Init
<1>1. NewCollector \in Collector /\ NoResult \in Result
    BY NewTyped
<1>2. 1 \in Step /\ 0 \in 0..NumSteps
    BY SessionConstants DEF Step
<1>3. Types
    <2>1. /\ queue \in Seq(Step)
          /\ iopub \in Seq(IOPubMessage)
          /\ shell \in Seq(ShellMessage)
          /\ published \in [Step -> Seq(IOPubMessage)]
        OBVIOUS
    <2>2. result \in [Step -> Result] /\ collector \in Collector
        BY <1>1
    <2>3. /\ step \in Step /\ executing \in 0..NumSteps
          /\ pc \in {"send", "recv", "interrupt"} \cup Over
        BY <1>2
    <2>4. ended \in [Step -> {"no", "ok", "error", "interrupted", "aborted"}]
        OBVIOUS
    <2>. QED  BY <2>1, <2>2, <2>3, <2>4 DEF Types
<1>4. Sent(0) /\ Taken(0, 0)
    BY DEF Sent, Taken, Step
<1>5. KernelInv
    BY <1>2, <1>4 DEF KernelInv
<1>6. \A j \in Step : result[j].status = "none" /\ ~(j < 1)
    BY DEF NoResult, Step
<1>7. RunnerInv /\ FailureIsOwn
    BY <1>6 DEF RunnerInv, FailureIsOwn
<1>8. ReplyInv
    BY DEF ReplyInv, Tells, NewCollector
<1>9. StopInv
    BY DEF StopInv
<1>. QED  BY <1>3, <1>5, <1>7, <1>8, <1>9 DEF OrderInv

LEMMA OrderStep ==
    ASSUME OrderInv, [Next]_vars
    PROVE  OrderInv'
<1>. USE DEF OrderInv
<1>1. Types'
    BY TypesKept
<1>2. KernelInv'
    <2>1. aborting => executing = 0
        BY Zenon DEF StopInv
    <2>. QED  BY <1>1, <2>1, KernelKept
<1>3. RunnerInv'
    BY RunnerKept
<1>4. ReplyInv'
    BY <1>1, ReplyKept
<1>5. StopInv'
    BY StopKept
<1>6. FailureIsOwn'
    BY FailureKept
<1>. QED  BY <1>1, <1>2, <1>3, <1>4, <1>5, <1>6

(***************************************************************************)
(* In every state of a session the requests are taken in order, results    *)
(* and replies tell how the code of their step ended, and a command that   *)
(* stops on errors sends nothing after a failure.                          *)
(***************************************************************************)
THEOREM OrderCorrect == Spec => []OrderInv
<1>1. Init => OrderInv
    BY OrderInit
<1>2. OrderInv /\ [Next]_vars => OrderInv'
    BY OrderStep
<1>. QED  BY <1>1, <1>2, PTL DEF Spec

\* Every variable of a session has its type.
THEOREM SessionTypeCorrect == Spec => []TypeOK
<1>1. OrderInv => TypeOK
    <2>1. SUFFICES ASSUME Types PROVE TypeOK
        BY DEF OrderInv
    <2>2. /\ collector.reply \in {"none"} \cup ReplyStatus
          /\ collector.idle \in BOOLEAN
          /\ collector.clearNext \in BOOLEAN
        BY <2>1 DEF Types, Collector
    <2>3. \A i \in Step : result[i].status \in {"none", "ok", "failed"}
        BY <2>1 DEF Types, Result
    <2>4. \A n \in DOMAIN queue : queue[n] \in Step
        BY <2>1 DEF Types
    <2>5. \A n \in DOMAIN iopub : iopub[n].type \in MessageTypes
        <3>1. \A n \in DOMAIN iopub : iopub[n] \in IOPubMessage
            BY <2>1 DEF Types
        <3>. QED  BY <3>1 DEF IOPubMessage
    <2>6. \A n \in DOMAIN shell : shell[n].type = "execute_reply"
        <3>1. \A n \in DOMAIN shell : shell[n] \in ShellMessage
            BY <2>1 DEF Types
        <3>. QED  BY <3>1 DEF ShellMessage
    <2>. QED  BY <2>1, <2>2, <2>3, <2>4, <2>5, <2>6 DEF TypeOK, Types
<1>. QED  BY <1>1, OrderCorrect, PTL

(***************************************************************************)
(* A failure of a command that stops on errors is the step's own: a        *)
(* timeout, or an error that its code raised and no interrupt caused.      *)
(***************************************************************************)
THEOREM FailureCorrect == Spec => []FailureIsOwn
<1>1. OrderInv => FailureIsOwn
    BY DEF OrderInv
<1>. QED  BY <1>1, OrderCorrect, PTL

LEMMA OrderImplies ==
    ASSUME OrderInv
    PROVE  StepsInOrder
<1>. USE DEF OrderInv
<1>1. SUFFICES ASSUME NEW i \in Step, NEW j \in Step, i < j,
                      executing = j \/ ended[j] = "ok"
               PROVE  /\ ended[i] # "no"
                      /\ result[i].status # "none"
                      /\ stopOnError => result[i].status = "ok"
    BY DEF StepsInOrder
<1>2. PICK n \in 0..NumSteps, t \in 0..NumSteps : Sent(n) /\ Taken(n, t)
    BY DEF KernelInv
<1>3. i \in Nat /\ j \in Nat /\ step \in Nat /\ n \in Nat /\ t \in Nat /\ n <= step
    BY <1>2 DEF Sent, Types, Step
<1>4. j <= t
    BY <1>1, <1>2, <1>3 DEF Taken
<1>5. t <= n
    BY <1>2, <1>3 DEF Taken, Types
<1>6. i < step /\ i < t
    BY <1>1, <1>3, <1>4, <1>5
<1>7. ended[i] # "no"
    BY <1>2, <1>3, <1>6 DEF Taken, Step
<1>8. result[i].status # "none" /\ (stopOnError => result[i].status = "ok")
    BY <1>6 DEF RunnerInv
<1>. QED  BY <1>7, <1>8

(***************************************************************************)
(* The code of a step begins only after that of the steps before it, and   *)
(* in a command that stops on errors only after these have succeeded.      *)
(***************************************************************************)
THEOREM OrderOfSteps == Spec => []StepsInOrder
<1>1. OrderInv => StepsInOrder
    BY OrderImplies
<1>. QED  BY <1>1, OrderCorrect, PTL

------------------------------------------------------------------------------
(* A session keeps the promise of SequentialSteps. *)

\* The steps up to the runner's own may be reported, and their code may end.
LEMMA ReachedSteps ==
    ASSUME OrderInv, NEW i \in Step, i <= step
    PROVE  Promise!Reached(i)
<1>1. \A j \in 1..(i - 1) : j \in Step /\ j < step
    BY SessionConstants DEF OrderInv, Types, Step
<1>2. \A j \in 1..(i - 1) :
          /\ result[j].status # "none"
          /\ stopOnError => result[j].status = "ok"
    BY <1>1 DEF OrderInv, RunnerInv
<1>. QED  BY <1>1, <1>2 DEF Promise!Reached

\* The code of a step ends, well or not.
LEMMA EndOfCode ==
    ASSUME OrderInv, NEW i \in Step, i <= step, ended[i] = "no",
           \A j \in Step : j < i => ended[j] # "no",
           NEW status \in {"ok", "error", "interrupted", "aborted"},
           ended' = [ended EXCEPT ![i] = status]
    PROVE  Promise!End(i, IF status = "ok" THEN "ok" ELSE "failed")
<1>. DEFINE code == [k \in Step |-> IF ended[k] \in {"no", "ok"} THEN ended[k]
                                    ELSE "failed"]
            how == IF status = "ok" THEN "ok" ELSE "failed"
<1>1. Promise!Reached(i)
    BY ReachedSteps
<1>2. \A j \in 1..(i - 1) : j \in Step /\ ended[j] # "no"
    BY SessionConstants DEF Step
<1>3. \A j \in 1..(i - 1) : code[j] # "no"
    BY <1>2
<1>4. code[i] = "no"
    OBVIOUS
<1>5. code' = [code EXCEPT ![i] = how]
    <2>1. ended \in [Step -> {"no", "ok", "error", "interrupted", "aborted"}]
        BY DEF OrderInv, Types
    <2>2. \A k \in Step : ended'[k] = IF k = i THEN status ELSE ended[k]
        BY <2>1
    <2>3. \A k \in Step : (IF ended'[k] \in {"no", "ok"} THEN ended'[k] ELSE "failed")
                          = [code EXCEPT ![i] = how][k]
        BY <2>2
    <2>. QED  BY <2>3
<1>. QED  BY <1>1, <1>3, <1>4, <1>5 DEF Promise!End

\* The runner reports a step.
LEMMA ReportOfStep ==
    ASSUME OrderInv, NEW r \in Result, r.status \in {"ok", "failed"},
           r.status = "ok" => ended[step] = "ok",
           pc \in {"recv", "interrupt"}, StepDone(r)
    PROVE  \E i \in Step : Promise!Report(i, r.status)
<1>. DEFINE outcome == [k \in Step |-> result[k].status]
<1>1. PICK i \in Step : i = step
    BY DEF OrderInv, Types
<1>2. i \in Nat
    BY <1>1 DEF Step
<1>3. Promise!Reached(i)
    BY <1>1, <1>2, ReachedSteps
<1>4. result[i].status = "none"
    BY <1>1, <1>2 DEF OrderInv, RunnerInv
<1>5. result' = [result EXCEPT ![i] = r] /\ result \in [Step -> Result]
    BY <1>1 DEF StepDone, OrderInv, Types
<1>6. outcome' = [outcome EXCEPT ![i] = r.status]
    <2>1. \A k \in Step : result'[k] = IF k = i THEN r ELSE result[k]
        BY <1>5
    <2>2. \A k \in Step : result'[k].status = [outcome EXCEPT ![i] = r.status][k]
        BY <2>1
    <2>. QED  BY <2>2
<1>7. (pc \notin Over) /\ (pc' \notin Over <=>
                            ~(i = NumSteps \/ (r.status = "failed" /\ stopOnError)))
    BY <1>1 DEF StepDone, Over
<1>8. [k \in Step |-> IF ended[k] \in {"no", "ok"} THEN ended[k] ELSE "failed"][i]
        = "ok" \/ r.status # "ok"
    BY <1>1
<1>9. outcome[i] = "none"
    BY <1>4
<1>. QED  BY <1>3, <1>6, <1>7, <1>8, <1>9 DEF Promise!Report

\* Every step of a session is one of SequentialSteps, or changes nothing there.
LEMMA PromiseStep ==
    ASSUME OrderInv, [Next]_vars
    PROVE  [Promise!Next]_(Promise!vars)
<1>. USE DEF OrderInv
<1>1. stopOnError' = stopOnError
    BY GivenStays
<1>2. ASSUME UNCHANGED <<ended, result>>, pc' \in Over <=> pc \in Over
      PROVE  UNCHANGED Promise!vars
    BY <1>1, <1>2 DEF Promise!vars
<1>3. ASSUME UNCHANGED <<ended, result>>, pc \notin Over, pc' \in Over
      PROVE  Promise!Next
    BY <1>1, <1>3 DEF Promise!Next, Promise!Lost
<1>4. ASSUME UNCHANGED <<result, pc>>,
             \E i \in Step, how \in {"ok", "failed"} : Promise!End(i, how)
      PROVE  Promise!Next
    BY <1>1, <1>4 DEF Promise!Next, Promise!CodeEnds, Promise!Step, Step
<1>5. ASSUME UNCHANGED ended,
             \E i \in Step, how \in {"ok", "failed"} : Promise!Report(i, how)
      PROVE  Promise!Next
    BY <1>1, <1>5 DEF Promise!Next, Promise!StepReported, Promise!Step, Step
<1>6. ASSUME NEW status \in {"ok", "error", "interrupted"}, executing # 0,
             Finish(executing, status)
      PROVE  \E i \in Step : Promise!End(i, IF status = "ok" THEN "ok" ELSE "failed")
    <2>1. PICK i \in Step : i = executing
        BY <1>6, KernelFacts
    <2>2. /\ i <= step /\ ended[i] = "no"
          /\ \A j \in Step : j < i => ended[j] # "no"
          /\ ended' = [ended EXCEPT ![i] = status]
        BY <1>6, <2>1, KernelFacts DEF Finish
    <2>3. Promise!End(i, IF status = "ok" THEN "ok" ELSE "failed")
        BY <2>2, EndOfCode
    <2>. QED  BY <2>3
<1>10. CASE UNCHANGED vars
    BY <1>2, <1>10 DEF vars, runnerVars, kernelVars
<1>11. CASE Send
    BY <1>2, <1>3, <1>11 DEF Send, Over
<1>12. CASE RecvIOPub \/ RecvShell
    <2>1. PICK m \in Message :
              /\ pc = "recv" /\ Receive(m) /\ UNCHANGED kernelVars
              /\ \/ iopub # <<>> /\ m = Head(iopub)
                 \/ shell # <<>> /\ m = Head(shell)
        <3>1. /\ iopub # <<>> => Head(iopub) \in Message
              /\ shell # <<>> => Head(shell) \in Message
            BY DEF Types, Message
        <3>. QED  BY <1>12, <3>1 DEF RecvIOPub, RecvShell
    <2>2. PICK c \in Collector :
              /\ Tells(c.reply, ended[step])
              /\ \/ IsComplete(c) /\ StepDone(BuildResult(c))
                 \/ collector' = c /\ UNCHANGED <<pc, step, result>>
        BY <2>1, ReceiveEffect
    <2>3. CASE StepDone(BuildResult(c))
        <3>1. BuildResult(c) \in Result
            BY BuildTyped
        <3>2. /\ BuildResult(c).status \in {"ok", "failed"}
              /\ BuildResult(c).status = "ok" => ended[step] = "ok"
            BY <2>2 DEF BuildResult, Tells
        <3>3. \E i \in Step : Promise!Report(i, BuildResult(c).status)
            BY <2>1, <2>3, <3>1, <3>2, ReportOfStep
        <3>. QED  BY <1>5, <2>1, <3>2, <3>3 DEF kernelVars
    <2>4. CASE UNCHANGED <<pc, step, result>>
        BY <1>2, <2>1, <2>4 DEF kernelVars
    <2>. QED  BY <2>2, <2>3, <2>4
<1>13. CASE StepTimeout
    BY <1>2, <1>13 DEF StepTimeout, kernelVars, Over
<1>14. CASE Interrupt
    <2>1. \E i \in Step : Promise!Report(i, "failed")
        <3>1. Timeout \in Result /\ Timeout.status = "failed"
            BY NewTyped DEF Timeout
        <3>. QED  BY <1>14, <3>1, ReportOfStep DEF Interrupt
    <2>2. CASE executing # 0 /\ Finish(executing, "interrupted")
        <3>1. \E i \in Step : Promise!End(i, "failed")
            BY <1>6, <2>2
        <3>. QED
            BY <1>1, <2>1, <3>1 DEF Promise!Next, Promise!StepGivenUp, Promise!Step, Step
    <2>3. CASE UNCHANGED <<executing, aborting, ended, iopub, shell>>
        BY <1>5, <2>1, <2>3
    <2>. QED  BY <1>14, <2>2, <2>3 DEF Interrupt, Interrupted
<1>15. CASE Disconnect
    BY <1>3, <1>15 DEF Disconnect, kernelVars, Over
<1>16. CASE KernelBegins \/ KernelStopsAborting
    BY <1>2, <1>16 DEF KernelBegins, KernelStopsAborting, runnerVars, kernelVars
<1>17. CASE KernelPublishes \/ ThreadPrints
    BY <1>2, <1>17, PrintsAlone
<1>18. CASE CodeEnds
    <2>1. PICK status \in {"ok", "error"} : Finish(executing, status)
        BY <1>18 DEF CodeEnds
    <2>2. \E i \in Step, how \in {"ok", "failed"} : Promise!End(i, how)
        <3>1. \E i \in Step : Promise!End(i, IF status = "ok" THEN "ok" ELSE "failed")
            BY <1>6, <1>18, <2>1 DEF CodeEnds, Running
        <3>. QED  BY <3>1
    <2>. QED  BY <1>4, <1>18, <2>2 DEF CodeEnds, runnerVars
<1>19. CASE KernelAborts
    <2>1. executing = 0 /\ queue # <<>>
        BY <1>19 DEF KernelAborts, StopInv
    <2>2. PICK i \in Step : i = Head(queue)
        BY <2>1, KernelFacts
    <2>3. /\ i <= step /\ ended[i] = "no"
          /\ \A j \in Step : j < i => ended[j] # "no"
          /\ ended' = [ended EXCEPT ![i] = "aborted"]
        BY <1>19, <2>1, <2>2, KernelFacts DEF KernelAborts
    <2>4. Promise!End(i, IF "aborted" = "ok" THEN "ok" ELSE "failed")
        BY <2>3, EndOfCode
    <2>5. Promise!End(i, "failed")
        BY <2>4
    <2>. QED  BY <1>4, <1>19, <2>5 DEF KernelAborts, runnerVars
<1>20. CASE LateInterrupt
    <2>1. CASE executing # 0 /\ Finish(executing, "interrupted")
        <3>1. \E i \in Step : Promise!End(i, "failed")
            BY <1>6, <2>1
        <3>. QED  BY <1>4, <1>20, <3>1 DEF LateInterrupt, runnerVars
    <2>2. CASE UNCHANGED <<executing, aborting, ended, iopub, shell>>
        BY <1>2, <1>20, <2>2 DEF LateInterrupt, runnerVars
    <2>. QED  BY <1>20, <2>1, <2>2 DEF LateInterrupt, Interrupted
<1>. QED
    BY <1>10, <1>11, <1>12, <1>13, <1>14, <1>15, <1>16, <1>17, <1>18, <1>19,
       <1>20, Zenon DEF Next, RunnerStep

LEMMA PromiseInit ==
    ASSUME Init
    PROVE  Promise!Init
<1>1. pc \notin Over
    BY DEF Init, Over
<1>2. \A i \in Step : result[i].status = "none" /\ ended[i] = "no"
    BY DEF Init, NoResult
<1>. QED  BY <1>1, <1>2 DEF Init, Promise!Init, Promise!Step, Step

(***************************************************************************)
(* A session keeps its promise to ExecutionService: code ends in the order *)
(* of the command, outcomes are reported in this order, a step is reported *)
(* to have succeeded only when its code has, and nothing is reported after *)
(* the session is over.                                                    *)
(***************************************************************************)
THEOREM PromiseKept == Spec => ImplementsSequentialSteps
<1>1. Init => Promise!Init
    BY PromiseInit
<1>2. OrderInv /\ [Next]_vars => [Promise!Next]_(Promise!vars)
    BY PromiseStep
<1>. QED  BY <1>1, <1>2, OrderCorrect, PTL
             DEF Spec, ImplementsSequentialSteps, Promise!Spec

------------------------------------------------------------------------------
(* What a collector shows of the messages it has read. *)

\* One message more.
LEMMA AppendFacts ==
    ASSUME NEW S, NEW s \in Seq(S), NEW m \in S
    PROVE  /\ Append(s, m) \in Seq(S)
           /\ DOMAIN s = 1..Len(s) /\ Len(s) \in Nat
           /\ Len(Append(s, m)) = Len(s) + 1
           /\ DOMAIN Append(s, m) = 1..(Len(s) + 1)
           /\ \A p \in DOMAIN s : Append(s, m)[p] = s[p]
           /\ Append(s, m)[Len(s) + 1] = m
OBVIOUS

\* A clear that takes effect at once leaves nothing.
LEMMA KeptNow ==
    ASSUME NEW s \in Seq(IOPubMessage), NEW m \in IOPubMessage,
           m.type = "clear_output", m.value = "now"
    PROVE  Kept(Append(s, m)) = {} /\ (ClearWaits(Append(s, m)) <=> ClearWaits(s))
<1>. DEFINE all == Append(s, m)
            n == Len(s) + 1
<1>1. /\ DOMAIN s = 1..Len(s) /\ Len(s) \in Nat /\ DOMAIN all = 1..n
      /\ \A p \in DOMAIN s : all[p] = s[p]
      /\ all[n] = m /\ n \in DOMAIN all
    BY AppendFacts
<1>. HIDE DEF all, n
<1>2. IsClear(all, n, "now") /\ ~IsOutput(all, n) /\ ~IsClear(all, n, "wait")
    BY <1>1 DEF IsClear, IsOutput
<1>3. \A p \in DOMAIN all : p < n \/ p = n
    BY <1>1 DEF n
<1>4. Kept(all) = {}
    BY <1>1, <1>2, <1>3 DEF Kept
<1>5. \A p \in DOMAIN s : /\ p \in DOMAIN all /\ p < n
                          /\ IsOutput(all, p) <=> IsOutput(s, p)
                          /\ IsClear(all, p, "wait") <=> IsClear(s, p, "wait")
    BY <1>1 DEF IsOutput, IsClear, n
<1>6. \A p \in DOMAIN all : p \in DOMAIN s \/ p = n
    BY <1>1 DEF n
<1>7. ClearWaits(all) <=> ClearWaits(s)
    BY <1>2, <1>5, <1>6 DEF ClearWaits
<1>. QED  BY <1>4, <1>7 DEF all

\* A clear that waits leaves what there is.
LEMMA KeptWait ==
    ASSUME NEW s \in Seq(IOPubMessage), NEW m \in IOPubMessage,
           m.type = "clear_output", m.value = "wait"
    PROVE  Kept(Append(s, m)) = Kept(s) /\ ClearWaits(Append(s, m))
<1>. DEFINE all == Append(s, m)
            n == Len(s) + 1
<1>1. /\ DOMAIN s = 1..Len(s) /\ Len(s) \in Nat /\ DOMAIN all = 1..n
      /\ \A p \in DOMAIN s : all[p] = s[p]
      /\ all[n] = m /\ n \in DOMAIN all
    BY AppendFacts
<1>. HIDE DEF all
<1>2. IsClear(all, n, "wait") /\ ~IsOutput(all, n) /\ ~IsClear(all, n, "now")
    BY <1>1 DEF IsClear, IsOutput
<1>3. \A r \in DOMAIN all : ~(r > n)
    BY <1>1
<1>4. ClearWaits(all)
    BY <1>1, <1>2, <1>3 DEF ClearWaits
<1>5. \A p \in DOMAIN s : /\ p \in DOMAIN all
                          /\ IsOutput(all, p) <=> IsOutput(s, p)
                          /\ IsClear(all, p, "wait") <=> IsClear(s, p, "wait")
                          /\ IsClear(all, p, "now") <=> IsClear(s, p, "now")
    BY <1>1 DEF IsOutput, IsClear
<1>6. \A p \in DOMAIN all : p \in DOMAIN s \/ p = n
    BY <1>1
<1>. HIDE DEF n
<1>7. Kept(all) = Kept(s)
    BY <1>2, <1>3, <1>5, <1>6 DEF Kept
<1>. QED  BY <1>4, <1>7 DEF all

\* An output is kept, with those before it unless a clear waited for it.
LEMMA KeptOutput ==
    ASSUME NEW s \in Seq(IOPubMessage), NEW m \in IOPubMessage, m.type = "output"
    PROVE  /\ Kept(Append(s, m)) = (IF ClearWaits(s) THEN {} ELSE Kept(s))
                                      \cup {Len(s) + 1}
           /\ ~ClearWaits(Append(s, m))
<1>. DEFINE all == Append(s, m)
            n == Len(s) + 1
<1>1. /\ DOMAIN s = 1..Len(s) /\ Len(s) \in Nat /\ DOMAIN all = 1..n
      /\ \A p \in DOMAIN s : all[p] = s[p]
      /\ all[n] = m /\ n \in DOMAIN all
    BY AppendFacts
<1>. HIDE DEF all
<1>2. IsOutput(all, n) /\ \A how : ~IsClear(all, n, how)
    BY <1>1 DEF IsClear, IsOutput
<1>3. \A r \in DOMAIN all : ~(r > n)
    BY <1>1
<1>4. \A p \in DOMAIN s : /\ p \in DOMAIN all /\ n > p
                          /\ IsOutput(all, p) <=> IsOutput(s, p)
                          /\ IsClear(all, p, "wait") <=> IsClear(s, p, "wait")
                          /\ IsClear(all, p, "now") <=> IsClear(s, p, "now")
    BY <1>1 DEF IsOutput, IsClear
<1>5. \A p \in DOMAIN all : p \in DOMAIN s \/ p = n
    BY <1>1
<1>6. DOMAIN s \subseteq Nat
    BY <1>1
<1>7. n \in DOMAIN all /\ n \notin DOMAIN s
    BY <1>1
<1>. HIDE DEF n
<1>8. ~ClearWaits(all)
    BY <1>2, <1>4, <1>5, <1>7 DEF ClearWaits
<1>9. n \in Kept(all)
    BY <1>2, <1>3, <1>7 DEF Kept
<1>10. ASSUME ClearWaits(s), NEW p \in DOMAIN s, p \in Kept(all)
       PROVE  FALSE
    <2>1. PICK q \in DOMAIN s : /\ IsClear(s, q, "wait")
                                /\ \A r \in DOMAIN s : r > q => ~IsOutput(s, r)
        BY <1>10 DEF ClearWaits
    <2>2. IsOutput(s, p)
        BY <1>4, <1>10 DEF Kept
    <2>3. p # q
        BY <2>1, <2>2 DEF IsClear, IsOutput
    <2>4. q > p
        BY <1>6, <2>1, <2>2, <2>3
    <2>5. q \in DOMAIN all /\ IsClear(all, q, "wait") /\ n > q
        BY <1>4, <2>1
    <2>. QED  BY <1>2, <1>7, <1>10, <2>4, <2>5 DEF Kept
<1>11. ASSUME ~ClearWaits(s), NEW p \in DOMAIN s
       PROVE  p \in Kept(all) <=> p \in Kept(s)
    <2>1. ASSUME NEW q \in DOMAIN s, IsClear(s, q, "wait")
          PROVE  \E r \in DOMAIN s : r > q /\ IsOutput(s, r)
        BY <1>11, <2>1 DEF ClearWaits
    <2>. QED  BY <1>2, <1>4, <1>5, <1>7, <2>1 DEF Kept
<1>12. Kept(all) \subseteq DOMAIN all /\ Kept(s) \subseteq DOMAIN s
    BY DEF Kept
<1>13. Kept(all) = (IF ClearWaits(s) THEN {} ELSE Kept(s)) \cup {n}
    BY <1>5, <1>9, <1>10, <1>11, <1>12
<1>. QED  BY <1>8, <1>13 DEF all, n

\* Nothing kept, nothing shown.
LEMMA ScreenOfNothing ==
    ASSUME NEW s, Kept(s) = {}
    PROVE  IsScreenOf(<<>>, s)
<1>. DEFINE at == [i \in {} |-> 0]
<1>1. at \in [DOMAIN << >> -> Kept(s)]
    OBVIOUS
<1>. QED  BY <1>1 DEF IsScreenOf

\* What is kept the same is shown the same.
LEMMA ScreenStays ==
    ASSUME NEW s \in Seq(IOPubMessage), NEW m \in IOPubMessage, NEW outputs,
           Kept(Append(s, m)) = Kept(s), IsScreenOf(outputs, s)
    PROVE  IsScreenOf(outputs, Append(s, m))
<1>1. PICK at \in [DOMAIN outputs -> Kept(s)] :
          /\ \A i, j \in DOMAIN outputs : i < j => at[i] < at[j]
          /\ \A p \in Kept(s) : \E i \in DOMAIN outputs : at[i] = p
          /\ \A i \in DOMAIN outputs : outputs[i] = s[at[i]].value
    BY DEF IsScreenOf
<1>2. Kept(s) \subseteq DOMAIN s
    BY DEF Kept
<1>. DEFINE all == Append(s, m)
<1>3. \A i \in DOMAIN outputs : all[at[i]] = s[at[i]]
    BY <1>1, <1>2, AppendFacts
<1>4. Kept(all) = Kept(s)
    OBVIOUS
<1>. HIDE DEF all
<1>5. at \in [DOMAIN outputs -> Kept(all)]
    BY <1>4
<1>6. /\ \A i, j \in DOMAIN outputs : i < j => at[i] < at[j]
      /\ \A p \in Kept(all) : \E i \in DOMAIN outputs : at[i] = p
      /\ \A i \in DOMAIN outputs : outputs[i] = all[at[i]].value
    BY <1>1, <1>3, <1>4
<1>7. IsScreenOf(outputs, all)
    BY <1>5, <1>6, Zenon DEF IsScreenOf
<1>. QED  BY <1>7 DEF all

\* An output is shown after those before it.
LEMMA ScreenGrows ==
    ASSUME NEW s \in Seq(IOPubMessage), NEW m \in IOPubMessage,
           NEW outputs \in Seq(Datum), m.value \in Datum,
           Kept(Append(s, m)) = Kept(s) \cup {Len(s) + 1}, IsScreenOf(outputs, s)
    PROVE  IsScreenOf(Append(outputs, m.value), Append(s, m))
<1>1. PICK at \in [DOMAIN outputs -> Kept(s)] :
          /\ \A i, j \in DOMAIN outputs : i < j => at[i] < at[j]
          /\ \A p \in Kept(s) : \E i \in DOMAIN outputs : at[i] = p
          /\ \A i \in DOMAIN outputs : outputs[i] = s[at[i]].value
    BY DEF IsScreenOf
<1>2. Kept(s) \subseteq DOMAIN s
    BY DEF Kept
<1>3. /\ DOMAIN s = 1..Len(s) /\ Len(s) \in Nat
      /\ \A p \in DOMAIN s : Append(s, m)[p] = s[p]
      /\ Append(s, m)[Len(s) + 1] = m
    BY AppendFacts
<1>. DEFINE more == Append(outputs, m.value)
            last == Len(outputs) + 1
            to == [i \in DOMAIN more |-> IF i = last THEN Len(s) + 1 ELSE at[i]]
<1>4. /\ DOMAIN outputs = 1..Len(outputs) /\ Len(outputs) \in Nat
      /\ DOMAIN more = 1..last
      /\ \A i \in DOMAIN outputs : more[i] = outputs[i]
      /\ more[last] = m.value
    BY AppendFacts
<1>. HIDE DEF more
<1>5. \A i \in DOMAIN more : i \in DOMAIN outputs \/ i = last
    BY <1>4
<1>6. last \in DOMAIN more /\ last \notin DOMAIN outputs /\ DOMAIN outputs \subseteq DOMAIN more
    BY <1>4
<1>7. \A i \in DOMAIN outputs : i < last /\ i \in Nat /\ at[i] \in Nat /\ at[i] < Len(s) + 1
    BY <1>1, <1>2, <1>3, <1>4
<1>8. last \in Nat /\ Len(s) + 1 \in Nat
    BY <1>3, <1>4
<1>. HIDE DEF last
<1>9. /\ to[last] = Len(s) + 1
      /\ \A i \in DOMAIN outputs : to[i] = at[i]
    BY <1>6
<1>10. to \in [DOMAIN more -> Kept(Append(s, m))]
    BY <1>1, <1>5
<1>11. \A i, j \in DOMAIN more : i < j => to[i] < to[j]
    <2>1. ASSUME NEW i \in DOMAIN more, NEW j \in DOMAIN more, i < j
          PROVE  to[i] < to[j]
        <3>1. i # last
            BY <1>5, <1>7, <1>8, <2>1
        <3>2. i \in DOMAIN outputs
            BY <1>5, <3>1
        <3>3. CASE j = last
            BY <1>7, <1>9, <3>2, <3>3
        <3>4. CASE j \in DOMAIN outputs
            BY <1>1, <1>9, <2>1, <3>2, <3>4
        <3>. QED  BY <1>5, <3>3, <3>4
    <2>. QED  BY <2>1
<1>12. \A p \in Kept(Append(s, m)) : \E i \in DOMAIN more : to[i] = p
    BY <1>1, <1>6, <1>9
<1>13. \A i \in DOMAIN more : more[i] = Append(s, m)[to[i]].value
    <2>1. TAKE i \in DOMAIN more
    <2>2. CASE i = last
        BY <1>3, <1>4, <1>9, <2>2
    <2>3. CASE i \in DOMAIN outputs
        BY <1>1, <1>2, <1>3, <1>4, <1>9, <2>3
    <2>. QED  BY <1>5, <2>2, <2>3
<1>. HIDE DEF to
<1>14. IsScreenOf(more, Append(s, m))
    BY <1>10, <1>11, <1>12, <1>13 DEF IsScreenOf
<1>. QED  BY <1>14 DEF more

\* An output that a clear has waited for is shown alone.
LEMMA ScreenRestarts ==
    ASSUME NEW s \in Seq(IOPubMessage), NEW m \in IOPubMessage, NEW v, v = m.value,
           Kept(Append(s, m)) = {Len(s) + 1}
    PROVE  IsScreenOf(<<v>>, Append(s, m))
<1>. DEFINE at == [i \in {1} |-> Len(s) + 1]
<1>1. DOMAIN <<v>> = {1} /\ <<v>>[1] = v
    OBVIOUS
<1>2. at \in [DOMAIN <<v>> -> Kept(Append(s, m))]
    BY <1>1
<1>3. /\ \A i, j \in DOMAIN <<v>> : i < j => at[i] < at[j]
      /\ \A p \in Kept(Append(s, m)) : \E i \in DOMAIN <<v>> : at[i] = p
      /\ \A i \in DOMAIN <<v>> : <<v>>[i] = Append(s, m)[at[i]].value
    BY <1>1, AppendFacts
<1>. QED  BY <1>2, <1>3 DEF IsScreenOf

\* The collector reads a message that its request has published.
LEMMA ReadsOwn ==
    ASSUME NEW c \in Collector, NEW s \in Seq(IOPubMessage), NEW m \in IOPubMessage,
           NEW request, m.parent = request,
           \/ m.type = "output"
           \/ m.type = "clear_output" /\ m.value \in {"wait", "now"},
           HasRead(c, s)
    PROVE  HasRead(Collect(c, request, m), Append(s, m))
<1>. DEFINE d == Collect(c, request, m)
<1>1. IsScreenOf(c.outputs, s) /\ (c.clearNext <=> ClearWaits(s))
    BY DEF HasRead
<1>2. c.outputs \in Seq(Datum) /\ c.clearNext \in BOOLEAN
    BY DEF Collector
<1>3. CASE m.type = "output"
    <2>1. m.value \in Datum
        BY DEF IOPubMessage
    <2>2. d = CollectOutput(c, m.value)
        BY <1>3 DEF Collect, IsRelated
    <2>3. /\ d.outputs = IF c.clearNext THEN <<m.value>> ELSE Append(c.outputs, m.value)
          /\ d.clearNext = FALSE
        BY <2>2 DEF CollectOutput, Collector
    <2>4. ~ClearWaits(Append(s, m))
        BY <1>3, KeptOutput
    <2>5. CASE ClearWaits(s)
        <3>1. Kept(Append(s, m)) = {Len(s) + 1}
            BY <1>3, <2>5, KeptOutput
        <3>2. IsScreenOf(<<m.value>>, Append(s, m))
            BY <3>1, ScreenRestarts
        <3>. QED  BY <1>1, <2>3, <2>4, <2>5, <3>2 DEF HasRead
    <2>6. CASE ~ClearWaits(s)
        <3>1. Kept(Append(s, m)) = Kept(s) \cup {Len(s) + 1}
            BY <1>3, <2>6, KeptOutput
        <3>2. IsScreenOf(Append(c.outputs, m.value), Append(s, m))
            BY <1>1, <1>2, <2>1, <3>1, ScreenGrows
        <3>. QED  BY <1>1, <2>3, <2>4, <2>6, <3>2 DEF HasRead
    <2>. QED  BY <2>5, <2>6
<1>4. CASE m.type = "clear_output" /\ m.value = "wait"
    <2>1. d = [c EXCEPT !.clearNext = TRUE]
        BY <1>4 DEF Collect, CollectClear, IsRelated
    <2>2. d.outputs = c.outputs /\ d.clearNext = TRUE
        BY <2>1 DEF Collector
    <2>3. Kept(Append(s, m)) = Kept(s) /\ ClearWaits(Append(s, m))
        BY <1>4, KeptWait
    <2>4. IsScreenOf(c.outputs, Append(s, m))
        BY <1>1, <2>3, ScreenStays
    <2>. QED  BY <2>2, <2>3, <2>4 DEF HasRead
<1>5. CASE m.type = "clear_output" /\ m.value = "now"
    <2>1. d = [c EXCEPT !.outputs = <<>>]
        BY <1>5 DEF Collect, CollectClear, IsRelated
    <2>2. d.outputs = <<>> /\ d.clearNext = c.clearNext
        BY <2>1 DEF Collector
    <2>3. Kept(Append(s, m)) = {} /\ (ClearWaits(Append(s, m)) <=> ClearWaits(s))
        BY <1>5, KeptNow
    <2>4. IsScreenOf(<<>>, Append(s, m))
        BY <2>3, ScreenOfNothing
    <2>. QED  BY <1>1, <2>2, <2>3, <2>4 DEF HasRead
<1>. QED  BY <1>3, <1>4, <1>5

\* Other messages change nothing of what is shown.
LEMMA ReadsOther ==
    ASSUME NEW c \in Collector, NEW m \in Message, NEW request,
           ~(m.parent = request /\ m.type \in {"output", "clear_output"})
    PROVE  /\ Collect(c, request, m).outputs = c.outputs
           /\ Collect(c, request, m).clearNext = c.clearNext
           /\ Collect(c, request, m).idle # c.idle =>
                m.type = "status_idle" /\ m.parent = request
<1>1. CASE ~IsRelated(request, m)
    BY <1>1 DEF Collect
<1>2. CASE IsRelated(request, m) /\ m.type = "error"
    <2>1. /\ [c EXCEPT !.error = m.value].outputs = c.outputs
          /\ [c EXCEPT !.error = m.value].clearNext = c.clearNext
          /\ [c EXCEPT !.error = m.value].idle = c.idle
        BY DEF Collector
    <2>. QED  BY <1>2, <2>1 DEF Collect
<1>3. CASE IsRelated(request, m) /\ m.type = "execute_reply"
    <2>1. /\ CollectReply(c, m.value).outputs = c.outputs
          /\ CollectReply(c, m.value).clearNext = c.clearNext
          /\ CollectReply(c, m.value).idle = c.idle
        BY DEF CollectReply, Collector
    <2>. QED  BY <1>3, <2>1 DEF Collect
<1>4. CASE IsRelated(request, m) /\ m.type = "status_idle"
    <2>1. /\ [c EXCEPT !.idle = TRUE].outputs = c.outputs
          /\ [c EXCEPT !.idle = TRUE].clearNext = c.clearNext
        BY DEF Collector
    <2>. QED  BY <1>4, <2>1 DEF Collect, IsRelated
<1>5. m.type \in MessageTypes
    BY DEF Message, IOPubMessage, ShellMessage, MessageTypes
<1>. QED  BY <1>1, <1>2, <1>3, <1>4, <1>5 DEF MessageTypes, IsRelated

------------------------------------------------------------------------------
(* What the collector has still to read. *)

\* The request of a step that is still to be sent has not begun.
LEMMA NotSentNotBegun ==
    OrderInv /\ pc = "send" =>
        ended[step] = "no" /\ executing # step /\ collector = NewCollector
BY KernelFacts DEF OrderInv, RunnerInv

LEMMA NotSentNotBegunNext ==
    (OrderInv /\ pc = "send")' =>
        (ended[step] = "no" /\ executing # step /\ collector = NewCollector)'
BY NotSentNotBegun, PTL

\* A request that has begun has begun for good.
LEMMA BegunStays ==
    ASSUME OrderInv, [Next]_vars
    PROVE  \A j \in Step : ended[j] # "no" \/ executing = j =>
                           ended'[j] # "no" \/ executing' = j
<1>. USE DEF OrderInv
<1>1. \A j \in Step : ended[j] # "no" => ended'[j] # "no"
    BY EndedStays
<1>2. ASSUME NEW status \in {"ok", "error", "interrupted"}, executing # 0,
             Finish(executing, status)
      PROVE  ended'[executing] # "no"
    <2>1. executing \in Step
        BY <1>2, KernelFacts
    <2>. QED  BY <1>2, <2>1 DEF Finish, Types
<1>3. \/ executing = 0
      \/ executing' = executing
      \/ ended'[executing] # "no"
    <2>1. CASE Interrupted
        BY <1>2, <2>1 DEF Interrupted
    <2>2. CASE Interrupt \/ LateInterrupt
        BY <2>1, <2>2 DEF Interrupt, LateInterrupt
    <2>3. CASE CodeEnds
        BY <1>2, <2>3 DEF CodeEnds, Running
    <2>4. CASE KernelPublishes \/ ThreadPrints
        BY <2>4, PrintsAlone
    <2>5. CASE \/ UNCHANGED vars \/ Send \/ RecvIOPub \/ RecvShell \/ StepTimeout
               \/ Disconnect \/ KernelBegins \/ KernelAborts
               \/ KernelStopsAborting
        BY <2>5 DEF vars, kernelVars, Send, RecvIOPub, RecvShell, StepTimeout,
            Disconnect, KernelBegins, KernelAborts, KernelStopsAborting
    <2>. QED  BY <2>2, <2>3, <2>4, <2>5, Zenon DEF Next, RunnerStep
<1>4. \A j \in Step : j # 0
    BY DEF Step
<1>. QED  BY <1>1, <1>3, <1>4

\* Messages that are not the output of the runner's step are added to iopub.
Noise ==
    /\ \A n \in DOMAIN iopub : n \in DOMAIN iopub' /\ iopub'[n] = iopub[n]
    /\ \A n \in DOMAIN iopub' : n \notin DOMAIN iopub =>
          /\ \A k \in DOMAIN iopub : k < n
          /\ ~(iopub'[n].parent = step /\ iopub'[n].type \in {"output", "clear_output"})
          /\ ended'[iopub'[n].parent] # "no" \/ executing' = iopub'[n].parent
          /\ iopub'[n].parent = step /\ iopub'[n].type = "status_idle" =>
                ended'[step] # "no"

LEMMA NoiseOf ==
    ASSUME iopub \in Seq(IOPubMessage), NEW s \in Seq(IOPubMessage), iopub' = iopub \o s,
           \A n \in DOMAIN s :
              /\ ~(s[n].parent = step /\ s[n].type \in {"output", "clear_output"})
              /\ ended'[s[n].parent] # "no" \/ executing' = s[n].parent
              /\ s[n].parent = step /\ s[n].type = "status_idle" => ended'[step] # "no"
    PROVE  Noise
<1>1. \A n \in DOMAIN iopub : n \in DOMAIN iopub' /\ iopub'[n] = iopub[n]
    OBVIOUS
<1>2. \A n \in DOMAIN iopub' : n \notin DOMAIN iopub =>
          /\ n - Len(iopub) \in DOMAIN s
          /\ iopub'[n] = s[n - Len(iopub)]
          /\ \A k \in DOMAIN iopub : k < n
    OBVIOUS
<1>. QED  BY <1>1, <1>2 DEF Noise

LEMMA NoiseOfOne ==
    ASSUME iopub \in Seq(IOPubMessage), NEW m \in IOPubMessage, iopub' = Append(iopub, m),
           ~(m.parent = step /\ m.type \in {"output", "clear_output"}),
           ended'[m.parent] # "no" \/ executing' = m.parent,
           m.parent = step /\ m.type = "status_idle" => ended'[step] # "no"
    PROVE  Noise
<1>1. <<m>> \in Seq(IOPubMessage) /\ iopub' = iopub \o <<m>>
      /\ \A n \in DOMAIN <<m>> : <<m>>[n] = m
    OBVIOUS
<1>. QED  BY <1>1, NoiseOf

LEMMA FinishNoise ==
    ASSUME OrderInv, NEW status \in {"ok", "error", "interrupted"}, executing # 0,
           Finish(executing, status)
    PROVE  Noise
<1>. DEFINE e == Error(executing, "CodeExecutionError")
            idle == Idle(executing)
<1>1. executing \in Step /\ iopub \in Seq(IOPubMessage)
    BY KernelFacts DEF OrderInv, Types
<1>2. ended'[executing] # "no"
    BY <1>1 DEF Finish, OrderInv, Types
<1>3. e \in IOPubMessage /\ idle \in IOPubMessage
    BY <1>1, MessagesTyped
<1>4. /\ e.parent = executing /\ e.type = "error"
      /\ idle.parent = executing /\ idle.type = "status_idle"
    BY DEF Error, Idle
<1>5. iopub' = iopub \o <<e, idle>> \/ iopub' = iopub \o <<idle>>
    BY DEF Finish
<1>. HIDE DEF e, idle
<1>6. /\ <<e, idle>> \in Seq(IOPubMessage)
      /\ \A n \in DOMAIN <<e, idle>> : <<e, idle>>[n] \in {e, idle}
      /\ <<idle>> \in Seq(IOPubMessage)
      /\ \A n \in DOMAIN <<idle>> : <<idle>>[n] \in {e, idle}
    BY <1>3
<1>7. ASSUME NEW s \in Seq(IOPubMessage), iopub' = iopub \o s,
             \A n \in DOMAIN s : s[n] \in {e, idle}
      PROVE  Noise
    BY <1>1, <1>2, <1>4, <1>7, NoiseOf
<1>. QED  BY <1>5, <1>6, <1>7

\* What happens to iopub and to what is published.
LEMMA IOPubEffect ==
    ASSUME OrderInv, [Next]_vars
    PROVE  \/ UNCHANGED <<iopub, published>>
           \/ RecvIOPub
           \/ KernelPublishes \/ ThreadPrints
           \/ Noise /\ UNCHANGED published
<1>. USE DEF OrderInv
<1>1. CASE CodeEnds
    BY <1>1, FinishNoise DEF CodeEnds, Running
<1>2. ASSUME Interrupted
      PROVE  UNCHANGED iopub \/ Noise
    BY <1>2, FinishNoise DEF Interrupted
<1>3. CASE Interrupt \/ LateInterrupt
    BY <1>2, <1>3 DEF Interrupt, LateInterrupt
<1>5. CASE KernelAborts
    <2>1. PICK i \in Step : i = Head(queue)
        BY <1>5, KernelFacts DEF KernelAborts
    <2>2. ended'[i] # "no" /\ iopub' = Append(iopub, Idle(i))
        BY <1>5, <2>1 DEF KernelAborts, Types
    <2>3. Idle(i) \in IOPubMessage /\ Idle(i).parent = i /\ Idle(i).type = "status_idle"
        BY MessagesTyped DEF Idle
    <2>4. Noise
        BY <2>2, <2>3, NoiseOfOne DEF Types
    <2>. QED  BY <1>5, <2>4 DEF KernelAborts
<1>6. CASE \/ UNCHANGED vars \/ Send \/ RecvShell \/ StepTimeout \/ Disconnect
           \/ KernelBegins \/ KernelStopsAborting
    BY <1>6 DEF vars, kernelVars, Send, RecvShell, StepTimeout, Disconnect,
        KernelBegins, KernelStopsAborting
<1>. QED  BY <1>1, <1>3, <1>5, <1>6, Zenon DEF Next, RunnerStep

\* What the code of a step publishes, and later a thread of it.
LEMMA PublishEffect ==
    ASSUME OrderInv, KernelPublishes \/ ThreadPrints
    PROVE  \E e \in Step, m \in IOPubMessage :
              /\ m.parent = e
              /\ \/ m.type = "output"
                 \/ m.type = "clear_output" /\ m.value \in {"wait", "now"}
              /\ \/ executing = e /\ ended[e] = "no"
                 \/ ended[e] # "no" /\ m.value = Late
              /\ published' = [published EXCEPT ![e] = Append(published[e], m)]
              /\ iopub' = Append(iopub, m)
<1>. USE DEF OrderInv
<1>1. KernelPublishes => ended[executing] = "no"
    <2>1. KernelPublishes => Running
        BY Zenon DEF KernelPublishes
    <2>. QED  BY <2>1, RunningStep, KernelFacts DEF Running
<1>. QED  BY <1>1, PrintEffect

\* What is published, and that it comes from code that has begun.
LEMMA PublishedStep ==
    ASSUME OrderInv, PublishedInv, [Next]_vars
    PROVE  /\ \A j \in Step :
                 /\ ended'[j] = "no" /\ executing' # j => published'[j] = <<>>
                 /\ \A a \in DOMAIN published'[j] :
                       /\ published'[j][a].parent = j
                       /\ \/ published'[j][a].type = "output"
                          \/ IsClear(published'[j], a, "now")
                          \/ IsClear(published'[j], a, "wait")
           /\ \A n \in DOMAIN iopub' :
                 ended'[iopub'[n].parent] # "no" \/ executing' = iopub'[n].parent
<1>1. \A j \in Step : ended[j] # "no" \/ executing = j =>
                      ended'[j] # "no" \/ executing' = j
    BY BegunStays
<1>2. /\ published \in [Step -> Seq(IOPubMessage)] /\ iopub \in Seq(IOPubMessage)
      /\ \A n \in DOMAIN iopub : iopub[n].parent \in Step
    <2>1. \A n \in DOMAIN iopub : iopub[n] \in IOPubMessage
        BY DEF OrderInv, Types
    <2>. QED  BY <2>1 DEF OrderInv, Types, IOPubMessage
<1>3. \A n \in DOMAIN iopub :
          ended'[iopub[n].parent] # "no" \/ executing' = iopub[n].parent
    BY <1>1, <1>2 DEF PublishedInv
<1>4. ASSUME UNCHANGED published
      PROVE  \A j \in Step :
                 /\ ended'[j] = "no" /\ executing' # j => published'[j] = <<>>
                 /\ \A a \in DOMAIN published'[j] :
                       /\ published'[j][a].parent = j
                       /\ \/ published'[j][a].type = "output"
                          \/ IsClear(published'[j], a, "now")
                          \/ IsClear(published'[j], a, "wait")
    BY <1>1, <1>4 DEF PublishedInv
<1>5. CASE UNCHANGED <<iopub, published>>
    BY <1>3, <1>4, <1>5
<1>6. CASE RecvIOPub
    <2>1. UNCHANGED published
        BY <1>6 DEF RecvIOPub, kernelVars
    <2>2. \A n \in DOMAIN iopub' : n + 1 \in DOMAIN iopub /\ iopub'[n] = iopub[n + 1]
        BY <1>2, <1>6 DEF RecvIOPub
    <2>. QED  BY <1>3, <1>4, <2>1, <2>2
<1>7. CASE Noise /\ UNCHANGED published
    <2>1. \A n \in DOMAIN iopub' :
              ended'[iopub'[n].parent] # "no" \/ executing' = iopub'[n].parent
        BY <1>3, <1>7 DEF Noise
    <2>. QED  BY <1>4, <1>7, <2>1
<1>8. CASE KernelPublishes \/ ThreadPrints
    <2>1. PICK e \in Step, m \in IOPubMessage :
              /\ m.parent = e
              /\ \/ m.type = "output"
                 \/ m.type = "clear_output" /\ m.value \in {"wait", "now"}
              /\ executing = e \/ ended[e] # "no"
              /\ published' = [published EXCEPT ![e] = Append(published[e], m)]
              /\ iopub' = Append(iopub, m)
        BY <1>8, PublishEffect
    <2>2. /\ m.parent = e
          /\ \/ m.type = "output"
             \/ m.type = "clear_output" /\ m.value \in {"wait", "now"}
          /\ published' = [published EXCEPT ![e] = Append(published[e], m)]
          /\ iopub' = Append(iopub, m)
        BY <2>1
    <2>3. executing' = executing /\ ended' = ended
        BY <1>8, PrintsAlone
    <2>4. /\ \A n \in DOMAIN iopub' : n \in DOMAIN iopub \/ n = Len(iopub) + 1
          /\ \A n \in DOMAIN iopub : iopub'[n] = iopub[n]
          /\ iopub'[Len(iopub) + 1] = m
        BY <1>2, <2>2
    <2>5. \A n \in DOMAIN iopub' :
              ended'[iopub'[n].parent] # "no" \/ executing' = iopub'[n].parent
        BY <1>3, <2>1, <2>2, <2>3, <2>4
    <2>6. \A j \in Step : j # e => published'[j] = published[j]
        BY <1>2, <2>2
    <2>7. published'[e] = Append(published[e], m) /\ published[e] \in Seq(IOPubMessage)
        BY <1>2, <2>2
    <2>8. \A a \in DOMAIN published'[e] :
              /\ a \in DOMAIN published[e] \/ a = Len(published[e]) + 1
              /\ a \in DOMAIN published[e] => published'[e][a] = published[e][a]
              /\ a = Len(published[e]) + 1 => published'[e][a] = m
        BY <2>7, AppendFacts
    <2>9. ASSUME NEW j \in Step, NEW a \in DOMAIN published'[j]
          PROVE  /\ published'[j][a].parent = j
                 /\ \/ published'[j][a].type = "output"
                    \/ IsClear(published'[j], a, "now")
                    \/ IsClear(published'[j], a, "wait")
        <3>1. CASE j # e
            BY <2>6, <2>9, <3>1 DEF PublishedInv
        <3>2. CASE j = e /\ a \in DOMAIN published[e]
            BY <2>8, <2>9, <3>2 DEF PublishedInv, IsClear
        <3>3. CASE j = e /\ a = Len(published[e]) + 1
            BY <2>2, <2>8, <2>9, <3>3 DEF IsClear
        <3>. QED  BY <2>8, <2>9, <3>1, <3>2, <3>3
    <2>10. \A j \in Step : ended'[j] = "no" /\ executing' # j => published'[j] = <<>>
        BY <2>1, <2>3, <2>6 DEF PublishedInv
    <2>. QED  BY <2>5, <2>9, <2>10
<1>. QED  BY <1>5, <1>6, <1>7, <1>8, IOPubEffect

\* The idle message of a step comes last, on its way as well as in the
\* collector.
LEMMA IdleStep ==
    ASSUME OrderInv, PublishedInv, [Next]_vars, step' = step
    PROVE  \A n \in DOMAIN iopub' :
              iopub'[n].parent = step /\ iopub'[n].type = "status_idle" =>
                 /\ ended'[step] # "no"
                 /\ \A k \in DOMAIN iopub' :
                       IsCode(step, iopub'[k])
                         => k < n
<1>1. step \in Step /\ iopub \in Seq(IOPubMessage)
    BY DEF OrderInv, Types
<1>2. ended[step] # "no" => ended'[step] # "no"
    BY <1>1, EndedStays DEF OrderInv
<1>3. ASSUME NEW n \in DOMAIN iopub, iopub[n].parent = step,
             iopub[n].type = "status_idle"
      PROVE  /\ ended[step] # "no" /\ ended'[step] # "no"
             /\ \A k \in DOMAIN iopub :
                   IsCode(step, iopub[k])
                     => k < n
    BY <1>2, <1>3 DEF PublishedInv
<1>4. CASE UNCHANGED <<iopub, published>>
    BY <1>3, <1>4
<1>5. CASE RecvIOPub
    <2>1. \A n \in DOMAIN iopub' : /\ n + 1 \in DOMAIN iopub /\ n \in Nat
                                   /\ iopub'[n] = iopub[n + 1]
        BY <1>1, <1>5 DEF RecvIOPub
    <2>. QED  BY <1>3, <2>1
<1>6. CASE Noise
    <2>1. \A n \in DOMAIN iopub' :
              IsCode(step, iopub'[n])
                => n \in DOMAIN iopub
        BY <1>6 DEF Noise, IsCode, IsOwn
    <2>2. \A n \in DOMAIN iopub : n \in DOMAIN iopub' /\ iopub'[n] = iopub[n]
        BY <1>6 DEF Noise, IsCode, IsOwn
    <2>3. \A n \in DOMAIN iopub' : n \notin DOMAIN iopub =>
              /\ \A k \in DOMAIN iopub : k < n
              /\ iopub'[n].parent = step /\ iopub'[n].type = "status_idle" =>
                    ended'[step] # "no"
        BY <1>6 DEF Noise, IsCode, IsOwn
    <2>. QED  BY <1>3, <2>1, <2>2, <2>3
<1>7. CASE KernelPublishes \/ ThreadPrints
    <2>1. PICK e \in Step, m \in IOPubMessage :
              /\ m.parent = e
              /\ m.type = "output" \/ m.type = "clear_output"
              /\ ended[e] = "no" \/ m.value = Late
              /\ iopub' = Append(iopub, m)
        BY <1>7, PublishEffect
    <2>2. /\ \A n \in DOMAIN iopub' : n \in DOMAIN iopub \/ n = Len(iopub) + 1
          /\ \A n \in DOMAIN iopub : iopub'[n] = iopub[n]
          /\ iopub'[Len(iopub) + 1] = m
        BY <1>1, <2>1
    <2>3. ASSUME NEW n \in DOMAIN iopub', iopub'[n].parent = step,
                 iopub'[n].type = "status_idle"
          PROVE  /\ n \in DOMAIN iopub /\ iopub[n] = iopub'[n]
                 /\ ~IsCode(step, m)
        <3>1. n \in DOMAIN iopub
            BY <2>1, <2>2, <2>3
        <3>. QED  BY <1>3, <2>1, <2>2, <2>3, <3>1 DEF IsCode, IsOwn
    <2>. QED  BY <1>3, <2>1, <2>2, <2>3
<1>. QED  BY <1>4, <1>5, <1>6, <1>7, IOPubEffect

\* No output of an idle step is on its way.
LEMMA IdleReadStep ==
    ASSUME OrderInv, PublishedInv, [Next]_vars, step' = step, collector'.idle,
           collector' # NewCollector
    PROVE  /\ ended'[step] # "no"
           /\ \A n \in DOMAIN iopub' :
                 ~IsCode(step, iopub'[n])
<1>1. step \in Step /\ iopub \in Seq(IOPubMessage) /\ collector \in Collector
    BY DEF OrderInv, Types
<1>2. ended[step] # "no" => ended'[step] # "no"
    BY <1>1, EndedStays DEF OrderInv
<1>3. ASSUME ended[step] # "no",
             \A n \in DOMAIN iopub :
                ~IsCode(step, iopub[n])
      PROVE  \A n \in DOMAIN iopub' :
                ~IsCode(step, iopub'[n])
    <2>1. CASE UNCHANGED <<iopub, published>>
        BY <1>3, <2>1
    <2>2. CASE RecvIOPub
        <3>1. \A n \in DOMAIN iopub' : n + 1 \in DOMAIN iopub /\ iopub'[n] = iopub[n + 1]
            BY <1>1, <2>2 DEF RecvIOPub
        <3>. QED  BY <1>3, <3>1
    <2>3. CASE Noise
        BY <1>3, <2>3 DEF Noise, IsCode, IsOwn
    <2>4. CASE KernelPublishes \/ ThreadPrints
        <3>1. PICK m \in IOPubMessage :
                  ~IsCode(step, m) /\ iopub' = Append(iopub, m)
            BY <1>3, <2>4, PublishEffect DEF IsCode, IsOwn
        <3>2. /\ \A n \in DOMAIN iopub' : n \in DOMAIN iopub \/ n = Len(iopub) + 1
              /\ \A n \in DOMAIN iopub : iopub'[n] = iopub[n]
              /\ iopub'[Len(iopub) + 1] = m
            BY <1>1, <3>1
        <3>. QED  BY <1>3, <3>1, <3>2
    <2>. QED  BY <2>1, <2>2, <2>3, <2>4, IOPubEffect
<1>4. ASSUME collector.idle
      PROVE  /\ ended[step] # "no"
             /\ \A n \in DOMAIN iopub :
                   ~IsCode(step, iopub[n])
    BY <1>4 DEF PublishedInv
<1>5. CASE collector.idle
    BY <1>2, <1>3, <1>4, <1>5
<1>6. CASE ~collector.idle
    <2>1. PICK m \in Message : /\ collector' = Collect(collector, step, m)
                               /\ \/ iopub # <<>> /\ m = Head(iopub)
                                  \/ shell # <<>> /\ m = Head(shell)
        <3>1. /\ iopub # <<>> => Head(iopub) \in Message
              /\ shell # <<>> => Head(shell) \in Message
            BY DEF OrderInv, Types, Message
        <3>2. ~StepDone(Timeout)
            BY Zenon DEF StepDone
        <3>3. ASSUME NEW m, Receive(m)
              PROVE  collector' = Collect(collector, step, m)
            BY <3>3, Zenon DEF Receive, StepDone
        <3>. QED  BY <1>6, <3>1, <3>2, <3>3, RunnerEffect DEF Interrupt
    <2>2. m.type = "status_idle" /\ m.parent = step
        <3>1. m.type = "output" => Collect(collector, step, m).idle = collector.idle
            BY <1>1 DEF Collect, CollectOutput, Collector
        <3>2. m.type = "clear_output" => Collect(collector, step, m).idle = collector.idle
            <4>1. CollectClear(collector, m.value).idle = collector.idle
                BY <1>1 DEF CollectClear, Collector
            <4>. QED  BY <4>1 DEF Collect
        <3>. QED  BY <1>1, <1>6, <2>1, <3>1, <3>2, ReadsOther
    <2>3. 1 \in DOMAIN iopub /\ m = iopub[1]
        <3>1. CASE iopub # <<>> /\ m = Head(iopub)
            BY <1>1, <3>1
        <3>2. CASE shell # <<>> /\ m = Head(shell)
            <4>1. m \in ShellMessage
                BY <3>2 DEF OrderInv, Types
            <4>2. m.type = "execute_reply"
                BY <4>1 DEF ShellMessage
            <4>. QED  BY <2>2, <4>2
        <3>. QED  BY <2>1, <3>1, <3>2
    <2>4. /\ ended[step] # "no"
          /\ \A k \in DOMAIN iopub :
                IsCode(step, iopub[k])
                  => k < 1
        BY <2>2, <2>3 DEF PublishedInv
    <2>5. \A k \in DOMAIN iopub : ~(k < 1)
        BY <1>1
    <2>. QED  BY <1>2, <1>3, <2>4, <2>5
<1>. QED  BY <1>1, <1>5, <1>6

LEMMA PublishedKept ==
    ASSUME OrderInv, OrderInv', PublishedInv, [Next]_vars
    PROVE  PublishedInv'
<1>1. /\ \A j \in Step :
            /\ ended'[j] = "no" /\ executing' # j => published'[j] = <<>>
            /\ \A a \in DOMAIN published'[j] :
                  /\ published'[j][a].parent = j
                  /\ \/ published'[j][a].type = "output"
                     \/ IsClear(published'[j], a, "now")
                     \/ IsClear(published'[j], a, "wait")
      /\ \A n \in DOMAIN iopub' :
            ended'[iopub'[n].parent] # "no" \/ executing' = iopub'[n].parent
    BY PublishedStep
<1>2. ~NewCollector.idle
    BY DEF NewCollector
<1>3. /\ \A n \in DOMAIN iopub' :
            iopub'[n].parent = step' /\ iopub'[n].type = "status_idle" =>
               /\ ended'[step'] # "no"
               /\ \A k \in DOMAIN iopub' :
                     IsCode(step', iopub'[k])
                       => k < n
      /\ collector'.idle =>
            /\ ended'[step'] # "no"
            /\ \A n \in DOMAIN iopub' :
                  ~IsCode(step', iopub'[n])
    <2>1. CASE pc' = "send"
        <3>1. ended'[step'] = "no" /\ executing' # step' /\ collector' = NewCollector
            BY <2>1, NotSentNotBegunNext DEF NewCollector
        <3>. QED  BY <1>1, <1>2, <3>1
    <2>2. CASE step' = step
        BY <1>2, <2>2, IdleStep, IdleReadStep
    <2>3. step' = step \/ pc' = "send"
        <3>1. ASSUME NEW r, StepDone(r)
              PROVE  step' = step \/ pc' = "send"
            BY <3>1 DEF StepDone
        <3>. QED  BY <3>1, RunnerEffect DEF Receive, Interrupt
    <2>. QED  BY <2>1, <2>2, <2>3
<1>. QED  BY <1>1, <1>3 DEF PublishedInv, IsCode, IsOwn, IsClear

\* A new collector reads from the beginning.
LEMMA ReadingFresh ==
    ASSUME NEW request, NEW channel,
           \A n \in DOMAIN channel : ~IsOwn(request, channel[n])
    PROVE  Reading(NewCollector, request, <<>>, channel)
<1>. DEFINE pos == [a \in 1..0 |-> a]
<1>1. Kept(<<>>) = {} /\ ~ClearWaits(<<>>)
    BY DEF Kept, ClearWaits
<1>2. NewCollector.outputs = <<>> /\ NewCollector.clearNext = FALSE
    BY DEF NewCollector
<1>3. IsScreenOf(<<>>, <<>>)
    BY <1>1, ScreenOfNothing
<1>4. HasRead(NewCollector, <<>>)
    BY <1>1, <1>2, <1>3 DEF HasRead
<1>5. SubSeq(<<>>, 1, 0) = <<>> /\ Len(<<>>) = 0 /\ 0 \in 0..0
    OBVIOUS
<1>6. /\ pos \in [(0 + 1)..0 -> DOMAIN channel]
      /\ DOMAIN pos = {}
    OBVIOUS
<1>. HIDE DEF pos
<1>. QED  BY <1>4, <1>5, <1>6 DEF Reading

\* Messages that are not for this reader may come.
LEMMA ReadingNoise ==
    ASSUME NEW c, NEW d, d.outputs = c.outputs, d.clearNext = c.clearNext,
           NEW request, NEW s, NEW channel, NEW more, Reading(c, request, s, channel),
           \A n \in DOMAIN channel : n \in DOMAIN more /\ more[n] = channel[n],
           \A n \in DOMAIN more : IsOwn(request, more[n]) => n \in DOMAIN channel
    PROVE  Reading(d, request, s, more)
<1>0. PICK k \in 0..Len(s) : \E pos \in [(k + 1)..Len(s) -> DOMAIN channel] :
          /\ HasRead(c, SubSeq(s, 1, k))
          /\ \A a \in DOMAIN pos : channel[pos[a]] = s[a]
          /\ \A a, b \in DOMAIN pos : a < b => pos[a] < pos[b]
          /\ \A n \in DOMAIN channel :
                IsOwn(request, channel[n]) => \E a \in DOMAIN pos : pos[a] = n
    BY Zenon DEF Reading
<1>1. PICK pos \in [(k + 1)..Len(s) -> DOMAIN channel] :
          /\ HasRead(c, SubSeq(s, 1, k))
          /\ \A a \in DOMAIN pos : channel[pos[a]] = s[a]
          /\ \A a, b \in DOMAIN pos : a < b => pos[a] < pos[b]
          /\ \A n \in DOMAIN channel :
                IsOwn(request, channel[n]) => \E a \in DOMAIN pos : pos[a] = n
    BY <1>0, Zenon
<1>2. pos \in [(k + 1)..Len(s) -> DOMAIN more]
    OBVIOUS
<1>3. HasRead(d, SubSeq(s, 1, k))
    BY <1>1 DEF HasRead
<1>4. /\ \A a \in DOMAIN pos : more[pos[a]] = s[a]
      /\ \A n \in DOMAIN more :
            IsOwn(request, more[n]) => \E a \in DOMAIN pos : pos[a] = n
    BY <1>1
<1>. QED  BY <1>1, <1>2, <1>3, <1>4 DEF Reading

\* A message is published and put on its way.
LEMMA ReadingPublish ==
    ASSUME NEW c, NEW request, NEW s \in Seq(IOPubMessage),
           NEW channel \in Seq(IOPubMessage), NEW m \in IOPubMessage,
           Reading(c, request, s, channel)
    PROVE  Reading(c, request, Append(s, m), Append(channel, m))
<1>0. PICK k \in 0..Len(s) : \E pos \in [(k + 1)..Len(s) -> DOMAIN channel] :
          /\ HasRead(c, SubSeq(s, 1, k))
          /\ \A a \in DOMAIN pos : channel[pos[a]] = s[a]
          /\ \A a, b \in DOMAIN pos : a < b => pos[a] < pos[b]
          /\ \A n \in DOMAIN channel :
                IsOwn(request, channel[n]) => \E a \in DOMAIN pos : pos[a] = n
    BY Zenon DEF Reading
<1>1. PICK pos \in [(k + 1)..Len(s) -> DOMAIN channel] :
          /\ HasRead(c, SubSeq(s, 1, k))
          /\ \A a \in DOMAIN pos : channel[pos[a]] = s[a]
          /\ \A a, b \in DOMAIN pos : a < b => pos[a] < pos[b]
          /\ \A n \in DOMAIN channel :
                IsOwn(request, channel[n]) => \E a \in DOMAIN pos : pos[a] = n
    BY <1>0, Zenon
<1>. DEFINE all == Append(s, m)
            more == Append(channel, m)
            last == Len(s) + 1
            place == Len(channel) + 1
            to == [a \in (k + 1)..Len(all) |-> IF a = last THEN place ELSE pos[a]]
<1>2. /\ DOMAIN s = 1..Len(s) /\ Len(s) \in Nat /\ Len(all) = last
      /\ \A a \in DOMAIN s : all[a] = s[a]
      /\ all[last] = m
    BY AppendFacts
<1>3. /\ DOMAIN channel = 1..Len(channel) /\ Len(channel) \in Nat
      /\ DOMAIN more = 1..place
      /\ \A n \in DOMAIN channel : more[n] = channel[n]
      /\ more[place] = m
    BY AppendFacts
<1>4. k \in Nat /\ k <= Len(s) /\ k \in 0..Len(all)
    BY <1>2
<1>5. SubSeq(all, 1, k) = SubSeq(s, 1, k)
    BY <1>4
<1>. HIDE DEF all, more
<1>6. /\ \A a \in (k + 1)..Len(all) : a \in DOMAIN pos \/ a = last
      /\ \A a \in DOMAIN pos : a \in DOMAIN s /\ a < last /\ a # last /\ pos[a] \in DOMAIN channel
      /\ last \in (k + 1)..Len(all)
      /\ DOMAIN pos \subseteq (k + 1)..Len(all)
    BY <1>2, <1>4
<1>7. /\ \A n \in DOMAIN channel : n < place /\ n \in DOMAIN more
      /\ place \in DOMAIN more
      /\ \A n \in DOMAIN more : n \in DOMAIN channel \/ n = place
    BY <1>3
<1>8. DOMAIN to = (k + 1)..Len(all) /\ to[last] = place
      /\ \A a \in DOMAIN pos : to[a] = pos[a]
    BY <1>6
<1>9. to \in [(k + 1)..Len(all) -> DOMAIN more]
    BY <1>6, <1>7
<1>10. \A a \in DOMAIN to : more[to[a]] = all[a]
    BY <1>1, <1>2, <1>3, <1>6, <1>8
<1>11. \A a, b \in DOMAIN to : a < b => to[a] < to[b]
    <2>1. ASSUME NEW a \in DOMAIN to, NEW b \in DOMAIN to, a < b
          PROVE  to[a] < to[b]
        <3>1. a # last
            BY <1>2, <1>8, <2>1
        <3>2. a \in DOMAIN pos
            BY <1>6, <1>8, <3>1
        <3>3. CASE b = last
            BY <1>6, <1>7, <1>8, <3>2, <3>3
        <3>4. CASE b \in DOMAIN pos
            BY <1>1, <1>8, <2>1, <3>2, <3>4
        <3>. QED  BY <1>6, <1>8, <3>3, <3>4
    <2>. QED  BY <2>1
<1>12. \A n \in DOMAIN more :
           IsOwn(request, more[n]) => \E a \in DOMAIN to : to[a] = n
    BY <1>1, <1>3, <1>6, <1>7, <1>8
<1>. HIDE DEF to
<1>13. Reading(c, request, all, more)
    BY <1>1, <1>4, <1>5, <1>9, <1>10, <1>11, <1>12 DEF Reading
<1>. QED  BY <1>13 DEF all, more

\* When nothing of its code is on its way, the reader has read all of it.
LEMMA ReadingDone ==
    ASSUME NEW c, NEW request, NEW s \in Seq(IOPubMessage), NEW channel,
           Reading(c, request, s, channel),
           \A n \in DOMAIN channel : ~IsCode(request, channel[n]),
           \A a \in DOMAIN s : IsOwn(request, s[a])
    PROVE  ShowsCode(c.outputs, s)
<1>0. PICK k \in 0..Len(s) : \E pos \in [(k + 1)..Len(s) -> DOMAIN channel] :
          /\ HasRead(c, SubSeq(s, 1, k))
          /\ \A a \in DOMAIN pos : channel[pos[a]] = s[a]
    BY Zenon DEF Reading
<1>1. PICK pos \in [(k + 1)..Len(s) -> DOMAIN channel] :
          /\ HasRead(c, SubSeq(s, 1, k))
          /\ \A a \in DOMAIN pos : channel[pos[a]] = s[a]
    BY <1>0, Zenon
<1>2. \A a \in (k + 1)..Len(s) :
          a \in DOMAIN s /\ a \in DOMAIN pos /\ pos[a] \in DOMAIN channel
    OBVIOUS
<1>3. \A a \in (k + 1)..Len(s) : s[a].value = Late
    BY <1>1, <1>2, Zenon DEF IsCode
<1>4. IsScreenOf(c.outputs, SubSeq(s, 1, k))
    BY <1>1 DEF HasRead
<1>. QED  BY <1>3, <1>4 DEF ShowsCode

\* The head of the channel is taken off: the places move by one.
LEMMA ReadingShift ==
    ASSUME NEW d, NEW request, NEW s, NEW channel \in Seq(IOPubMessage), channel # <<>>,
           NEW k \in 0..Len(s), HasRead(d, SubSeq(s, 1, k)),
           NEW pos \in [(k + 1)..Len(s) -> DOMAIN channel],
           \A a \in DOMAIN pos : pos[a] # 1,
           \A a \in DOMAIN pos : channel[pos[a]] = s[a],
           \A a, b \in DOMAIN pos : a < b => pos[a] < pos[b],
           \A n \in DOMAIN channel :
              n # 1 /\ IsOwn(request, channel[n]) => \E a \in DOMAIN pos : pos[a] = n
    PROVE  Reading(d, request, s, Tail(channel))
<1>. DEFINE rest == Tail(channel)
            to == [a \in (k + 1)..Len(s) |-> pos[a] - 1]
<1>1. /\ \A n \in DOMAIN rest : /\ n \in Nat /\ n # 0 /\ n + 1 \in DOMAIN channel
                                /\ rest[n] = channel[n + 1]
      /\ \A n \in DOMAIN channel : n \in Nat /\ (n # 1 => n - 1 \in DOMAIN rest)
    OBVIOUS
<1>. HIDE DEF rest
<1>2. \A a \in (k + 1)..Len(s) : /\ a \in DOMAIN pos /\ pos[a] \in DOMAIN channel
                                 /\ pos[a] \in Nat /\ pos[a] # 1
                                 /\ pos[a] - 1 \in DOMAIN rest
    BY <1>1
<1>3. DOMAIN pos = (k + 1)..Len(s) /\ DOMAIN to = (k + 1)..Len(s)
    OBVIOUS
<1>4. \A a \in (k + 1)..Len(s) : to[a] = pos[a] - 1
    OBVIOUS
<1>5. to \in [(k + 1)..Len(s) -> DOMAIN rest]
    BY <1>2
<1>. HIDE DEF to
<1>6. \A a \in DOMAIN to : rest[to[a]] = s[a]
    <2>1. TAKE a \in DOMAIN to
    <2>2. to[a] = pos[a] - 1 /\ pos[a] - 1 \in DOMAIN rest /\ pos[a] \in Nat
          /\ a \in DOMAIN pos
        BY <1>2, <1>3, <1>4
    <2>3. rest[pos[a] - 1] = channel[(pos[a] - 1) + 1] /\ (pos[a] - 1) + 1 = pos[a]
        BY <1>1, <2>2
    <2>. QED  BY <2>2, <2>3
<1>7. \A a, b \in DOMAIN to : a < b => to[a] < to[b]
    BY <1>2, <1>3, <1>4
<1>8. ASSUME NEW n \in DOMAIN rest, IsOwn(request, rest[n])
      PROVE  \E a \in DOMAIN to : to[a] = n
    <2>1. n \in Nat /\ n + 1 \in DOMAIN channel /\ n + 1 # 1 /\ rest[n] = channel[n + 1]
        BY <1>1
    <2>2. PICK a \in DOMAIN pos : pos[a] = n + 1
        BY <1>8, <2>1
    <2>3. a \in DOMAIN to /\ to[a] = n
        BY <1>3, <1>4, <2>1, <2>2
    <2>. QED  BY <2>3
<1>9. Reading(d, request, s, rest)
    BY <1>5, <1>6, <1>7, <1>8 DEF Reading
<1>. QED  BY <1>9 DEF rest

\* The collector reads the message at the head of the channel.
LEMMA ReadingReceive ==
    ASSUME NEW c \in Collector, NEW request, NEW s \in Seq(IOPubMessage),
           NEW channel \in Seq(IOPubMessage), channel # <<>>,
           Reading(c, request, s, channel),
           \A a \in DOMAIN s :
              /\ s[a].parent = request
              /\ s[a].type = "output" \/ IsClear(s, a, "now") \/ IsClear(s, a, "wait")
    PROVE  Reading(Collect(c, request, Head(channel)), request, s, Tail(channel))
<1>. DEFINE m == Head(channel)
            d == Collect(c, request, m)
<1>0. PICK k \in 0..Len(s) : \E pos \in [(k + 1)..Len(s) -> DOMAIN channel] :
          /\ HasRead(c, SubSeq(s, 1, k))
          /\ \A a \in DOMAIN pos : channel[pos[a]] = s[a]
          /\ \A a, b \in DOMAIN pos : a < b => pos[a] < pos[b]
          /\ \A n \in DOMAIN channel :
                IsOwn(request, channel[n]) => \E a \in DOMAIN pos : pos[a] = n
    BY Zenon DEF Reading
<1>1. PICK pos \in [(k + 1)..Len(s) -> DOMAIN channel] :
          /\ HasRead(c, SubSeq(s, 1, k))
          /\ \A a \in DOMAIN pos : channel[pos[a]] = s[a]
          /\ \A a, b \in DOMAIN pos : a < b => pos[a] < pos[b]
          /\ \A n \in DOMAIN channel :
                IsOwn(request, channel[n]) => \E a \in DOMAIN pos : pos[a] = n
    BY <1>0, Zenon
<1>2. 1 \in DOMAIN channel /\ m = channel[1] /\ m \in IOPubMessage
      /\ \A n \in DOMAIN channel : n \in Nat /\ n >= 1
    OBVIOUS
<1>. HIDE DEF m
<1>3. PICK last \in Nat : last = Len(s) /\ DOMAIN s = 1..last
    OBVIOUS
<1>4. k \in Nat /\ k <= last /\ DOMAIN pos = (k + 1)..last
    BY <1>3
<1>5. \A a \in DOMAIN pos : a \in DOMAIN s /\ a \in Nat /\ a >= k + 1
                            /\ pos[a] \in DOMAIN channel /\ pos[a] \in Nat /\ pos[a] >= 1
    BY <1>2, <1>3, <1>4
<1>6. CASE ~IsOwn(request, m)
    <2>1. \A a \in DOMAIN pos : pos[a] # 1
        BY <1>1, <1>2, <1>5, <1>6 DEF IsOwn, IsClear
    <2>2. d.outputs = c.outputs /\ d.clearNext = c.clearNext
        BY <1>2, <1>6, ReadsOther DEF IsOwn, Message
    <2>3. HasRead(d, SubSeq(s, 1, k))
        BY <1>1, <2>2 DEF HasRead
    <2>. HIDE DEF d
    <2>4. Reading(d, request, s, Tail(channel))
        BY <1>1, <2>1, <2>3, ReadingShift
    <2>. QED  BY <2>4 DEF d, m
<1>7. CASE IsOwn(request, m)
    <2>1. PICK a \in DOMAIN pos : pos[a] = 1
        BY <1>1, <1>2, <1>7
    <2>2. a = k + 1
        <3>1. SUFFICES ASSUME a # k + 1 PROVE FALSE
            OBVIOUS
        <3>2. k + 1 \in DOMAIN pos /\ k + 1 < a
            BY <1>4, <1>5, <3>1
        <3>3. pos[k + 1] < pos[a]
            BY <1>1, <3>2
        <3>4. pos[k + 1] \in Nat /\ pos[k + 1] >= 1
            BY <1>5, <3>2
        <3>. QED  BY <2>1, <3>3, <3>4
    <2>3. k + 1 \in DOMAIN pos /\ k + 1 \in DOMAIN s /\ s[k + 1] = m /\ pos[k + 1] = 1
        BY <1>1, <1>2, <1>5, <2>1, <2>2
    <2>4. k + 1 \in 0..Len(s) /\ k + 1 \in Nat /\ k + 1 <= last
        BY <1>3, <1>4, <2>3
    <2>5. /\ SubSeq(s, 1, k) \in Seq(IOPubMessage)
          /\ SubSeq(s, 1, k + 1) = Append(SubSeq(s, 1, k), s[k + 1])
        BY <1>3, <1>4, <2>4
    <2>6. /\ m.parent = request
          /\ \/ m.type = "output"
             \/ m.type = "clear_output" /\ m.value \in {"wait", "now"}
        BY <2>3 DEF IsClear
    <2>7. HasRead(d, SubSeq(s, 1, k + 1))
        <3>1. PICK u \in Seq(IOPubMessage) : u = SubSeq(s, 1, k)
            BY <2>5
        <3>2. HasRead(c, u)
            BY <1>1, <3>1
        <3>3. HasRead(d, Append(u, m))
            BY <1>2, <2>6, <3>2, ReadsOwn
        <3>4. Append(u, m) = SubSeq(s, 1, k + 1)
            BY <2>3, <2>5, <3>1
        <3>. QED  BY <3>3, <3>4
    <2>. DEFINE to == [b \in ((k + 1) + 1)..Len(s) |-> pos[b]]
    <2>8. \A b \in ((k + 1) + 1)..Len(s) : b \in DOMAIN pos /\ k + 1 < b
        BY <1>3, <1>4
    <2>9. \A b \in DOMAIN pos : b # k + 1 => b \in ((k + 1) + 1)..Len(s)
        BY <1>3, <1>4
    <2>10. to \in [((k + 1) + 1)..Len(s) -> DOMAIN channel]
        BY <2>8
    <2>11. DOMAIN to = ((k + 1) + 1)..Len(s) /\ \A b \in DOMAIN to : to[b] = pos[b]
        OBVIOUS
    <2>. HIDE DEF to, d
    <2>12. \A b \in DOMAIN to : to[b] # 1
        <3>1. TAKE b \in DOMAIN to
        <3>2. b \in DOMAIN pos /\ k + 1 < b /\ to[b] = pos[b]
            BY <2>8, <2>11
        <3>3. pos[k + 1] < pos[b] /\ pos[b] \in Nat
            BY <1>1, <1>5, <2>3, <3>2
        <3>. QED  BY <2>3, <3>2, <3>3
    <2>13. \A b \in DOMAIN to : channel[to[b]] = s[b]
        BY <1>1, <2>8, <2>11
    <2>14. \A a1, b \in DOMAIN to : a1 < b => to[a1] < to[b]
        BY <1>1, <2>8, <2>11
    <2>15. \A n \in DOMAIN channel :
               n # 1 /\ IsOwn(request, channel[n]) => \E b \in DOMAIN to : to[b] = n
        BY <1>1, <2>3, <2>9, <2>11
    <2>16. Reading(d, request, s, Tail(channel))
        BY <2>4, <2>7, <2>10, <2>12, <2>13, <2>14, <2>15, ReadingShift
    <2>. QED  BY <2>16 DEF d, m
<1>. QED  BY <1>6, <1>7

\* A step that is still to be sent has nothing to read.
LEMMA FreshScreen == OrderInv /\ PublishedInv /\ pc = "send" => ScreenInv
<1>1. SUFFICES ASSUME OrderInv, PublishedInv, pc = "send"
               PROVE  Reading(collector, step, published[step], iopub)
    BY DEF ScreenInv
<1>2. /\ step \in Step /\ ended[step] = "no" /\ executing # step
      /\ collector = NewCollector
    BY <1>1, NotSentNotBegun DEF OrderInv, Types
<1>3. published[step] = <<>>
    BY <1>1, <1>2 DEF PublishedInv
<1>4. \A n \in DOMAIN iopub : ~IsOwn(step, iopub[n])
    BY <1>1, <1>2 DEF PublishedInv, IsOwn
<1>. QED  BY <1>2, <1>3, <1>4, ReadingFresh

LEMMA FreshScreenNext == (OrderInv /\ PublishedInv /\ pc = "send")' => ScreenInv'
BY FreshScreen, PTL

\* What the runner's step has published is its own.
LEMMA OwnPublished ==
    ASSUME OrderInv, PublishedInv
    PROVE  /\ published[step] \in Seq(IOPubMessage) /\ iopub \in Seq(IOPubMessage)
           /\ \A a \in DOMAIN published[step] :
                 /\ published[step][a].parent = step
                 /\ \/ published[step][a].type = "output"
                    \/ IsClear(published[step], a, "now")
                    \/ IsClear(published[step], a, "wait")
                 /\ IsOwn(step, published[step][a])
<1>1. step \in Step /\ published[step] \in Seq(IOPubMessage) /\ iopub \in Seq(IOPubMessage)
    BY DEF OrderInv, Types
<1>2. \A a \in DOMAIN published[step] :
          /\ published[step][a].parent = step
          /\ \/ published[step][a].type = "output"
             \/ IsClear(published[step], a, "now")
             \/ IsClear(published[step], a, "wait")
    BY <1>1 DEF PublishedInv
<1>. QED  BY <1>1, <1>2 DEF IsOwn, IsClear

\* A message received brings the collector on, and an idle collector has
\* nothing left to read.
LEMMA ReceiveReads ==
    ASSUME OrderInv, PublishedInv, ScreenInv, pc = "recv", NEW m, NEW rest,
           \/ iopub # <<>> /\ m = Head(iopub) /\ rest = Tail(iopub)
           \/ shell # <<>> /\ m = Head(shell) /\ rest = iopub
    PROVE  /\ Reading(Collect(collector, step, m), step, published[step], rest)
           /\ Collect(collector, step, m).idle =>
                 \A n \in DOMAIN rest : ~IsCode(step, rest[n])
<1>. DEFINE c == Collect(collector, step, m)
<1>1. /\ collector \in Collector /\ iopub \in Seq(IOPubMessage)
      /\ shell \in Seq(ShellMessage) /\ step \in Step
    BY DEF OrderInv, Types
<1>2. Reading(collector, step, published[step], iopub)
    BY DEF ScreenInv
<1>3. \A n \in DOMAIN rest : \E k \in DOMAIN iopub : rest[n] = iopub[k]
    BY <1>1
<1>4. collector.idle => \A n \in DOMAIN iopub : ~IsCode(step, iopub[n])
    BY DEF PublishedInv
<1>5. CASE iopub # <<>> /\ m = Head(iopub) /\ rest = Tail(iopub)
    <2>1. Reading(c, step, published[step], rest)
        BY <1>1, <1>2, <1>5, OwnPublished, ReadingReceive
    <2>2. m \in Message /\ 1 \in DOMAIN iopub /\ m = iopub[1]
        BY <1>1, <1>5 DEF Message
    <2>3. c.idle /\ ~collector.idle => m.type = "status_idle" /\ m.parent = step
        <3>1. m.type = "output" => c.idle = collector.idle
            <4>1. CollectOutput(collector, m.value).idle = collector.idle
                BY <1>1 DEF CollectOutput, Collector
            <4>. QED  BY <4>1 DEF Collect
        <3>2. m.type = "clear_output" => c.idle = collector.idle
            <4>1. CollectClear(collector, m.value).idle = collector.idle
                BY <1>1 DEF CollectClear, Collector
            <4>. QED  BY <4>1 DEF Collect
        <3>3. m.type \notin {"output", "clear_output"} =>
                  (c.idle # collector.idle => m.type = "status_idle" /\ m.parent = step)
            BY <1>1, <2>2, ReadsOther
        <3>. QED  BY <3>1, <3>2, <3>3
    <2>4. m.type = "status_idle" /\ m.parent = step =>
              \A k \in DOMAIN iopub : IsCode(step, iopub[k]) => k < 1
        BY <2>2 DEF PublishedInv
    <2>5. \A k \in DOMAIN iopub : ~(k < 1)
        BY <1>1
    <2>. QED  BY <1>3, <1>4, <2>1, <2>3, <2>4, <2>5
<1>6. CASE shell # <<>> /\ m = Head(shell) /\ rest = iopub
    <2>1. m \in ShellMessage
        BY <1>1, <1>6
    <2>2. m \in Message /\ m.type = "execute_reply"
        BY <2>1 DEF ShellMessage, Message
    <2>3. c.outputs = collector.outputs /\ c.clearNext = collector.clearNext
          /\ c.idle = collector.idle
        BY <1>1, <2>2, ReadsOther
    <2>. HIDE DEF c
    <2>4. Reading(c, step, published[step], iopub)
        BY <1>2, <2>3, ReadingNoise
    <2>. QED  BY <1>4, <1>6, <2>3, <2>4 DEF c
<1>. QED  BY <1>5, <1>6

\* Every action keeps what the collector has still to read.
LEMMA ScreenKept ==
    ASSUME OrderInv, OrderInv', PublishedInv, PublishedInv', ScreenInv, [Next]_vars
    PROVE  ScreenInv'
<1>1. CASE pc' = "send"
    BY <1>1, FreshScreenNext
<1>2. CASE pc' = "recv"
    <2>1. ASSUME NEW r, StepDone(r)
          PROVE  FALSE
        BY <1>2, <2>1 DEF StepDone
    <2>2. SUFFICES ASSUME TRUE
                   PROVE  Reading(collector', step', published'[step'], iopub')
        BY DEF ScreenInv
    <2>3. CASE RecvIOPub
        <3>1. /\ collector' = Collect(collector, step, Head(iopub)) /\ step' = step
              /\ pc = "recv" /\ iopub # <<>> /\ iopub' = Tail(iopub)
              /\ published' = published
            BY <2>1, <2>3 DEF RecvIOPub, Receive, kernelVars
        <3>. QED  BY <3>1, ReceiveReads
    <2>4. CASE RecvShell
        <3>1. /\ collector' = Collect(collector, step, Head(shell)) /\ step' = step
              /\ pc = "recv" /\ shell # <<>> /\ iopub' = iopub
              /\ published' = published
            BY <2>1, <2>4 DEF RecvShell, Receive, kernelVars
        <3>. QED  BY <3>1, ReceiveReads
    <2>5. CASE ~RecvIOPub /\ ~RecvShell
        <3>1. collector' = collector /\ step' = step /\ pc \in {"send", "recv"}
            BY <1>2, <2>1, <2>5, RunnerEffect DEF RecvIOPub, RecvShell, Interrupt
        <3>2. Reading(collector, step, published[step], iopub)
            BY <3>1 DEF ScreenInv
        <3>3. CASE UNCHANGED <<iopub, published>>
            BY <3>1, <3>2, <3>3
        <3>4. CASE Noise /\ UNCHANGED published
            <4>1. /\ \A n \in DOMAIN iopub : n \in DOMAIN iopub' /\ iopub'[n] = iopub[n]
                  /\ \A n \in DOMAIN iopub' : IsOwn(step, iopub'[n]) => n \in DOMAIN iopub
                BY <3>4 DEF Noise, IsOwn
            <4>2. Reading(collector, step, published[step], iopub')
                BY <3>2, <4>1, ReadingNoise
            <4>. QED  BY <3>1, <3>4, <4>2
        <3>5. CASE KernelPublishes \/ ThreadPrints
            <4>1. PICK e \in Step, m \in IOPubMessage :
                      /\ m.parent = e
                      /\ published' = [published EXCEPT ![e] = Append(published[e], m)]
                      /\ iopub' = Append(iopub, m)
                BY <3>5, PublishEffect
            <4>2. /\ step \in Step /\ published \in [Step -> Seq(IOPubMessage)]
                  /\ iopub \in Seq(IOPubMessage)
                BY DEF OrderInv, Types
            <4>3. CASE e = step
                <5>1. published'[step] = Append(published[step], m)
                    BY <4>1, <4>2, <4>3
                <5>2. Reading(collector, step, Append(published[step], m), Append(iopub, m))
                    BY <3>2, <4>2, ReadingPublish
                <5>. QED  BY <3>1, <4>1, <5>1, <5>2
            <4>4. CASE e # step
                <5>1. published'[step] = published[step]
                    BY <4>1, <4>2, <4>4
                <5>2. /\ \A n \in DOMAIN iopub : n \in DOMAIN iopub' /\ iopub'[n] = iopub[n]
                      /\ \A n \in DOMAIN iopub' : n \in DOMAIN iopub \/ iopub'[n] = m
                    BY <4>1, <4>2
                <5>3. ~IsOwn(step, m)
                    BY <4>1, <4>4 DEF IsOwn
                <5>4. \A n \in DOMAIN iopub' : IsOwn(step, iopub'[n]) => n \in DOMAIN iopub
                    BY <5>2, <5>3
                <5>5. Reading(collector, step, published[step], iopub')
                    BY <3>2, <5>2, <5>4, ReadingNoise
                <5>. QED  BY <3>1, <5>1, <5>5
            <4>. QED  BY <4>3, <4>4
        <3>. QED  BY <2>5, <3>3, <3>4, <3>5, IOPubEffect
    <2>. QED  BY <2>3, <2>4, <2>5
<1>. QED  BY <1>1, <1>2 DEF ScreenInv

------------------------------------------------------------------------------
(* Results. *)

\* To what ended code has published only a thread adds something.
LEMMA PublishedStays ==
    ASSUME OrderInv, [Next]_vars
    PROVE  \A j \in Step : ended[j] # "no" =>
              \/ published'[j] = published[j]
              \/ \E m \in IOPubMessage :
                    m.value = Late /\ published'[j] = Append(published[j], m)
<1>1. CASE KernelPublishes \/ ThreadPrints
    <2>1. PICK e \in Step, m \in IOPubMessage :
              /\ ended[e] = "no" \/ m.value = Late
              /\ published' = [published EXCEPT ![e] = Append(published[e], m)]
        BY <1>1, PublishEffect
    <2>2. published \in [Step -> Seq(IOPubMessage)]
        BY DEF OrderInv, Types
    <2>. QED  BY <2>1, <2>2
<1>2. CASE RecvIOPub
    BY <1>2 DEF RecvIOPub, kernelVars
<1>. QED  BY <1>1, <1>2, IOPubEffect

\* What shows the code still does when a thread prints.
LEMMA ShowsStill ==
    ASSUME NEW outputs, NEW s \in Seq(IOPubMessage), NEW m \in IOPubMessage,
           m.value = Late, ShowsCode(outputs, s)
    PROVE  ShowsCode(outputs, Append(s, m))
<1>1. PICK n \in 0..Len(s) :
          /\ IsScreenOf(outputs, SubSeq(s, 1, n))
          /\ \A p \in (n + 1)..Len(s) : s[p].value = Late
    BY DEF ShowsCode
<1>. DEFINE all == Append(s, m)
<1>2. /\ n \in 0..Len(all)
      /\ SubSeq(all, 1, n) = SubSeq(s, 1, n)
      /\ \A p \in (n + 1)..Len(all) :
            (p \in (n + 1)..Len(s) /\ all[p] = s[p]) \/ all[p] = m
    OBVIOUS
<1>. HIDE DEF all
<1>3. ShowsCode(outputs, all)
    BY <1>1, <1>2 DEF ShowsCode
<1>. QED  BY <1>3 DEF all

\* A result that stays is still complete.
LEMMA CompleteStays ==
    ASSUME OrderInv, ResultIsComplete, [Next]_vars, NEW j \in Step,
           result'[j] = result[j], result[j].status = "ok"
    PROVE  ended'[j] = "ok" /\ ShowsCode(result'[j].outputs, published'[j])
<1>1. ended[j] = "ok" /\ ShowsCode(result[j].outputs, published[j])
    BY DEF ResultIsComplete
<1>2. ended'[j] = "ok"
    BY <1>1, EndedStays DEF OrderInv
<1>3. published[j] \in Seq(IOPubMessage)
    BY DEF OrderInv, Types
<1>4. ShowsCode(result[j].outputs, published'[j])
    BY <1>1, <1>3, PublishedStays, ShowsStill
<1>. QED  BY <1>2, <1>4

\* A step that ends well has read all that its code has published.
LEMMA ReceivedComplete ==
    ASSUME OrderInv, PublishedInv, ScreenInv, pc = "recv", NEW m, NEW rest, Receive(m),
           \/ iopub # <<>> /\ m = Head(iopub) /\ rest = Tail(iopub)
           \/ shell # <<>> /\ m = Head(shell) /\ rest = iopub
    PROVE  \/ UNCHANGED result
           \/ \E r \in Result :
                 /\ StepDone(r)
                 /\ r.status = "ok" => /\ ended[step] = "ok"
                                       /\ ShowsCode(r.outputs, published[step])
<1>1. m \in Message
    BY DEF OrderInv, Types, Message
<1>2. PICK c \in Collector :
          /\ c = Collect(collector, step, m)
          /\ Tells(c.reply, ended[step])
          /\ \/ IsComplete(c) /\ StepDone(BuildResult(c))
             \/ collector' = c /\ UNCHANGED <<pc, step, result>>
    BY <1>1, ReceiveEffect DEF OrderInv
<1>3. CASE IsComplete(c) /\ StepDone(BuildResult(c))
    <2>1. BuildResult(c) \in Result
        BY <1>2, <1>3, BuildTyped
    <2>2. ASSUME BuildResult(c).status = "ok"
          PROVE  /\ ended[step] = "ok"
                 /\ ShowsCode(BuildResult(c).outputs, published[step])
        <3>1. c.reply = "ok" /\ BuildResult(c).outputs = c.outputs
            BY <2>2 DEF BuildResult
        <3>2. /\ Reading(c, step, published[step], rest)
              /\ \A n \in DOMAIN rest : ~IsCode(step, rest[n])
            BY <1>2, <1>3, ReceiveReads DEF IsComplete
        <3>3. ShowsCode(c.outputs, published[step])
            BY <3>2, OwnPublished, ReadingDone
        <3>. QED  BY <1>2, <3>1, <3>3 DEF Tells
    <2>. QED  BY <1>3, <2>1, <2>2
<1>. QED  BY <1>2, <1>3

\* Every action keeps the results complete.
LEMMA ResultKept ==
    ASSUME OrderInv, PublishedInv, ScreenInv, ResultIsComplete, [Next]_vars
    PROVE  ResultIsComplete'
<1>1. step \in Step /\ result \in [Step -> Result]
    BY DEF OrderInv, Types
<1>2. CASE UNCHANGED result
    BY <1>2, CompleteStays DEF ResultIsComplete
<1>3. ASSUME NEW r \in Result, StepDone(r),
             r.status = "ok" => /\ ended'[step] = "ok"
                                /\ ShowsCode(r.outputs, published'[step])
      PROVE  ResultIsComplete'
    <2>1. \A j \in Step : result'[j] = IF j = step THEN r ELSE result[j]
        BY <1>1, <1>3 DEF StepDone
    <2>2. \A j \in Step : j # step /\ result'[j].status = "ok" =>
              ended'[j] = "ok" /\ ShowsCode(result'[j].outputs, published'[j])
        BY <2>1, CompleteStays
    <2>. QED  BY <1>3, <2>1, <2>2 DEF ResultIsComplete
<1>4. CASE Interrupt
    <2>1. StepDone(Timeout) /\ Timeout \in Result /\ Timeout.status # "ok"
        BY <1>4, NewTyped DEF Interrupt, Timeout
    <2>. QED  BY <1>3, <2>1
<1>5. ASSUME NEW m, NEW rest, pc = "recv", UNCHANGED kernelVars, Receive(m),
             \/ iopub # <<>> /\ m = Head(iopub) /\ rest = Tail(iopub)
             \/ shell # <<>> /\ m = Head(shell) /\ rest = iopub
      PROVE  ResultIsComplete'
    <2>1. ended' = ended /\ published' = published
        BY <1>5 DEF kernelVars
    <2>2. CASE UNCHANGED result
        BY <1>2, <2>2
    <2>3. CASE \E r \in Result :
                  /\ StepDone(r)
                  /\ r.status = "ok" => /\ ended[step] = "ok"
                                        /\ ShowsCode(r.outputs, published[step])
        BY <1>3, <2>1, <2>3
    <2>. QED  BY <1>5, <2>2, <2>3, ReceivedComplete
<1>. QED  BY <1>2, <1>4, <1>5, RunnerEffect

LEMMA SessionInit ==
    ASSUME Init
    PROVE  SessionInv
<1>1. OrderInv
    BY OrderInit
<1>2. PublishedInv
    BY <1>1 DEF Init, PublishedInv, NewCollector
<1>3. ScreenInv
    BY <1>1, <1>2, FreshScreen DEF Init
<1>4. ResultIsComplete
    BY DEF Init, ResultIsComplete, NoResult
<1>. QED  BY <1>1, <1>2, <1>3, <1>4 DEF SessionInv

LEMMA SessionStep ==
    ASSUME SessionInv, [Next]_vars
    PROVE  SessionInv'
<1>. USE DEF SessionInv
<1>1. OrderInv'
    BY OrderStep
<1>2. PublishedInv'
    BY <1>1, PublishedKept
<1>3. ScreenInv'
    BY <1>1, <1>2, ScreenKept
<1>4. ResultIsComplete'
    BY ResultKept
<1>. QED  BY <1>1, <1>2, <1>3, <1>4

(***************************************************************************)
(* In every state of a session what a step has published and the runner    *)
(* has not yet read is on its way in the order in which it was published,  *)
(* before the idle message, and the collector shows the rest.              *)
(***************************************************************************)
THEOREM SessionCorrect == Spec => []SessionInv
<1>1. Init => SessionInv
    BY SessionInit
<1>2. SessionInv /\ [Next]_vars => SessionInv'
    BY SessionStep
<1>. QED  BY <1>1, <1>2, PTL DEF Spec

(***************************************************************************)
(* The result of a step that succeeded is all that its own code printed    *)
(* and did not clear, in order, however the reply overtakes the outputs    *)
(* and whatever earlier steps still print, and its code ended well; what   *)
(* threads print after the code has ended may follow.                      *)
(***************************************************************************)
THEOREM ResultsAreComplete == Spec => []ResultIsComplete
<1>1. SessionInv => ResultIsComplete
    BY DEF SessionInv
<1>. QED  BY <1>1, SessionCorrect, PTL
=============================================================================
