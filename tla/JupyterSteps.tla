---------------------------- MODULE JupyterSteps ----------------------------
(***************************************************************************)
(* What holds in every state of a Jupyter session, in enough detail to be  *)
(* kept by every step of it: which requests the kernel has and has not     *)
(* begun, what the runner has recorded, what the messages on their way say *)
(* and which of them the collector has still to read.                      *)
(***************************************************************************)
EXTENDS JupyterSession

Datum == Values \cup {Late, "wait", "now", "CodeExecutionError", "idle"}

IOPubMessage ==
    [parent : Step, type : MessageTypes \ {"execute_reply"}, value : Datum]
ShellMessage ==
    [parent : Step, type : {"execute_reply"}, value : ReplyStatus]

ErrorType == {"none", "CodeExecutionError", "ExecutionAborted", "ExecutionTimeout"}

Collector ==
    [outputs : Seq(Datum), clearNext : BOOLEAN, idle : BOOLEAN,
     reply : {"none"} \cup ReplyStatus, error : Datum \cup ErrorType]

Result ==
    [status : {"none", "ok", "failed"}, outputs : Seq(Datum),
     error : Datum \cup ErrorType]

Types ==
    /\ stopOnError \in BOOLEAN
    /\ pc \in {"send", "recv", "interrupt"} \cup Over
    /\ step \in Step
    /\ collector \in Collector
    /\ result \in [Step -> Result]
    /\ queue \in Seq(Step)
    /\ executing \in 0..NumSteps
    /\ aborting \in BOOLEAN
    /\ signal \in BOOLEAN
    /\ ended \in [Step -> {"no", "ok", "error", "interrupted", "aborted"}]
    /\ published \in [Step -> Seq(IOPubMessage)]
    /\ iopub \in Seq(IOPubMessage)
    /\ shell \in Seq(ShellMessage)

------------------------------------------------------------------------------
(* The order of the requests. *)

\* The requests sent are those of the steps up to n.
Sent(n) ==
    /\ n \in {step - 1, step}
    /\ pc \in {"recv", "interrupt", "closed"} => n = step
    /\ pc \in {"send", "unsendable"} => n = step - 1

\* Of n requests the kernel has begun or refused the first t, in order, and
\* only the last of these may still run.
Taken(n, t) ==
    /\ t \in Nat
    /\ n = t + Len(queue)
    /\ \A k \in DOMAIN queue : queue[k] = t + k
    /\ executing \in {0, t}
    /\ \A j \in Step : ended[j] = "no" <=> j > t \/ j = executing

KernelInv == \E n \in 0..NumSteps, t \in 0..NumSteps : Sent(n) /\ Taken(n, t)

\* The results of the steps before this one are recorded.
RunnerInv ==
    /\ \A j \in Step :
          /\ result[j].status # "none" <=> j < step \/ (j = step /\ pc = "closed")
          /\ result[j].status = "ok" => ended[j] = "ok"
    /\ stopOnError => \A j \in Step : j < step => result[j].status = "ok"
    /\ pc = "send" => collector = NewCollector

------------------------------------------------------------------------------
(* What replies and errors say. *)

Tells(reply, end) ==
    /\ reply = "ok" => end = "ok"
    /\ reply = "error" => end \in {"error", "interrupted"}
    /\ reply = "aborted" => end = "aborted"

ReplyInv ==
    /\ \A n \in DOMAIN shell : Tells(shell[n].value, ended[shell[n].parent])
    /\ Tells(collector.reply, ended[step])
    /\ \A n \in DOMAIN iopub :
          iopub[n].type = "error" => iopub[n].value = "CodeExecutionError"
    /\ collector.reply = "error" => collector.error = "CodeExecutionError"

------------------------------------------------------------------------------
(* Commands that stop on errors: nothing comes after a failure. *)

StopInv ==
    /\ aborting => executing = 0
    /\ stopOnError =>
          /\ pc # "closed" => ~signal /\ \A j \in Step : ended[j] # "interrupted"
          /\ \A j \in Step : ended[j] # "aborted"
          /\ aborting => queue = <<>> /\ ended[step] \notin {"no", "ok"}

OrderInv ==
    Types /\ KernelInv /\ RunnerInv /\ ReplyInv /\ StopInv /\ FailureIsOwn

------------------------------------------------------------------------------
(* What the collector has still to read. *)

\* Outputs and clears of a request.
IsOwn(request, m) ==
    m.parent = request /\ m.type \in {"output", "clear_output"}

\* Of these, the ones its code has published, and not a thread of it later.
IsCode(request, m) == IsOwn(request, m) /\ m.value # Late

\* What a step publishes comes from its code, once this has begun, or from a
\* thread of it; its idle message comes after all that its code publishes.
PublishedInv ==
    /\ \A j \in Step :
          /\ ended[j] = "no" /\ executing # j => published[j] = <<>>
          /\ \A a \in DOMAIN published[j] :
                /\ published[j][a].parent = j
                /\ \/ published[j][a].type = "output"
                   \/ IsClear(published[j], a, "now")
                   \/ IsClear(published[j], a, "wait")
    /\ \A n \in DOMAIN iopub :
          /\ ended[iopub[n].parent] # "no" \/ executing = iopub[n].parent
          /\ iopub[n].parent = step /\ iopub[n].type = "status_idle" =>
                /\ ended[step] # "no"
                /\ \A k \in DOMAIN iopub : IsCode(step, iopub[k]) => k < n
    /\ collector.idle => /\ ended[step] # "no"
                         /\ \A n \in DOMAIN iopub : ~IsCode(step, iopub[n])

\* A clear in the messages waits for the next output.
ClearWaits(messages) ==
    \E q \in DOMAIN messages :
        /\ IsClear(messages, q, "wait")
        /\ \A r \in DOMAIN messages : r > q => ~IsOutput(messages, r)

\* A collector stands where the messages it has read leave it.
HasRead(c, messages) ==
    /\ IsScreenOf(c.outputs, messages)
    /\ c.clearNext <=> ClearWaits(messages)

\* Of what a request has published the collector has read the first k, and the
\* rest is on its way in order, the message a at the place pos[a].
Reading(c, request, messages, channel) ==
    \E k \in 0..Len(messages) :
    \E pos \in [(k + 1)..Len(messages) -> DOMAIN channel] :
        /\ HasRead(c, SubSeq(messages, 1, k))
        /\ \A a \in DOMAIN pos : channel[pos[a]] = messages[a]
        /\ \A a, b \in DOMAIN pos : a < b => pos[a] < pos[b]
        /\ \A n \in DOMAIN channel :
              IsOwn(request, channel[n]) => \E a \in DOMAIN pos : pos[a] = n

ScreenInv ==
    pc \in {"send", "recv"} => Reading(collector, step, published[step], iopub)

SessionInv == OrderInv /\ PublishedInv /\ ScreenInv /\ ResultIsComplete
==============================================================================
