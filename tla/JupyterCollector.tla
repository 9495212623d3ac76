-------------------------- MODULE JupyterCollector --------------------------
(***************************************************************************)
(* JupyterMessageCollector: what one execute_request is made to yield, as  *)
(* a function of the messages read from the kernel's WebSocket.            *)
(*                                                                         *)
(* A message is a record of the request it answers (parent_header.msg_id), *)
(* its type and a value.  stream, execute_result and display_data are one  *)
(* type here, "output": they take the same path and are appended to the    *)
(* same list.  execution_count, payload and tracebacks are left out.       *)
(***************************************************************************)
EXTENDS Naturals, SequencesExt

MessageTypes ==
    {"output", "clear_output", "error", "execute_reply", "status_idle"}
ReplyStatus == {"ok", "error", "aborted"}

\* A clear_output message takes effect at once, or waits for the next output.
Output(request, value) ==
    [parent |-> request, type |-> "output", value |-> value]
Clear(request, wait) ==
    [parent |-> request, type |-> "clear_output",
     value |-> IF wait THEN "wait" ELSE "now"]
Error(request, ename) ==
    [parent |-> request, type |-> "error", value |-> ename]
Reply(request, status) ==
    [parent |-> request, type |-> "execute_reply", value |-> status]
Idle(request) ==
    [parent |-> request, type |-> "status_idle", value |-> "idle"]

\* The attributes of a collector; error is _error_type.
NewCollector ==
    [outputs |-> <<>>, clearNext |-> FALSE, reply |-> "none",
     idle |-> FALSE, error |-> "none"]

\* Mutant of CollectOutput: the deferred clear is forgotten.
CollectOutputKeepsOld(c, value) ==
    [c EXCEPT !.outputs = Append(@, value)]

\* _prepare_output and append.
CollectOutput(c, value) ==
    [c EXCEPT !.outputs = IF c.clearNext THEN <<value>> ELSE Append(@, value),
              !.clearNext = FALSE]

CollectClear(c, value) ==
    IF value = "wait" THEN [c EXCEPT !.clearNext = TRUE]
    ELSE [c EXCEPT !.outputs = <<>>]

CollectReply(c, status) ==
    [c EXCEPT !.reply = status,
              !.error = CASE status = "error" -> "CodeExecutionError"
                          [] status = "aborted" -> "ExecutionAborted"
                          [] OTHER -> @]

\* Mutant of IsRelated: messages of every request are taken.
IsRelatedToAny(request, m) == TRUE

IsRelated(request, m) == m.parent = request

Collect(c, request, m) ==
    IF ~IsRelated(request, m) THEN c
    ELSE CASE m.type = "output"        -> CollectOutput(c, m.value)
           [] m.type = "clear_output"  -> CollectClear(c, m.value)
           [] m.type = "error"         -> [c EXCEPT !.error = m.value]
           [] m.type = "execute_reply" -> CollectReply(c, m.value)
           [] m.type = "status_idle"   -> [c EXCEPT !.idle = TRUE]

IsComplete(c) == c.reply # "none" /\ c.idle

(***************************************************************************)
(* build_result: the outputs, or the error that is raised.                 *)
(***************************************************************************)
BuildResult(c) ==
    IF c.reply = "ok"
    THEN [status |-> "ok", outputs |-> c.outputs, error |-> "none"]
    ELSE [status |-> "failed", outputs |-> <<>>, error |-> c.error]

------------------------------------------------------------------------------
(***************************************************************************)
(* What the messages of one request leave on a screen, as the messaging    *)
(* protocol of Jupyter describes it: an output disappears when a clear     *)
(* follows it, or when a clear that waits and another output follow it.    *)
(* The rest is shown in the order in which it was printed.                 *)
(***************************************************************************)
IsOutput(messages, p) == messages[p].type = "output"

IsClear(messages, p, how) ==
    messages[p].type = "clear_output" /\ messages[p].value = how

Kept(messages) ==
    {p \in DOMAIN messages :
        /\ IsOutput(messages, p)
        /\ ~ \E q \in DOMAIN messages : q > p /\
                \/ IsClear(messages, q, "now")
                \/ /\ IsClear(messages, q, "wait")
                   /\ \E r \in DOMAIN messages : r > q /\ IsOutput(messages, r)}

IsScreenOf(outputs, messages) ==
    \E at \in [DOMAIN outputs -> Kept(messages)] :
        /\ \A i, j \in DOMAIN outputs : i < j => at[i] < at[j]
        /\ \A p \in Kept(messages) : \E i \in DOMAIN outputs : at[i] = p
        /\ \A i \in DOMAIN outputs : outputs[i] = messages[at[i]].value
==============================================================================
