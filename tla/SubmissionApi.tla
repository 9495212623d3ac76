---------------------------- MODULE SubmissionApi ----------------------------
(***************************************************************************)
(* The HTTP API in front of the executions: POST /executions stores a      *)
(* document and appends a command to the stream with one Lua script, GET   *)
(* /executions/{execution_id} reads the document.  The API keeps no state  *)
(* of its own, so any number of processes serve the clients alike.         *)
(*                                                                         *)
(* Clients choose the execution ids: they retry what was not answered,     *)
(* and different clients may choose the same id for different commands.    *)
(* A request and its answer are steps apart: what is answered was read or  *)
(* stored while other requests, workers and late scripts were under way.   *)
(* What becomes of an accepted command is in ExecutionProcessing.          *)
(***************************************************************************)
EXTENDS Naturals, Sequences

CONSTANTS
    Clients,
    Ids,          \* execution ids
    StreamIds,    \* those whose key is the name of the stream
    Bodies,       \* what else a command says
    MaxRequests,  \* bound on the requests of a behaviour
    MaxFaults     \* bound on the Redis errors and lost responses

ASSUME ApiConstants ==
    /\ StreamIds \subseteq Ids
    /\ MaxRequests \in Nat
    /\ MaxFaults \in Nat

Command == [id : Ids, body : Bodies]

\* The status a reader sees.  Only the first is the API's to write; workers
\* may take the last back to the second (ExecutionOutcome, overwritten_outcome).
Statuses == <<"QUEUED", "RUNNING", "TERMINAL">>

VARIABLES
    document,  \* Redis: what is stored under each id
    stream,    \* Redis: the commands of the stream
    request,   \* what the handler of each client is at
    late,      \* scripts that were given up and still run
    answers,   \* history: what clients were answered, in order
    requests,
    faults

vars == <<document, stream, request, late, answers, requests, faults>>

NoRequest == [phase |-> "none"]
Absent == [body |-> "none", status |-> 0]

Init ==
    /\ document = [id \in Ids |-> Absent]
    /\ stream = <<>>
    /\ request = [c \in Clients |-> NoRequest]
    /\ late = {}
    /\ answers = <<>>
    /\ requests = 0
    /\ faults = 0

Fault == faults < MaxFaults /\ faults' = faults + 1

Stored(id) == document[id] # Absent

\* EXISTS: initialize has created the stream, and so its key.
Exists(id) == Stored(id) \/ id \in StreamIds

\* build_initial_state and SET.
Store(command) ==
    document' = [document EXCEPT ![command.id] =
                    [body |-> command.body, status |-> 1]]

\* Mutant of Script: the key is not looked at.
ScriptAlwaysSets(command, result) ==
    /\ Store(command)
    /\ stream' = Append(stream, command)
    /\ result = "accepted"
    /\ UNCHANGED faults

\* Mutant of Script: the document is written before the key is looked at.
ScriptSetsFirst(command, result) ==
    /\ Store(command)
    /\ result = IF Exists(command.id) THEN "duplicate" ELSE "accepted"
    /\ stream' = IF result = "accepted" THEN Append(stream, command) ELSE stream
    /\ UNCHANGED faults

(***************************************************************************)
(* _ATOMIC_SUBMIT_SCRIPT and what eval makes of it.  When XADD fails, the  *)
(* script ends with an error and SET is not undone.                        *)
(***************************************************************************)
Script(command, result) ==
    \/ /\ Exists(command.id)
       /\ result = "duplicate"
       /\ UNCHANGED <<document, stream, faults>>
    \/ /\ ~Exists(command.id)
       /\ result = "accepted"
       /\ Store(command)
       /\ stream' = Append(stream, command)
       /\ UNCHANGED faults
    \/ /\ ~Exists(command.id)
       /\ result = "error"
       /\ Store(command)
       /\ Fault
       /\ UNCHANGED stream

------------------------------------------------------------------------------
(* Requests.  began counts the answers that were given before.             *)

Begin(c, r) ==
    /\ request[c] = NoRequest
    /\ requests < MaxRequests
    /\ requests' = requests + 1
    /\ request' = [request EXCEPT ![c] = r]
    /\ UNCHANGED <<document, stream, late, answers, faults>>

\* The handler has what it will answer.
Reply(c, answer) ==
    request' = [request EXCEPT ![c] = [phase |-> "reply", answer |-> answer]]

\* POST /executions.
Post(c, command) ==
    Begin(c, [phase |-> "eval", command |-> command, began |-> Len(answers)])

\* Mutant of SubmitStatus: the first element of the result is not looked at.
SubmitStatusUnchecked(result) ==
    IF result = "error" THEN 503 ELSE 202

SubmitStatus(result) ==
    CASE result = "accepted"  -> 202
      [] result = "duplicate" -> 409
      [] result = "error"     -> 503

RunScript(c) ==
    /\ request[c].phase = "eval"
    /\ \E result \in {"accepted", "duplicate", "error"} :
          /\ Script(request[c].command, result)
          /\ Reply(c, [id     |-> request[c].command.id,
                       body   |-> request[c].command.body,
                       code   |-> SubmitStatus(result),
                       status |-> IF result = "error" THEN 0 ELSE 1,
                       began  |-> request[c].began])
    /\ UNCHANGED <<late, answers, requests>>

\* GET /executions/{execution_id}.
Get(c, id) ==
    Begin(c, [phase |-> "get", id |-> id, began |-> Len(answers)])

\* repository.get; GET on the key of the stream is a WRONGTYPE error.
GetStatus(id) ==
    CASE id \in StreamIds -> 503
      [] Stored(id)       -> 200
      [] OTHER            -> 404

ReadDocument(c) ==
    /\ request[c].phase = "get"
    /\ LET id == request[c].id
       IN Reply(c, [id     |-> id,
                    body   |-> document[id].body,
                    code   |-> GetStatus(id),
                    status |-> document[id].status,
                    began  |-> request[c].began])
    /\ UNCHANGED <<document, stream, late, answers, requests, faults>>

\* The client gets the answer.
Respond(c) ==
    /\ request[c].phase = "reply"
    /\ answers' = Append(answers, request[c].answer)
    /\ request' = [request EXCEPT ![c] = NoRequest]
    /\ UNCHANGED <<document, stream, late, requests, faults>>

(***************************************************************************)
(* A timeout or a lost connection, of the handler or of the client, before *)
(* or after Redis did its part.  The client gets a 503 or nothing, and     *)
(* knows no more than before.  What was sent may still be carried out.     *)
(***************************************************************************)
GiveUp(c) ==
    /\ request[c] # NoRequest
    /\ Fault
    /\ \/ UNCHANGED late
       \/ request[c].phase = "eval" /\ late' = late \cup {request[c].command}
    /\ request' = [request EXCEPT ![c] = NoRequest]
    /\ UNCHANGED <<document, stream, answers, requests>>

LateScript(command) ==
    /\ command \in late
    /\ \E result \in {"accepted", "duplicate", "error"} : Script(command, result)
    /\ late' = late \ {command}
    /\ UNCHANGED <<request, answers, requests>>

------------------------------------------------------------------------------
(* Workers. *)

\* Mutant of Execute: a document is written that was not loaded.
ExecuteUnread(id) ==
    /\ \E status \in 2..Len(Statuses) :
          document' = [document EXCEPT ![id].status = status]
    /\ UNCHANGED <<stream, request, late, answers, requests, faults>>

(***************************************************************************)
(* The tasks that work on a command write whole documents that they        *)
(* changed after a GET, several tasks and in any order, also RUNNING over  *)
(* a final status.  No SET writes QUEUED: the first of every task is that  *)
(* of mark_running or of a failure, and later ones keep the status or end. *)
(***************************************************************************)
Execute(id) ==
    /\ \E n \in DOMAIN stream : stream[n].id = id
    /\ \E status \in 2..Len(Statuses) :
          document' = [document EXCEPT ![id].status = status]
    /\ UNCHANGED <<stream, request, late, answers, requests, faults>>

Next ==
    \/ \E c \in Clients :
          \/ \E command \in Command : Post(c, command)
          \/ \E id \in Ids : Get(c, id)
          \/ RunScript(c) \/ ReadDocument(c) \/ Respond(c) \/ GiveUp(c)
    \/ \E command \in late : LateScript(command)
    \/ \E id \in Ids : Execute(id)

Spec == Init /\ [][Next]_vars

------------------------------------------------------------------------------
(* What must hold. *)

TypeOK ==
    /\ \A id \in Ids :
          Stored(id) => /\ document[id].body \in Bodies
                        /\ document[id].status \in DOMAIN Statuses
    /\ stream \in Seq(Command)
    /\ \A c \in Clients : request[c].phase \in {"none", "eval", "get", "reply"}
    /\ late \subseteq Command
    /\ \A n \in DOMAIN answers :
          /\ answers[n].code \in {200, 202, 404, 409, 503}
          /\ answers[n].began < n
    /\ requests \in 0..MaxRequests
    /\ faults \in 0..MaxFaults

(***************************************************************************)
(* An id is accepted once: whatever clients retry, whoever else takes the  *)
(* same id and however late a script runs, the stream gets one command for *)
(* it at most, and one POST at most is answered 202.                       *)
(***************************************************************************)
AcceptedOnce ==
    /\ \A m, n \in DOMAIN stream : stream[m].id = stream[n].id => m = n
    /\ \A m, n \in DOMAIN answers :
          /\ answers[m].code = 202 /\ answers[n].code = 202
          /\ answers[m].id = answers[n].id
          => m = n

(***************************************************************************)
(* An answer is the truth: after a 202 the client's own command is in the  *)
(* stream and stored, not that of another client with the same id; and a   *)
(* document in the stream and in the store are of one command.             *)
(***************************************************************************)
AnswerIsTrue ==
    /\ \A n \in DOMAIN answers :
          answers[n].code = 202 =>
             LET command == [id |-> answers[n].id, body |-> answers[n].body]
             IN \E k \in DOMAIN stream : stream[k] = command
    /\ \A k \in DOMAIN stream :
          /\ Stored(stream[k].id)
          /\ document[stream[k].id].body = stream[k].body

\* What answer a may say after earlier answer b about the same id.
Agrees(b, a) ==
    /\ b.status >= 1 => a.code \notin {202, 404}
    /\ b.status >= 2 /\ a.code = 200 => a.status >= 2

(***************************************************************************)
(* Nobody's submission takes back what a client knows.  Of two requests    *)
(* for one id of which the second began after the first was answered: when *)
(* the first answer told that the id is taken, the second is no 404 and no *)
(* 202; when it told that the execution has begun, the second does not     *)
(* tell that it is queued.  Between the two, others submit the id again,   *)
(* scripts run late, documents are overwritten by workers, and reads that  *)
(* began earlier are answered later.                                       *)
(***************************************************************************)
SubmissionsTakeNothingBack ==
    \A m, n \in DOMAIN answers :
        /\ m <= answers[n].began
        /\ answers[m].id = answers[n].id
        => Agrees(answers[m], answers[n])
==============================================================================
