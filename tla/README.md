# Executor Service in TLA+

The executor service accepts commands (lists of Python steps) over HTTP, keeps
one JSON document per execution in Redis, delivers commands to workers through
a Redis stream with a consumer group, runs the steps in a Jupyter kernel of
their own and reports the final status to the agent that submitted them. This
directory holds TLA+ modules that model that code, TLC configurations that
check them on small instances, and theorems that TLAPS proves for every size.
Paths below are relative to `src/executor/`.

## 1. Inventory

| Component | State | Operations | Correct when |
|---|---|---|---|
| Execution documents (`repositories/redis_execution.py`, `schemas/state.py`) | one JSON document per execution | GET the document, change fields, SET the document; no compare-and-set | status only goes QUEUED, RUNNING, final; no concurrent overwrite loses what matters |
| Submission (`services/submission.py`, Lua script in `clients/redis.py`) | document, stream | EXISTS, SET, XADD in one script | document and command appear together |
| Consumer group (`clients/redis.py`) | stream position, pending entries (PEL), idle times | XREADGROUP, XAUTOCLAIM, XACK | a command leaves the PEL only when it is done |
| Pending recovery (`services/recovery.py`) | cursor, time of the next claim | one XAUTOCLAIM page per interval | no stale command is passed over for ever |
| Worker loop (`workers/execution.py`) | set of asyncio tasks, stop event | wait for a slot, claim, consume, start tasks, drain | at most `max_concurrency` tasks; the loop survives Redis errors |
| Execution processor (`services/processor.py`) | none of its own | branch on the stored status, recover a RUNNING execution, deliver the callback | never starts code again; blames a kernel only when it is gone |
| Execution service (`services/execution.py`) | `has_failed_step`, the step at hand | mark RUNNING, open a session, bind it, run the steps, close | each step is sent once, in order, to one kernel; stops at a failure if told to |
| Jupyter runner and client (`runtime/runner.py`, `clients/jupyter.py`) | session, kernel, WebSocket | create session, connect, send, receive, interrupt, delete | the session is kept on infrastructure errors and deleted otherwise |
| Message collector (`runtime/collector.py`) | outputs, reply and idle flags | one handler per message type | a step ends on reply and idle of its own request |
| Callback service (`services/callback.py`, `clients/agent.py`) | attempt number | mark PENDING, POST with retries, mark DELIVERED or FAILED | every callback tells the stored outcome under one event id |
| Process life (`main.py`) | worker task | start, stop, shutdown timeout, close clients | clients are closed after the last task; shutdown ends |
| HTTP API (`api/executions.py`) | none of its own | POST and GET of an execution, status codes | a 202 is true and is given once per id; no submission takes back what a client was told |
| Wire format (`runtime/runner.py`) | none | encode v1 frames, decode v1 and legacy frames | a frame is decoded as what was sent, or refused |
| Health, settings, logging | none | | not modelled, see section 8 |

**Interaction.** Processes share nothing but Redis. A worker process is one
event loop: the worker loop starts an asyncio task per delivered command, and
tasks interleave at every `await`. A task talks to Redis, to Jupyter over HTTP
and a WebSocket, and to the agent over HTTP. A task that ends with an exception
is logged and does not XACK; its command stays in the PEL and is claimed, by any
worker, once it is idle for `redis_pending_idle_ms`. Nothing renews the idle
time while a task works, so a long step is always claimed from its owner, and a
second task then handles the same execution *at the same time*.

**What is hard.** (1) Whole documents are read and written back by concurrent
tasks. (2) Any call may fail before or after it took effect; a task may vanish
between any two calls. (3) "Do not run code twice" rests on a check followed by
a write. (4) Final status, callback state and XACK are three separate steps.
(5) Kernels live and die on their own. (6) Shutdown meets a loop that may be
polling, waiting or draining. (7) A kernel answers over two channels without a
common order, and goes on with a step the runner has given up. (8) The cursor
over the pending entries outlives the list it was taken from. `PROJECT.json`
lists each of these at its line.

## 2. Modules

| Module | Models |
|---|---|
| `ExecutionRepository` | the document and, for each repository method, the change between its GET and its SET as an operator |
| `ExecutionProcessing` | submission, consumer group, the whole program of a task and the kernels; extends `ExecutionRepository` |
| `ExecutionOwnership` | the inductive invariant that explains why code never runs twice |
| `ExecutionTakeover` | the inductive invariants that explain why a second task on an execution does no harm, and what leaked kernels belong to |
| `ExecutionOutcome` | the inductive invariant that explains why outcome, callback and XACK agree while every command has one owner |
| `ExecutionLifecycle` | abstract specification: what the service promises about an execution |
| `ExecutionRefinement` | the refinement mapping from `ExecutionProcessing` to `ExecutionLifecycle` |
| `ExecutionWorker` | the worker loop, its tasks and the shutdown of the process |
| `PendingRecovery` | the walk of each worker over the pending entries with XAUTOCLAIM: interval, cursor, pages, idle times |
| `SubmissionApi` | the HTTP API with clients that retry, share ids and lose answers; scripts that run late |
| `JupyterCollector` | what one request is made to yield, as a function of the messages received |
| `JupyterSession` | runner, kernel and the channels between them through the steps of one command; extends `JupyterCollector` |
| `JupyterSteps` | the inductive invariants of a session: order of the requests, meaning of replies, what is still to be read |
| `SequentialSteps` | abstract specification: what a session promises to `ExecutionService` |
| `WireFormat` | binary frames of both protocols, byte by byte, text frames, and damage to them |
| `MCExecutionProcessing`, `MCWireFormat` | constants for TLC |
| `ExecutionOwnershipProofs` | types of `ExecutionProcessing`; the ownership invariant and what follows from it, proved |
| `ExecutionTakeoverProofs`, `ExecutionOutcomeProofs` | the other invariants of `ExecutionProcessing` and its refinement of `ExecutionLifecycle`, proved |
| `ExecutionWorkerProofs`, `PendingRecoveryProofs`, `SubmissionApiProofs` | the safety of the worker loop, of the recovery walk and of the API, proved |
| `JupyterSessionProofs` | the safety of a session and its refinement of `SequentialSteps`, proved |
| `WireFormatProofs` | messages survive their frames, damage is seen, proved |

How they fit together: `SubmissionApi` ends where a command is in the stream;
`ExecutionProcessing` takes it from there to XACK and is the composition of
Redis, tasks, kernels and agent. Three of its single steps have a model of
their own: the claim of a stale command (`PendingRecovery`: which entries a
page has), the start and the end of a task (`ExecutionWorker`: when a worker
asks for how many), and "send, then recv until a reply" (`JupyterSession`). For
the last one the promise that `ExecutionProcessing` builds on, the steps run
and are reported in order and "succeeded" is true, is `SequentialSteps`, and
`JupyterSession` is checked and proved to implement it.

### How `ExecutionProcessing` corresponds to the code

A task slot `t` holds a record: `pc` names the call the task is awaiting, `job`
the execution, `st` the document that the GET of a repository method returned
(`Absent` while the GET is still to come), and `step`, `kernel`, `failed`,
`event`, `report`, `attempt` are local variables of the coroutines
(`command.steps` index, `session_info.kernel_id`, `has_failed_step`,
`event_id`, `callback.status`, `attempt`). A repository method is two actions:
`RepositoryGet` reads the whole document, the action named after the method's
caller (`SetRunning`, `SetStepFailed`, ...) writes the whole changed document
and goes on to the next await. `Save` also has the outcome in which SET took
effect but its reply was lost. Everything between two awaits is part of the
action that follows the first: for instance the test `is_terminal`, the choice
of the next step, and the head of `CallbackService.deliver`.

| Code | Actions |
|---|---|
| Lua submit script | `Submit`, `SubmitWithoutXadd` |
| `consume`, `claim_stale`, idle time, `acknowledge` | `Consume`, `Claim`, `BecomeStale`, `Acknowledge` |
| `ExecutionProcessor.execute`, `_recover_running` | `ProcessorGet`; `RecoverGet`, `GetKernel`, `SetInfrastructureFailed` |
| `ExecutionService.execute` | `ServiceGet`, `SetRunning`, `SetBinding`, `SetStepRunning`, `SetStepSucceeded`, `SetStepFailed`, `SetSucceeded`, `FinalGet` |
| `JupyterExecutionRunner.open`, `JupyterSessionRunner.run` | `CreateSession`, `ConnectChannels`, `SetRequestStarted`, `Send`, `RecvReply`, `RecvTimeout`, `RecvDisconnect`, `DeleteSession` |
| `CallbackService.deliver` | `SetCallbackPending`, `SendCallback`, `RecordSuccess`, `RecordFailure`, `SetCallbackDelivered`, `SetCallbackFailed` |
| `InfrastructureError`, cancellation, death of a process | `RedisError`, `JupyterError`, fault branches, `Crash` |
| kernel culled or crashed (external) | `KernelVanishes` |

Abstracted: texts, time stamps, results, URLs and kernel names, on which
nothing branches; the callback event id is `uuid5` of the execution and the
status it was first derived from, so it is that status; user code is "ok" or
"error". The number of steps is the same for every execution.

### Timing

`SlowPhases` is the set of phases in which a command may outlast
`redis_pending_idle_ms`. Three regimes are checked:

- `Exclusive` (`{}`): no command is claimed from a living task. This is the
  assumption of `docs/architecture.md` ("single worker ownership of one
  execution"), under which overwriting documents is safe.
- `Prompt` (all but the three calls before the session is created): the timing
  the default settings really give, 60 s against three Redis calls, but steps
  of up to two days.
- `Phases`: no assumption at all.

### `ExecutionWorker`

The phases of the loop are its awaits (`wait_slot`, `claim`, `consume`,
`backoff`, `drain`); `Round` is what `run` does between two of them. `tasks` is
`_tasks`, `available` the local variable that is computed before claim and
consume and used after them. A message in `Poison` fails
`ExecutionCommand.model_validate_json`, which nobody catches inside the loop.
`pending` is the PEL. XAUTOCLAIM looks at the idle time only, so `Claim` may
return a message that a task of this very worker works on; a second task is then
started for it. A member of `tasks` is therefore a message with a number, and
`MaxRepeats` bounds the repeated claims of a behaviour.
`Shutdown`, `ShutdownTimeout` and `WorkerJoined` are the `finally` part of
`lifespan`. Cancellation reaches the tasks only if the loop is in the `gather`
of its own `finally` block; at any other await it just leads there.

### `PendingRecovery`

Entries are numbers in stream order. `cursor[w]` is `_cursor` (0 for `0-0`),
`wait[w]` the time until `_next_claim_at`, `running[w]` the bag of entries that
tasks of `w` work on: a bag, because a worker may claim an entry it is working
on already. `Scanned` and `NextCursor` are what XAUTOCLAIM does with `COUNT`
(external); `Claim` is `PendingRecoveryService.claim` including the refusal of
a page with a malformed entry, after which the cursor is not assigned although
Redis has claimed the page. The number of entries a round asks for was computed
when the round began, so `Counts` allows every number that tasks which ended
since may have left out of date. `Stuck` entries are those of executions with a
live kernel, which come back on every walk. `owed` is a history variable: what a
walk must still come to.

### `JupyterSession` and `JupyterCollector`

A collector is a record and every message handler an operator on it. The session
has two channels (`iopub`, `shell`) that keep the order within, not between
them. The runner takes what comes first, times out at any time, asks for an
interrupt and goes on; the kernel (external) executes, prints, aborts what is
queued behind a failure, and may be interrupted late or not at all. Threads that
the code of a step left behind may print under its request id at any time after
it ended (`ThreadPrints`): also between its idle message and its reply, when the
collector still takes it. Such output is marked `Late`. The command's
`stop_on_error` and the protocol of the WebSocket are chosen in `Init` and stay
as they are. With protocol v1 `Send` fails (`Encodable`), see section 4.

### `WireFormat`

Frames are sequences of bytes, numbers have their width up to the length of a
frame (2^30 stands for everything larger). `Decoded` is `decode_message_frame`:
of a binary frame v1 first, legacy when that raises (`DecodeBinary`); of a text
frame the JSON object it is (`DecodeText`). Init sends any message of either
protocol, a legacy one without buffers also as text; one action damages it.
`FramesAssumption` bounds what is sent: a message has at most the parts the
decoders take (`MaxCount`), and its frame is shorter than 2^30 bytes. The second
is a bound of the module's numbers only: the client sets `max_size=None`
(`clients/jupyter.py:94`), and the code's words have 64 and 32 bits.

### `SubmissionApi`

A POST is three steps: the handler sends the script (`Post`), Redis runs it
(`RunScript`), the client gets the answer (`Respond`). So is a GET (`Get`,
`ReadDocument`, `Respond`): what is answered may be out of date by then, and
answers of overlapping requests come in any order. `GiveUp` is a timeout or a
lost connection between any two of them, after which the script may still run
(`LateScript`). Each answer records how many were given before its request
began, so that a property can tell overlapping requests from later ones.

What workers do to a document is reduced to its status, and nothing is assumed of
how many own an execution: `Execute` writes RUNNING or a final status over
whatever is there, as late SETs do under default timing (`overwritten_outcome`).
It never writes QUEUED: the first SET of a task is that of `mark_running`, or it
follows a GET that found another status than QUEUED, and every later SET writes
a document that was read after the first. `OwnerInv` (section 6) says the same of
`ExecutionProcessing`.

## 3. Properties

Of `ExecutionProcessing`:

- `CodeRunsOnceInOrder`, `KernelBoundBeforeCode`, `SingleDriver`: user code is
  never sent twice, whatever is redelivered.
- `StopsAtFailure`, `SucceededIsClean`: what the outcome says about the steps.
  (That SUCCEEDED follows all the steps is part of `ImplementsLifecycle`.)
- `RequestRecordedBeforeSend`: the document is never behind the kernel.
- `KernelLostIsTrue`: KernelLost is recorded only for a bound kernel that is
  gone.
- `OutcomeStable`, `AckedIsRecorded`, `CallbackTellsOutcome`,
  `DeliveredIsReceived`, `ImplementsLifecycle`: outcome, callback and
  acknowledgement agree.
- `SessionReleased`: without faults no session is left behind.
- `EventuallySettled`: redelivery does not get stuck.

Of `ExecutionWorker`: `SlotsRespected`, `ClosedAfterTasks`, `OnlyPoisonKills`,
`ShutdownCompletes`, `MessagesServed`. `OnlyPoisonKills` also says that the
message which stopped the loop is still pending.

Of `ExecutionProcessing`, on kernels nobody knows of: `LeakIsVisible`. A lost
reply to `POST /api/sessions` leaves a kernel running; the execution it belongs
to is then still RUNNING without a binding, so nothing that came to an end
hides one.

Of `PendingRecovery`: `NothingPassedOver` (the cursor skips no entry that is
owed), `PendingRecovered` (an entry whose execution can end is acknowledged in
the end, although stuck ones come back on every walk).

Of `JupyterSession`: `ResultIsComplete` (a successful result is exactly what the
step's own code printed and did not clear; `IsScreenOf` says which outputs those
are without going through the messages one by one, as the collector does; what
its threads print later may or may not be in it, see `ShowsCode`),
`FailureIsOwn`, `StepsInOrder`, `SessionEnds`, `ImplementsSequentialSteps`.
`FailureIsOwn` is claimed of commands with `stop_on_error` only: without it an
interrupt that is carried out late may hit the next step, whose
`KeyboardInterrupt` is then recorded as its own error, and a step that was
queued behind an interrupted one is recorded as aborted.

Of `WireFormat`: `DecodesWhatWasSent`, `DamagedIsRefused`, `PartsAreTheBody`.

Of `SubmissionApi`: `AcceptedOnce`, `AnswerIsTrue`, `SubmissionsTakeNothingBack`.
The last one is about two requests for one id, the second of which began after
the first was answered: an id that was told taken is then no 404 and gets no 202,
and an execution that was told begun is not told queued. It does not say that a
final status stays final: with two owners it does not.

## 4. Runs

| Run | Regime and bounds | Question |
|---|---|---|
| `single_owner` | Exclusive; two kinds of execution (with and without `stop_on_error`, one at a time), 2 workers, 2 steps, 2 kernels, 2 faults, 2 callback attempts | do outcome, callback and XACK agree through crashes, lost replies and redelivery; does the system implement `ExecutionLifecycle`? |
| `takeover` | Prompt; the same with 1 fault, 1 attempt | does code run once, on the bound kernel, by one driver, and stop where it must, although two tasks work on the execution; does the invariant of the proofs hold? |
| `redelivery` | Exclusive, fairness; 2 executions competing for 1 worker with 1 slot, 1 fault | is every execution settled in the end? |
| `worker_loop` | fairness; any subset of 5 messages, one of them poison, 3 slots, batches of 2, 2 Redis errors, 1 claim of what the worker is working on | slots, shutdown, survival of the loop; does shutdown end, is every message served? |
| `recovery` | fairness; 3 entries (one stuck), 2 workers with 2 slots, pages of 2, `ScanFactor` 1, interval longer than the idle limit, 1 fault | does a cursor pass over an entry, is every entry recovered? |
| `session` | fairness of the runner only; 2 steps, with and without `stop_on_error`, 2 values, up to 3 outputs (late ones included) and clears in all | are results complete, failures the step's own, steps in order; does a session implement `SequentialSteps`, and end? |
| `frames` | messages of both protocols, 2 JSON objects, up to 2 buffers of 0 or 200 bytes; text frames | decoding, damage |
| `submissions` | 2 clients, 2 ids of which one is the reserved one (below), 2 bodies, 4 requests, 2 faults | retries, shared ids, lost answers, overlapping requests |

**Why the bounds are enough.** `ExecutionProcessing`: executions interact only
through free slots and through the choice of kernels (`redelivery` has two at
once); all other properties speak of one execution, so the other runs submit one
at a time, of either kind. Two workers with one slot each give two concurrent
tasks on it; a third adds only another claim of the same kind. Two steps are a
first and a last one, with "the step before failed" and "the step after still to
come". Two kernels let a second session exist. Two faults give "fails, and the
recovery fails as well"; a redelivery needs one. `MaxSubmissions` bounds how
many executions are submitted, `MaxFaults` the faults; both are guards. TLC's
symmetry is used for workers and kernels in runs without liveness. Deadlock is
not checked: the system really stops when every command is acknowledged (or, for
`ExecutionWorker`, when the process has closed).

`ExecutionWorker`: five messages, one of them poison, are more than the slots
and the batches take, so the loop waits for a slot and polls for fewer than it
has room for; without the poison message only the stop event ends it. One message
that is worked on twice takes a slot of its own, which is all the loop can notice.

`PendingRecovery`: three entries are a page and one more, so a cursor stands
between entries that are stale, young, claimed by the other worker and gone.
Redis looks at 10 entries per `COUNT`; with `ScanFactor` 1 a scan stops before
it has found enough already here. A malformed entry is in `malformed_batch`
only; that no entry is passed over beside one is part of the theorem
`WalkCorrect`. `JupyterSession`: the second step is the one
that the first one's late messages, late interrupt and aborted queue can hit;
three outputs and clears are "printed, cleared, printed again". `WireFormat`:
parts of two lengths and a buffer of 200 bytes put offsets below and above one
byte, where the order of the bytes matters. `SubmissionApi`: ids do not
interact, so one ordinary id is enough; four requests are two submissions, a
retry and a read, and two faults lose two answers; two clients have two
requests under way at a time.

### Where code and documentation disagree

Four runs end in a violation on purpose; `PROJECT.json` quotes the statement and
names the line.

| Run | Statement that fails |
|---|---|
| `overwritten_outcome` | RUNNING then one final status. Under Prompt timing: the owner reads RUNNING in `mark_step_running`; the kernel disappears and a takeover stores FAILED/KernelLost; the owner's SET writes RUNNING over it |
| `overwritten_callback` | callback state is recorded before XACK. Under Prompt timing: a takeover stores FAILED, the owner reads that document in `mark_step_running`, the takeover sends the callback and records DELIVERED, the owner's SET puts NOT_REQUESTED back, the takeover acknowledges |
| `slow_start` | the RUNNING guard stops re-execution: not if the idle limit can pass before `mark_running` |
| `malformed_batch` | what failed stays a target of the pending recovery: entries on a page with a message without payload are claimed and refused again and again. Needs `redis_batch_size` > 1 or a claim interval not below the idle limit |

The modules also contain, without a run of their own, behaviour that a reader
of the documentation may not expect:

- `SubmitWithoutXadd`: `SET` stays when `XADD` fails in the Lua script, though
  `clients/redis.py:75` calls the submission atomic (`docs/improvements.md`,
  IMP-007, knows of it). `NeedsReconciliation` excepts such executions from
  `EventuallySettled`; `AnswerIsTrue` shows that no client is told 202 for one.
- `SetStepFailed`: with `stop_on_error = False` the final status FAILED is
  stored while later steps still run (IMP-002).
- `ShutdownTimeout`: the timeout cancels the tasks only if the loop already
  drains; otherwise it only ends the loop, although `main.py:145` logs that the
  local monitor is cancelled. `ClosedAfterTasks` holds either way.
- `Encodable`: `_json_bytes` (`runtime/runner.py:115`) has no `default=`, and the
  header of a request holds a `datetime`, so with protocol v1 no request is
  ever sent. The legacy branch of `_send` passes `default=str`.
- `KernelAborts`: every request carries `stop_on_error` True
  (`runtime/runner.py:155`), so without the command's `stop_on_error` a step
  queued behind one that an interrupt ends is answered "aborted", unexecuted.
- `StreamIds`: with the default settings the key of execution id `commands` is
  the name of the stream. Its POST gets 409 and its GET 503, always.

## 5. Fairness

`ExecutionProcessing`: a task is resumed after every await and every await ends
(socket, HTTP and step timeouts), so `WF(TaskStep)`. A worker with a free slot
polls without end; it claims at most once per `redis_claim_interval_seconds`
and reads the stream in between, so commands that are claimed again and again
do not keep it from new ones: `SF` of Consume. The cursor of XAUTOCLAIM goes
round the PEL: `SF` of Claim for each execution. Idle time passes: `WF` of
BecomeStale. A kernel that nobody uses is culled, an assumption on the Jupyter
server's configuration: `WF` of KernelVanishes. Faults are not fair and
bounded. `EventuallySettled` is claimed for one owner at a time; under Prompt
timing two tasks can in principle overwrite each other for ever.

`ExecutionWorker`: every await of the loop ends, claims and reads alternate,
every task ends, a lifespan that waits for a finished task goes on.

`PendingRecovery`: time passes, tasks end, and a worker with a free slot reads
the stream and makes a claim that is due, since its loop awaits nothing but
Redis. `PromptSpec` adds that a tick is much longer than `redis_block_ms` and
than a task's last call: a claim that is due is made before the next tick, with
the full count. It is used for `malformed_batch`, which so does not rest on a slow
worker.

`JupyterSession`: only the runner's own steps are fair. Code may run for ever;
the timer of `asyncio.timeout` fires and the HTTP client has a timeout.

`WireFormat` and `SubmissionApi` have no liveness to speak of.

## 6. Proofs

`tlapm` checks every theorem from the named assumptions on the constants alone
(at least one step, one slot and one callback attempt; natural bounds;
`NoKernel` and `NoExecution` are no kernel and no execution), so for any number
of workers, slots, executions, kernels, steps and faults.

| Theorem | Statement |
|---|---|
| `TypeCorrect` | `Spec => []TypeOK` |
| `OwnershipCorrect` | `PromptStart` implies `Spec => []OwnershipInv` |
| `CodeRunsOnce`, `OneDriver`, `KernelIsBound` | `PromptStart` implies `CodeRunsOnceInOrder`, `SingleDriver`, `KernelBoundBeforeCode` |
| `TakeoverCorrect` | `PromptStart` implies `Spec => [](TakeoverInv /\ LeakInv)` |
| `KernelLossIsReal`, `FailureStopsCode`, `RequestIsRecorded` | `PromptStart` implies `KernelLostIsTrue`, `StopsAtFailure`, `RequestRecordedBeforeSend` |
| `LeaksAreVisible` | `PromptStart` implies `LeakIsVisible`, for finitely many executions |
| `OutcomeCorrect` | `OneOwner` implies `Spec => []OutcomeInv` |
| `SucceededCorrect`, `AcknowledgedCorrect`, `CallbackCorrect`, `DeliveryCorrect`, `ReleaseCorrect` | `OneOwner` implies `SucceededIsClean`, `AckedIsRecorded`, `CallbackTellsOutcome`, `DeliveredIsReceived`, `SessionReleased` |
| `OutcomeIsStable` | `OneOwner` implies the action property `OutcomeStable` |
| `LifecycleImplemented` | `OneOwner` implies the refinement `ImplementsLifecycle` |
| `WorkerTypeCorrect`, `SlotsAreRespected`, `ClientsClosedLast`, `PoisonOnly` | `TypeOK`, `SlotsRespected`, `ClosedAfterTasks`, `OnlyPoisonKills` of `ExecutionWorker` |
| `WalkCorrect`, `RecoveryTypeCorrect` | `NothingPassedOver`, `TypeOK` of `PendingRecovery` |
| `IdAcceptedOnce`, `AcceptedIsStored`, `SubmissionsAreFinal`, `ApiTypeCorrect` | `AcceptedOnce`, `AnswerIsTrue`, `SubmissionsTakeNothingBack`, `TypeOK` of `SubmissionApi` |
| `OrderCorrect`, `SessionCorrect` | `Spec => []OrderInv`, `Spec => []SessionInv` of `JupyterSession` |
| `SessionTypeCorrect`, `ResultsAreComplete`, `FailureCorrect`, `OrderOfSteps` | `TypeOK`, `ResultIsComplete`, `FailureIsOwn`, `StepsInOrder` of `JupyterSession` |
| `PromiseKept` | the refinement `ImplementsSequentialSteps` |
| `WireTypeCorrect`, `MessagesSurvive`, `DamageIsSeen`, `AcceptedPartsAreTheBody` | `TypeOK`, `DecodesWhatWasSent`, `DamagedIsRefused`, `PartsAreTheBody` of `WireFormat` |

`PromptStart` says `SlowPhases \cap StartPhases = {}`: a command does not become
stale before its task has got from the delivery through `mark_running`. Nothing
is assumed of the later phases. The assumption is needed: `slow_start` shows
code that runs twice without it, and its one use in the proof is the step
`BecomeStale` (`EnvironmentSafety`). `OneOwner` says `SlowPhases = {}`: no
command becomes stale while a task works on it, which is the assumption of
`docs/architecture.md`. It is needed too: `overwritten_outcome` and
`overwritten_callback` show what a second owner does to outcome and callback.
Two owners may of course still follow each other, after a crash or an error at
any point; that is what these proofs are about.

**Why an invariant of its own.** `CodeRunsOnceInOrder` is not inductive: that
the next request is the next step is known only to the task that drives the
session, and that there is no second driver depends on what every other task
has read and on how often the command is in the stream. `OwnershipInv` says
that, in five layers; the first two are proved together, each of the others from
those above it:

1. `DeliveryInv`: a command is in the stream once, and before its delivery it
   is not pending and nobody works on it.
2. `OwnerInv`: a command with a task in `StartPhases` is not stale, so there is
   no second such task; only that task may find QUEUED, and in `mark_running`
   the document it read is still the stored one. No task that writes later
   holds a QUEUED document, so nobody takes RUNNING back.
3. `SingleDriver`: `mark_running` is the only way to become a driver, from
   QUEUED; every driver leaves a status that is not QUEUED.
4. `BindingInv`: until the kernel is bound only the driver can write, so the
   binding is not overwritten with a document read before it; documents read
   later contain it.
5. `LogInv`: the driver's step and the requests its kernel received keep pace.

`ExecutionOwnershipProofs` first shows (`StepShape`) that each of the some
thirty actions of a task has the form `Shape`: what it may write (`Writes`),
from which phase it arrives in which (`Arrives`), and what it does to kernels
and requests (`Sends`). The layers are then proved once for `Shape` instead of
for every action, and separately for submission, delivery, time and crashes.

**Takeovers (`ExecutionTakeover`).** Under `PromptStart` two tasks may work on
one execution. Three properties hold all the same, because the second one writes
only after `GET /api/kernels` said 404 or once a final status is stored.
`LostInv`: the loss is recorded only of a bound kernel that is gone, and gone is
for good. `QuietInv`: whenever someone but the driver may write, or a final
status is stored or held, no code can reach the kernel any more. `StopInv`: a
step recorded as failed is one at which the driver has left the loop.
`RequestInv`: `request` in the document, and in every copy of it that a task
holds and will write back, is at least what the kernel got. All of it speaks of
what a task *holds* between GET and SET, for this is what a late SET restores.

`LeakInv` gives `LeakIsVisible` its reason: there is an injection from the
unbound kernels to the executions RUNNING without a binding. A session that is
created extends it, one that is bound or deleted takes an entry out of it;
cardinalities are compared once, at the end (`FS_Injection`).

**Outcomes (`ExecutionOutcome`).** With one owner, what a task has read is what
is stored (`TaskKnows`: `tk.st # Absent => tk.st = s`). `OutcomeInv` then lists,
phase by phase, what status, event and callback state a task finds and knows;
`DocumentOK` says which fields of a document go together; `ToldInv` relates the
agent's inbox to the store; `ReleaseInv` says who will delete a session that is
still there. A command is acknowledged only in the phase `acknowledge`, and what
`TaskKnows` says of it is what `AckedIsRecorded` asks for. The proof is per
action of a task, with one lemma for all that only the environment does. The
refinement needs `OutcomeInv` and `OwnershipInv` only: `ExecutionLifecycle`'s
steps are found action by action, and every action that is not one of them
leaves status, fate and requests alone.

**`ExecutionWorker`.** `WorkerInv` joins the four properties, of which only
`SlotsRespected` is nearly inductive, with two facts. `DeliveredOnce`: what is
pending or worked on does not come from the stream again, so a claim takes
nothing from it and a read starts no second task. `LifeInv`: how far loop and
lifespan are, each seen from the other; that a lifespan which closes the clients
finds the loop at its end is the core of `ClosedAfterTasks`. The slots use
cardinalities: a batch adds at most as many tasks as it has messages, worked on
or not, and what it may have was computed for as many or more tasks than there
are now.

**`PendingRecovery`.** `WalkInv` is `NothingPassedOver` with the types it needs
and is inductive as it stands. The argument is in `NextCursorIsLeast` (the new
cursor is the least entry the scan did not look at; a least entry exists because
`<` is well-founded on the naturals) and in the step of `Claim`: an owed entry
that was looked at is stale, hence on the page or cut off with what comes after
it, and one that was not is not before the new cursor. For `TypeOK`, `LoadInv`
bounds the tasks of a worker: a page is no longer than what was asked for
(`PageIsBounded`), and adding it to the bag adds as many members at most
(`CopiesAdded`). `Copies` tells the members of a bag apart; `BagCardinality` is
defined by recursion, on which nothing can be proved.

**`SubmissionApi`.** `ApiInv` follows a 202 from the script to the client:
`StreamInv` (a command in the stream is stored under its id, one per id),
`AcceptingInv` (a handler that is about to answer 202 has its command in the
stream, is alone with this id, and nobody was answered 202 for it before),
`AnswersInv`. A script that accepts an id finds nothing stored, so nothing in
the stream, so no other handler and no earlier answer. `ReadInv` is
about what clients know. An answer, given or about to be, is `Honest`: the id it
told taken is still taken, and an execution it told begun is not QUEUED now,
whatever status workers wrote since. And it is `Fresh`: it agrees with all that was
answered before its request began, for the handler read Redis after that, when
those answers were honest. So reads that overlap may be answered in any order.

**`JupyterSession`.** `OrderInv` is proved first: `KernelInv` (`Sent(n)` and
`Taken(n, t)`: of n requests sent, the kernel has begun or refused the first t,
the rest is queued in order, and only the t-th may still run), `RunnerInv`
(which results are recorded, and that "ok" among them is true), `ReplyInv` (a
reply, on its way or collected, tells how the code of its own request ended),
`StopInv` (with `stop_on_error` the failure of a step leaves the kernel nothing
to refuse). `FailureIsOwn`, `StepsInOrder` and `ImplementsSequentialSteps` follow
from it.

`ResultIsComplete` needs to know what is still on its way. `PublishedInv`: what
code published comes from a request that has begun, and its idle message comes
after all of it but what its threads print late. `ScreenInv` (`Reading`): of
what the step at hand has published, the collector shows the screen of the first
k messages, and there is an increasing function that gives each of the others
its place in `iopub`, among messages of other steps; when reply and idle are
there, all of the others are `Late`. A message that arrives is either noise, or
the next of these. That the collector keeps the screen is proved for one message
at a time (`KeptNow`, `KeptWait`, `KeptOutput`: how a message changes the set of
outputs that are kept). `IsScreenOf` is stated with positions so that this needs
no induction over sequences.

**`WireFormat`.** A frame is made by `FlattenSeq`, a fold, and what a fold does
to every sequence is shown by induction over its length, which the provers
cannot instantiate. The induction is done by hand as least counterexample
(`Counting`: the least number at which a set of numbers stops being closed under
successor does not exist, since `<` is well-founded on the naturals). From it
follow `FlattenAppend`, the place of each part in the joined parts (`Places`) and,
for parts that are words, of each word (`WordPlaces`). Then:

- `PartsAreTheBody` (`AcceptedIsRead`) holds for any bytes whatever: the offsets
  are in order, the first is the end of the table and the last the end of the
  frame, so the slices join without a gap (`SubSeqJoins`).
- `DecodesWhatWasSent`: `V1Layout` and `LegacyLayout` say at which place of a
  frame each byte is, `LE64Read` and `BE32Read` that a word read is the word
  written, `PartFound` that the slice between two offsets is the part. A legacy
  frame is not taken for a v1 frame (`LegacyIsNotV1`), for its first offset is
  not 0 and is where the high bytes of a v1 count are. This is where the limit
  of 1000 parts is needed: it keeps the first offset of either protocol within
  two bytes.
- `DamagedIsRefused` (`OtherLength`): the last offset is the length of the frame
  that was sent, and the decoder compares it with the length of the one it got;
  the legacy decoder sees, in the low bytes of the v1 count, a count above 1000.
  When the frame is too short for these words, the decoders say so first.

`WireInv` relates a frame on its way to the one that was sent: the same one, or
one with the same bytes and another length.

Only model-checked:

- All liveness (`EventuallySettled`, `ShutdownCompletes`, `MessagesServed`,
  `PendingRecovered`, `SessionEnds`), which needs fairness and ENABLED.

Before they were proved, the invariants of `ExecutionTakeover`,
`ExecutionOutcome` and `JupyterSteps` were model-checked with the constants of
`takeover`, `single_owner` and `session`.

## 7. Plan

1. Done: every component of section 1 that changes state, and the proofs of
   section 6; every safety property of the runs is a theorem.
2. Left: `DamagedIsRefused` for frames of the legacy protocol does not hold and
   is not stated, for their table does not tell where the last part ends.

## 8. Not modelled

- Health: it pings Redis and keeps no state. (Readiness looks at Redis only, so
  it stays READY when `worker_loop`'s poison message has ended the loop.)
- Settings (their values are constants of the modules), logging, wiring.
- The reading of JSON: a message is parsed or it is not (`Poison`, `Malformed`,
  `IsObject`).
- Retries inside redis-py and httpx: a call fails or succeeds once.
- Of a Jupyter message: `execution_count`, `payload`, tracebacks and MIME types,
  on which nothing depends.
- A kernel that restarts under its own id: its later steps run in a fresh
  namespace, but nothing in the code notices, so for the properties it is the
  same kernel.
- `create` and `publish`, which the application never calls.
