--------------------------- MODULE ExecutionWorker ---------------------------
(***************************************************************************)
(* The loop of one worker process (ExecutionWorker.run), the tasks it      *)
(* starts, and start and shutdown of the process by the FastAPI lifespan.  *)
(*                                                                         *)
(* Loop, tasks and lifespan are asyncio tasks of one thread: each runs     *)
(* undisturbed from one await to the next, so the phases of the loop are   *)
(* its awaits.  What a task does is in ExecutionProcessing; here it only   *)
(* ends, acknowledged or not.                                              *)
(***************************************************************************)
EXTENDS Naturals, FiniteSets, FiniteSetsExt

CONSTANTS
    Messages,        \* commands that clients may submit
    Poison,          \* those whose payload fails ExecutionCommand validation
    MaxConcurrency,  \* max_concurrency
    BatchSize,       \* redis_batch_size
    MaxFaults,       \* bound on the Redis errors of a behaviour
    MaxRepeats       \* bound on the claims of what a task works on

ASSUME MessagesAssumption == IsFiniteSet(Messages) /\ Poison \subseteq Messages
ASSUME SettingsAssumption ==
    /\ MaxConcurrency \in Nat \ {0} /\ BatchSize \in Nat \ {0}
    /\ MaxFaults \in Nat /\ MaxRepeats \in Nat

VARIABLES
    loop,       \* the await run() is at
    available,  \* the local variable of run(), 0 when it is not used
    tasks,      \* self._tasks, each with its message and a number (Started)
    cancelled,  \* tasks whose cancellation was requested
    stopEvent,  \* self._stop_event
    ending,     \* the exception that ends run(), if any
    lifespan,   \* the lifespan context manager
    clients,    \* the Redis, Jupyter and agent clients: "open" or "closed"
    fresh,      \* stream: messages no consumer was given
    pending,    \* PEL: messages that were delivered and not acknowledged
    faults,
    repeats

loopVars == <<loop, available, ending>>
redisVars == <<fresh, pending, faults, repeats>>
lifespanVars == <<lifespan, clients>>
vars == <<loopVars, tasks, cancelled, stopEvent, lifespanVars, redisVars>>

\* Messages that a task works on, and pending ones that none does.
Worked == {t[1] : t \in tasks}
Idle == pending \ Worked

\* In "claim" and "consume" the loop awaits Redis.
LoopPhases == {"off", "wait_slot", "claim", "consume", "backoff", "drain", "done"}

(***************************************************************************)
(* What run() does from an await to the next one, given the tasks it has:  *)
(* a new round of the while loop, or the finally block.  PendingRecovery-  *)
(* Service.claim returns at once when redis_claim_interval_seconds have    *)
(* not passed, so a round may begin with either command.                   *)
(***************************************************************************)
Finally(running) ==
    /\ loop' = IF running = {} THEN "done" ELSE "drain"
    /\ available' = 0

\* Mutant of Poll: a whole batch is asked for, whatever is free.
PollWholeBatch(running) ==
    /\ loop' \in {"claim", "consume"}
    /\ available' = BatchSize

Poll(running) ==
    /\ loop' \in {"claim", "consume"}
    /\ available' = LET free == MaxConcurrency - Cardinality(running)
                    IN Min({BatchSize, free})

\* Mutant of Round: the stop event is not looked at.
RoundWithoutStop(running) ==
    IF Cardinality(running) < MaxConcurrency THEN Poll(running)
    ELSE loop' = "wait_slot" /\ available' = 0

Round(running) ==
    IF stopEvent THEN Finally(running)
    ELSE IF Cardinality(running) < MaxConcurrency THEN Poll(running)
    ELSE loop' = "wait_slot" /\ available' = 0

Init ==
    /\ loop = "off"
    /\ available = 0
    /\ tasks = {}
    /\ cancelled = {}
    /\ stopEvent = FALSE
    /\ ending = "none"
    /\ lifespan = "starting"
    /\ clients = "open"
    /\ fresh \in SUBSET Messages
    /\ pending = {}
    /\ faults = 0
    /\ repeats = 0

(***************************************************************************)
(* The tasks started for a batch, one for each message, whether one works  *)
(* on it already or not: the number, of the repeated claim, only tells     *)
(* tasks of one message apart.                                             *)
(***************************************************************************)
Started(batch) ==
    {<<m, IF m \in Worked THEN repeats + 1 ELSE 0>> : m \in batch}

\* Mutant of Receive: the payload is not validated.
ReceiveUnvalidated(batch) ==
    /\ tasks' = tasks \cup Started(batch)
    /\ pending' = pending \cup batch
    /\ Round(tasks')
    /\ UNCHANGED ending

(***************************************************************************)
(* The reply to XAUTOCLAIM or XREADGROUP.  One message that fails model    *)
(* validation raises ValidationError out of run(), and the rest of the     *)
(* batch, delivered but not started, is left in the PEL.                   *)
(***************************************************************************)
Receive(batch) ==
    /\ pending' = pending \cup batch
    /\ IF batch \cap Poison = {}
       THEN /\ tasks' = tasks \cup Started(batch)
            /\ Round(tasks')
            /\ UNCHANGED ending
       ELSE /\ ending' = "ValidationError"
            /\ Finally(tasks)
            /\ UNCHANGED tasks

Batches(set) == {b \in SUBSET set : b # {} /\ Cardinality(b) <= available}

\* Mutant of Claim: what was claimed is dropped.
ClaimDropped ==
    /\ loop = "claim"
    /\ loop' = "consume"
    /\ UNCHANGED <<available, ending, tasks, cancelled, stopEvent, lifespanVars,
                   redisVars>>

(***************************************************************************)
(* XAUTOCLAIM looks at the idle time only, and nothing renews it: what it  *)
(* returns may be a message that a task of this very worker works on.  A   *)
(* claim that finds nothing goes on with consume in the same round.        *)
(***************************************************************************)
Claim ==
    /\ loop = "claim"
    /\ \/ \E batch \in Batches(pending) :
             /\ Receive(batch)
             /\ IF batch \cap Worked = {} THEN UNCHANGED repeats
                ELSE repeats < MaxRepeats /\ repeats' = repeats + 1
       \/ /\ Idle = {}
          /\ loop' = "consume"
          /\ UNCHANGED <<available, ending, tasks, pending, repeats>>
    /\ UNCHANGED <<cancelled, stopEvent, lifespanVars, fresh, faults>>

Consume ==
    /\ loop = "consume"
    /\ \/ \E batch \in Batches(fresh) :
             Receive(batch) /\ fresh' = fresh \ batch
       \/ /\ fresh = {}
          /\ Round(tasks)
          /\ UNCHANGED <<ending, tasks, fresh, pending>>
    /\ UNCHANGED <<cancelled, stopEvent, lifespanVars, faults, repeats>>

\* Mutant of RedisFails: the error is not caught in the loop.
RedisFailureEndsLoop ==
    /\ loop \in {"claim", "consume"}
    /\ faults < MaxFaults
    /\ faults' = faults + 1
    /\ Finally(tasks)
    /\ UNCHANGED <<ending, tasks, cancelled, stopEvent, lifespanVars, fresh,
                   pending, repeats>>

(***************************************************************************)
(* InfrastructureError: sleep(1) and the next round.  Messages of a lost   *)
(* XREADGROUP reply are in the PEL.                                        *)
(***************************************************************************)
RedisFails ==
    /\ loop \in {"claim", "consume"}
    /\ faults < MaxFaults
    /\ faults' = faults + 1
    /\ \E lost \in IF loop = "consume" THEN Batches(fresh) \cup {{}} ELSE {{}} :
          fresh' = fresh \ lost /\ pending' = pending \cup lost
    /\ loop' = "backoff"
    /\ available' = 0
    /\ UNCHANGED <<ending, tasks, cancelled, stopEvent, lifespanVars, repeats>>

BackoffOver ==
    /\ loop = "backoff"
    /\ Round(tasks)
    /\ UNCHANGED <<ending, tasks, cancelled, stopEvent, lifespanVars, redisVars>>

\* asyncio.wait(FIRST_COMPLETED): the stop event is looked at a round later.
SlotFreed ==
    /\ loop = "wait_slot"
    /\ Cardinality(tasks) < MaxConcurrency
    /\ Poll(tasks)
    /\ UNCHANGED <<ending, tasks, cancelled, stopEvent, lifespanVars, redisVars>>

(***************************************************************************)
(* _process_message ends, with XACK or leaving the message pending; every  *)
(* exception but cancellation is caught in it.  The done callback discards *)
(* the task before the loop is woken.                                      *)
(***************************************************************************)
TaskEnds(t) ==
    /\ t \in tasks
    /\ tasks' = tasks \ {t}
    /\ cancelled' = cancelled \ {t}
    /\ \/ t \notin cancelled /\ pending' = pending \ {t[1]} /\ UNCHANGED faults
       \/ t \in cancelled /\ UNCHANGED <<pending, faults>>
       \/ faults < MaxFaults /\ faults' = faults + 1 /\ UNCHANGED pending
    /\ UNCHANGED <<loopVars, stopEvent, lifespanVars, fresh, repeats>>

\* gather(return_exceptions=True) over the tasks of the finally block.
Drained ==
    /\ loop = "drain"
    /\ tasks = {}
    /\ loop' = "done"
    /\ UNCHANGED <<available, ending, tasks, cancelled, stopEvent, lifespanVars,
                   redisVars>>

------------------------------------------------------------------------------
(* The lifespan. *)

(***************************************************************************)
(* PING and XGROUP CREATE succeed (BUSYGROUP counts as success) within the *)
(* connect timeout, and the worker task is created.                        *)
(***************************************************************************)
RedisInitialized ==
    /\ lifespan = "starting"
    /\ lifespan' = "serving"
    /\ Round(tasks)
    /\ UNCHANGED <<ending, tasks, cancelled, stopEvent, clients, redisVars>>

\* initialize raises: all clients are closed and the process does not start.
RedisInitFails ==
    /\ lifespan = "starting"
    /\ faults < MaxFaults
    /\ faults' = faults + 1
    /\ lifespan' = "failed"
    /\ clients' = "closed"
    /\ UNCHANGED <<loopVars, tasks, cancelled, stopEvent, fresh, pending, repeats>>

Shutdown ==
    /\ lifespan = "serving"
    /\ lifespan' = "waiting"
    /\ stopEvent' = TRUE
    /\ UNCHANGED <<loopVars, tasks, cancelled, clients, redisVars>>

(***************************************************************************)
(* shutdown_timeout_seconds pass: asyncio.timeout cancels the lifespan,    *)
(* which awaits worker_task and so cancels that.  The loop gets a          *)
(* CancelledError at its await.  In the finally block that await is the    *)
(* gather, which passes the cancellation on to the tasks; anywhere else it *)
(* only leads into the finally block, and asyncio.wait leaves its tasks    *)
(* alone.  There is no second cancellation before worker_task is done.     *)
(***************************************************************************)
ShutdownTimeout ==
    /\ lifespan = "waiting"
    /\ loop # "done"
    /\ lifespan' = "cancelling"
    /\ ending' = "CancelledError"
    /\ IF loop = "drain"
       THEN cancelled' = tasks /\ UNCHANGED <<loop, available>>
       ELSE Finally(tasks) /\ UNCHANGED cancelled
    /\ UNCHANGED <<tasks, stopEvent, clients, redisVars>>

\* Mutant of WorkerJoined: the clients are closed while the worker ends.
WorkerNotJoined ==
    /\ lifespan \in {"waiting", "cancelling"}
    /\ lifespan' = IF ending = "ValidationError" THEN "failed" ELSE "closed"
    /\ clients' = IF ending = "ValidationError" THEN clients ELSE "closed"
    /\ UNCHANGED <<loopVars, tasks, cancelled, stopEvent, redisVars>>

(***************************************************************************)
(* The await of worker_task returns and the clients are closed.  After a   *)
(* ValidationError it raises, and nothing is closed.                       *)
(***************************************************************************)
WorkerJoined ==
    /\ lifespan \in {"waiting", "cancelling"}
    /\ loop = "done"
    /\ lifespan' = IF ending = "ValidationError" THEN "failed" ELSE "closed"
    /\ clients' = IF ending = "ValidationError" THEN clients ELSE "closed"
    /\ UNCHANGED <<loopVars, tasks, cancelled, stopEvent, redisVars>>

LoopStep ==
    Claim \/ Consume \/ BackoffOver \/ SlotFreed \/ Drained

Next ==
    \/ LoopStep
    \/ RedisFails
    \/ \E t \in tasks : TaskEnds(t)
    \/ RedisInitialized
    \/ RedisInitFails
    \/ Shutdown
    \/ ShutdownTimeout
    \/ WorkerJoined

Spec == Init /\ [][Next]_vars

(***************************************************************************)
(* Fairness.  Every await of the loop ends and so does every task, whose   *)
(* steps, HTTP calls and Redis commands all have timeouts; the start has a *)
(* timeout of its own; a lifespan that is waiting goes on when worker_task *)
(* is done.  Claims and reads alternate: a claim needs                     *)
(* redis_claim_interval_seconds to pass, and when they have passed the     *)
(* next round begins with it.                                              *)
(***************************************************************************)
Fairness ==
    /\ WF_vars(LoopStep)
    /\ SF_vars(Claim)
    /\ SF_vars(Consume)
    /\ \A t \in Messages \X (0..MaxRepeats) : WF_vars(TaskEnds(t))
    /\ WF_vars(RedisInitialized)
    /\ WF_vars(WorkerJoined)

FairSpec == Spec /\ Fairness

------------------------------------------------------------------------------
(* What must hold. *)

TypeOK ==
    /\ loop \in LoopPhases
    /\ available \in 0..BatchSize
    /\ tasks \subseteq (Messages \ Poison) \X (0..MaxRepeats)
    /\ cancelled \subseteq tasks
    /\ stopEvent \in BOOLEAN
    /\ ending \in {"none", "ValidationError", "CancelledError"}
    /\ lifespan \in {"starting", "serving", "waiting", "cancelling", "closed",
                    "failed"}
    /\ clients \in {"open", "closed"}
    /\ fresh \subseteq Messages
    /\ pending \subseteq Messages
    /\ faults \in 0..MaxFaults
    /\ repeats \in 0..MaxRepeats

(***************************************************************************)
(* Never more than max_concurrency executions at once, although the number *)
(* of free slots is computed before two awaits and used after them and the *)
(* same message may be worked on twice, and a poll always asks for at      *)
(* least one message (COUNT 0 would be unlimited).                         *)
(***************************************************************************)
SlotsRespected ==
    /\ Cardinality(tasks) <= MaxConcurrency
    /\ loop \in {"claim", "consume"} =>
          available \in 1..(MaxConcurrency - Cardinality(tasks))

(***************************************************************************)
(* The Redis, Jupyter and agent clients are not closed under a loop or a   *)
(* task that still uses them, however the shutdown goes.                   *)
(***************************************************************************)
ClosedAfterTasks ==
    clients = "closed" => tasks = {} /\ loop \in {"off", "done"}

(***************************************************************************)
(* Only a message that cannot be parsed stops a worker that was not told   *)
(* to stop, or leaves the clients open at the end of the lifespan; and it  *)
(* is then still pending.                                                  *)
(***************************************************************************)
OnlyPoisonKills ==
    \/ loop \in {"drain", "done"} /\ ~stopEvent
    \/ lifespan \in {"closed", "failed"} /\ clients = "open"
    => Poison \cap pending # {}

\* Every task ends sooner or later, so a shutdown completes.
ShutdownCompletes ==
    stopEvent ~> lifespan \in {"closed", "failed"}

(***************************************************************************)
(* Every message in the stream or left in the PEL is worked on, as long as *)
(* the loop lives.                                                         *)
(***************************************************************************)
MessagesServed ==
    \A m \in Messages \ Poison :
        m \in fresh \cup Idle ~>
            \/ m \notin fresh \cup Idle
            \/ stopEvent \/ loop = "done" \/ lifespan = "failed"
==============================================================================
