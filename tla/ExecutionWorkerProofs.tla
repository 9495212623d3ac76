------------------------ MODULE ExecutionWorkerProofs ------------------------
(***************************************************************************)
(* A worker process never runs more tasks than it has slots, closes its    *)
(* clients only when nothing uses them, and is stopped by nothing but a    *)
(* poison message, for every number of messages, slots, faults and claims  *)
(* of what a task works on, and every batch size.                          *)
(***************************************************************************)
EXTENDS ExecutionWorker, FiniteSetTheorems, TLAPS

PoisonDelivered == Poison \cap pending # {}

\* A message that was given to the group does not come from the stream again.
DeliveredOnce == fresh \cap (pending \cup Worked) = {}

\* How far the loop and the lifespan are, each seen from the other.
LifeInv ==
    /\ lifespan = "starting" => loop = "off"
    /\ loop = "off" => lifespan \in {"starting", "failed"}
    /\ loop \in {"off", "done"} => tasks = {}
    /\ lifespan \in {"waiting", "cancelling"} => stopEvent
    /\ lifespan \in {"closed", "failed"} => loop \in {"off", "done"}
    /\ clients = "closed" => lifespan \in {"closed", "failed"}
    /\ ending = "ValidationError" => PoisonDelivered

WorkerInv ==
    TypeOK /\ SlotsRespected /\ DeliveredOnce /\ LifeInv /\ OnlyPoisonKills

------------------------------------------------------------------------------
(* Slots. *)

LEMMA MinOfTwo ==
    ASSUME NEW a \in Nat, NEW b \in Nat
    PROVE  Min({a, b}) \in {a, b} /\ Min({a, b}) <= a /\ Min({a, b}) <= b
    BY DEF Min

LEMMA FiniteMessages ==
    ASSUME NEW S, S \subseteq Messages
    PROVE  IsFiniteSet(S) /\ Cardinality(S) \in Nat
    BY MessagesAssumption, FS_Subset, FS_CardinalityType

Tasks == (Messages \ Poison) \X (0..MaxRepeats)

LEMMA FiniteTasks ==
    ASSUME NEW S, S \subseteq Tasks
    PROVE  IsFiniteSet(S) /\ Cardinality(S) \in Nat
    <1>1. IsFiniteSet(Messages \ Poison)
          BY FiniteMessages
    <1>2. IsFiniteSet(0..MaxRepeats)
          BY SettingsAssumption, FS_Interval
    <1>3. IsFiniteSet(Tasks)
          BY <1>1, <1>2, FS_Product DEF Tasks
    <1> QED BY <1>3, FS_Subset, FS_CardinalityType

\* A batch starts no more tasks than it has messages.
LEMMA StartedTasks ==
    ASSUME NEW batch \in SUBSET (Messages \ Poison),
           repeats \in Nat, batch \cap Worked = {} \/ repeats < MaxRepeats
    PROVE  /\ Started(batch) \subseteq Tasks
           /\ Cardinality(Started(batch)) \in Nat
           /\ Cardinality(Started(batch)) <= Cardinality(batch)
    <1> DEFINE number(m) == IF m \in Worked THEN repeats + 1 ELSE 0
               f == [m \in batch |-> <<m, number(m)>>]
    <1>1. \A m \in batch : number(m) \in 0..MaxRepeats
          BY SettingsAssumption
    <1> HIDE DEF number
    <1>2. Started(batch) = {<<m, number(m)>> : m \in batch}
          BY DEF Started, number
    <1>3. Started(batch) \subseteq Tasks
          BY <1>1, <1>2 DEF Tasks
    <1>4. f \in Surjection(batch, Started(batch))
          BY <1>2 DEF Surjection
    <1>5. IsFiniteSet(batch)
          BY FiniteMessages
    <1> HIDE DEF f
    <1>6. Cardinality(Started(batch)) <= Cardinality(batch)
          BY <1>4, <1>5, FS_Surjection
    <1> QED BY <1>3, <1>6, FiniteTasks

\* Where the loop goes on, and how much it then asks for.
Slots(running) ==
    /\ loop' \in LoopPhases \ {"off"}
    /\ available' \in 0..BatchSize
    /\ loop' \in {"claim", "consume"} =>
          available' \in 1..(MaxConcurrency - Cardinality(running))

LEMMA FinallySlots ==
    ASSUME NEW running, Finally(running)
    PROVE  /\ Slots(running)
           /\ loop' = "done" => running = {}
           /\ loop' \in {"drain", "done"}
    BY SettingsAssumption DEF Finally, Slots, LoopPhases

LEMMA PollSlots ==
    ASSUME NEW running, Cardinality(running) \in Nat,
           Cardinality(running) < MaxConcurrency, Poll(running)
    PROVE  Slots(running) /\ loop' \in {"claim", "consume"}
    <1> DEFINE free == MaxConcurrency - Cardinality(running)
    <1>1. free \in Nat \ {0} /\ BatchSize \in Nat \ {0}
          BY SettingsAssumption
    <1>2. /\ loop' \in {"claim", "consume"}
          /\ available' = Min({BatchSize, free})
          BY DEF Poll
    <1> HIDE DEF free
    <1>3. available' \in 1..free /\ available' \in 0..BatchSize
          BY <1>1, <1>2, MinOfTwo
    <1> QED BY <1>2, <1>3 DEF Slots, LoopPhases, free

LEMMA RoundSlots ==
    ASSUME NEW running, Cardinality(running) \in Nat, Round(running)
    PROVE  /\ Slots(running)
           /\ loop' \in {"drain", "done"} => stopEvent
           /\ loop' = "done" => running = {}
    <1>1. CASE stopEvent
          BY <1>1, FinallySlots DEF Round
    <1>2. CASE ~stopEvent /\ Cardinality(running) < MaxConcurrency
          BY <1>2, PollSlots DEF Round
    <1>3. CASE ~stopEvent /\ ~(Cardinality(running) < MaxConcurrency)
          BY <1>3, SettingsAssumption DEF Round, Slots, LoopPhases
    <1> QED BY <1>1, <1>2, <1>3

(***************************************************************************)
(* What Receive does with a batch, of the stream or claimed.               *)
(***************************************************************************)
LEMMA ReceiveSlots ==
    ASSUME TypeOK, SlotsRespected, loop \in {"claim", "consume"},
           NEW batch \in SUBSET Messages, Cardinality(batch) <= available,
           batch \cap Worked = {} \/ repeats < MaxRepeats,
           Receive(batch)
    PROVE  /\ Slots(tasks')
           /\ tasks' \subseteq Tasks
           /\ tasks \subseteq tasks'
           /\ pending' = pending \cup batch
           /\ Cardinality(tasks') <= MaxConcurrency
           /\ loop' = "done" => tasks' = {}
           /\ ending' \in {ending, "ValidationError"}
           /\ \/ batch \cap Poison # {}
              \/ ending' = ending /\ (loop' \in {"drain", "done"} => stopEvent)
    <1>1. tasks \subseteq Tasks /\ repeats \in Nat
          BY DEF TypeOK, Tasks
    <1>2. pending' = pending \cup batch
          BY DEF Receive
    <1>3. CASE batch \cap Poison = {}
          <2>1. /\ tasks' = tasks \cup Started(batch)
                /\ Round(tasks')
                /\ ending' = ending
                BY <1>3 DEF Receive
          <2>2. /\ Started(batch) \subseteq Tasks
                /\ Cardinality(Started(batch)) \in Nat
                /\ Cardinality(Started(batch)) <= Cardinality(batch)
                BY <1>1, <1>3, StartedTasks
          <2>3. /\ tasks' \subseteq Tasks
                /\ tasks \cap Started(batch) \subseteq Tasks
                BY <1>1, <2>1, <2>2
          <2>4. /\ IsFiniteSet(tasks) /\ Cardinality(tasks) \in Nat
                /\ IsFiniteSet(Started(batch))
                /\ Cardinality(tasks \cap Started(batch)) \in Nat
                /\ Cardinality(tasks') \in Nat
                /\ Cardinality(batch) \in Nat
                BY <1>1, <2>2, <2>3, FiniteTasks, FiniteMessages
          <2>5. Cardinality(tasks') <= Cardinality(tasks) + Cardinality(batch)
                <3>1. Cardinality(tasks \cup Started(batch))
                          = Cardinality(tasks) + Cardinality(Started(batch))
                            - Cardinality(tasks \cap Started(batch))
                      BY <2>4, FS_Union
                <3> QED BY <2>1, <2>2, <2>4, <3>1
          <2>6. Cardinality(tasks') <= MaxConcurrency
                <3>1. available \in 1..(MaxConcurrency - Cardinality(tasks))
                      BY DEF SlotsRespected
                <3> QED BY <2>4, <2>5, <3>1, SettingsAssumption
          <2> QED BY <1>2, <2>1, <2>3, <2>4, <2>6, RoundSlots
    <1>4. CASE batch \cap Poison # {}
          <2>1. /\ tasks' = tasks
                /\ Finally(tasks)
                /\ ending' = "ValidationError"
                BY <1>4 DEF Receive
          <2> QED BY <1>1, <1>2, <1>4, <2>1, FinallySlots DEF SlotsRespected
    <1> QED BY <1>3, <1>4
------------------------------------------------------------------------------
(* The steps. *)

LEMMA WorkerInit == Init => WorkerInv
    <1> SUFFICES ASSUME Init PROVE WorkerInv
        OBVIOUS
    <1>1. Cardinality({}) = 0
          BY FS_EmptySet
    <1>2. TypeOK
          <2>1. /\ 0 \in 0..BatchSize
                /\ 0 \in 0..MaxFaults /\ 0 \in 0..MaxRepeats
                BY SettingsAssumption
          <2>2. /\ loop \in LoopPhases
                /\ stopEvent \in BOOLEAN
                BY DEF Init, LoopPhases
          <2> QED BY <2>1, <2>2 DEF Init, TypeOK
    <1>3. SlotsRespected
          <2>1. tasks = {} /\ loop = "off"
                BY DEF Init
          <2> QED BY <1>1, <2>1, SettingsAssumption DEF SlotsRespected
    <1>4. DeliveredOnce /\ LifeInv /\ OnlyPoisonKills
          BY DEF Init, DeliveredOnce, Worked, LifeInv, OnlyPoisonKills
    <1> QED BY <1>2, <1>3, <1>4 DEF WorkerInv

\* The loop goes on with the tasks it has.
LEMMA RoundStep ==
    ASSUME WorkerInv, loop \in {"claim", "consume", "wait_slot", "backoff"},
           Slots(tasks),
           loop' \in {"drain", "done"} => stopEvent,
           loop' = "done" => tasks = {},
           UNCHANGED <<ending, tasks, cancelled, stopEvent, lifespanVars, redisVars>>
    PROVE  WorkerInv'
    BY DEF WorkerInv, TypeOK, SlotsRespected, DeliveredOnce, Worked, LifeInv,
           OnlyPoisonKills, PoisonDelivered, Slots, lifespanVars, redisVars

\* A task is started only for a message of the batch.
LEMMA StartedWorks ==
    ASSUME NEW batch, NEW t \in Started(batch)
    PROVE  t[1] \in batch
    BY DEF Started

\* A batch of delivered messages arrives.
LEMMA ReceiveStep ==
    ASSUME WorkerInv, loop \in {"claim", "consume"},
           NEW batch \in SUBSET Messages, Cardinality(batch) <= available,
           batch \cap Worked = {} \/ repeats < MaxRepeats,
           repeats' \in 0..MaxRepeats,
           Receive(batch), fresh' = fresh \ batch,
           UNCHANGED <<cancelled, stopEvent, lifespanVars, faults>>
    PROVE  WorkerInv'
    <1>1. /\ Slots(tasks')
          /\ tasks' \subseteq Tasks
          /\ tasks \subseteq tasks'
          /\ pending' = pending \cup batch
          /\ Cardinality(tasks') <= MaxConcurrency
          /\ loop' = "done" => tasks' = {}
          /\ ending' \in {ending, "ValidationError"}
          /\ \/ batch \cap Poison # {}
             \/ ending' = ending /\ (loop' \in {"drain", "done"} => stopEvent)
          BY ReceiveSlots DEF WorkerInv
    <1>2. batch \cap Poison # {} => PoisonDelivered'
          BY <1>1 DEF PoisonDelivered
    <1>3. PoisonDelivered => PoisonDelivered'
          BY <1>1 DEF PoisonDelivered
    <1>4. TypeOK'
          BY <1>1 DEF WorkerInv, TypeOK, Slots, Tasks, lifespanVars
    <1>5. SlotsRespected'
          BY <1>1 DEF WorkerInv, SlotsRespected, Slots
    <1>6. DeliveredOnce'
          <2>1. Worked' \subseteq Worked \cup batch
                BY StartedWorks DEF Receive, Worked
          <2> QED BY <1>1, <2>1 DEF WorkerInv, DeliveredOnce, Worked
    <1>7. lifespan \notin {"starting", "closed", "failed"} /\ clients = "open"
          BY DEF WorkerInv, LifeInv, TypeOK
    <1>8. LifeInv'
          BY <1>1, <1>2, <1>3, <1>7 DEF WorkerInv, LifeInv, Slots, lifespanVars, TypeOK
    <1>9. OnlyPoisonKills'
          BY <1>1, <1>2, <1>3, <1>7
          DEF OnlyPoisonKills, PoisonDelivered, lifespanVars
    <1> QED BY <1>4, <1>5, <1>6, <1>8, <1>9 DEF WorkerInv

LEMMA ClaimStep ==
    ASSUME WorkerInv, Claim
    PROVE  WorkerInv'
    <1>1. /\ loop = "claim"
          /\ UNCHANGED <<cancelled, stopEvent, lifespanVars, fresh, faults>>
          BY DEF Claim
    <1>2. ASSUME NEW batch \in Batches(pending), Receive(batch),
                 IF batch \cap Worked = {} THEN UNCHANGED repeats
                 ELSE repeats < MaxRepeats /\ repeats' = repeats + 1
          PROVE  WorkerInv'
          <2>1. /\ batch \in SUBSET Messages
                /\ Cardinality(batch) <= available
                /\ fresh' = fresh \ batch
                BY <1>1 DEF Batches, WorkerInv, TypeOK, DeliveredOnce
          <2>2. batch \cap Worked = {} \/ repeats < MaxRepeats
                BY <1>2
          <2>3. repeats' \in 0..MaxRepeats
                BY <1>2, SettingsAssumption DEF WorkerInv, TypeOK
          <2> QED BY <1>1, <1>2, <2>1, <2>2, <2>3, ReceiveStep
    <1>3. CASE loop' = "consume"
               /\ UNCHANGED <<available, ending, tasks, pending, repeats>>
          <2>1. Slots(tasks)
                BY <1>1, <1>3 DEF Slots, WorkerInv, TypeOK, SlotsRespected, LoopPhases
          <2> QED BY <1>1, <1>3, <2>1, RoundStep DEF redisVars
    <1> QED BY <1>2, <1>3 DEF Claim

LEMMA ConsumeStep ==
    ASSUME WorkerInv, Consume
    PROVE  WorkerInv'
    <1>1. /\ loop = "consume"
          /\ UNCHANGED <<cancelled, stopEvent, lifespanVars, faults, repeats>>
          BY DEF Consume
    <1>2. CASE \E batch \in Batches(fresh) : Receive(batch) /\ fresh' = fresh \ batch
          <2>1. PICK batch \in Batches(fresh) : Receive(batch) /\ fresh' = fresh \ batch
                BY <1>2
          <2>2. batch \in SUBSET Messages /\ Cardinality(batch) <= available
                BY <2>1 DEF Batches, WorkerInv, TypeOK
          <2>3. repeats' \in 0..MaxRepeats
                BY <1>1 DEF WorkerInv, TypeOK
          <2>4. batch \cap Worked = {}
                BY <2>1 DEF Batches, WorkerInv, DeliveredOnce
          <2> QED BY <1>1, <2>1, <2>2, <2>3, <2>4, ReceiveStep
    <1>3. CASE Round(tasks) /\ UNCHANGED <<ending, tasks, fresh, pending>>
          <2>1. Cardinality(tasks) \in Nat
                BY FiniteTasks DEF WorkerInv, TypeOK, Tasks
          <2> QED BY <1>1, <1>3, <2>1, RoundSlots, RoundStep DEF redisVars
    <1> QED BY <1>2, <1>3 DEF Consume

LEMMA RedisFailsStep ==
    ASSUME WorkerInv, RedisFails
    PROVE  WorkerInv'
    <1>1. PICK lost \in SUBSET fresh :
             fresh' = fresh \ lost /\ pending' = pending \cup lost
          BY DEF RedisFails, Batches
    <1>2. /\ loop \in {"claim", "consume"}
          /\ loop' = "backoff" /\ available' = 0
          /\ faults' \in 0..MaxFaults
          /\ UNCHANGED <<ending, tasks, cancelled, stopEvent, lifespanVars, repeats>>
          BY SettingsAssumption DEF RedisFails, WorkerInv, TypeOK
    <1>3. TypeOK'
          BY <1>1, <1>2, SettingsAssumption
          DEF WorkerInv, TypeOK, LoopPhases, lifespanVars
    <1> QED BY <1>1, <1>2, <1>3
            DEF WorkerInv, SlotsRespected, DeliveredOnce, Worked, LifeInv,
                OnlyPoisonKills, PoisonDelivered, lifespanVars

LEMMA TaskEndsStep ==
    ASSUME WorkerInv, NEW t \in tasks, TaskEnds(t)
    PROVE  WorkerInv'
    <1>1. /\ tasks' = tasks \ {t}
          /\ cancelled' = cancelled \ {t}
          /\ pending' \in {pending, pending \ {t[1]}}
          /\ faults' \in 0..MaxFaults
          /\ UNCHANGED <<loopVars, stopEvent, lifespanVars, fresh, repeats>>
          BY SettingsAssumption DEF TaskEnds, WorkerInv, TypeOK
    <1>2. /\ tasks \subseteq Tasks /\ tasks' \subseteq Tasks
          /\ t[1] \notin Poison
          BY <1>1 DEF WorkerInv, TypeOK, Tasks
    <1>3. /\ IsFiniteSet(tasks)
          /\ Cardinality(tasks) \in Nat /\ Cardinality(tasks') \in Nat
          BY <1>2, FiniteTasks
    <1>4. Cardinality(tasks') = Cardinality(tasks) - 1
          BY <1>1, <1>3, FS_RemoveElement
    <1>5. SlotsRespected'
          <2>1. SlotsRespected /\ loop' = loop /\ available' = available
                BY <1>1 DEF WorkerInv, loopVars
          <2> QED BY <1>3, <1>4, <2>1, SettingsAssumption DEF SlotsRespected
    <1>6. TypeOK'
          BY <1>1 DEF WorkerInv, TypeOK, loopVars, lifespanVars
    <1>7. PoisonDelivered => PoisonDelivered'
          BY <1>1, <1>2 DEF PoisonDelivered
    <1>8. DeliveredOnce'
          BY <1>1 DEF WorkerInv, DeliveredOnce, Worked
    <1>9. LifeInv' /\ OnlyPoisonKills'
          BY <1>1, <1>7
          DEF WorkerInv, LifeInv, OnlyPoisonKills, PoisonDelivered, loopVars,
              lifespanVars
    <1> QED BY <1>5, <1>6, <1>8, <1>9 DEF WorkerInv

LEMMA LoopStepStep ==
    ASSUME WorkerInv, BackoffOver \/ SlotFreed \/ Drained
    PROVE  WorkerInv'
    <1>1. Cardinality(tasks) \in Nat
          BY FiniteTasks DEF WorkerInv, TypeOK, Tasks
    <1>2. CASE BackoffOver
          BY <1>1, <1>2, RoundSlots, RoundStep DEF BackoffOver
    <1>3. CASE SlotFreed
          BY <1>1, <1>3, PollSlots, RoundStep DEF SlotFreed
    <1>4. CASE Drained
          BY <1>4
          DEF Drained, WorkerInv, TypeOK, SlotsRespected, DeliveredOnce, Worked, LifeInv,
              OnlyPoisonKills, PoisonDelivered, LoopPhases, lifespanVars, redisVars
    <1> QED BY <1>2, <1>3, <1>4

LEMMA LifespanStep ==
    ASSUME WorkerInv,
           \/ RedisInitialized \/ RedisInitFails \/ Shutdown
           \/ ShutdownTimeout \/ WorkerJoined
    PROVE  WorkerInv'
    <1>1. Cardinality(tasks) \in Nat
          BY FiniteTasks DEF WorkerInv, TypeOK, Tasks
    <1>2. CASE RedisInitialized
          <2>1. Slots(tasks) /\ (loop' \in {"drain", "done"} => stopEvent)
                BY <1>1, <1>2, RoundSlots DEF RedisInitialized
          <2>2. tasks = {}
                BY <1>2 DEF RedisInitialized, WorkerInv, LifeInv
          <2> QED BY <1>2, <2>1, <2>2
                  DEF RedisInitialized, WorkerInv, TypeOK, SlotsRespected, Slots,
                      DeliveredOnce, Worked, LifeInv, OnlyPoisonKills, PoisonDelivered,
                      redisVars
    <1>3. CASE RedisInitFails
          BY <1>3, SettingsAssumption
          DEF RedisInitFails, WorkerInv, TypeOK, SlotsRespected, DeliveredOnce, Worked,
              LifeInv, OnlyPoisonKills, PoisonDelivered, loopVars
    <1>4. CASE Shutdown
          BY <1>4
          DEF Shutdown, WorkerInv, TypeOK, SlotsRespected, DeliveredOnce, Worked,
              LifeInv, OnlyPoisonKills, PoisonDelivered, loopVars, redisVars
    <1>5. CASE ShutdownTimeout
          <2>1. /\ lifespan = "waiting" /\ lifespan' = "cancelling"
                /\ ending' = "CancelledError"
                /\ stopEvent /\ clients = "open"
                /\ UNCHANGED <<tasks, stopEvent, clients, redisVars>>
                BY <1>5 DEF ShutdownTimeout, WorkerInv, LifeInv, TypeOK
          <2>2. CASE loop = "drain"
                BY <1>5, <2>1, <2>2
                DEF ShutdownTimeout, WorkerInv, TypeOK, SlotsRespected,
                    DeliveredOnce, Worked, LifeInv, OnlyPoisonKills, PoisonDelivered,
                    redisVars
          <2>3. CASE loop # "drain"
                <3>1. Finally(tasks) /\ cancelled' = cancelled
                      BY <1>5, <2>3 DEF ShutdownTimeout
                <3>2. /\ Slots(tasks)
                      /\ loop' = "done" => tasks = {}
                      /\ loop' \in {"drain", "done"}
                      BY <3>1, FinallySlots
                <3> QED BY <2>1, <3>1, <3>2
                        DEF WorkerInv, TypeOK, SlotsRespected, Slots,
                            DeliveredOnce, Worked, LifeInv, OnlyPoisonKills,
                            PoisonDelivered, redisVars
          <2> QED BY <2>2, <2>3
    <1>6. CASE WorkerJoined
          BY <1>6
          DEF WorkerJoined, WorkerInv, TypeOK, SlotsRespected, DeliveredOnce, Worked,
              LifeInv, OnlyPoisonKills, PoisonDelivered, loopVars, redisVars
    <1> QED BY <1>2, <1>3, <1>4, <1>5, <1>6

LEMMA WorkerStep == WorkerInv /\ [Next]_vars => WorkerInv'
    <1> SUFFICES ASSUME WorkerInv, [Next]_vars PROVE WorkerInv'
        OBVIOUS
    <1>1. CASE LoopStep
          BY <1>1, ClaimStep, ConsumeStep, LoopStepStep DEF LoopStep
    <1>2. CASE RedisFails
          BY <1>2, RedisFailsStep
    <1>3. CASE \E t \in tasks : TaskEnds(t)
          BY <1>3, TaskEndsStep
    <1>4. CASE \/ RedisInitialized \/ RedisInitFails \/ Shutdown
               \/ ShutdownTimeout \/ WorkerJoined
          BY <1>4, LifespanStep
    <1>5. CASE UNCHANGED vars
          BY <1>5
          DEF vars, loopVars, redisVars, lifespanVars, WorkerInv, TypeOK,
              SlotsRespected, DeliveredOnce, Worked, LifeInv, OnlyPoisonKills,
              PoisonDelivered
    <1> QED BY <1>1, <1>2, <1>3, <1>4, <1>5 DEF Next

------------------------------------------------------------------------------
\* Every variable of the worker process keeps its type.
THEOREM WorkerTypeCorrect == Spec => []TypeOK
    <1>1. WorkerInv => TypeOK
          BY DEF WorkerInv
    <1> QED BY <1>1, WorkerInit, WorkerStep, PTL DEF Spec

(***************************************************************************)
(* No interleaving of polls, claims, errors and ending tasks gives a       *)
(* worker more executions than it has slots, and no poll asks for none.    *)
(***************************************************************************)
THEOREM SlotsAreRespected == Spec => []SlotsRespected
    <1>1. WorkerInv => SlotsRespected
          BY DEF WorkerInv
    <1> QED BY <1>1, WorkerInit, WorkerStep, PTL DEF Spec

(***************************************************************************)
(* However start, shutdown and its timeout go, the clients are closed only *)
(* when neither the loop nor a task uses them any more.                    *)
(***************************************************************************)
THEOREM ClientsClosedLast == Spec => []ClosedAfterTasks
    <1>1. WorkerInv => ClosedAfterTasks
          BY DEF WorkerInv, LifeInv, ClosedAfterTasks
    <1> QED BY <1>1, WorkerInit, WorkerStep, PTL DEF Spec

(***************************************************************************)
(* A worker that was not told to stop stops, and clients stay open at the  *)
(* end, only after a message that cannot be parsed, which stays pending.   *)
(***************************************************************************)
THEOREM PoisonOnly == Spec => []OnlyPoisonKills
    <1>1. WorkerInv => OnlyPoisonKills
          BY DEF WorkerInv
    <1> QED BY <1>1, WorkerInit, WorkerStep, PTL DEF Spec
==============================================================================
