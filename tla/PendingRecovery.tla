--------------------------- MODULE PendingRecovery ---------------------------
(***************************************************************************)
(* Recovery of pending commands: every worker walks the pending entries    *)
(* list (PEL) of the consumer group with XAUTOCLAIM, one page per          *)
(* redis_claim_interval_seconds, and keeps the cursor of its walk in       *)
(* PendingRecoveryService._cursor.                                         *)
(*                                                                         *)
(* Entries are numbered in stream order.  Time is counted in ticks; an     *)
(* entry is stale when MinIdle ticks have passed since it was last given   *)
(* to a consumer, whether or not a task still works on it.  What a task    *)
(* does with its command is in ExecutionProcessing, the awaits of the      *)
(* loop are in ExecutionWorker.                                            *)
(***************************************************************************)
EXTENDS Integers, FiniteSets, Bags

CONSTANTS
    NumEntries,      \* length of the stream
    Malformed,       \* entries without a payload field
    Stuck,           \* entries whose tasks always end without XACK: the
                     \* execution is RUNNING and its kernel answers
    Workers,
    MaxConcurrency,  \* max_concurrency
    BatchSize,       \* redis_batch_size
    MinIdle,         \* redis_pending_idle_ms, in ticks
    Interval,        \* redis_claim_interval_seconds, in ticks
    ScanFactor,      \* entries XAUTOCLAIM looks at per COUNT; 10 in Redis
    MaxFaults        \* bound on crashes, Redis errors and failing tasks

Entry == 1..NumEntries

ASSUME EntriesAssumption ==
    /\ NumEntries \in Nat
    /\ Malformed \subseteq Entry
    /\ Stuck \subseteq Entry \ Malformed
ASSUME RecoverySettings ==
    /\ MaxConcurrency \in Nat \ {0}
    /\ BatchSize \in Nat \ {0}
    /\ MinIdle \in Nat \ {0}
    /\ Interval \in Nat \ {0}
    /\ ScanFactor \in Nat \ {0}
    /\ MaxFaults \in Nat

VARIABLES
    delivered,  \* Redis: how many entries the group was given
    pel,        \* Redis: delivered entries that are not acknowledged
    idle,       \* Redis: ticks since an entry was last given to a consumer
    cursor,     \* workers: _cursor, 0 for "0-0"
    wait,       \* workers: ticks until _next_claim_at
    running,    \* workers: the bag of entries tasks work on
    owed,       \* history: per worker, the entries that were stale when its
                \* walk began and that nobody claimed or acknowledged since
    faults

vars == <<delivered, pel, idle, cursor, wait, running, owed, faults>>

Init ==
    /\ delivered = 0
    /\ pel = {}
    /\ idle = [e \in Entry |-> 0]
    /\ cursor = [w \in Workers |-> 0]
    /\ wait = [w \in Workers |-> 0]
    /\ running = [w \in Workers |-> EmptyBag]
    /\ owed = [w \in Workers |-> {}]
    /\ faults = 0

------------------------------------------------------------------------------
(* Building blocks. *)

Fault == faults < MaxFaults /\ faults' = faults + 1

Stale == {e \in pel : idle[e] = MinIdle}

\* Mutant of Counts: the free slots do not bound what is asked for.
CountsWholeBatch(w) == 1..BatchSize

\* The members of a bag, told apart: a worker's tasks.
Copies(bag) == UNION {{e} \X (1..bag[e]) : e \in DOMAIN bag}

(***************************************************************************)
(* The counts a round may ask for: the number of free slots was taken at   *)
(* its beginning, and tasks have only ended since.                         *)
(***************************************************************************)
Counts(w) ==
    {n \in 1..BatchSize : n + Cardinality(Copies(running[w])) <= MaxConcurrency}

\* The count a round asks for when no task ended since it began.
FullCount(w) == {n \in Counts(w) : n + 1 \notin Counts(w)}

Before(e, set) == {f \in set : f < e}

(***************************************************************************)
(* XAUTOCLAIM scans the PEL from the cursor on, until it has claimed count *)
(* entries or looked at ScanFactor * count of them.                        *)
(***************************************************************************)
Scanned(w, count) ==
    LET ahead == {e \in pel : e >= cursor[w]}
    IN {e \in ahead :
           /\ Cardinality(Before(e, ahead)) < ScanFactor * count
           /\ Cardinality(Before(e, ahead \cap Stale)) < count}

Page(w, count) == Scanned(w, count) \cap Stale

\* Mutant of NextCursor: the cursor is not kept.
NextCursorForgotten(w, count) == 0

\* The cursor it returns: the entry the scan stopped at, or 0-0.
NextCursor(w, count) ==
    LET rest == {e \in pel : e >= cursor[w]} \ Scanned(w, count)
    IN IF rest = {} THEN 0
       ELSE CHOOSE e \in rest : \A f \in rest : e <= f

\* Entries given to a consumer, by XREADGROUP or XAUTOCLAIM, are young again.
Give(batch) == idle' = [e \in Entry |-> IF e \in batch THEN 0 ELSE idle[e]]

\* _parse_messages raises for the whole batch; otherwise one task per entry.
StartTasks(w, batch) ==
    running' = IF batch \cap Malformed = {}
               THEN [running EXCEPT ![w] = @ (+) SetToBag(batch)]
               ELSE running

\* What w's walk owes, at a claim: a walk begins where the cursor is 0-0.
Owed(w) == IF cursor[w] = 0 THEN Stale ELSE owed[w]

------------------------------------------------------------------------------
(* The operations. *)

Consume(w, n) ==
    /\ delivered < NumEntries
    /\ LET last == IF delivered + n <= NumEntries THEN delivered + n
                   ELSE NumEntries
           batch == (delivered + 1)..last
       IN /\ delivered' = last
          /\ pel' = pel \cup batch
          /\ Give(batch)
          /\ \/ StartTasks(w, batch) /\ UNCHANGED faults
             \/ Fault /\ UNCHANGED running
    /\ UNCHANGED <<cursor, wait, owed>>

(***************************************************************************)
(* PendingRecoveryService.claim.  The next claim is put off before the     *)
(* command is sent, so also when it fails.                                 *)
(***************************************************************************)
Claim(w, n) ==
    /\ wait[w] = 0
    /\ LET page == Page(w, n)
       IN /\ Give(page)
          /\ StartTasks(w, page)
          /\ IF page \cap Malformed = {}
             THEN /\ cursor' = [cursor EXCEPT ![w] = NextCursor(w, n)]
                  /\ owed' = [v \in Workers |->
                                (IF v = w THEN Owed(w) ELSE owed[v]) \ page]
             ELSE /\ owed' = [v \in Workers |-> owed[v] \ page]
                  /\ UNCHANGED cursor
    /\ wait' = [wait EXCEPT ![w] = Interval]
    /\ UNCHANGED <<delivered, pel, faults>>

\* A RedisError: the command was carried out and its reply lost, or it was not.
ClaimFails(w, n) ==
    /\ wait[w] = 0
    /\ Fault
    /\ \E page \in {Page(w, n), {}} :
          /\ Give(page)
          /\ owed' = [v \in Workers |-> owed[v] \ page]
    /\ wait' = [wait EXCEPT ![w] = Interval]
    /\ UNCHANGED <<delivered, pel, cursor, running>>

\* _process_message ends, with XACK or leaving its entry pending.
TaskEnds(w, e) ==
    /\ BagIn(e, running[w])
    /\ running' = [running EXCEPT ![w] = @ (-) SetToBag({e})]
    /\ \/ /\ e \notin Stuck
          /\ pel' = pel \ {e}
          /\ owed' = [v \in Workers |-> owed[v] \ {e}]
          /\ UNCHANGED faults
       \/ e \in Stuck /\ UNCHANGED <<pel, owed, faults>>
       \/ Fault /\ UNCHANGED <<pel, owed>>
    /\ UNCHANGED <<delivered, idle, cursor, wait>>

\* The process stops and starts again, as a consumer with a new name.
Restart(w) ==
    /\ Fault
    /\ running' = [running EXCEPT ![w] = EmptyBag]
    /\ cursor' = [cursor EXCEPT ![w] = 0]
    /\ wait' = [wait EXCEPT ![w] = 0]
    /\ owed' = [owed EXCEPT ![w] = {}]
    /\ UNCHANGED <<delivered, pel, idle>>

Tick ==
    /\ \/ \E e \in pel : idle[e] < MinIdle
       \/ \E w \in Workers : wait[w] > 0
    /\ idle' = [e \in Entry |->
                  IF e \in pel /\ idle[e] < MinIdle THEN idle[e] + 1
                  ELSE idle[e]]
    /\ wait' = [w \in Workers |-> IF wait[w] > 0 THEN wait[w] - 1 ELSE 0]
    /\ UNCHANGED <<delivered, pel, cursor, running, owed, faults>>

Round(w, counts) ==
    \E n \in counts : Consume(w, n) \/ Claim(w, n) \/ ClaimFails(w, n)

Next ==
    \/ \E w \in Workers :
          \/ Round(w, Counts(w))
          \/ \E e \in Entry : TaskEnds(w, e)
          \/ Restart(w)
    \/ Tick

Spec == Init /\ [][Next]_vars

(***************************************************************************)
(* Time passes, every task ends, and a worker with a free slot whose claim *)
(* is due makes it: the loop awaits nothing else but Redis.                *)
(***************************************************************************)
Fairness ==
    /\ WF_vars(Tick)
    /\ \A w \in Workers :
          /\ WF_vars(\E n \in Counts(w) : Consume(w, n))
          /\ WF_vars(\E n \in Counts(w) : Claim(w, n))
          /\ \A e \in Entry : WF_vars(TaskEnds(w, e))

FairSpec == Spec /\ Fairness

(***************************************************************************)
(* Ticks much longer than redis_block_ms: a worker with a free slot makes  *)
(* a claim that is due before the next tick, and tasks end between rounds. *)
(***************************************************************************)
PromptTick ==
    /\ \A w \in Workers : wait[w] > 0 \/ Counts(w) = {}
    /\ Tick

PromptNext ==
    \/ \E w \in Workers :
          \/ Round(w, FullCount(w))
          \/ \E e \in Entry : TaskEnds(w, e)
          \/ Restart(w)
    \/ PromptTick

PromptFairness ==
    /\ WF_vars(PromptTick)
    /\ \A w \in Workers :
          /\ WF_vars(\E n \in FullCount(w) : Consume(w, n))
          /\ WF_vars(\E n \in FullCount(w) : Claim(w, n))
          /\ \A e \in Entry : WF_vars(TaskEnds(w, e))

PromptSpec == Init /\ [][PromptNext]_vars /\ PromptFairness

------------------------------------------------------------------------------
(* What must hold. *)

TypeOK ==
    /\ delivered \in 0..NumEntries
    /\ pel \subseteq 1..delivered
    /\ idle \in [Entry -> 0..MinIdle]
    /\ cursor \in [Workers -> 0..NumEntries]
    /\ wait \in [Workers -> 0..Interval]
    /\ \A w \in Workers :
          /\ IsABag(running[w])
          /\ BagToSet(running[w]) \subseteq (1..delivered) \ Malformed
          /\ Cardinality(Copies(running[w])) <= MaxConcurrency
    /\ owed \in [Workers -> SUBSET pel]
    /\ faults \in 0..MaxFaults

(***************************************************************************)
(* No page is lost between two claims: an entry that was stale when a      *)
(* worker's walk began, and that nobody claimed or acknowledged since, is  *)
(* still ahead of the cursor, through pages, failed claims, claims of      *)
(* other workers and acknowledgements in between; when the cursor is back  *)
(* at 0-0 there is none.                                                   *)
(***************************************************************************)
NothingPassedOver ==
    \A w \in Workers :
        /\ owed[w] \subseteq Stale
        /\ cursor[w] = 0 => owed[w] = {}
        /\ \A e \in owed[w] : e >= cursor[w]

(***************************************************************************)
(* Every delivered command that can be parsed and whose execution can end  *)
(* is acknowledged in the end, although other entries come back stale      *)
(* again and again.                                                        *)
(***************************************************************************)
PendingRecovered ==
    \A e \in Entry \ (Stuck \cup Malformed) : e \in pel ~> e \notin pel

(***************************************************************************)
(* README.md, on infrastructure errors: what is not acknowledged stays a   *)
(* target of the pending recovery.  So it must be given to a task again.   *)
(***************************************************************************)
StaysRecoverable ==
    \A e \in Entry \ Malformed :
        e \in Stale ~>
            e \notin pel \/ \E w \in Workers : BagIn(e, running[w])
==============================================================================
