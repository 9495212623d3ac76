------------------------- MODULE ExecutionRefinement -------------------------
(***************************************************************************)
(* ExecutionProcessing implements ExecutionLifecycle as long as a command  *)
(* has one owner at a time (SlowPhases = {}), the assumption that          *)
(* docs/architecture.md makes for the overwriting of whole documents.      *)
(***************************************************************************)
EXTENDS ExecutionProcessing

Lifecycle ==
    INSTANCE ExecutionLifecycle WITH
        status   <- [e \in Executions |-> store[e].status],
        ran      <- [e \in Executions |-> Len(requests[e])],
        told     <- {<<c.job, c.status>> : c \in inbox},
        callback <- [e \in Executions |->
                        IF store[e].callback \in {"DELIVERED", "FAILED"}
                        THEN store[e].callback
                        ELSE "open"],
        settled  <- {e \in Executions : Acked(e)}

(***************************************************************************)
(* Every step of the workers, Redis, Jupyter and the agent is a step of    *)
(* the promised life of an execution or changes nothing of it.             *)
(***************************************************************************)
ImplementsLifecycle == Lifecycle!Spec
==============================================================================
