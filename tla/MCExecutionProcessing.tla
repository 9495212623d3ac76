------------------------ MODULE MCExecutionProcessing ------------------------
(***************************************************************************)
(* Small instances of ExecutionProcessing for TLC.                         *)
(***************************************************************************)
EXTENDS ExecutionRefinement, ExecutionOutcome, ExecutionTakeover, TLC

\* docs/architecture.md's assumption: one owner of an execution at any time.
Exclusive == {}

(***************************************************************************)
(* The timing the settings give: a task reaches create_session well within *)
(* redis_pending_idle_ms (60 s against three Redis calls), later phases    *)
(* take as long as the user's code and the agent do.                       *)
(***************************************************************************)
Prompt == Phases \ StartPhases

\* Which worker or kernel it is does not matter.
Symmetric == Permutations(Workers) \cup Permutations(Kernels)
==============================================================================
