--------------------------- MODULE SequentialSteps ---------------------------
(***************************************************************************)
(* What a Jupyter session promises to ExecutionService: the code of the    *)
(* steps runs one after the other, the outcomes are reported in the order  *)
(* of the command, and a step is reported to have succeeded only when its  *)
(* code has.  A failure may be reported while the code still runs (a       *)
(* timeout), and the report of a step may never come (a lost connection).  *)
(***************************************************************************)
EXTENDS Naturals

CONSTANT NumSteps

VARIABLES
    stopOnError,
    code,     \* how the code of each step ended
    outcome,  \* what is reported of each step
    open      \* reports may still come

vars == <<stopOnError, code, outcome, open>>

Step == 1..NumSteps

Init ==
    /\ stopOnError \in BOOLEAN
    /\ code = [i \in Step |-> "no"]
    /\ outcome = [i \in Step |-> "none"]
    /\ open = TRUE

\* The steps before i are dealt with, and none of them forbids to go on.
Reached(i) ==
    \A j \in 1..(i - 1) :
        /\ outcome[j] # "none"
        /\ stopOnError => outcome[j] = "ok"

End(i, how) ==
    /\ Reached(i)
    /\ \A j \in 1..(i - 1) : code[j] # "no"
    /\ code[i] = "no"
    /\ code' = [code EXCEPT ![i] = how]

Report(i, how) ==
    /\ open
    /\ Reached(i)
    /\ outcome[i] = "none"
    /\ how = "ok" => code[i] = "ok"
    /\ outcome' = [outcome EXCEPT ![i] = how]
    /\ open' = ~(i = NumSteps \/ (how = "failed" /\ stopOnError))

CodeEnds ==
    /\ \E i \in Step, how \in {"ok", "failed"} : End(i, how)
    /\ UNCHANGED <<outcome, open>>

StepReported ==
    /\ \E i \in Step, how \in {"ok", "failed"} : Report(i, how)
    /\ UNCHANGED code

\* A step is given up, and the interrupt ends the code that runs.
StepGivenUp ==
    /\ \E i \in Step : Report(i, "failed")
    /\ \E i \in Step : End(i, "failed")

Lost == open /\ open' = FALSE /\ UNCHANGED <<code, outcome>>

Next ==
    /\ CodeEnds \/ StepReported \/ StepGivenUp \/ Lost
    /\ UNCHANGED stopOnError

Spec == Init /\ [][Next]_vars
==============================================================================
