----------------------------- MODULE Measurement -----------------------------
(***************************************************************************)
(* What measuring one memory size promises (Explorer in                    *)
(* src/optiserve/profiling/explorer.py), with neither threads nor retries: *)
(* a warm-up and N invocations end, each in its own way, and the verdict   *)
(* depends on how they ended, never on when.                               *)
(***************************************************************************)
EXTENDS Naturals

CONSTANT N  \* num_of_invocations

VARIABLES
    result,   \* how each invocation ended, "none" while it has not; 0 is the warm-up
    verdict   \* what the caller gets, "none" before

Pool == 1 .. N
Tasks == {0} \cup Pool

\* NotEnoughMemory and its subclass FunctionTimeout: the memory size is at fault.
Infeasible == {"oom", "timeout"}
Failures == {"invocation", "exhausted", "parse"}
Results == {"ok"} \cup Infeasible \cup Failures

\* The exception class that reaches the caller for one failed invocation.
Raised(r) == IF r \in Infeasible THEN "infeasible" ELSE "failed"

Verdict(res) ==
    IF \A t \in Pool : res[t] = "ok" THEN "samples"
    ELSE IF \E t \in Pool : res[t] \in Infeasible THEN "infeasible" ELSE "failed"

Init == result = [t \in Tasks |-> "none"] /\ verdict = "none"

Observe ==
    /\ \E t \in Tasks, r \in Results :
        /\ result[t] = "none"
        /\ t \in Pool => result[0] = "ok"
        /\ result' = [result EXCEPT ![t] = r]
    /\ UNCHANGED verdict

WarmupDecides ==
    /\ verdict = "none"
    /\ result[0] \notin {"none", "ok"}
    /\ verdict' = Raised(result[0])
    /\ UNCHANGED result

PoolDecides ==
    /\ verdict = "none"
    /\ \A t \in Tasks : result[t] # "none"
    /\ verdict' = Verdict(result)
    /\ UNCHANGED result

\* The configuration is refused before anything runs, or the user interrupts.
GivesUp ==
    /\ verdict = "none"
    /\ \/ verdict' = "failed" /\ \A t \in Tasks : result[t] = "none"
       \/ verdict' = "interrupted"
    /\ UNCHANGED result

Next == Observe \/ WarmupDecides \/ PoolDecides \/ GivesUp

Spec == Init /\ [][Next]_<<result, verdict>>
=============================================================================
