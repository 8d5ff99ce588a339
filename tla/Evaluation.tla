----------------------------- MODULE Evaluation -----------------------------
(***************************************************************************)
(* What the analytical model of a workflow promises                        *)
(* (ApplicationPerformanceModeling in                                      *)
(* src/optiserve/modeling/application_model.py): each answer is the one    *)
(* the current configuration has, as if nothing were ever remembered - but *)
(* the transition probabilities may be those of an earlier time, and a     *)
(* reduction that was interrupted may be read as it was left.              *)
(*                                                                         *)
(* The formulas are not interpreted: a value is the tuple of what it was   *)
(* computed from.                                                          *)
(***************************************************************************)
CONSTANTS RTs, Mems, Weights, Nothing

VARIABLES
    rt, mem,   \* node attributes of workflow_graph
    weights,   \* its transition probabilities
    past,      \* those in force at some time since construction
    interrupted,  \* was the last reduction interrupted?
    ne,        \* the weights update_ne derived the execution counts from
    answer     \* what the last call returned

\* The response time and the approximations of a graph reduced from these attributes.
ReductionOf(r, w) == <<r, w>>
CostOf(n, r, m) == <<n, r, m>>
Answer(kind, value) == [kind |-> kind, value |-> value]

Init ==
    /\ rt \in RTs /\ mem \in Mems /\ weights \in Weights /\ past = {weights}
    /\ interrupted = FALSE /\ ne = Nothing /\ answer = Nothing

Configure == rt' \in RTs /\ mem' \in Mems /\ UNCHANGED <<weights, past, interrupted, ne, answer>>
Reweigh ==
    /\ weights' \in Weights /\ past' = past \cup {weights'}
    /\ UNCHANGED <<rt, mem, interrupted, ne, answer>>
UpdateNe == ne' = weights /\ UNCHANGED <<rt, mem, weights, past, interrupted, answer>>
Reduce == interrupted' = ~interrupted /\ UNCHANGED <<rt, mem, weights, past, ne, answer>>

(* A cost counts the executions update_ne left, never older ones.          *)
Evaluate ==
    /\ \/ \E w \in past : answer' = Answer("evaluated_rt", ReductionOf(rt, w))
       \/ answer' = Answer("avg_cost", CostOf(ne, rt, mem))
    /\ UNCHANGED <<rt, mem, weights, past, interrupted, ne>>

Read ==
    /\ \E reader \in {"avg_rt", "approximations"} :
         \/ \E w \in past : answer' = Answer(reader, ReductionOf(rt, w))
         \/ interrupted /\ answer' = Answer(reader, Nothing)
    /\ UNCHANGED <<rt, mem, weights, past, interrupted, ne>>

Next == Configure \/ Reweigh \/ UpdateNe \/ Reduce \/ Evaluate \/ Read

Spec == Init /\ [][Next]_<<rt, mem, weights, past, interrupted, ne, answer>>
=============================================================================
