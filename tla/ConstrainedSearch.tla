------------------------- MODULE ConstrainedSearch -------------------------
(***************************************************************************)
(* What the strategies of ApplicationOptimizer promise                     *)
(* (src/optiserve/optimization/application_optimizer.py), with neither     *)
(* critical paths nor books: a walk over configurations in which every     *)
(* step, measured on the configurations themselves, keeps the constraints  *)
(* and serves its phase.                                                   *)
(***************************************************************************)
EXTENDS Integers

CONSTANTS Nodes, Mems, Models, Apps, Answers

VARIABLES
    app,       \* the application
    strategy,  \* "BPBA", "BCPA" or "BAPB"
    limit,     \* budget of BPBA, rt_constraint of the other two
    budget,    \* budget of BAPB
    compat,    \* flags of OptimizerCompat that are set
    config,    \* memory and model variant of each node
    phase      \* "upgrade" models, "tune" memories, improve accuracy "jointly", "done"

inputs == <<app, strategy, limit, budget, compat>>

Configs == [Nodes -> [mem : Mems, model : Models]]

\* Cost, response time and accuracy of a configuration, as the analytical model answers.
Cost(c) == Answers[app].cost[c]
Rt(c) == Answers[app].rt[c]
Accuracy(c) == Answers[app].acc[c]

\* What a strategy's first two phases spend, and what the second one minimizes.
Spent(c) == IF strategy = "BPBA" THEN Cost(c) ELSE Rt(c)
Objective(c) == IF strategy = "BPBA" THEN Rt(c) ELSE Cost(c)

\* The configurations that differ from c in one node at most.
Neighbours(c) == {d \in Configs : \E n \in Nodes : \A k \in Nodes \ {n} : d[k] = c[k]}

Init ==
    /\ app \in Apps /\ strategy \in {"BPBA", "BCPA", "BAPB"}
    /\ config \in Configs
    /\ phase = "upgrade"

\* Published behaviour may overspend here (LEGACY_BPBA_SURPLUS).
Upgrade ==
    /\ phase = "upgrade"
    /\ config' \in Neighbours(config)
    /\ \A n \in Nodes : config'[n].mem = config[n].mem /\ config'[n].model >= config[n].model
    /\ Spent(config') <= limit \/ "surplus" \in compat
    /\ UNCHANGED <<inputs, phase>>

Tune ==
    /\ phase = "tune"
    /\ config' \in Neighbours(config)
    /\ \A n \in Nodes : config'[n].model = config[n].model
    /\ Spent(config') < limit
    /\ Objective(config') < Objective(config)
    /\ UNCHANGED <<inputs, phase>>

Joint ==
    /\ phase = "joint"
    /\ config' \in Neighbours(config)
    /\ \A n \in Nodes : config'[n].mem >= config[n].mem /\ config'[n].model >= config[n].model
    /\ Spent(config') <= limit /\ Objective(config') <= budget
    /\ Accuracy(config') >= Accuracy(config)
    /\ UNCHANGED <<inputs, phase>>

EndPhase ==
    /\ \/ phase = "upgrade" /\ phase' = "tune"
       \/ phase = "tune" /\ phase' = IF strategy = "BAPB" THEN "joint" ELSE "done"
       \/ phase = "joint" /\ phase' = "done"
    /\ UNCHANGED <<inputs, config>>

Next == Upgrade \/ Tune \/ Joint \/ EndPhase

Spec == Init /\ [][Next]_<<inputs, config, phase>>
=============================================================================
