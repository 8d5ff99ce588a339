------------------------ MODULE ApplicationOptimizer ------------------------
(***************************************************************************)
(* The greedy strategies BPBA, BCPA and BAPB of ApplicationOptimizer       *)
(* (src/optiserve/optimization/application_optimizer.py), one iteration of *)
(* a `while` loop per step.                                                *)
(*                                                                         *)
(* The three share their shape.  A strategy first upgrades model variants  *)
(* until the accuracy constraint holds, then tunes memories for its        *)
(* objective; BAPB skips the upgrades of the BCPA it calls and goes on to  *)
(* improve accuracy, models and memories jointly.  BPBA spends cost and    *)
(* minimizes response time, the other two the reverse, so `spent` stands   *)
(* for current_cost or current_avg_rt and `objective` for the other one.   *)
(*                                                                         *)
(* What the analytical model says of each configuration is a table of the  *)
(* application (that the answers are right is MemoizedModel's subject).    *)
(* Costs, times and accuracies are integers, so no rounding is needed, and *)
(* every variant is profiled on the same memory sizes.                     *)
(***************************************************************************)
EXTENDS Integers, Sequences

CONSTANTS
    Nodes,       \* functions of the workflow
    Mems,        \* memory sizes in the perf_profiles
    Models,      \* indexes of model variants, 0 for the least accurate one
    Apps,        \* applications
    Answers,     \* what the analytical model says of the configurations of each
    Workflows,   \* structure and profiles of each
    Limits,      \* budgets and response time constraints a caller passes
    Accuracies,  \* accuracy constraints a caller passes
    Compats,     \* subset of SUBSET {"surplus", "mem_gate"}: presets of OptimizerCompat
    Weight       \* accuracy_penalty_weight

Smallest(set) == CHOOSE m \in set : \A k \in set : m <= k
Largest(set) == CHOOSE m \in set : \A k \in set : m >= k

Configs == [Nodes -> [mem : Mems, model : Models]]

\* An application's paths are its all_simple_paths; ranked is np.argsort of their refined lengths;
\* variants counts the model variants; available is available_mem, pruned by a ratio or not.
WorkflowOK(w) ==
    /\ w.paths \in Seq(SUBSET Nodes) /\ w.paths # <<>>
    /\ \A c \in Configs : w.ranked[c] \in [DOMAIN w.paths -> DOMAIN w.paths]
    /\ w.variants \in [Nodes -> Nat]
    /\ w.available \in [Nodes -> [Models -> SUBSET Mems]]

ASSUME OptimizerAssumption ==
    /\ Mems \subseteq Nat
    /\ \E m \in Mems : \A k \in Mems : m <= k
    /\ \E m \in Mems : \A k \in Mems : m >= k
    /\ Models \subseteq Nat /\ 0 \in Models
    /\ \A a \in Apps, c \in Configs :
        Answers[a].cost[c] \in Int /\ Answers[a].rt[c] \in Int /\ Answers[a].acc[c] \in Int
    /\ \A a \in Apps : WorkflowOK(Workflows[a])
    /\ Limits \subseteq Int /\ Accuracies \subseteq Int
    /\ Compats \subseteq SUBSET {"surplus", "mem_gate"} /\ Weight \in Nat

\* get_optimization_boundary: every function at one end of its memories and of its variants.
Corner(a, mem, dearest) ==
    [n \in Nodes |-> [mem |-> mem,
                      model |-> IF dearest THEN Largest({k \in Models : k < Workflows[a].variants[n]})
                                ELSE 0]]

\* The costs and response times of an application do not all lie at one point.  BAPB divides by its
\* envelopes; where both are zero its first ratio is a division by zero, and raises if the accuracies
\* are Python's own numbers (application_optimizer.py:727-728, 788).
ASSUME EnvelopeAssumption ==
    \A a \in Apps :
        LET least == Smallest(Mems)
            most  == Largest(Mems)
        IN  \/ Answers[a].cost[Corner(a, most, TRUE)] # Answers[a].cost[Corner(a, least, FALSE)]
            \/ Answers[a].rt[Corner(a, least, TRUE)] # Answers[a].rt[Corner(a, most, FALSE)]

VARIABLES
    app, strategy, limit, budget, compat,  \* inputs, see ConstrainedSearch
    accuracy,       \* accuracy_constraint
    optimize,       \* optimize_model_configuration
    bcr,            \* BCR: candidates are filtered or ranked by benefit-cost ratio
    config,         \* mem attributes of the workflow graph and curr_model_configuration
    phase, order,
    spent,          \* current_cost (BPBA), current_avg_rt (BCPA, BAPB)
    objective,      \* the other one of the two
    attained,       \* curr_accuracy (BPBA, BCPA), current_accuracy (BAPB)
    surplus,        \* limit minus what the books say is spent
    budgetSurplus   \* BAPB's

S == INSTANCE ConstrainedSearch

Workflow == Workflows[app]

inputs == <<app, strategy, limit, budget, compat, accuracy, optimize, bcr>>
vars == <<inputs, config, phase, order, spent, objective, attained, surplus, budgetSurplus>>

LastOrder == Len(Workflow.paths) - 1

TypeOK ==
    /\ app \in Apps /\ strategy \in {"BPBA", "BCPA", "BAPB"}
    /\ limit \in Limits /\ budget \in Limits /\ compat \in Compats /\ accuracy \in Accuracies
    /\ optimize \in BOOLEAN /\ bcr \in BOOLEAN
    /\ config \in Configs
    /\ phase \in {"upgrade", "tune", "joint", "done"}
    /\ order \in 0 .. LastOrder
    /\ spent \in Int /\ objective \in Int /\ attained \in Int
    /\ surplus \in Int /\ budgetSurplus \in Int

\* BPBA starts from the smallest memories, BCPA from the largest, both from the first models.
\* Arguments a strategy does not read have one value.
Init ==
    /\ app \in Apps /\ strategy \in {"BPBA", "BCPA", "BAPB"}
    /\ limit \in Limits /\ budget \in Limits /\ compat \in Compats /\ accuracy \in Accuracies
    /\ optimize \in BOOLEAN /\ (strategy = "BAPB" => ~optimize)
    /\ optimize \/ accuracy = Smallest(Accuracies)
    /\ strategy = "BAPB" \/ budget = limit
    /\ bcr \in BOOLEAN
    /\ config = [n \in Nodes |-> [mem |-> IF strategy = "BPBA" THEN Smallest(Mems)
                                          ELSE Largest(Mems),
                                  model |-> 0]]
    /\ phase = "upgrade" /\ order = 0
    /\ spent = S!Spent(config) /\ objective = S!Objective(config)
    /\ attained = S!Accuracy(config)
    /\ surplus = limit - spent
    /\ budgetSurplus = 0
-----------------------------------------------------------------------------
(* Candidates: what an iteration scores *)

After(m) == [config EXCEPT ![m.node] = [mem |-> m.mem, model |-> m.model]]

MoreSpent(m) == S!Spent(After(m)) - spent
Gain(m) == objective - S!Objective(After(m))
MoreAccuracy(m) == S!Accuracy(After(m)) - attained

\* find_PRCP: BCPA tunes along the least critical path, everybody else follows the most critical.
CriticalPath ==
    LET ranked == Workflow.ranked[config]
    IN  Workflow.paths[IF strategy # "BPBA" /\ phase = "tune" THEN ranked[order + 1]
                  ELSE ranked[LastOrder + 1 - order]]

Moves == [node : CriticalPath, mem : Mems, model : Models]

\* Faulty variant: the surplus is not looked at.
UpgradeCandidatesUnlimited ==
    {m \in Moves : m.mem = config[m.node].mem
                   /\ m.model > config[m.node].model /\ m.model < Workflow.variants[m.node]}

UpgradeCandidates ==
    {m \in Moves : /\ m.mem = config[m.node].mem
                   /\ m.model > config[m.node].model /\ m.model < Workflow.variants[m.node]
                   /\ MoreSpent(m) <= surplus}

\* BPBA buys memory, BCPA gives it back.
TuneCandidates ==
    {m \in Moves : /\ m.model = config[m.node].model
                   /\ m.mem \in Workflow.available[m.node][m.model]
                   /\ IF strategy = "BPBA" THEN m.mem > config[m.node].mem
                      ELSE m.mem < config[m.node].mem
                   /\ MoreSpent(m) < surplus /\ Gain(m) > 0}

\* The scan over memories stops below the current one (at it, with LEGACY_BAPB_MEM_GATE) and for
\* a model that lowers the accuracy; a move that changes nothing has no ratio (nan).
JointCandidates ==
    {m \in Moves : /\ m.model > config[m.node].model /\ m.model < Workflow.variants[m.node]
                   /\ m.mem \in Workflow.available[m.node][m.model]
                   /\ m.mem >= config[m.node].mem
                   /\ m.mem = config[m.node].mem => "mem_gate" \notin compat
                   /\ MoreAccuracy(m) >= 0
                   /\ MoreSpent(m) <= surplus /\ -Gain(m) <= budgetSurplus
                   /\ MoreAccuracy(m) # 0 \/ MoreSpent(m) # 0 \/ Gain(m) # 0}

Candidates == CASE phase = "upgrade" -> UpgradeCandidates
                [] phase = "tune" -> TuneCandidates
                [] OTHER -> JointCandidates
-----------------------------------------------------------------------------
(* Selection.  Ties are left open, and so is what the benefit-cost ratios prefer. *)

Most(moves, value(_)) == {m \in moves : \A k \in moves : value(k) <= value(m)}

Missing(m) == LET gap == S!Accuracy(After(m)) - accuracy IN IF gap < 0 THEN gap ELSE 0
Score(m) == Weight * Missing(m) - MoreSpent(m)
Thrift(m) == -MoreSpent(m)

\* The best candidate of each node, then the best of those.
UpgradeChoices ==
    LET best == UNION {Most(Most(Most({m \in UpgradeCandidates : m.node = n}, Score), Thrift),
                            MoreAccuracy) : n \in CriticalPath}
    IN  Most(Most(best, Score), MoreAccuracy)

TuneChoices ==
    IF bcr THEN TuneCandidates ELSE Most(Most(TuneCandidates, Gain), Thrift)

\* A filter by benefit-cost ratio may leave no candidate.
FoundNone == Candidates = {} \/ (bcr /\ phase = "tune")
-----------------------------------------------------------------------------
(* One iteration *)

AccuracyMet == S!Accuracy(config) >= accuracy

Searching ==
    \/ phase = "upgrade" /\ optimize /\ ~AccuracyMet /\ surplus >= 0
    \/ phase = "tune" /\ surplus >= 0
    \/ phase = "joint" /\ surplus >= 0 /\ budgetSurplus >= 0

\* BCPA decrements its surplus; BPBA rebases its books, or as published charges the upgrade a
\* second time with the next one.
Upgrade ==
    /\ phase = "upgrade" /\ Searching
    /\ \E m \in UpgradeChoices :
        /\ config' = After(m)
        /\ spent' = IF strategy = "BPBA" /\ "surplus" \in compat THEN spent
                    ELSE S!Spent(After(m))
        /\ surplus' = IF strategy = "BPBA" /\ "surplus" \notin compat THEN limit - spent'
                      ELSE surplus - MoreSpent(m)
        /\ attained' = S!Accuracy(After(m))
    /\ UNCHANGED <<inputs, phase, order, objective, budgetSurplus>>

Tune ==
    /\ phase = "tune" /\ Searching
    /\ \E m \in TuneChoices :
        /\ config' = After(m)
        /\ spent' = IF strategy = "BPBA" THEN S!Spent(After(m)) ELSE spent + MoreSpent(m)
        /\ objective' = objective - Gain(m)
        /\ surplus' = surplus - MoreSpent(m)
    /\ UNCHANGED <<inputs, phase, order, attained, budgetSurplus>>

\* Faulty variant: the response time is not accumulated.
JointUnbooked ==
    /\ phase = "joint" /\ Searching
    /\ \E m \in JointCandidates :
        /\ config' = After(m)
        /\ objective' = objective - Gain(m)
        /\ attained' = attained + MoreAccuracy(m)
        /\ surplus' = surplus - MoreSpent(m)
        /\ budgetSurplus' = budgetSurplus + Gain(m)
    /\ UNCHANGED <<inputs, phase, order, spent>>

Joint ==
    /\ phase = "joint" /\ Searching
    /\ \E m \in JointCandidates :
        /\ config' = After(m)
        /\ spent' = spent + MoreSpent(m)
        /\ objective' = objective - Gain(m)
        /\ attained' = attained + MoreAccuracy(m)
        /\ surplus' = surplus - MoreSpent(m)
        /\ budgetSurplus' = budgetSurplus + Gain(m)
    /\ UNCHANGED <<inputs, phase, order>>

\* Faulty variant: after the last path the search starts over.
NextPathWraps ==
    /\ Searching /\ FoundNone
    /\ order' = IF order < LastOrder THEN order + 1 ELSE 0
    /\ UNCHANGED <<inputs, config, phase, spent, objective, attained, surplus, budgetSurplus>>

\* The order is never lowered again within a loop, whatever is selected later.
NextPath ==
    /\ Searching /\ FoundNone
    /\ order < LastOrder
    /\ order' = order + 1
    /\ UNCHANGED <<inputs, config, phase, spent, objective, attained, surplus, budgetSurplus>>

Exhausted == ~Searching \/ (FoundNone /\ order = LastOrder)

\* BPBA starts the second loop at the most critical path; BCPA goes on where it was.
StartTuning ==
    /\ phase = "upgrade" /\ Exhausted
    /\ phase' = "tune"
    /\ order' = IF strategy = "BPBA" THEN 0 ELSE order
    /\ spent' = S!Spent(config) /\ objective' = S!Objective(config)
    /\ surplus' = limit - spent'
    /\ UNCHANGED <<inputs, config, attained, budgetSurplus>>

StartJoint ==
    /\ phase = "tune" /\ Exhausted /\ strategy = "BAPB"
    /\ phase' = "joint" /\ order' = 0
    /\ attained' = S!Accuracy(config)
    /\ surplus' = limit - spent /\ budgetSurplus' = budget - objective
    /\ UNCHANGED <<inputs, config, spent, objective>>

Finish ==
    /\ Exhausted
    /\ phase = "joint" \/ (phase = "tune" /\ strategy # "BAPB")
    /\ phase' = "done"
    /\ UNCHANGED <<inputs, config, order, spent, objective, attained, surplus, budgetSurplus>>

Finished == phase = "done" /\ UNCHANGED vars

Iterate == Upgrade \/ Tune \/ Joint \/ NextPath \/ StartTuning \/ StartJoint \/ Finish

Next == Iterate \/ Finished

Spec == Init /\ [][Next]_vars

\* Fairness: a strategy is one sequential call.
FairSpec == Spec /\ WF_vars(Iterate)
-----------------------------------------------------------------------------
(* Correctness *)

\* Each step, measured on the configurations and not by the books, does what its phase is for and
\* keeps the constraints: incremental bookkeeping over scored, rejected and restored candidates
\* never lets a strategy overspend or lose ground (application_optimizer.py:228-864).
SearchSpec == S!Spec

\* At every loop head the books agree with the configuration, so that the response time and cost
\* an OptimizationResult reports are those of the configuration it recommends.  (In BPBA's first
\* loop, only as corrected.)
BooksBalance ==
    /\ phase # "upgrade" \/ strategy # "BPBA" \/ "surplus" \notin compat =>
        spent = S!Spent(config) /\ surplus = limit - spent
    /\ phase # "upgrade" => objective = S!Objective(config)
    /\ phase = "joint" => attained = S!Accuracy(config) /\ budgetSurplus = budget - objective

\* Every strategy returns.
Terminates == <>(phase = "done")
=============================================================================
