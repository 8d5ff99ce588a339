--------------------- MODULE ApplicationOptimizerProofs ---------------------
(***************************************************************************)
(* For all applications, constraints and presets: the books of the greedy  *)
(* strategies balance, and every step is one of ConstrainedSearch.  The    *)
(* inductive invariant is TypeOK /\ BooksBalance: what an iteration        *)
(* promises is stated of the configurations, what it tests are the books,  *)
(* and the books carry the one to the other.                               *)
(***************************************************************************)
EXTENDS ApplicationOptimizer, TLAPS

Inv == TypeOK /\ BooksBalance

USE DEF Inv

\* The answers for a configuration are integers.
LEMMA AnswersAreInts ==
    ASSUME TypeOK, NEW c \in Configs
    PROVE  S!Spent(c) \in Int /\ S!Objective(c) \in Int /\ S!Accuracy(c) \in Int
BY OptimizerAssumption DEF TypeOK, S!Spent, S!Objective, S!Cost, S!Rt, S!Accuracy

\* A path has a number of functions, and find_PRCP finds one.
LEMMA PathsOK ==
    ASSUME TypeOK
    PROVE  /\ LastOrder \in Nat
           /\ CriticalPath \subseteq Nodes
<1>1. WorkflowOK(Workflow)
  BY OptimizerAssumption DEF TypeOK, Workflow
<1>2. Workflow.paths \in Seq(SUBSET Nodes) /\ Workflow.paths # <<>>
  BY <1>1 DEF WorkflowOK
<1>3. LastOrder \in Nat /\ DOMAIN Workflow.paths = 1 .. LastOrder + 1
  BY <1>2 DEF LastOrder
<1>4. order + 1 \in DOMAIN Workflow.paths /\ LastOrder + 1 - order \in DOMAIN Workflow.paths
  BY <1>3 DEF TypeOK
<1>5. config \in Configs
  BY DEF TypeOK
<1>6. Workflow.ranked[config] \in [DOMAIN Workflow.paths -> DOMAIN Workflow.paths]
  BY <1>1, <1>5 DEF WorkflowOK
<1>7. \A i \in DOMAIN Workflow.paths : Workflow.paths[Workflow.ranked[config][i]] \subseteq Nodes
  BY <1>2, <1>6
<1>. QED
  BY <1>3, <1>4, <1>7 DEF CriticalPath

\* What a move does to the configuration.
LEMMA AfterOK ==
    ASSUME TypeOK, NEW m \in Moves
    PROVE  /\ After(m) \in Configs /\ After(m) \in S!Neighbours(config)
           /\ \A n \in Nodes : IF n = m.node THEN After(m)[n] = [mem |-> m.mem, model |-> m.model]
                               ELSE After(m)[n] = config[n]
<1>1. config \in Configs /\ m.node \in Nodes /\ m.mem \in Mems /\ m.model \in Models
  BY PathsOK DEF TypeOK, Moves
<1>2. After(m) = [config EXCEPT ![m.node] = [mem |-> m.mem, model |-> m.model]]
  BY DEF After
<1>3. After(m) \in Configs
  BY <1>1, <1>2 DEF Configs
<1>4. After(m) \in S!Neighbours(config)
  <2>1. \A k \in Nodes \ {m.node} : After(m)[k] = config[k]
    BY <1>1, <1>2 DEF Configs
  <2>. QED
    BY <1>1, <1>3, <2>1 DEF S!Neighbours, S!Configs, Configs
<1>5. ASSUME NEW n \in Nodes
      PROVE  IF n = m.node THEN After(m)[n] = [mem |-> m.mem, model |-> m.model]
             ELSE After(m)[n] = config[n]
  BY <1>1, <1>2 DEF Configs
<1>. QED
  BY <1>3, <1>4, <1>5

\* The sums of an iteration are integers.
LEMMA MoveInts ==
    ASSUME TypeOK, NEW m \in Moves
    PROVE  MoreSpent(m) \in Int /\ Gain(m) \in Int /\ MoreAccuracy(m) \in Int
<1>1. After(m) \in Configs
  BY AfterOK
<1>2. S!Spent(After(m)) \in Int /\ S!Objective(After(m)) \in Int /\ S!Accuracy(After(m)) \in Int
  BY <1>1, AnswersAreInts
<1>. QED
  BY <1>2 DEF MoreSpent, Gain, MoreAccuracy, TypeOK

\* What a selection picks was a candidate.
LEMMA ChoicesAreCandidates ==
    UpgradeChoices \subseteq UpgradeCandidates /\ TuneChoices \subseteq TuneCandidates
<1>1. TuneChoices \subseteq TuneCandidates
  BY DEF TuneChoices, Most
<1>2. UpgradeChoices \subseteq UpgradeCandidates
  BY DEF UpgradeChoices, Most
<1>. QED
  BY <1>1, <1>2

-----------------------------------------------------------------------------

\* Each committed move keeps the books and is a step of the search.
LEMMA UpgradeStep ==
    ASSUME Inv, Upgrade
    PROVE  Inv' /\ S!Upgrade
<1>1. PICK m \in UpgradeChoices :
        /\ config' = After(m)
        /\ spent' = IF strategy = "BPBA" /\ "surplus" \in compat THEN spent
                    ELSE S!Spent(After(m))
        /\ surplus' = IF strategy = "BPBA" /\ "surplus" \notin compat THEN limit - spent'
                      ELSE surplus - MoreSpent(m)
        /\ attained' = S!Accuracy(After(m))
  BY DEF Upgrade
<1>2. /\ m \in Moves /\ MoreSpent(m) <= surplus
      /\ m.mem = config[m.node].mem /\ m.model > config[m.node].model
  BY <1>1, ChoicesAreCandidates DEF UpgradeCandidates
<1>3. UNCHANGED <<inputs, phase, order, objective, budgetSurplus>> /\ phase = "upgrade"
  BY DEF Upgrade
<1>4. /\ After(m) \in Configs /\ After(m) \in S!Neighbours(config)
      /\ \A n \in Nodes : IF n = m.node THEN After(m)[n] = [mem |-> m.mem, model |-> m.model]
                          ELSE After(m)[n] = config[n]
  BY <1>2, AfterOK
<1>5. S!Spent(After(m)) \in Int /\ S!Accuracy(After(m)) \in Int
  BY <1>4, AnswersAreInts
<1>6. MoreSpent(m) \in Int /\ MoreSpent(m) = S!Spent(After(m)) - spent
  BY <1>2, MoveInts DEF MoreSpent
<1>7. S!Spent(config') = S!Spent(config)' /\ S!Spent(config') = S!Spent(After(m))
  BY <1>1, <1>3 DEF S!Spent, S!Cost, S!Rt, S!Accuracy, inputs
<1>8. /\ spent \in Int /\ surplus \in Int /\ limit \in Int
      /\ ~(strategy = "BPBA" /\ "surplus" \in compat) =>
           spent = S!Spent(config) /\ surplus = limit - spent
  BY <1>3, OptimizerAssumption DEF TypeOK, BooksBalance
<1>9. TypeOK'
  <2>1. spent' \in Int /\ surplus' \in Int /\ attained' \in Int
    BY <1>1, <1>5, <1>6, <1>8
  <2>. QED
    BY <2>1, <1>1, <1>3, <1>4 DEF TypeOK, inputs, LastOrder, Workflow
<1>10. BooksBalance'
  <2>1. ~(strategy = "BPBA" /\ "surplus" \in compat) =>
           spent' = S!Spent(config)' /\ surplus' = limit - spent'
    BY <1>1, <1>5, <1>6, <1>7, <1>8
  <2>. QED
    BY <2>1, <1>3 DEF BooksBalance, inputs
<1>11. S!Spent(config') <= limit \/ "surplus" \in compat
  BY <1>2, <1>5, <1>6, <1>7, <1>8
<1>12. \A n \in Nodes : config'[n].mem = config[n].mem /\ config'[n].model >= config[n].model
  <2>1. ASSUME NEW n \in Nodes
        PROVE  config'[n].mem = config[n].mem /\ config'[n].model >= config[n].model
    <3>1. config[n].model \in Nat
      BY OptimizerAssumption DEF TypeOK, Configs
    <3>2. CASE n = m.node
      <4>1. config'[n] = [mem |-> m.mem, model |-> m.model]
        BY <1>1, <1>4, <3>2
      <4>2. m.model > config[n].model /\ m.mem = config[n].mem /\ m.model \in Nat
        BY <1>2, <3>2, OptimizerAssumption DEF Moves
      <4>. QED
        BY <3>1, <4>1, <4>2
    <3>3. CASE n # m.node
      BY <1>1, <1>4, <3>1, <3>3
    <3>. QED
      BY <3>2, <3>3
  <2>. QED
    BY <2>1
<1>13. S!Upgrade
  BY <1>1, <1>3, <1>4, <1>11, <1>12 DEF S!Upgrade, S!inputs, inputs
<1>. QED
  BY <1>9, <1>10, <1>13

LEMMA TuneStep ==
    ASSUME Inv, Tune
    PROVE  Inv' /\ S!Tune
<1>1. PICK m \in TuneChoices :
        /\ config' = After(m)
        /\ spent' = IF strategy = "BPBA" THEN S!Spent(After(m)) ELSE spent + MoreSpent(m)
        /\ objective' = objective - Gain(m)
        /\ surplus' = surplus - MoreSpent(m)
  BY DEF Tune
<1>2. /\ m \in Moves /\ MoreSpent(m) < surplus /\ Gain(m) > 0
      /\ m.model = config[m.node].model
  BY <1>1, ChoicesAreCandidates DEF TuneCandidates
<1>3. UNCHANGED <<inputs, phase, order, attained, budgetSurplus>> /\ phase = "tune"
  BY DEF Tune
<1>4. /\ After(m) \in Configs /\ After(m) \in S!Neighbours(config)
      /\ \A n \in Nodes : IF n = m.node THEN After(m)[n] = [mem |-> m.mem, model |-> m.model]
                          ELSE After(m)[n] = config[n]
  BY <1>2, AfterOK
<1>5. S!Spent(After(m)) \in Int /\ S!Objective(After(m)) \in Int
  BY <1>4, AnswersAreInts
<1>6. /\ MoreSpent(m) \in Int /\ MoreSpent(m) = S!Spent(After(m)) - spent
      /\ Gain(m) \in Int /\ Gain(m) = objective - S!Objective(After(m))
  BY <1>2, MoveInts DEF MoreSpent, Gain
<1>7. /\ S!Spent(config') = S!Spent(config)' /\ S!Spent(config') = S!Spent(After(m))
      /\ S!Objective(config') = S!Objective(config)' /\ S!Objective(config') = S!Objective(After(m))
  BY <1>1, <1>3 DEF S!Spent, S!Objective, S!Cost, S!Rt, S!Accuracy, inputs
<1>8. /\ spent \in Int /\ objective \in Int /\ surplus \in Int /\ limit \in Int
      /\ spent = S!Spent(config) /\ surplus = limit - spent /\ objective = S!Objective(config)
  BY <1>3, OptimizerAssumption DEF TypeOK, BooksBalance
<1>9. TypeOK'
  <2>1. spent' \in Int /\ objective' \in Int /\ surplus' \in Int
    BY <1>1, <1>5, <1>6, <1>8
  <2>. QED
    BY <2>1, <1>1, <1>3, <1>4 DEF TypeOK, inputs, LastOrder, Workflow
<1>10. BooksBalance'
  BY <1>1, <1>3, <1>5, <1>6, <1>7, <1>8 DEF BooksBalance, inputs
<1>11. S!Spent(config') < limit /\ S!Objective(config') < S!Objective(config)
  BY <1>2, <1>5, <1>6, <1>7, <1>8
<1>12. \A n \in Nodes : config'[n].model = config[n].model
  BY <1>1, <1>2, <1>4
<1>13. S!Tune
  BY <1>1, <1>3, <1>4, <1>11, <1>12 DEF S!Tune, S!inputs, inputs
<1>. QED
  BY <1>9, <1>10, <1>13

LEMMA JointStep ==
    ASSUME Inv, Joint
    PROVE  Inv' /\ S!Joint
<1>1. PICK m \in JointCandidates :
        /\ config' = After(m)
        /\ spent' = spent + MoreSpent(m)
        /\ objective' = objective - Gain(m)
        /\ attained' = attained + MoreAccuracy(m)
        /\ surplus' = surplus - MoreSpent(m)
        /\ budgetSurplus' = budgetSurplus + Gain(m)
  BY DEF Joint
<1>2. /\ m \in Moves /\ m.model > config[m.node].model /\ m.mem >= config[m.node].mem
      /\ MoreAccuracy(m) >= 0 /\ MoreSpent(m) <= surplus /\ -Gain(m) <= budgetSurplus
  BY <1>1 DEF JointCandidates
<1>3. UNCHANGED <<inputs, phase, order>> /\ phase = "joint"
  BY DEF Joint
<1>4. /\ After(m) \in Configs /\ After(m) \in S!Neighbours(config)
      /\ \A n \in Nodes : IF n = m.node THEN After(m)[n] = [mem |-> m.mem, model |-> m.model]
                          ELSE After(m)[n] = config[n]
  BY <1>2, AfterOK
<1>5. S!Spent(After(m)) \in Int /\ S!Objective(After(m)) \in Int /\ S!Accuracy(After(m)) \in Int
  BY <1>4, AnswersAreInts
<1>6. /\ MoreSpent(m) \in Int /\ MoreSpent(m) = S!Spent(After(m)) - spent
      /\ Gain(m) \in Int /\ Gain(m) = objective - S!Objective(After(m))
      /\ MoreAccuracy(m) \in Int /\ MoreAccuracy(m) = S!Accuracy(After(m)) - attained
  BY <1>2, MoveInts DEF MoreSpent, Gain, MoreAccuracy
<1>7. /\ S!Spent(config') = S!Spent(config)' /\ S!Spent(config') = S!Spent(After(m))
      /\ S!Objective(config') = S!Objective(config)' /\ S!Objective(config') = S!Objective(After(m))
      /\ S!Accuracy(config') = S!Accuracy(config)' /\ S!Accuracy(config') = S!Accuracy(After(m))
  BY <1>1, <1>3 DEF S!Spent, S!Objective, S!Cost, S!Rt, S!Accuracy, inputs
<1>8. /\ spent \in Int /\ objective \in Int /\ attained \in Int
      /\ surplus \in Int /\ limit \in Int /\ budgetSurplus \in Int /\ budget \in Int
      /\ spent = S!Spent(config) /\ surplus = limit - spent /\ objective = S!Objective(config)
      /\ attained = S!Accuracy(config) /\ budgetSurplus = budget - objective
  BY <1>3, OptimizerAssumption DEF TypeOK, BooksBalance
<1>9. TypeOK'
  <2>1. /\ spent' \in Int /\ objective' \in Int /\ attained' \in Int
        /\ surplus' \in Int /\ budgetSurplus' \in Int
    BY <1>1, <1>6, <1>8
  <2>. QED
    BY <2>1, <1>1, <1>3, <1>4 DEF TypeOK, inputs, LastOrder, Workflow
<1>10. BooksBalance'
  <2>1. /\ spent' = S!Spent(config)' /\ surplus' = limit - spent'
        /\ objective' = S!Objective(config)'
        /\ attained' = S!Accuracy(config)' /\ budgetSurplus' = budget - objective'
    BY <1>1, <1>5, <1>6, <1>7, <1>8
  <2>. QED
    BY <2>1, <1>3 DEF BooksBalance, inputs
<1>11. /\ S!Spent(config') <= limit /\ S!Objective(config') <= budget
       /\ S!Accuracy(config') >= S!Accuracy(config)
  BY <1>2, <1>5, <1>6, <1>7, <1>8
<1>12. \A n \in Nodes : config'[n].mem >= config[n].mem /\ config'[n].model >= config[n].model
  <2>1. ASSUME NEW n \in Nodes
        PROVE  config'[n].mem >= config[n].mem /\ config'[n].model >= config[n].model
    <3>1. config[n].model \in Nat /\ config[n].mem \in Nat
      BY OptimizerAssumption DEF TypeOK, Configs
    <3>2. CASE n = m.node
      <4>1. config'[n] = [mem |-> m.mem, model |-> m.model]
        BY <1>1, <1>4, <3>2
      <4>2. m.model > config[n].model /\ m.mem >= config[n].mem /\ m.model \in Nat
        BY <1>2, <3>2, OptimizerAssumption DEF Moves
      <4>. QED
        BY <3>1, <4>1, <4>2
    <3>3. CASE n # m.node
      BY <1>1, <1>4, <3>1, <3>3
    <3>. QED
      BY <3>2, <3>3
  <2>. QED
    BY <2>1
<1>13. S!Joint
  BY <1>1, <1>3, <1>4, <1>11, <1>12 DEF S!Joint, S!inputs, inputs
<1>. QED
  BY <1>9, <1>10, <1>13

-----------------------------------------------------------------------------

\* A strategy starts with balanced books.
LEMMA InitOK == Init => Inv /\ S!Init
<1>. SUFFICES ASSUME Init PROVE Inv /\ S!Init
  OBVIOUS
<1>1. Smallest(Mems) \in Mems /\ Largest(Mems) \in Mems
  BY OptimizerAssumption DEF Smallest, Largest
<1>2. config \in Configs
  BY <1>1, OptimizerAssumption DEF Init, Configs
<1>3. S!Spent(config) \in Int /\ S!Objective(config) \in Int /\ S!Accuracy(config) \in Int
  BY <1>2, OptimizerAssumption DEF Init, S!Spent, S!Objective, S!Cost, S!Rt, S!Accuracy
<1>4. LastOrder \in Nat
  <2>1. WorkflowOK(Workflow)
    BY OptimizerAssumption DEF Init, Workflow
  <2>. QED
    BY <2>1 DEF WorkflowOK, LastOrder
<1>5. limit \in Int
  BY OptimizerAssumption DEF Init
<1>6. TypeOK
  BY <1>2, <1>3, <1>4, <1>5 DEF Init, TypeOK
<1>7. BooksBalance
  BY DEF Init, BooksBalance
<1>8. S!Init
  BY <1>2 DEF Init, S!Init, S!Configs, Configs
<1>. QED
  BY <1>6, <1>7, <1>8

\* Every step keeps the books balanced and is a step of the search, or none.
LEMMA StepOK ==
    ASSUME Inv, [Next]_vars
    PROVE  Inv' /\ [S!Next]_<<S!inputs, config, phase>>
<1>. USE DEF inputs, S!inputs
<1>1. CASE Upgrade
  BY <1>1, UpgradeStep DEF S!Next
<1>2. CASE Tune
  BY <1>2, TuneStep DEF S!Next
<1>3. CASE Joint
  BY <1>3, JointStep DEF S!Next
<1>4. CASE NextPath
  <2>1. order' \in 0 .. LastOrder /\ LastOrder' = LastOrder
    BY <1>4, PathsOK DEF NextPath, TypeOK, LastOrder, Workflow
  <2>2. TypeOK'
    BY <1>4, <2>1 DEF NextPath, TypeOK
  <2>3. BooksBalance'
    BY <1>4 DEF NextPath, BooksBalance, S!Spent, S!Objective, S!Cost, S!Rt, S!Accuracy
  <2>. QED
    BY <1>4, <2>2, <2>3 DEF NextPath
<1>5. CASE StartTuning
  <2>1. S!Spent(config) \in Int /\ S!Objective(config) \in Int /\ config \in Configs
    BY AnswersAreInts DEF TypeOK
  <2>2. LastOrder \in Nat /\ LastOrder' = LastOrder
    BY <1>5, PathsOK DEF StartTuning, LastOrder, Workflow
  <2>3. limit \in Int
    BY OptimizerAssumption DEF TypeOK
  <2>4. TypeOK'
    BY <1>5, <2>1, <2>2, <2>3 DEF StartTuning, TypeOK
  <2>5. BooksBalance'
    BY <1>5 DEF StartTuning, BooksBalance, S!Spent, S!Objective, S!Cost, S!Rt, S!Accuracy
  <2>6. S!EndPhase
    BY <1>5 DEF StartTuning, S!EndPhase
  <2>. QED
    BY <2>4, <2>5, <2>6 DEF S!Next
<1>6. CASE StartJoint
  <2>1. S!Accuracy(config) \in Int
    BY AnswersAreInts DEF TypeOK
  <2>2. LastOrder \in Nat /\ LastOrder' = LastOrder
    BY <1>6, PathsOK DEF StartJoint, LastOrder, Workflow
  <2>3. limit \in Int /\ budget \in Int
    BY OptimizerAssumption DEF TypeOK
  <2>4. TypeOK'
    BY <1>6, <2>1, <2>2, <2>3 DEF StartJoint, TypeOK
  <2>5. BooksBalance'
    BY <1>6 DEF StartJoint, BooksBalance, S!Spent, S!Objective, S!Cost, S!Rt, S!Accuracy
  <2>6. S!EndPhase
    BY <1>6 DEF StartJoint, S!EndPhase
  <2>. QED
    BY <2>4, <2>5, <2>6 DEF S!Next
<1>7. CASE Finish
  <2>1. LastOrder' = LastOrder
    BY <1>7 DEF Finish, LastOrder, Workflow
  <2>2. TypeOK'
    BY <1>7, <2>1 DEF Finish, TypeOK
  <2>3. BooksBalance'
    BY <1>7 DEF Finish, BooksBalance, S!Spent, S!Objective, S!Cost, S!Rt, S!Accuracy
  <2>4. S!EndPhase
    BY <1>7 DEF Finish, S!EndPhase
  <2>. QED
    BY <2>2, <2>3, <2>4 DEF S!Next
<1>8. CASE UNCHANGED vars
  <2>1. TypeOK'
    BY <1>8 DEF vars, TypeOK, LastOrder, Workflow
  <2>2. BooksBalance'
    BY <1>8 DEF vars, BooksBalance, S!Spent, S!Objective, S!Cost, S!Rt, S!Accuracy
  <2>. QED
    BY <1>8, <2>1, <2>2 DEF vars
<1>. QED
  BY <1>1, <1>2, <1>3, <1>4, <1>5, <1>6, <1>7, <1>8 DEF Next, Iterate, Finished

\* The books balance and the types hold throughout.
THEOREM InvHolds == Spec => []Inv
<1>1. Init => Inv
  BY InitOK
<1>2. Inv /\ [Next]_vars => Inv'
  BY StepOK
<1>. QED
  BY <1>1, <1>2, PTL DEF Spec

\* The order never leaves the list of paths, for any workflow (find_PRCP indexes with it).
THEOREM OptimizerTypeCorrect == Spec => []TypeOK
BY InvHolds, PTL

\* The response time and cost a strategy reports are those of the configuration it recommends.
THEOREM BooksStayBalanced == Spec => []BooksBalance
BY InvHolds, PTL

\* The strategies walk as ConstrainedSearch allows: no step, measured on the configurations,
\* overspends or loses ground, whatever the application.
THEOREM StrategiesSearch == Spec => SearchSpec
<1>1. Init => S!Init
  BY InitOK
<1>2. Inv /\ [Next]_vars => [S!Next]_<<S!inputs, config, phase>>
  BY StepOK
<1>. QED
  BY <1>1, <1>2, InvHolds, PTL DEF Spec, SearchSpec, S!Spec
-----------------------------------------------------------------------------
(***************************************************************************)
(* Why the loops end.  A turn goes on to a later loop, to a later path, or *)
(* takes one function further in the direction of its loop, of which there *)
(* are finitely many: a variant once left is not considered again in a     *)
(* strategy, a memory size not in the loop that left it.                   *)
(***************************************************************************)
Further(n) ==
    /\ \A k \in Nodes \ {n} : config'[k] = config[k]
    /\ phase = "tune" =>
          /\ config'[n].model = config[n].model
          /\ IF strategy = "BPBA" THEN config'[n].mem > config[n].mem
             ELSE config'[n].mem < config[n].mem
    /\ phase # "tune" => config'[n].model > config[n].model /\ config'[n].mem >= config[n].mem

LaterLoop ==
    \/ phase = "upgrade" /\ phase' = "tune"
    \/ phase = "tune" /\ phase' \in {"joint", "done"}
    \/ phase = "joint" /\ phase' = "done"

LaterPath == phase' = phase /\ order' = order + 1 /\ order' <= LastOrder

Advances ==
    \/ (LaterLoop \/ LaterPath) /\ config' = config
    \/ phase' = phase /\ order' = order /\ \E n \in Nodes : Further(n)

LEMMA MoveAdvances ==
    ASSUME TypeOK, NEW m \in Moves, config' = After(m), UNCHANGED <<phase, order>>,
           \/ /\ phase = "tune" /\ m.model = config[m.node].model
              /\ IF strategy = "BPBA" THEN m.mem > config[m.node].mem
                 ELSE m.mem < config[m.node].mem
           \/ /\ phase # "tune" /\ m.model > config[m.node].model
              /\ m.mem >= config[m.node].mem
    PROVE  Advances
<1>1. m.node \in Nodes
  BY PathsOK DEF Moves
<1>2. \A n \in Nodes : IF n = m.node THEN config'[n] = [mem |-> m.mem, model |-> m.model]
                       ELSE config'[n] = config[n]
  BY AfterOK
<1>3. Further(m.node)
  BY <1>1, <1>2 DEF Further
<1>. QED
  BY <1>1, <1>3 DEF Advances

\* No turn of a loop leaves everything as it was or undoes an earlier one, for any application,
\* constraints and preset: what `Terminates` rests on.
THEOREM EveryTurnAdvances == Spec => [][Advances]_vars
<1>1. ASSUME Inv, Next, ~UNCHANGED vars PROVE Advances
  <2>1. CASE Upgrade
    <3>1. PICK m \in UpgradeChoices : config' = After(m)
      BY <2>1 DEF Upgrade
    <3>2. /\ m \in Moves /\ m.mem = config[m.node].mem /\ m.model > config[m.node].model
          /\ config[m.node].mem \in Nat
      <4>1. m \in Moves /\ m.mem = config[m.node].mem /\ m.model > config[m.node].model
        BY <3>1, ChoicesAreCandidates DEF UpgradeCandidates
      <4>2. m.mem \in Nat
        BY <4>1, OptimizerAssumption DEF Moves
      <4>. QED
        BY <4>1, <4>2
    <3>3. UNCHANGED <<phase, order>> /\ phase # "tune"
      BY <2>1 DEF Upgrade
    <3>4. m.mem >= config[m.node].mem
      BY <3>2
    <3>. QED
      BY <1>1, <3>1, <3>2, <3>3, <3>4, MoveAdvances
  <2>2. CASE Tune
    <3>1. PICK m \in TuneChoices : config' = After(m)
      BY <2>2 DEF Tune
    <3>2. /\ m \in Moves /\ m.model = config[m.node].model
          /\ IF strategy = "BPBA" THEN m.mem > config[m.node].mem ELSE m.mem < config[m.node].mem
      BY <3>1, ChoicesAreCandidates DEF TuneCandidates
    <3>3. UNCHANGED <<phase, order>> /\ phase = "tune"
      BY <2>2 DEF Tune
    <3>. QED
      BY <1>1, <3>1, <3>2, <3>3, MoveAdvances
  <2>3. CASE Joint
    <3>1. PICK m \in JointCandidates : config' = After(m)
      BY <2>3 DEF Joint
    <3>2. m \in Moves /\ m.model > config[m.node].model /\ m.mem >= config[m.node].mem
      BY <3>1 DEF JointCandidates
    <3>3. UNCHANGED <<phase, order>> /\ phase # "tune"
      BY <2>3 DEF Joint
    <3>. QED
      BY <1>1, <3>1, <3>2, <3>3, MoveAdvances
  <2>4. CASE NextPath
    <3>1. LastOrder \in Nat /\ LastOrder' = LastOrder
      BY <1>1, <2>4, PathsOK DEF NextPath, inputs, LastOrder, Workflow
    <3>2. order \in Nat /\ order < LastOrder /\ order' = order + 1
      BY <1>1, <2>4, <3>1 DEF NextPath, TypeOK
    <3>. QED
      BY <2>4, <3>1, <3>2 DEF NextPath, Advances, LaterPath
  <2>5. CASE StartTuning \/ StartJoint \/ Finish
    BY <2>5 DEF StartTuning, StartJoint, Finish, Advances, LaterLoop
  <2>. QED
    BY <1>1, <2>1, <2>2, <2>3, <2>4, <2>5 DEF Next, Iterate, Finished
<1>2. Inv /\ [Next]_vars => [Advances]_vars
  BY <1>1
<1>. QED
  BY <1>2, InvHolds, PTL DEF Spec
=============================================================================
