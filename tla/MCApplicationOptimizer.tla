----------------------- MODULE MCApplicationOptimizer -----------------------
(***************************************************************************)
(* Applications small enough for TLC: three functions on exclusive         *)
(* branches, one of them in front of another.  For such a workflow the     *)
(* analytical model is a weighted sum, and the tables below are its        *)
(* answers, scaled to integers.                                            *)
(***************************************************************************)
EXTENDS ApplicationOptimizer, FiniteSetsExt

MCNodes == {"a", "b", "c"}
MCMems == {1, 2}
MCModels == {0, 1}

\* Branch weights of the paths a and b - c.
Branches == <<{"a"}, {"b", "c"}>>
\* Response time of each function on each memory, variant by variant: more memory is faster and
\* dearer, the better variant slower.
Plain == [a |-> <<<<6, 4>>, <<8, 5>>>>, b |-> <<<<4, 3>>, <<6, 4>>>>, c |-> <<<<3, 2>>, <<5, 3>>>>]
\* b gets cheaper with memory, and its better variant is the cheaper one.
Odd == [Plain EXCEPT !.b = <<<<9, 3>>, <<6, 2>>>>]
\* Memory does nothing for c, and its variants cost the same.
Flat == [Plain EXCEPT !.c = <<<<3, 3>>, <<3, 3>>>>]

TwoEach == [n \in MCNodes |-> 2]
\* Accuracies of the variants; those of b may decrease.
Rising == [n \in MCNodes |-> <<1, 2>>]
All == [n \in MCNodes |-> [k \in MCModels |-> MCMems]]

Simple == [rts |-> Plain, weights |-> <<1, 1>>, variants |-> TwoEach, accuracies |-> Rising,
           available |-> All]
Profiles ==
    [simple |-> Simple,
     skewed |-> [Simple EXCEPT !.weights = <<3, 1>>, !.variants.a = 1],
     odd |-> [Simple EXCEPT !.rts = Odd, !.weights = <<2, 1>>],
     flat |-> [Simple EXCEPT !.rts = Flat, !.accuracies.b = <<2, 1>>],
     pruned |-> [Simple EXCEPT !.available.b = [k \in MCModels |-> {2}],
                               !.available.c = [k \in MCModels |-> {}]]]
MCApps == DOMAIN Profiles

\* The analytical model of such a workflow.
NE(a, n) == MapThenSumSet(LAMBDA i : IF n \in Branches[i] THEN Profiles[a].weights[i] ELSE 0, {1, 2})
RtOf(a, c, n) == Profiles[a].rts[n][c[n].model + 1][c[n].mem]
PathRt(a, c, i, Each(_)) ==
    Profiles[a].weights[i] * MapThenSumSet(LAMBDA n : RtOf(a, c, n) * Each(n), Branches[i])

MCAnswers ==
    [a \in MCApps |->
      [cost |-> [c \in Configs |-> MapThenSumSet(LAMBDA n : NE(a, n) * RtOf(a, c, n) * c[n].mem, MCNodes)],
       rt |-> [c \in Configs |-> PathRt(a, c, 1, LAMBDA n : 1) + PathRt(a, c, 2, LAMBDA n : 1)],
       acc |-> [c \in Configs |->
                 MapThenSumSet(LAMBDA n : Profiles[a].accuracies[n][c[n].model + 1], MCNodes)]]]

MCWorkflows ==
    [a \in MCApps |->
      [paths |-> Branches,
       ranked |-> [c \in Configs |->
                    IF PathRt(a, c, 1, LAMBDA n : NE(a, n)) <= PathRt(a, c, 2, LAMBDA n : NE(a, n))
                    THEN <<1, 2>> ELSE <<2, 1>>],
       variants |-> Profiles[a].variants,
       available |-> Profiles[a].available]]

MCLimits == {10, 16, 22, 30, 45}
MCAccuracies == {4, 5, 6}
AllPresets == {{}, {"surplus", "mem_gate"}}
=============================================================================
