--------------------------- MODULE GraphReduction ---------------------------
(***************************************************************************)
(* The analytical model of an application                                  *)
(* (optiserve/modeling/application_model.py, graph_reduction.py): a        *)
(* workflow graph with a response time per function and a probability per  *)
(* edge is first de-looped to count the executions of every function       *)
(* (get_avg_ne), then reduced pass by pass - loops, parallels, branches -  *)
(* until it is simple (get_simple_dag), and the end-to-end response time   *)
(* is read off the reduced graph (get_avg_rt).                             *)
(*                                                                         *)
(* Probabilities and counts are in units of 1/One, response times are      *)
(* integers the workflows choose so that every division is exact; what     *)
(* the code rounds to four digits is then equality.  The delay type is     *)
(* 'None': all delays are zero.  networkx enumerates paths, cycles and     *)
(* sets in an order of its own; the model leaves every such order open.    *)
(***************************************************************************)
EXTENDS Integers, FiniteSetsExt, SequencesExt

CONSTANTS
    One,         \* the probability 1
    Start, End,  \* the sentinel nodes
    Numbered,    \* are functions numbered along the flow, as the repository does, from 1 and
                 \* with fewer of them than a Python set of integers has slots?
    Workflows    \* what is reduced: records of rt, w and what the properties say of them

(* A node is a record of a kind - "f" for the workflow's own, "P" and "B"   *)
(* for what the reduction adds - and an id; a graph is a record of rt (node *)
(* -> response time), w (edge -> probability) and mix (B node -> its rt     *)
(* and tp lists, one record per path).                                     *)

VARIABLES
    flow,            \* the workflow the model was constructed with
    ne,              \* node -> expected executions, once counted
    graph,           \* the copy being de-looped, then the simple_dag
    pass,            \* where update_ne and get_simple_dag are
    todo,            \* the cycles or groups of paths the pass has not handled
    sums,            \* cycles_dict: a cycle's ends -> its probability and time
    processed,       \* has the running pass changed anything?
    fresh,           \* the number of the next P or B node
    approximations   \* the jump edges dropped, with the error announced
vars == <<flow, ne, graph, pass, todo, sums, processed, fresh, approximations>>

-----------------------------------------------------------------------------
(* Graph queries (networkx).                                               *)

Successors(g, n) == {v \in DOMAIN g.rt : <<n, v>> \in DOMAIN g.w}

RECURSIVE Extensions(_, _, _)
Extensions(g, p, v) ==
    IF Last(p) = v THEN {p}
    ELSE UNION {Extensions(g, Append(p, n), v) : n \in Successors(g, Last(p)) \ ToSet(p)}
Paths(g, u, v) == Extensions(g, <<u>>, v)                \* all_simple_paths

(* WorkflowGraph.validate, which the builders of workflows end with: the   *)
(* sentinels are ends, every function lies between them, and every edge    *)
(* has a probability.                                                      *)
Validated(f) ==
    /\ {Start, End} \subseteq DOMAIN f.rt
    /\ \A e \in DOMAIN f.w : e[2] # Start /\ e[1] # End /\ f.w[e] \in 1..One
    /\ \A n \in DOMAIN f.rt : Paths(f, Start, n) # {} /\ Paths(f, n, End) # {}

ASSUME WorkflowsAssumption == One \in Nat \ {0} /\ \A f \in Workflows : Validated(f)

Distance(g, v) == Min({Len(p) : p \in Paths(g, Start, v)})    \* shortest_path_length, plus one
Cycles(g) == UNION {Paths(g, e[2], e[1]) : e \in DOMAIN g.w}  \* each, from each of its nodes
Degree(g, n) == Cardinality({e \in DOMAIN g.w : e[1] = n}) + Cardinality({e \in DOMAIN g.w : e[2] = n})
OutWeight(g, n) == SumFunctionOnSet(g.w, {e \in DOMAIN g.w : e[1] = n})

EdgeOf(p, i) == <<p[i], p[i + 1]>>
Interior(p) == SubSeq(p, 2, Len(p) - 1)
Walkable(g, paths) == \A p \in paths : \A i \in 1..(Len(p) - 1) : EdgeOf(p, i) \in DOMAIN g.w

(* The product of the probabilities along a path (get_tp), and the sum of  *)
(* the response times of the nodes of a sequence (sum_rt, without delays). *)
Times(x, p) == (x * p) \div One
Tp(g, p) == FoldLeft(LAMBDA acc, i : Times(acc, g.w[EdgeOf(p, i)]), One, [i \in 1..(Len(p) - 1) |-> i])
SumRt(g, nodes) == FoldLeft(LAMBDA acc, n : acc + g.rt[n], 0, nodes)
PathsTp(g, v) == MapThenSumSet(LAMBDA p : Tp(g, p), Paths(g, Start, v))

IsSimple(g) == Cycles(g) = {} /\ PathsTp(g, End) = One
AvgRt(g) == MapThenSumSet(LAMBDA p : Times(SumRt(g, p), Tp(g, p)), Paths(g, Start, End))

(* discover_cycles: simple_cycles lists every cycle once, from the node    *)
(* that comes first in a set - the smallest if the nodes are integers      *)
(* smaller than the set's table, as when Numbered; any if they are strings *)
(* or larger integers (list({7, 8}) is [8, 7]); find_cycle returns one     *)
(* cycle, from the node its search entered it by, and every path from that *)
(* node to the last one is added; only what starts strictly nearer to      *)
(* Start than it ends stays.                                               *)
First(c) == {n \in ToSet(c) : (Numbered /\ n.kind = "f") =>
                                  \A m \in ToSet(c) : m.kind = "f" => n.id <= m.id}
Rotations(c) == {r \in {[i \in 1..Len(c) |-> c[((i + k) % Len(c)) + 1]] : k \in 0..(Len(c) - 1)} :
                    Head(r) \in First(c)}
Entered(g, c) == \E p \in Paths(g, Start, Head(c)) : ToSet(p) \cap ToSet(c) = {Head(c)}
Discovered(g) ==
    LET cycles     == Cycles(g)
        outward(c) == Distance(g, Head(c)) < Distance(g, Last(c))
    IN  IF cycles = {} THEN {{}}
        ELSE {{c \in pick \cup Paths(g, Head(seed), Last(seed)) : outward(c)} :
                 pick \in Choices({Rotations(c) : c \in cycles}), seed \in {c \in cycles : Entered(g, c)}}

-----------------------------------------------------------------------------
(* Editing the graph.                                                      *)

(* Faulty variant: what else leaves the source keeps its weight.           *)
DropEdgeFaulty(g, e, p) == [g EXCEPT !.w = Restrict(g.w, DOMAIN g.w \ {e})]

(* Drop an edge and divide what else leaves its source by 1 - p.           *)
DropEdge(g, e, p) ==
    [g EXCEPT !.w = [d \in DOMAIN g.w \ {e} |->
        IF d[1] = e[1] THEN (g.w[d] * One) \div (One - p) ELSE g.w[d]]]
SelfLoops(g) == {e \in DOMAIN g.w : e[1] = e[2]}
DropSelfLoops(g) == FoldSet(LAMBDA e, acc : DropEdge(acc, e, g.w[e]), g, SelfLoops(g))

(* Faulty variant: the edges of the removed nodes stay.                     *)
RemovePathsFaulty(g, paths) ==
    LET left == DOMAIN g.rt \ UNION {ToSet(Interior(p)) : p \in paths}
    IN  [rt |-> Restrict(g.rt, left), w |-> g.w, mix |-> Restrict(g.mix, DOMAIN g.mix \cap left)]

(* remove_paths: the nodes strictly inside the paths, with all their edges. *)
(* A path of one edge has none and keeps its edge.                         *)
RemovePaths(g, paths) ==
    LET left == DOMAIN g.rt \ UNION {ToSet(Interior(p)) : p \in paths}
    IN  [rt  |-> Restrict(g.rt, left),
         w   |-> Restrict(g.w, {e \in DOMAIN g.w : e[1] \in left /\ e[2] \in left}),
         mix |-> Restrict(g.mix, DOMAIN g.mix \cap left)]

(* A node n between u and v, entered with the given probability.           *)
AddNode(g, u, n, v, rt, p) ==
    [g EXCEPT !.rt = (n :> rt) @@ g.rt, !.w = (<<u, n>> :> p) @@ (<<n, v>> :> One) @@ g.w]

(* path_filter, get_parallel_paths and get_parallel_paths_p1: the groups   *)
(* of two or more chains between the same two nodes.                       *)
PathFilter(g, u, v) == {p \in Paths(g, u, v) : \A n \in ToSet(Interior(p)) : Degree(g, n) = 2}
GetParallelPaths(g) ==
    {pp \in {PathFilter(g, d[1], d[2]) : d \in {d \in (DOMAIN g.rt) \X (DOMAIN g.rt) : d[1] # d[2]}} :
        Cardinality(pp) > 1}
GetParallelPathsP1(g) ==
    {pp \in {{p \in pp : g.w[EdgeOf(p, 1)] = One} : pp \in GetParallelPaths(g)} : Cardinality(pp) > 1}

-----------------------------------------------------------------------------
(* update_ne: get_avg_ne on its own copy of the workflow.                  *)

Init ==
    /\ flow \in Workflows
    /\ ne = [n \in DOMAIN flow.rt |-> One]
    /\ graph = [rt |-> flow.rt, w |-> flow.w, mix |-> <<>>]
    /\ pass = "count"
    /\ todo = {} /\ sums = <<>> /\ processed = FALSE /\ fresh = 1 /\ approximations = {}

Raise == /\ pass' = "raised"
         /\ UNCHANGED <<flow, ne, graph, todo, sums, processed, fresh, approximations>>
MixedSelfLoop == \E e \in SelfLoops(graph) : OutWeight(graph, e[1]) # One

(* One turn of `while simple_cycles`: the self-loops, then the list of the *)
(* cycles' ends with the probability of the edge that closes each ...      *)
CountSelfLoops ==
    /\ pass = "count" /\ Cycles(graph) # {}
    /\ IF MixedSelfLoop THEN Raise
       ELSE /\ graph' = DropSelfLoops(graph)
            /\ ne' = [n \in DOMAIN ne |-> IF <<n, n>> \in SelfLoops(graph)
                         THEN (ne[n] * One) \div (One - graph.w[<<n, n>>]) ELSE ne[n]]
            /\ \E found \in Discovered(graph') :
                  todo' = {[key |-> <<Head(c), Last(c)>>, p |-> graph'.w[<<Last(c), Head(c)>>]] :
                              c \in {c \in found : <<Last(c), Head(c)>> \in DOMAIN graph'.w}}
            /\ pass' = "closing"
            /\ UNCHANGED <<flow, sums, processed, fresh, approximations>>

(* ... and one cycle after the other, by the probability it had then.      *)
CloseCycle ==
    /\ pass = "closing"
    /\ \E cycle \in todo :
        LET from   == cycle.key[2]
            inside == UNION {ToSet(q) : q \in Paths(graph, cycle.key[1], from)}
        IN  IF OutWeight(graph, from) > One THEN Raise
            ELSE /\ graph' = DropEdge(graph, <<from, cycle.key[1]>>, cycle.p)
                 /\ ne' = [n \in DOMAIN ne |-> IF n \in inside THEN (ne[n] * One) \div (One - cycle.p) ELSE ne[n]]
                 /\ todo' = todo \ {cycle}
                 /\ UNCHANGED <<flow, pass, sums, processed, fresh, approximations>>
EndClosing ==
    /\ pass = "closing" /\ todo = {} /\ pass' = "count"
    /\ UNCHANGED <<flow, ne, graph, todo, sums, processed, fresh, approximations>>

(* What not every path from Start reaches is executed by so much less, and *)
(* the sentinels are not executed at all; the reduction then starts from a *)
(* fresh copy of the workflow.                                             *)
CountReached ==
    /\ pass = "count" /\ Cycles(graph) = {}
    /\ ne' = [n \in DOMAIN ne |-> CASE n \in {Start, End} -> 0
                                    [] PathsTp(graph, n) < One -> Times(ne[n], PathsTp(graph, n))
                                    [] OTHER -> ne[n]]
    /\ graph' = [rt |-> flow.rt, w |-> flow.w, mix |-> <<>>]
    /\ pass' = "check"
    /\ UNCHANGED <<flow, todo, sums, processed, fresh, approximations>>

-----------------------------------------------------------------------------
(* get_simple_dag: the loop, and one action per pass or group of paths.    *)

Check ==
    /\ pass = "check"
    /\ pass' = IF IsSimple(graph) THEN "simple" ELSE "loops"
    /\ UNCHANGED <<flow, ne, graph, todo, sums, processed, fresh, approximations>>

(* A cycle with an exit other than its last node loses the edges of that   *)
(* exit; the approximation is announced by where the edge led to.          *)
Jumps(g, key) ==
    LET inside == UNION {ToSet(p) : p \in Paths(g, key[1], key[2])}
    IN  {e \in DOMAIN g.w : e[1] \in inside \ {key[1], key[2]} /\ e[2] \notin inside}
DropJump(acc, e, key) ==
    LET g  == DropEdge(acc.g, e, acc.g.w[e])
        by == Distance(g, e[2]) - Distance(g, key[2])
    IN  IF ~acc.ok \/ OutWeight(acc.g, e[1]) > One \/ Paths(g, Start, e[2]) = {}
        THEN [acc EXCEPT !.ok = FALSE]
        ELSE [acc EXCEPT !.g = g, !.dropped = IF by = 0 THEN @ ELSE @ \cup
                {[cycle |-> key, jump |-> e, error |-> IF by > 0 THEN "overestimated" ELSE "underestimated"]}]

(* The self-loops are removed first; that alone does not count as progress. *)
(* The cycles are listed with their probability and the time of all but    *)
(* their last node.                                                        *)
ProcessSelfLoops ==
    /\ pass = "loops"
    /\ IF MixedSelfLoop THEN Raise
       ELSE /\ graph' = [DropSelfLoops(graph) EXCEPT !.rt = [n \in DOMAIN graph.rt |->
                            IF <<n, n>> \in SelfLoops(graph)
                            THEN (flow.rt[n] * One) \div (One - graph.w[<<n, n>>]) ELSE graph.rt[n]]]
            /\ \E found \in Discovered(graph') :
                  todo' = {[key |-> <<Head(c), Last(c)>>, path |-> c,
                            rt |-> SumRt(graph', Front(c)), tp |-> Tp(graph', c)] : c \in found}
            /\ pass' = "surveying" /\ sums' = <<>>
            /\ UNCHANGED <<flow, ne, processed, fresh, approximations>>

(* Each adds its probability and its time to its ends' sums, unless its    *)
(* time is zero, which counts as False; as long as the probabilities of a  *)
(* key do not add up to 1 its jumps are dropped.                           *)
SurveyCycle ==
    /\ pass = "surveying"
    /\ \E cycle \in todo :
        LET key   == cycle.key
            known == IF key \in DOMAIN sums THEN sums[key] ELSE [tp |-> 0, rt |-> 0, ok |-> TRUE]
            ok    == cycle.rt # 0 /\ known.ok
            sum   == [tp |-> known.tp + cycle.tp, rt |-> known.rt + Times(cycle.rt, cycle.tp), ok |-> ok]
            drop(acc, e) == DropJump(acc, e, key)
            left  == FoldLeft(drop, [g |-> graph, dropped |-> approximations, ok |-> TRUE],
                              IF ok /\ sum.tp # One THEN SetToSeq(Jumps(graph, key)) ELSE <<>>)
        IN  IF ~left.ok THEN Raise
            ELSE /\ sums' = (key :> sum) @@ sums
                 /\ graph' = left.g /\ approximations' = left.dropped
                 /\ todo' = todo \ {cycle}
                 /\ UNCHANGED <<flow, ne, pass, processed, fresh>>

(* Then the keys whose probabilities do add up are collapsed, with the     *)
(* time their last node had before the pass.                               *)
Whole == {k \in DOMAIN sums : sums[k].ok /\ sums[k].tp = One}
EndSurvey ==
    /\ pass = "surveying" /\ todo = {}
    /\ IF Whole = {} THEN pass' = "parallels" /\ UNCHANGED todo
       ELSE /\ pass' = "collapsing"
            /\ todo' = {[key |-> k, body |-> sums[k].rt, last |-> graph.rt[k[2]]] : k \in Whole}
    /\ UNCHANGED <<flow, ne, graph, sums, processed, fresh, approximations>>

CollapseLoop ==
    /\ pass = "collapsing"
    /\ \E loop \in todo :
        LET e == <<loop.key[2], loop.key[1]>>
            p == graph.w[e]
        IN  IF OutWeight(graph, e[1]) > One THEN Raise
            ELSE /\ graph' = [DropEdge(graph, e, p) EXCEPT !.rt[e[1]] =
                                (loop.last * One + p * loop.body) \div (One - p)]
                 /\ todo' = todo \ {loop}
                 /\ pass' = IF todo' = {} THEN "check" ELSE "collapsing"
                 /\ UNCHANGED <<flow, ne, sums, processed, fresh, approximations>>

(* simplify_parallels and simplify_branches list their groups first and    *)
(* then edit the graph group by group.                                     *)
ListParallels ==
    /\ pass = "parallels"
    /\ todo' = GetParallelPathsP1(graph) /\ pass' = "merging" /\ processed' = FALSE
    /\ UNCHANGED <<flow, ne, graph, sums, fresh, approximations>>
ListBranches ==
    /\ pass = "branches"
    /\ IF IsSimple(graph)
       THEN pass' = "stuck" /\ UNCHANGED <<todo, processed>>
       ELSE todo' = GetParallelPaths(graph) /\ pass' = "folding" /\ processed' = FALSE
    /\ UNCHANGED <<flow, ne, graph, sums, fresh, approximations>>


EndPass ==
    /\ pass \in {"merging", "folding"} /\ todo = {}
    /\ pass' = CASE processed -> "check" [] pass = "merging" -> "branches" [] OTHER -> "stuck"
    /\ UNCHANGED <<flow, ne, graph, todo, sums, processed, fresh, approximations>>

Took(pp, g, names) ==
    /\ graph' = g /\ todo' = todo \ {pp} /\ processed' = TRUE /\ fresh' = fresh + names
    /\ UNCHANGED <<flow, ne, pass, sums, approximations>>
BNodes(paths) == {n \in UNION {ToSet(p) : p \in paths} : n.kind = "B"}
EndsOf(pp) == LET p == CHOOSE p \in pp : TRUE IN <<Head(p), Last(p)>>

(* Faulty variant: the fastest path is kept.                               *)
MergePlainFaulty(pp, plain) ==
    LET fastest == Min({SumRt(graph, Interior(p)) : p \in plain})
        ends    == EndsOf(pp)
        P       == [kind |-> "P", id |-> fresh]
    IN  Took(pp, RemovePaths(AddNode(graph, ends[1], P, ends[2], fastest, One), plain), 1)

(* merge_parallel_paths: the slowest of the plain paths takes their place. *)
MergePlain(pp, plain) ==
    LET slowest == Max({SumRt(graph, Interior(p)) : p \in plain})
        ends    == EndsOf(pp)
        P       == [kind |-> "P", id |-> fresh]
    IN  Took(pp, RemovePaths(AddNode(graph, ends[1], P, ends[2], slowest, One), plain), 1)

(* Paths with branches join in every combination of their alternatives: a  *)
(* P node for each, as slow as its slowest path.                           *)
Mixtures(bs) == {f \in [bs -> 1..Max({Len(graph.mix[b]) : b \in bs})] : \A b \in bs : f[b] \in DOMAIN graph.mix[b]}
MixRt(f, p) == LET bs == BNodes({p}) IN
    SumRt(graph, SelectSeq(Interior(p), LAMBDA n : n \notin bs)) + MapThenSumSet(LAMBDA b : graph.mix[b][f[b]].rt, bs)
MixTp(f) == FoldSet(LAMBDA b, acc : Times(acc, graph.mix[b][f[b]].tp), One, DOMAIN f)
MergeMixed(pp) ==
    LET combos == SetToSeq(Mixtures(BNodes(pp)))
        ends   == EndsOf(pp)
        join(g, i) == AddNode(g, ends[1], [kind |-> "P", id |-> fresh + i], ends[2],
                              Max({MixRt(combos[i], p) : p \in pp}), MixTp(combos[i]))
    IN  Took(pp, FoldLeft(join, RemovePaths(graph, pp), [i \in 1..Len(combos) |-> i]), Len(combos) + 1)

SimplifyParallel ==
    /\ pass = "merging"
    /\ \E pp \in todo :
        LET plain == {p \in pp : BNodes({p}) = {}}
        IN  IF ~Walkable(graph, pp) THEN Raise
            ELSE IF plain = pp \/ Cardinality(plain) > 1 THEN MergePlain(pp, plain)
            ELSE MergeMixed(pp)

(* A group that leaves its source with probability 1 becomes a B node; one *)
(* with a certain path and uncertain ones keeps the uncertain ones that    *)
(* are not faster, and the certain one gets the rest of the probability.   *)
MakeBranch(pp) ==
    LET paths == SetToSeq(pp)
        mix   == [i \in DOMAIN paths |-> [rt |-> SumRt(graph, Interior(paths[i])), tp |-> Tp(graph, paths[i])]]
        mean  == FoldLeft(LAMBDA acc, m : acc + Times(m.rt, m.tp), 0, mix)
        B     == [kind |-> "B", id |-> fresh]
        g     == AddNode(graph, EndsOf(pp)[1], B, EndsOf(pp)[2], mean, One)
    IN  Took(pp, RemovePaths([g EXCEPT !.mix = (B :> mix) @@ @], pp), 1)
(* Faulty variant of Outlast: the faster paths stay.                       *)
OutlastFaulty(pp, certain) ==
    LET rt(p)   == SumRt(graph, Interior(p))
        slower  == {p \in pp \ {certain} : rt(p) >= rt(certain)}
        p       == MapThenSumSet(LAMBDA q : graph.w[EdgeOf(q, 1)], slower)
    IN  Took(pp, [graph EXCEPT !.w[EdgeOf(certain, 1)] = One - p], 0)
Outlast(pp, certain) ==
    LET rt(p)   == SumRt(graph, Interior(p))
        slower  == {p \in pp \ {certain} : rt(p) >= rt(certain)}
        p       == MapThenSumSet(LAMBDA q : graph.w[EdgeOf(q, 1)], slower)
    IN  IF p > One THEN Raise
        ELSE Took(pp, RemovePaths([graph EXCEPT !.w[EdgeOf(certain, 1)] = One - p],
                                  pp \ (slower \cup {certain})), 0)

SimplifyBranch ==
    /\ pass = "folding"
    /\ \E pp \in todo :
        IF ~Walkable(graph, pp) THEN Raise
        ELSE IF MapThenSumSet(LAMBDA p : graph.w[EdgeOf(p, 1)], pp) = One THEN MakeBranch(pp)
        ELSE LET certain == {p \in pp : graph.w[EdgeOf(p, 1)] = One}
             IN  \/ \E p \in certain : Outlast(pp, p)
                 \/ /\ certain = {} /\ todo' = todo \ {pp}
                    /\ UNCHANGED <<flow, ne, graph, pass, sums, processed, fresh, approximations>>

Ended == pass \in {"simple", "stuck", "raised"}
Done == Ended /\ UNCHANGED vars

Next == \/ CountSelfLoops \/ CloseCycle \/ EndClosing \/ CountReached \/ Check
        \/ ProcessSelfLoops \/ SurveyCycle \/ EndSurvey \/ CollapseLoop
        \/ ListParallels \/ SimplifyParallel \/ ListBranches \/ SimplifyBranch \/ EndPass
        \/ Done

Spec == Init /\ [][Next]_vars
FairSpec == Spec /\ WF_vars(Next)     \* a single thread runs update_ne and get_simple_dag

-----------------------------------------------------------------------------
(* Type invariant: edges join nodes of the graph, B nodes carry their      *)
(* alternatives, and what is waiting belongs to a running pass             *)
(* (application_model.py:580-832).                                         *)
TypeOK ==
    /\ \A e \in DOMAIN graph.w : e[1] \in DOMAIN graph.rt /\ e[2] \in DOMAIN graph.rt /\ graph.w[e] \in 0..One
    /\ DOMAIN graph.mix = {n \in DOMAIN graph.rt : n.kind = "B"}
    /\ DOMAIN ne = DOMAIN flow.rt
    /\ pass \in {"count", "closing", "check", "loops", "surveying", "collapsing", "parallels",
                 "merging", "branches", "folding"} \/ Ended
    /\ todo # {} => pass \in {"closing", "surveying", "collapsing", "merging", "folding", "raised"}

(* Whatever the order in which networkx lists paths, cycles and groups,    *)
(* the reduced graph answers the workflow's expected response time: loops  *)
(* rt/(1-p), parallels the maximum over every combination of their         *)
(* branches, branches the mean (application_model.py:501-577, README       *)
(* "collapsing self-loops/cycles, parallel joins and branches").           *)
AnswerIsExpected == pass \in {"simple", "stuck"} => AvgRt(graph) = flow.mean

(* get_avg_ne counts how often each function is expected to run, outside   *)
(* the arms it is known to count twice (application_model.py:193-254).     *)
CountsAreExpected ==
    (~Ended /\ pass \notin {"count", "closing"}) =>
        \A n \in DOMAIN ne \ flow.overcounted : ne[n] = flow.visits[n]


(* update_ne and get_simple_dag end on every other workflow, however many  *)
(* passes its constructs take (application_model.py:198, 516-528).  On one *)
(* that spins, remove_paths finds nothing to remove beside that edge, and  *)
(* simplify_branches reports progress for writing the same weight again    *)
(* (application_model.py:711-737): there the guard against spinning for    *)
(* ever is never reached, and get_simple_dag never returns.                *)
Ends == flow.spins \/ <>Ended

(* What README:288 says of get_avg_ne, without exception: "analytically    *)
(* computes expected per-function execution counts".                       *)
EveryCountIsExpected == (~Ended /\ pass \notin {"count", "closing"}) => ne = flow.visits
=============================================================================
