-------------------------- MODULE MCGraphReduction --------------------------
(* Structured workflows for GraphReduction, and what a reduction must say   *)
(* of them: a term is a task, a sequence, a fork of weighted arms between   *)
(* two tasks - an arm may be empty - or a loop; Workflow(t) builds its      *)
(* graph, Outcomes(t) its expected response time and Visits(t) its          *)
(* executions, by recursion on the term.                                    *)
EXTENDS GraphReduction

MCOne == 144
MCStart == [kind |-> "s", id |-> 0]
MCEnd == [kind |-> "s", id |-> 1]
Unit == 1296        \* a response time every probability below divides exactly
P(n) == (MCOne * n) \div 4

Task(id, rt) == [op |-> "task", id |-> id, rt |-> rt * Unit]
Sq(parts) == [op |-> "seq", parts |-> parts]
Fork(from, arms, to) == [op |-> "fork", from |-> from, arms |-> arms, to |-> to]
Arm(p, term) == [p |-> p, term |-> term]
Skip == [op |-> "skip"]  \* an arm with nothing in it: an edge from one task to the other
Loop(p, body) == [op |-> "loop", p |-> p, body |-> body]

NodeOf(t) == [kind |-> "f", id |-> t.id]

RECURSIVE Entry(_), Exit(_), Leave(_)
Entry(t) == CASE t.op = "task" -> NodeOf(t) [] t.op = "seq" -> Entry(Head(t.parts))
              [] t.op = "fork" -> NodeOf(t.from) [] t.op = "loop" -> Entry(t.body)
Exit(t) == CASE t.op = "task" -> NodeOf(t) [] t.op = "seq" -> Exit(Last(t.parts))
             [] t.op = "fork" -> NodeOf(t.to) [] t.op = "loop" -> Exit(t.body)
Leave(t) == CASE t.op \in {"task", "fork"} -> MCOne [] t.op = "seq" -> Leave(Last(t.parts))
              [] t.op = "loop" -> Times(Leave(t.body), MCOne - t.p)

RECURSIVE Rts(_), Ws(_)
Rts(t) ==
    CASE t.op = "skip" -> <<>>
      [] t.op = "task" -> NodeOf(t) :> t.rt
      [] t.op = "seq"  -> FoldLeft(LAMBDA acc, x : Rts(x) @@ acc, <<>>, t.parts)
      [] t.op = "fork" -> FoldLeft(LAMBDA acc, a : Rts(a.term) @@ acc, Rts(t.from) @@ Rts(t.to), t.arms)
      [] t.op = "loop" -> Rts(t.body)
Ws(t) ==
    CASE t.op \in {"skip", "task"} -> <<>>
      [] t.op = "seq"  -> FoldLeft(LAMBDA acc, i : Ws(t.parts[i]) @@ acc @@
                              (IF i = 1 THEN <<>>
                               ELSE <<Exit(t.parts[i-1]), Entry(t.parts[i])>> :> Leave(t.parts[i-1])),
                              <<>>, [i \in 1..Len(t.parts) |-> i])
      [] t.op = "fork" -> FoldLeft(LAMBDA acc, a : Ws(a.term) @@ acc @@
                              (<<NodeOf(t.from), IF a.term = Skip THEN NodeOf(t.to) ELSE Entry(a.term)>>
                                  :> a.p) @@
                              (IF a.term = Skip THEN <<>>
                               ELSE <<Exit(a.term), NodeOf(t.to)>> :> Leave(a.term)), <<>>, t.arms)
      [] t.op = "loop" -> (<<Exit(t.body), Entry(t.body)>> :> t.p) @@ Ws(t.body)

(* The alternatives the model distinguishes: a branch keeps the mean of     *)
(* each arm, a loop is its mean, a join takes the maximum of every          *)
(* combination.                                                             *)
Mean(outs) == FoldLeft(LAMBDA acc, o : acc + Times(o.rt, o.p), 0, outs)
Cross(outs1, outs2, op(_, _)) ==
    [k \in 1..(Len(outs1) * Len(outs2)) |->
        LET a == outs1[((k - 1) \div Len(outs2)) + 1]
            b == outs2[((k - 1) % Len(outs2)) + 1]
        IN  [rt |-> op(a.rt, b.rt), p |-> Times(a.p, b.p)]]
Plus(a, b) == a + b
Larger(a, b) == IF a >= b THEN a ELSE b
Sure(rt) == <<[rt |-> rt, p |-> MCOne]>>

RECURSIVE Outcomes(_)
ArmsOutcomes(arms) ==
    LET certain == SelectSeq(arms, LAMBDA a : a.p = MCOne)
        unsure  == SelectSeq(arms, LAMBDA a : a.p # MCOne)
        joined  == FoldLeft(LAMBDA acc, a : Cross(acc, Outcomes(a.term), Larger), Sure(0), certain)
        slower  == SelectSeq(unsure, LAMBDA a : certain = <<>> \/ Mean(Outcomes(a.term)) >= Mean(joined))
        rest    == MCOne - FoldLeft(LAMBDA acc, a : acc + a.p, 0, slower)
    IN  IF slower = <<>> THEN joined
        ELSE Append([i \in DOMAIN slower |-> [rt |-> Mean(Outcomes(slower[i].term)), p |-> slower[i].p]],
                    [rt |-> Mean(joined), p |-> rest])
Outcomes(t) ==
    CASE t.op = "skip" -> Sure(0)
      [] t.op = "task" -> Sure(t.rt)
      [] t.op = "seq"  -> FoldLeft(LAMBDA acc, x : Cross(acc, Outcomes(x), Plus), Sure(0), t.parts)
      [] t.op = "fork" -> Cross(Cross(Sure(t.from.rt), ArmsOutcomes(t.arms), Plus), Sure(t.to.rt), Plus)
      [] t.op = "loop" -> Cross(Outcomes(t.body),
                                Sure((Mean(Outcomes(t.body)) * t.p) \div (MCOne - t.p)), Plus)

RECURSIVE Visits(_, _)
Visits(t, n) ==
    CASE t.op = "skip" -> <<>>
      [] t.op = "task" -> NodeOf(t) :> n
      [] t.op = "seq"  -> FoldLeft(LAMBDA acc, x : Visits(x, n) @@ acc, <<>>, t.parts)
      [] t.op = "fork" -> FoldLeft(LAMBDA acc, a : Visits(a.term, Times(n, a.p)) @@ acc,
                                   Visits(t.from, n) @@ Visits(t.to, n), t.arms)
      [] t.op = "loop" -> Visits(t.body, (n * MCOne) \div (MCOne - t.p))

(* get_avg_ne adds up the paths of a parallel as if they excluded one       *)
(* another: where there is one, what an uncertain arm executes is left out. *)
RECURSIVE Terms(_)
Terms(t) ==
    {t} \cup CASE t.op \in {"skip", "task"} -> {}
                [] t.op = "seq"  -> UNION {Terms(t.parts[i]) : i \in DOMAIN t.parts}
                [] t.op = "fork" -> UNION {Terms(t.arms[i].term) : i \in DOMAIN t.arms}
                [] t.op = "loop" -> Terms(t.body)
Arms(t) == UNION {ToSet(f.arms) : f \in {x \in Terms(t) : x.op = "fork"}}
Overcounted(t) ==
    IF \A a \in Arms(t) : a.p # MCOne THEN {}
    ELSE UNION {DOMAIN Rts(a.term) : a \in {a \in Arms(t) : a.p # MCOne}}

(* A parallel, and an arm that is empty.                                   *)
Spins(t) == (\E a \in Arms(t) : a.p = MCOne) /\ (\E a \in Arms(t) : a.term = Skip)

Workflow(t) ==
    [rt |-> (MCStart :> 0) @@ (MCEnd :> 0) @@ Rts(t),
     w  |-> (<<MCStart, Entry(t)>> :> MCOne) @@ (<<Exit(t), MCEnd>> :> Leave(t)) @@ Ws(t),
     mean   |-> Mean(Outcomes(t)),
     overcounted |-> Overcounted(t), spins |-> Spins(t),
     visits |-> (MCStart :> 0) @@ (MCEnd :> 0) @@ Visits(t, MCOne)]

-----------------------------------------------------------------------------
(* The terms the runs reduce: every construct around every two others.      *)
T(id) == Task(id, ((7 * id) % 5) + 1)
Choice(x, y, from) == Fork(T(from), <<Arm(P(1), x), Arm(P(3), y)>>, T(from + 1))
Both(x, y, from) == Fork(T(from), <<Arm(MCOne, x), Arm(MCOne, y)>>, T(from + 1))
Inner(n) == {T(n), Loop(P(1), Sq(<<T(n), T(n + 1)>>)),
             Both(T(n), T(n + 1), n + 2), Choice(T(n), T(n + 1), n + 2)}
Inner2(n) == Inner(n) \cup {Sq(<<T(n), T(n + 1)>>), Loop(P(1), T(n))}
Outer(x, y) == {Sq(<<x, y>>), Both(x, y, 20), Choice(x, y, 20), Loop(P(2), Sq(<<T(0), x, y, T(20)>>))}
(* A branch and a certain arm that leave one task together, as in the       *)
(* golden "mixed" case of the tests: the uncertain arms are slower, faster  *)
(* or one of each.                                                          *)
Mixed(a, b, c) == Loop(P(1), Fork(Task(1, 1),
    <<Arm(P(1), Task(2, a)), Arm(P(2), Task(3, b)), Arm(MCOne, Task(4, c))>>, Task(5, 1)))

(* A branch that may do nothing in each construct, and an empty arm beside  *)
(* a certain one.  Left out: an empty arm beside a certain and a slower     *)
(* one, which is given up half reduced with a warning, and two certain arms *)
(* of which one is empty, which are merged for ever under ever new names.  *)
MayDoNothing(n) == Choice(Skip, T(n), n + 2)
Skipping == Outer(MayDoNothing(2), T(6))
                \cup {Fork(T(1), <<Arm(P(1), Skip), Arm(MCOne, T(3))>>, T(4))}

MCWorkflows == {Workflow(t) : t \in UNION {Outer(x, y) : x \in Inner2(2), y \in Inner(6)}
                                    \cup {Mixed(a, b, 2) : a \in {1, 3}, b \in {1, 3}}
                                    \cup Skipping}

(* A parallel followed by a branch; a loop in a loop, of functions whose    *)
(* ids are strings.                                                         *)
ParallelThenBranch == {Workflow(Sq(<<Both(T(2), T(3), 4), Choice(T(6), T(7), 8)>>))}
LoopInLoop == {Workflow(Loop(P(1), Sq(<<Loop(P(1), Sq(<<T(1), T(2)>>)), T(3)>>)))}
=============================================================================
