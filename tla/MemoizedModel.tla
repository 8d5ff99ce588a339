--------------------------- MODULE MemoizedModel ---------------------------
(***************************************************************************)
(* The application model with its two evaluation caches: evaluate_avg_rt,  *)
(* evaluate_avg_cost, get_avg_rt, get_approximations and update_ne         *)
(* (src/optiserve/modeling/application_model.py) over EvaluationCache      *)
(* (modeling/cache.py).                                                    *)
(*                                                                         *)
(* A hit skips the reduction, so simple_dag goes on describing an earlier  *)
(* configuration; _reduction_key is what tells the direct readers.  The    *)
(* reduction itself is two steps, between which Ctrl-C may end it.         *)
(***************************************************************************)
EXTENDS Naturals, FiniteSets, SequencesExt

CONSTANTS
    RTs, Mems,     \* node response times and memories a caller configures
    Weights,       \* transition probabilities of the graph
    Nothing,       \* Python's None
    MaxEntries,    \* max_entries of each cache; 0 is the NullEvaluationCache
    Readers,       \* subset of {"avg_rt", "approximations"}: what is read directly
    Interrupts,    \* whether a reduction may be interrupted
    MaxReweighs,   \* bound on the caller's changes of the weights
    MaxVersions    \* bound on the calls of update_ne

ASSUME ModelAssumption ==
    /\ MaxEntries \in Nat /\ MaxReweighs \in Nat /\ MaxVersions \in Nat
    /\ Readers \subseteq {"avg_rt", "approximations"} /\ Interrupts \in BOOLEAN
    /\ Nothing \notin RTs

VARIABLES
    rt, mem, weights,  \* attributes of workflow_graph
    past,              \* history: the weights so far
    ne,                \* self.ne, as the weights it was derived from
    neVersion,         \* self._ne_version
    rtCache, costCache,
    reduced,           \* simple_dag: what it was reduced from, and whether to the end
    reductionKey,      \* self._reduction_key
    pc,                \* "idle", or the call that waits for a reduction
    answer,            \* what the last call returned
    recent,            \* history: rt keys in the order evaluate_avg_rt last answered them
    reweighs

graphVars == <<rt, mem, weights, past>>
neVars == <<ne, neVersion>>
reductionVars == <<reduced, reductionKey>>
vars == <<rt, mem, weights, past, ne, neVersion, rtCache, costCache, reduced, reductionKey, pc, answer,
          recent, reweighs>>

\* The last reduction was interrupted: simple_dag is half reduced, under its key.
Interrupted == pc = "idle" /\ reductionKey # Nothing /\ ~reduced.complete

E == INSTANCE Evaluation WITH interrupted <- Interrupted

EmptyCache == [order |-> <<>>, value |-> <<>>]

CostKeys == (0 .. MaxVersions) \X RTs \X Mems

TypeOK ==
    /\ rt \in RTs /\ mem \in Mems /\ weights \in past /\ past \subseteq Weights
    /\ ne \in Weights \cup {Nothing} /\ neVersion \in 0 .. MaxVersions
    /\ DOMAIN rtCache.value \subseteq RTs /\ DOMAIN costCache.value \subseteq CostKeys
    /\ reduced \in [rt : RTs, weights : past, complete : BOOLEAN]
    /\ reductionKey \in RTs \cup {Nothing}
    /\ pc \in {"idle", "evaluate_avg_rt", "avg_rt", "approximations"}
    /\ reweighs \in 0 .. MaxReweighs

Init ==
    /\ rt \in RTs /\ mem \in Mems /\ weights \in Weights /\ past = {weights}
    /\ ne = Nothing /\ neVersion = 0
    /\ rtCache = EmptyCache /\ costCache = EmptyCache
    /\ reduced = [rt |-> rt, weights |-> weights, complete |-> FALSE]
    /\ reductionKey = Nothing
    /\ pc = "idle" /\ answer = Nothing /\ recent = <<>> /\ reweighs = 0
-----------------------------------------------------------------------------
(* EvaluationCache: an OrderedDict, least recently used first *)

Holds(c, key) == key \in DOMAIN c.value

\* move_to_end; a key is in an order once.
ToEnd(order, key) == Append(RemoveFirst(order, key), key)

\* Faulty variant: a hit leaves the order alone.
TouchNothing(c, key) == c

\* lookup, on a hit
Touch(c, key) == [c EXCEPT !.order = ToEnd(@, key)]

\* put: the cache was within its bound before, so at most one entry goes.
Put(c, key, v) ==
    LET order == ToEnd(c.order, key)
        full == Len(order) > MaxEntries
        kept == (DOMAIN c.value \cup {key}) \ (IF full THEN {Head(order)} ELSE {})
    IN  [order |-> IF full THEN Tail(order) ELSE order,
         value |-> [k \in kept |-> IF k = key THEN v ELSE c.value[k]]]
-----------------------------------------------------------------------------
(* The caller: the optimizer and the evaluation sweep *)

\* update_App_workflow_mem_rt
Configure ==
    /\ pc = "idle"
    /\ rt' \in RTs /\ mem' \in Mems
    /\ UNCHANGED <<weights, past, neVars, rtCache, costCache, reductionVars, pc, answer, recent,
                   reweighs>>

\* The graph is a public attribute.
Reweigh ==
    /\ pc = "idle" /\ reweighs < MaxReweighs
    /\ weights' \in Weights /\ past' = past \cup {weights'} /\ reweighs' = reweighs + 1
    /\ UNCHANGED <<rt, mem, neVars, rtCache, costCache, reductionVars, pc, answer, recent>>

UpdateNe ==
    /\ pc = "idle" /\ neVersion < MaxVersions
    /\ ne' = weights /\ neVersion' = neVersion + 1
    /\ costCache' = EmptyCache
    /\ UNCHANGED <<graphVars, rtCache, reductionVars, pc, answer, recent, reweighs>>

\* get_simple_dag up to its loop.
BeginReduction ==
    /\ reduced' = [rt |-> rt, weights |-> weights, complete |-> FALSE]
    /\ reductionKey' = rt

\* What the formulas make of simple_dag: nothing meaningful while it is half reduced.
ValueOf(dag) == IF dag.complete THEN E!ReductionOf(dag.rt, dag.weights) ELSE Nothing

EvaluateHit ==
    /\ pc = "idle" /\ Holds(rtCache, rt)
    /\ answer' = E!Answer("evaluated_rt", rtCache.value[rt])
    /\ rtCache' = Touch(rtCache, rt)
    /\ recent' = ToEnd(recent, rt)
    /\ UNCHANGED <<graphVars, neVars, costCache, reductionVars, pc, reweighs>>

EvaluateMiss ==
    /\ pc = "idle" /\ ~Holds(rtCache, rt)
    /\ BeginReduction
    /\ pc' = "evaluate_avg_rt"
    /\ UNCHANGED <<graphVars, neVars, rtCache, costCache, answer, recent, reweighs>>

\* Faulty variant: a reader trusts whatever graph the last reduction left.
ReadAnyReduction(reader) ==
    /\ pc = "idle" /\ reader \in Readers
    /\ IF reductionKey = Nothing
       THEN BeginReduction /\ pc' = reader /\ UNCHANGED answer
       ELSE /\ answer' = E!Answer(reader, ValueOf(reduced))
            /\ UNCHANGED <<reductionVars, pc>>
    /\ UNCHANGED <<graphVars, neVars, rtCache, costCache, recent, reweighs>>

\* get_avg_rt and get_approximations
Read(reader) ==
    /\ pc = "idle" /\ reader \in Readers
    /\ IF reductionKey # rt
       THEN BeginReduction /\ pc' = reader /\ UNCHANGED answer
       ELSE /\ answer' = E!Answer(reader, ValueOf(reduced))
            /\ UNCHANGED <<reductionVars, pc>>
    /\ UNCHANGED <<graphVars, neVars, rtCache, costCache, recent, reweighs>>

\* The loop of get_simple_dag comes to its end, and the call that needed it answers.
EndReduction ==
    /\ pc # "idle"
    /\ pc' = "idle"
    /\ reduced' = [reduced EXCEPT !.complete = TRUE]
    /\ LET value == ValueOf(reduced') IN
       IF pc = "evaluate_avg_rt"
       THEN /\ answer' = E!Answer("evaluated_rt", value)
            /\ rtCache' = Put(rtCache, rt, value)
            /\ recent' = ToEnd(recent, rt)
       ELSE answer' = E!Answer(pc, value) /\ UNCHANGED <<rtCache, recent>>
    /\ UNCHANGED <<graphVars, neVars, costCache, reductionKey, reweighs>>

\* Ctrl-C, or a reduction that raises.
Interrupt ==
    /\ pc # "idle" /\ Interrupts
    /\ pc' = "idle"
    /\ UNCHANGED <<graphVars, neVars, rtCache, costCache, reductionVars, answer, recent, reweighs>>

CostKey == <<neVersion, rt, mem>>

\* get_avg_cost needs the counts update_ne left.
EvaluateCost ==
    /\ pc = "idle" /\ ne # Nothing
    /\ IF Holds(costCache, CostKey)
       THEN /\ answer' = E!Answer("avg_cost", costCache.value[CostKey])
            /\ costCache' = Touch(costCache, CostKey)
       ELSE /\ answer' = E!Answer("avg_cost", E!CostOf(ne, rt, mem))
            /\ costCache' = Put(costCache, CostKey, E!CostOf(ne, rt, mem))
    /\ UNCHANGED <<graphVars, neVars, rtCache, reductionVars, pc, recent, reweighs>>

Next ==
    \/ Configure \/ Reweigh \/ UpdateNe
    \/ EvaluateHit \/ EvaluateMiss \/ EvaluateCost
    \/ \E reader \in Readers : Read(reader)
    \/ EndReduction \/ Interrupt

Spec == Init /\ [][Next]_vars
-----------------------------------------------------------------------------
(* Correctness *)

\* The caches are invisible: no hit, eviction or skipped reduction changes what any later call
\* returns, except that answers may be those of weights the caller has changed since.  An
\* interrupted reduction misleads only who reads it, and only until the next reduction
\* (modeling/cache.py:10-16, application_model.py:294-318, 501-513, 531-577).
EvaluationSpec == E!Spec

\* A cache has its bound, and a value for exactly the keys in its order.
Bounded(c) ==
    /\ Len(c.order) = Cardinality(DOMAIN c.value) /\ Len(c.order) <= MaxEntries
    /\ DOMAIN c.value = {c.order[i] : i \in DOMAIN c.order}

\* Neither cache outgrows its bound or loses count of its keys, and the one of response times holds
\* exactly the configurations answered last, so the sweep's working set stays
\* (modeling/cache.py:79-108).
KeepsTheRecent ==
    LET size == IF Len(recent) < MaxEntries THEN Len(recent) ELSE MaxEntries
    IN  /\ rtCache.order = SubSeq(recent, Len(recent) - size + 1, Len(recent))
        /\ Bounded(rtCache) /\ Bounded(costCache)
=============================================================================
