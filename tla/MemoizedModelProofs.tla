------------------------ MODULE MemoizedModelProofs ------------------------
(***************************************************************************)
(* Memoization cannot change an answer, for any cache size, any change of  *)
(* the weights and any interrupted reduction, beyond what Evaluation says; *)
(* and the cache of response times holds what was answered last.           *)
(***************************************************************************)
EXTENDS MemoizedModel, FiniteSetTheorems, TLAPS

USE DEF graphVars, neVars, reductionVars, E!ReductionOf, E!CostOf, E!Answer, CostKey

\* A cache is a record, and a key stands for a value the recomputation has or had.
Coherent ==
    /\ rtCache = [order |-> rtCache.order, value |-> rtCache.value]
    /\ costCache = [order |-> costCache.order, value |-> costCache.value]
    /\ \A k \in DOMAIN rtCache.value : \E w \in past : rtCache.value[k] = <<k, w>>
    /\ \A k \in DOMAIN costCache.value : costCache.value[k] = <<ne, k[2], k[3]>>

\* _reduction_key names what simple_dag describes.
KeyInv ==
    /\ rt \in RTs /\ weights \in past
    /\ pc \in {"idle", "evaluate_avg_rt", "avg_rt", "approximations"}
    /\ pc # "idle" => reductionKey = rt
    /\ reductionKey # Nothing => reduced.rt = reductionKey /\ reduced.weights \in past
    /\ reduced = [rt |-> reduced.rt, weights |-> reduced.weights, complete |-> reduced.complete]

Inv == Coherent /\ KeyInv

\* Moving a key to the end of the order changes no value.
LEMMA TouchKeepsValues ==
    ASSUME NEW c, NEW key, c = [order |-> c.order, value |-> c.value]
    PROVE  Touch(c, key) = [order |-> ToEnd(c.order, key), value |-> c.value]
  BY DEF Touch

\* A put adds the key with its value and otherwise only forgets.
LEMMA PutValues ==
    ASSUME NEW c, NEW key, NEW v
    PROVE  /\ Put(c, key, v) = [order |-> Put(c, key, v).order, value |-> Put(c, key, v).value]
           /\ DOMAIN Put(c, key, v).value \subseteq DOMAIN c.value \cup {key}
           /\ \A k \in DOMAIN Put(c, key, v).value :
                 Put(c, key, v).value[k] = IF k = key THEN v ELSE c.value[k]
  BY DEF Put

LEMMA InvInit == Init => Inv
<1> SUFFICES ASSUME Init PROVE Inv
  OBVIOUS
<1>1. Coherent
  BY DEF Init, Coherent, EmptyCache
<1>2. KeyInv
  BY DEF Init, KeyInv
<1>3. QED
  BY <1>1, <1>2 DEF Inv

LEMMA CoherentStep ==
    ASSUME Inv, [Next]_vars
    PROVE  Coherent'
<1> USE DEF Inv, Coherent, KeyInv
<1>1. CASE Configure \/ EvaluateMiss \/ Interrupt
  BY <1>1 DEF Configure, EvaluateMiss, Interrupt
<1>2. CASE Reweigh
  BY <1>2 DEF Reweigh
<1>3. CASE UpdateNe
  BY <1>3 DEF UpdateNe, EmptyCache
<1>4. CASE EvaluateHit
  <2>1. rtCache' = [order |-> ToEnd(rtCache.order, rt), value |-> rtCache.value]
    BY <1>4, TouchKeepsValues DEF EvaluateHit
  <2>2. QED
    BY <1>4, <2>1 DEF EvaluateHit
<1>5. CASE EvaluateCost
  <2>1. CASE Holds(costCache, CostKey)
    <3>1. costCache' = [order |-> ToEnd(costCache.order, CostKey), value |-> costCache.value]
      BY <1>5, <2>1, TouchKeepsValues DEF EvaluateCost
    <3>2. /\ costCache'.value = costCache.value
          /\ costCache' = [order |-> costCache'.order, value |-> costCache'.value]
      BY <3>1
    <3>3. UNCHANGED <<rtCache, past, ne>>
      BY <1>5 DEF EvaluateCost
    <3>4. \A k \in DOMAIN costCache'.value : costCache'.value[k] = <<ne', k[2], k[3]>>
      BY <3>2, <3>3
    <3>5. /\ rtCache' = [order |-> rtCache'.order, value |-> rtCache'.value]
          /\ \A k \in DOMAIN rtCache'.value : \E w \in past' : rtCache'.value[k] = <<k, w>>
      BY <3>3
    <3>6. QED
      BY <3>2, <3>4, <3>5
  <2>2. CASE ~Holds(costCache, CostKey)
    <3>1. costCache' = Put(costCache, CostKey, <<ne, rt, mem>>)
      BY <1>5, <2>2 DEF EvaluateCost
    <3>2. CostKey[2] = rt /\ CostKey[3] = mem
      OBVIOUS
    <3>3. \A k \in DOMAIN costCache'.value : costCache'.value[k] = <<ne, k[2], k[3]>>
      BY <3>1, <3>2, PutValues
    <3>4. costCache' = [order |-> costCache'.order, value |-> costCache'.value]
      BY <3>1, PutValues
    <3>5. UNCHANGED <<rtCache, past, ne>>
      BY <1>5 DEF EvaluateCost
    <3>6. QED
      BY <3>3, <3>4, <3>5
  <2>3. QED
    BY <2>1, <2>2
<1>6. ASSUME NEW reader \in Readers, Read(reader) PROVE Coherent'
  BY <1>6 DEF Read, BeginReduction
<1>7. CASE EndReduction
  <2>1. CASE pc = "evaluate_avg_rt"
    <3>1. PICK w \in past : ValueOf(reduced') = <<rt, w>>
      <4>1. rt # Nothing
        BY ModelAssumption DEF ModelAssumption
      <4>2. QED
        BY <1>7, <4>1 DEF EndReduction, ValueOf
    <3>2. rtCache' = Put(rtCache, rt, <<rt, w>>)
      BY <1>7, <2>1, <3>1 DEF EndReduction
    <3>3. \A k \in DOMAIN rtCache'.value : \E v \in past : rtCache'.value[k] = <<k, v>>
      BY <3>2, PutValues
    <3>4. rtCache' = [order |-> rtCache'.order, value |-> rtCache'.value]
      BY <3>2, PutValues
    <3>5. UNCHANGED <<costCache, past, ne>>
      BY <1>7 DEF EndReduction
    <3>6. QED
      BY <3>3, <3>4, <3>5
  <2>2. CASE pc # "evaluate_avg_rt"
    BY <1>7, <2>2 DEF EndReduction
  <2>3. QED
    BY <2>1, <2>2
<1>8. CASE UNCHANGED vars
  BY <1>8 DEF vars
<1>9. QED
  BY <1>1, <1>2, <1>3, <1>4, <1>5, <1>6, <1>7, <1>8 DEF Next

LEMMA KeyStep ==
    ASSUME Inv, [Next]_vars
    PROVE  KeyInv'
<1> USE ModelAssumption DEF ModelAssumption, Inv, KeyInv
<1>1. CASE Configure \/ UpdateNe \/ EvaluateHit \/ EvaluateCost
  BY <1>1 DEF Configure, UpdateNe, EvaluateHit, EvaluateCost
<1>2. CASE Reweigh
  BY <1>2 DEF Reweigh
<1>3. CASE EvaluateMiss
  BY <1>3 DEF EvaluateMiss, BeginReduction
<1>4. ASSUME NEW reader \in Readers, Read(reader) PROVE KeyInv'
  <2>1. CASE reductionKey # rt
    BY <1>4, <2>1 DEF Read, BeginReduction
  <2>2. CASE reductionKey = rt
    BY <1>4, <2>2 DEF Read
  <2>3. QED
    BY <2>1, <2>2
<1>5. CASE EndReduction
  BY <1>5 DEF EndReduction
<1>6. CASE Interrupt
  BY <1>6 DEF Interrupt
<1>7. CASE UNCHANGED vars
  BY <1>7 DEF vars
<1>8. QED
  BY <1>1, <1>2, <1>3, <1>4, <1>5, <1>6, <1>7 DEF Next

LEMMA InvStep == Inv /\ [Next]_vars => Inv'
  BY CoherentStep, KeyStep DEF Inv

LEMMA TypeInit == Init => TypeOK
<1> SUFFICES ASSUME Init PROVE TypeOK
  OBVIOUS
<1>1. neVersion \in 0 .. MaxVersions /\ reweighs \in 0 .. MaxReweighs
  BY ModelAssumption DEF ModelAssumption, Init
<1>2. DOMAIN rtCache.value = {} /\ DOMAIN costCache.value = {}
  BY DEF Init, EmptyCache
<1>3. QED
  BY <1>1, <1>2 DEF Init, TypeOK

LEMMA TypeStep == Inv /\ TypeOK /\ [Next]_vars => TypeOK'
<1> SUFFICES ASSUME Inv, TypeOK, [Next]_vars PROVE TypeOK'
  OBVIOUS
<1> USE ModelAssumption DEF ModelAssumption, Inv, KeyInv, TypeOK
<1>1. CASE Configure \/ Interrupt
  BY <1>1 DEF Configure, Interrupt
<1>2. CASE Reweigh
  BY <1>2 DEF Reweigh
<1>3. CASE UpdateNe
  <2>1. neVersion' \in 0 .. MaxVersions /\ DOMAIN costCache'.value = {}
    BY <1>3 DEF UpdateNe, EmptyCache
  <2>2. QED
    BY <1>3, <2>1 DEF UpdateNe
<1>4. CASE EvaluateHit
  <2>1. rtCache'.value = rtCache.value
    BY <1>4, TouchKeepsValues DEF EvaluateHit, Coherent
  <2>2. QED
    BY <1>4, <2>1 DEF EvaluateHit
<1>5. CASE EvaluateMiss
  BY <1>5 DEF EvaluateMiss, BeginReduction
<1>6. CASE EvaluateCost
  <2>1. CostKey \in CostKeys
    BY DEF CostKeys
  <2>2. DOMAIN costCache'.value \subseteq DOMAIN costCache.value \cup {CostKey}
    <3>1. CASE Holds(costCache, CostKey)
      BY <1>6, <3>1, TouchKeepsValues DEF EvaluateCost, Coherent
    <3>2. CASE ~Holds(costCache, CostKey)
      BY <1>6, <3>2, PutValues DEF EvaluateCost
    <3>3. QED
      BY <3>1, <3>2
  <2>3. QED
    BY <1>6, <2>1, <2>2 DEF EvaluateCost
<1>7. ASSUME NEW reader \in Readers, Read(reader) PROVE TypeOK'
  <2>1. CASE reductionKey # rt
    <3>1. /\ reduced' = [rt |-> rt, weights |-> weights, complete |-> FALSE]
          /\ reductionKey' = rt /\ pc' = reader
          /\ UNCHANGED <<graphVars, neVars, rtCache, costCache, reweighs>>
      BY <1>7, <2>1 DEF Read, BeginReduction
    <3>2. reduced' \in [rt : RTs, weights : past', complete : BOOLEAN]
      BY <3>1
    <3>3. QED
      BY <3>1, <3>2
  <2>2. CASE reductionKey = rt
    BY <1>7, <2>2 DEF Read
  <2>3. QED
    BY <2>1, <2>2
<1>8. CASE EndReduction
  <2>1. DOMAIN rtCache'.value \subseteq DOMAIN rtCache.value \cup {rt}
    BY <1>8, PutValues DEF EndReduction
  <2>2. reduced' \in [rt : RTs, weights : past, complete : BOOLEAN]
    BY <1>8 DEF EndReduction
  <2>3. QED
    BY <1>8, <2>1, <2>2 DEF EndReduction
<1>9. CASE UNCHANGED vars
  BY <1>9 DEF vars
<1>10. QED
  BY <1>1, <1>2, <1>3, <1>4, <1>5, <1>6, <1>7, <1>8, <1>9 DEF Next

\* The keys of both caches are configurations, and the reduced graph is of one and of weights that were
\* once in force, for any interleaving of calls.  What bounds the caches is CachesKeepTheRecent.
THEOREM ModelTypeCorrect == Spec => []TypeOK
  BY InvInit, InvStep, TypeInit, TypeStep, PTL DEF Spec
-----------------------------------------------------------------------------
(***************************************************************************)
(* The refinement.  The calls that answer are Evaluate and Read; a         *)
(* reduction that begins or is interrupted is Reduce or a stutter.         *)
(***************************************************************************)
Mapped == <<rt, mem, weights, past, Interrupted, ne, answer>>

LEMMA StepRefines ==
    ASSUME Inv, [Next]_vars
    PROVE  E!Next \/ UNCHANGED Mapped
<1> USE DEF Inv, KeyInv, Coherent, Mapped, Interrupted
<1>1. CASE Configure
  BY <1>1 DEF Configure, E!Next, E!Configure
<1>2. CASE Reweigh
  BY <1>2 DEF Reweigh, E!Next, E!Reweigh
<1>3. CASE UpdateNe
  BY <1>3 DEF UpdateNe, E!Next, E!UpdateNe
<1>4. CASE EvaluateHit
  <2>1. PICK w \in past : rtCache.value[rt] = <<rt, w>>
    BY <1>4 DEF EvaluateHit, Holds
  <2>2. QED
    BY <1>4, <2>1 DEF EvaluateHit, E!Next, E!Evaluate
<1>5. CASE EvaluateMiss \/ Interrupt
  <2>1. Interrupted \in BOOLEAN /\ Interrupted' \in BOOLEAN
    OBVIOUS
  <2>2. UNCHANGED <<rt, mem, weights, past, ne, answer>>
    BY <1>5 DEF EvaluateMiss, Interrupt
  <2>3. QED
    BY <2>1, <2>2 DEF E!Next, E!Reduce
<1>6. CASE EvaluateCost
  <2>1. Holds(costCache, CostKey) => costCache.value[CostKey] = <<ne, rt, mem>>
    BY DEF Holds
  <2>2. answer' = E!Answer("avg_cost", <<ne, rt, mem>>)
    BY <1>6, <2>1 DEF EvaluateCost
  <2>3. UNCHANGED <<rt, mem, weights, past, Interrupted, ne>>
    BY <1>6 DEF EvaluateCost
  <2>4. QED
    BY <2>2, <2>3 DEF E!Next, E!Evaluate
<1>7. ASSUME NEW reader \in Readers, Read(reader)
      PROVE  E!Next \/ UNCHANGED Mapped
  <2>1. CASE reductionKey # rt
    <3>1. UNCHANGED <<rt, mem, weights, past, ne, answer>>
      BY <1>7, <2>1 DEF Read
    <3>2. Interrupted \in BOOLEAN /\ Interrupted' \in BOOLEAN
      OBVIOUS
    <3>3. QED
      BY <3>1, <3>2 DEF E!Next, E!Reduce
  <2>2. CASE reductionKey = rt
    <3>1. rt # Nothing /\ reader \in {"avg_rt", "approximations"}
      BY ModelAssumption DEF ModelAssumption
    <3>2. IF reduced.complete THEN ValueOf(reduced) = <<rt, reduced.weights>>
                              ELSE ValueOf(reduced) = Nothing /\ Interrupted
      BY <1>7, <2>2, <3>1 DEF Read, ValueOf
    <3>3. answer' = E!Answer(reader, ValueOf(reduced)) /\ UNCHANGED <<rt, mem, weights, past, Interrupted, ne>>
      BY <1>7, <2>2 DEF Read
    <3>4. reduced.weights \in past
      BY <2>2, <3>1
    <3>5. QED
      BY <3>1, <3>2, <3>3, <3>4 DEF E!Next, E!Read
  <2>3. QED
    BY <2>1, <2>2
<1>8. CASE EndReduction
  <2>1. rt # Nothing
    BY ModelAssumption DEF ModelAssumption
  <2>2. ValueOf(reduced') = <<rt, reduced.weights>> /\ reduced.weights \in past
    BY <1>8, <2>1 DEF EndReduction, ValueOf
  <2>3. ~Interrupted /\ ~Interrupted'
    BY <1>8 DEF EndReduction
  <2>4. UNCHANGED <<rt, mem, weights, past, Interrupted, ne>>
    BY <1>8, <2>3 DEF EndReduction
  <2>5. CASE pc = "evaluate_avg_rt"
    BY <1>8, <2>2, <2>4, <2>5 DEF EndReduction, E!Next, E!Evaluate
  <2>6. CASE pc # "evaluate_avg_rt"
    BY <1>8, <2>2, <2>4, <2>6 DEF EndReduction, E!Next, E!Read
  <2>7. QED
    BY <2>5, <2>6
<1>9. CASE UNCHANGED vars
  BY <1>9 DEF vars
<1>10. QED
  BY <1>1, <1>2, <1>3, <1>4, <1>5, <1>6, <1>7, <1>8, <1>9 DEF Next

\* Memoized or not, evicted or not, interrupted or not: the model answers as Evaluation says,
\* for any number of configurations and any cache size (modeling/cache.py:10-16).
THEOREM MemoImplementsEvaluation == Spec => EvaluationSpec
<1>1. Init => E!Init
  BY DEF Init, E!Init, Interrupted
<1>2. Inv /\ [Next]_vars => Inv'
  BY CoherentStep, KeyStep DEF Inv
<1>3. Inv /\ [Next]_vars => [E!Next]_Mapped
  BY StepRefines
<1>4. QED
  BY <1>1, <1>2, <1>3, InvInit, PTL DEF Spec, EvaluationSpec, E!Spec, Mapped
-----------------------------------------------------------------------------
(***************************************************************************)
(* The orders of the caches.                                               *)
(***************************************************************************)
Keys(q) == {q[i] : i \in DOMAIN q}
Once(q) == \A i, j \in DOMAIN q : q[i] = q[j] => i = j

\* The n keys at the end of an order.
Latest(q, n) == SubSeq(q, Len(q) - n + 1, Len(q))

LEMMA Removal ==
    ASSUME NEW S, NEW q \in Seq(S), NEW i \in DOMAIN q
    PROVE  /\ RemoveAt(q, i) \in Seq(S)
           /\ Len(RemoveAt(q, i)) = Len(q) - 1
           /\ \A j \in 1 .. Len(q) - 1 :
                  RemoveAt(q, i)[j] = IF j < i THEN q[j] ELSE q[j + 1]
<1> DEFINE front == SubSeq(q, 1, i - 1)
           back == SubSeq(q, i + 1, Len(q))
<1>1. /\ front \in Seq(S) /\ Len(front) = i - 1
      /\ \A j \in 1 .. i - 1 : front[j] = q[j]
  OBVIOUS
<1>2. /\ back \in Seq(S) /\ Len(back) = Len(q) - i
      /\ \A j \in 1 .. Len(q) - i : back[j] = q[i + j]
  OBVIOUS
<1>3. RemoveAt(q, i) = front \o back
  BY DEF RemoveAt
<1> HIDE DEF front, back
<1>4. front \o back \in Seq(S) /\ Len(front \o back) = Len(q) - 1
  BY <1>1, <1>2
<1>5. ASSUME NEW j \in 1 .. Len(q) - 1 PROVE (front \o back)[j] = IF j < i THEN q[j] ELSE q[j + 1]
  <2>1. CASE j < i
    BY <2>1, <1>1, <1>2
  <2>2. CASE ~(j < i)
    <3>1. (front \o back)[j] = back[j - (i - 1)]
      BY <2>2, <1>1, <1>2
    <3>2. j - (i - 1) \in 1 .. Len(q) - i /\ i + (j - (i - 1)) = j + 1
      BY <2>2
    <3>3. QED
      BY <2>2, <3>1, <3>2, <1>2
  <2>3. QED
    BY <2>1, <2>2
<1>6. QED
  BY <1>3, <1>4, <1>5

\* A key that is in the order moves to its end, and those after it move up.
LEMMA MovedToEnd ==
    ASSUME NEW S, NEW q \in Seq(S), Once(q), NEW i \in DOMAIN q
    PROVE  /\ ToEnd(q, q[i]) \in Seq(S) /\ Len(ToEnd(q, q[i])) = Len(q)
           /\ \A j \in 1 .. Len(q) :
                  ToEnd(q, q[i])[j] = IF j < i THEN q[j] ELSE IF j < Len(q) THEN q[j + 1] ELSE q[i]
<1>1. RemoveFirst(q, q[i]) = RemoveAt(q, i)
  <2>1. {j \in 1 .. Len(q) : q[j] = q[i]} = {i}
    BY DEF Once
  <2>2. Min({i}) = i
    BY DEF Min
  <2>3. SelectInSeq(q, LAMBDA k : k = q[i]) = i
    BY <2>1, <2>2 DEF SelectInSeq
  <2>4. QED
    BY <2>3 DEF RemoveFirst
<1> DEFINE r == RemoveAt(q, i)
<1>2. /\ r \in Seq(S) /\ Len(r) = Len(q) - 1
      /\ \A j \in 1 .. Len(q) - 1 : r[j] = IF j < i THEN q[j] ELSE q[j + 1]
  BY Removal
<1>3. ToEnd(q, q[i]) = Append(r, q[i])
  BY <1>1 DEF ToEnd
<1> HIDE DEF r
<1>4. QED
  BY <1>2, <1>3

LEMMA AddedAtEnd ==
    ASSUME NEW S, NEW q \in Seq(S), NEW key, key \notin Keys(q)
    PROVE  ToEnd(q, key) = Append(q, key)
<1>1. ~\E i \in 1 .. Len(q) : q[i] = key
  BY DEF Keys
<1>2. QED
  BY <1>1 DEF ToEnd, RemoveFirst

\* Either way the order has the key, once.
LEMMA EndsWithKey ==
    ASSUME NEW S, NEW q \in Seq(S), Once(q), NEW key \in S
    PROVE  /\ ToEnd(q, key) \in Seq(S) /\ Once(ToEnd(q, key))
           /\ Keys(ToEnd(q, key)) = Keys(q) \cup {key}
           /\ Len(ToEnd(q, key)) = IF key \in Keys(q) THEN Len(q) ELSE Len(q) + 1
<1> DEFINE r == ToEnd(q, key)
<1>1. CASE key \in Keys(q)
  <2>1. PICK i \in DOMAIN q : key = q[i]
    BY <1>1 DEF Keys
  <2>2. /\ r \in Seq(S) /\ Len(r) = Len(q)
        /\ \A j \in 1 .. Len(q) :
              r[j] = IF j < i THEN q[j] ELSE IF j < Len(q) THEN q[j + 1] ELSE q[i]
    BY <2>1, MovedToEnd
  <2> HIDE DEF r
  <2>3. DOMAIN r = 1 .. Len(q) /\ DOMAIN q = 1 .. Len(q)
    BY <2>2
  <2>4. Once(r)
    <3> DEFINE from(j) == IF j < i THEN j ELSE IF j < Len(q) THEN j + 1 ELSE i
    <3>1. Len(q) \in Nat /\ i \in 1 .. Len(q)
      BY <2>1, <2>3
    <3>2. ASSUME NEW j \in DOMAIN r PROVE r[j] = q[from(j)] /\ from(j) \in DOMAIN q
      BY <2>2, <2>3, <3>1
    <3>3. ASSUME NEW j \in DOMAIN r, NEW k \in DOMAIN r, from(j) = from(k) PROVE j = k
      BY <2>3, <3>1, <3>3
    <3> HIDE DEF from
    <3>4. ASSUME NEW j \in DOMAIN r, NEW k \in DOMAIN r, r[j] = r[k] PROVE j = k
      <4>1. q[from(j)] = q[from(k)] /\ from(j) \in DOMAIN q /\ from(k) \in DOMAIN q
        BY <3>2, <3>4
      <4>2. from(j) = from(k)
        BY <4>1 DEF Once
      <4>3. QED
        BY <3>3, <4>2
    <3>5. QED
      BY <3>4 DEF Once
  <2>5. ASSUME NEW j \in DOMAIN r PROVE r[j] \in Keys(q)
    BY <2>2, <2>3 DEF Keys
  <2>6. ASSUME NEW j \in DOMAIN q PROVE q[j] \in Keys(r)
    <3>1. CASE j < i
      BY <2>2, <2>3, <3>1 DEF Keys
    <3>2. CASE j = i
      <4>1. Len(q) \in DOMAIN r /\ r[Len(q)] = q[i]
        BY <2>2, <2>3
      <4>2. QED
        BY <3>2, <4>1 DEF Keys
    <3>3. CASE j > i
      <4>1. j - 1 \in DOMAIN r /\ r[j - 1] = q[j]
        BY <2>2, <2>3, <3>3
      <4>2. QED
        BY <4>1 DEF Keys
    <3>4. QED
      BY <2>3, <3>1, <3>2, <3>3
  <2>7. Keys(r) = Keys(q)
    BY <2>5, <2>6 DEF Keys
  <2>8. QED
    BY <1>1, <2>2, <2>4, <2>7 DEF r
<1>2. CASE key \notin Keys(q)
  <2>1. r = Append(q, key)
    BY <1>2, AddedAtEnd
  <2> HIDE DEF r
  <2>2. /\ r \in Seq(S) /\ Len(r) = Len(q) + 1 /\ r[Len(q) + 1] = key
        /\ DOMAIN r = 1 .. Len(q) + 1 /\ DOMAIN q = 1 .. Len(q)
        /\ \A j \in 1 .. Len(q) : r[j] = q[j]
    BY <2>1
  <2>3. \A j \in DOMAIN q : q[j] # key
    BY <1>2 DEF Keys
  <2>4. Once(r)
    BY <2>2, <2>3 DEF Once
  <2>5. Keys(r) = Keys(q) \cup {key}
    <3>1. \A j \in DOMAIN r : r[j] \in Keys(q) \cup {key}
      BY <2>2 DEF Keys
    <3>2. key \in Keys(r) /\ \A j \in DOMAIN q : q[j] \in Keys(r)
      BY <2>2 DEF Keys
    <3>3. QED
      BY <3>1, <3>2 DEF Keys
  <2>6. QED
    BY <1>2, <2>2, <2>4, <2>5 DEF r
<1>3. QED
  BY <1>1, <1>2

LEMMA LatestIs ==
    ASSUME NEW S, NEW q \in Seq(S), NEW n \in 0 .. Len(q)
    PROVE  /\ Latest(q, n) \in Seq(S) /\ Len(Latest(q, n)) = n
           /\ DOMAIN Latest(q, n) = 1 .. n
           /\ \A j \in 1 .. n : Latest(q, n)[j] = q[Len(q) - n + j]
<1>1. Latest(q, n) \in Seq(S) /\ Len(Latest(q, n)) = n
  BY DEF Latest
<1>2. \A j \in 1 .. n : Latest(q, n)[j] = q[Len(q) - n + j]
  BY DEF Latest
<1>3. QED
  BY <1>1, <1>2

LEMMA LatestOnce ==
    ASSUME NEW S, NEW q \in Seq(S), Once(q), NEW n \in 0 .. Len(q)
    PROVE  Once(Latest(q, n)) /\ Keys(Latest(q, n)) \subseteq Keys(q)
<1> DEFINE r == Latest(q, n)
<1>1. DOMAIN r = 1 .. n /\ \A j \in 1 .. n : r[j] = q[Len(q) - n + j]
  BY LatestIs
<1>2. \A j \in 1 .. n : Len(q) - n + j \in DOMAIN q
  OBVIOUS
<1> HIDE DEF r
<1>3. Once(r)
  <2> SUFFICES ASSUME NEW i \in 1 .. n, NEW j \in 1 .. n, r[i] = r[j] PROVE i = j
    BY <1>1 DEF Once
  <2>1. Len(q) - n + i = Len(q) - n + j
    BY <1>1, <1>2 DEF Once
  <2>2. QED
    BY <2>1
<1>4. Keys(r) \subseteq Keys(q)
  BY <1>1, <1>2 DEF Keys
<1>5. QED
  BY <1>3, <1>4 DEF r

\* The keys of an order are as many as it is long.
LEMMA KeysCount ==
    ASSUME NEW S, NEW q \in Seq(S), Once(q) PROVE Cardinality(Keys(q)) = Len(q)
<1>1. q \in Bijection(1 .. Len(q), Keys(q))
  BY DEF Keys, Once, Bijection, Injection, Surjection, IsInjective
<1>2. IsFiniteSet(1 .. Len(q)) /\ Cardinality(1 .. Len(q)) = Len(q)
  <2>1. Len(q) \in Nat /\ Len(q) \in Int /\ 1 \in Int
    OBVIOUS
  <2>2. /\ IsFiniteSet(1 .. Len(q))
        /\ Cardinality(1 .. Len(q)) = IF 1 > Len(q) THEN 0 ELSE Len(q) - 1 + 1
    BY <2>1, FS_Interval
  <2>3. QED
    BY <2>1, <2>2
<1>3. ExistsBijection(1 .. Len(q), Keys(q))
  BY <1>1 DEF ExistsBijection
<1>4. QED
  BY <1>2, <1>3, FS_Bijection

LEMMA SameSequence ==
    ASSUME NEW S, NEW p \in Seq(S), NEW q \in Seq(S), Len(p) = Len(q),
           \A j \in 1 .. Len(q) : p[j] = q[j]
    PROVE  p = q
  OBVIOUS

Size(q) == IF Len(q) < MaxEntries THEN Len(q) ELSE MaxEntries

LEMMA SizeIs == ASSUME NEW S, NEW q \in Seq(S) PROVE Size(q) \in 0 .. Len(q) /\ Size(q) <= MaxEntries
  BY ModelAssumption DEF ModelAssumption, Size

\* A hit moves its key in the cache as the answer moves it among all that was ever answered.
LEMMA HitKeepsLatest ==
    ASSUME NEW S, NEW q \in Seq(S), Once(q), NEW key \in Keys(Latest(q, Size(q)))
    PROVE  ToEnd(Latest(q, Size(q)), key) = Latest(ToEnd(q, key), Size(ToEnd(q, key)))
<1> DEFINE n == Size(q)
           c == Latest(q, n)
           r == ToEnd(q, key)
<1>1. n \in 0 .. Len(q)
  BY SizeIs
<1>2. /\ c \in Seq(S) /\ Len(c) = n /\ DOMAIN c = 1 .. n
      /\ \A j \in 1 .. n : c[j] = q[Len(q) - n + j]
  BY <1>1, LatestIs
<1>3. PICK i \in 1 .. n : key = c[i]
  BY <1>2 DEF Keys
<1>4. Once(c)
  BY <1>1, LatestOnce
<1>5. Len(q) - n + i \in DOMAIN q /\ key = q[Len(q) - n + i]
  BY <1>1, <1>2, <1>3
<1>6. /\ r \in Seq(S) /\ Len(r) = Len(q)
      /\ \A j \in 1 .. Len(q) :
            r[j] = IF j < Len(q) - n + i THEN q[j]
                   ELSE IF j < Len(q) THEN q[j + 1] ELSE key
  BY <1>5, MovedToEnd
<1>7. /\ ToEnd(c, key) \in Seq(S) /\ Len(ToEnd(c, key)) = n
      /\ \A j \in 1 .. n :
            ToEnd(c, key)[j] = IF j < i THEN c[j] ELSE IF j < n THEN c[j + 1] ELSE key
  <2> HIDE DEF n, c
  <2>1. i \in DOMAIN c /\ c \in Seq(S) /\ Once(c) /\ Len(c) = n
    BY <1>2, <1>3, <1>4
  <2>2. /\ ToEnd(c, c[i]) \in Seq(S) /\ Len(ToEnd(c, c[i])) = Len(c)
        /\ \A j \in 1 .. Len(c) :
              ToEnd(c, c[i])[j] = IF j < i THEN c[j] ELSE IF j < Len(c) THEN c[j + 1] ELSE c[i]
    BY <2>1, MovedToEnd
  <2>3. QED
    BY <1>3, <2>1, <2>2
<1>8. Size(r) = n
  BY <1>6 DEF Size
<1> HIDE DEF n, c, r
<1>9. Latest(r, n) \in Seq(S) /\ Len(Latest(r, n)) = n
      /\ \A j \in 1 .. n : Latest(r, n)[j] = r[Len(q) - n + j]
  <2>1. r \in Seq(S) /\ Len(r) = Len(q) /\ n \in 0 .. Len(r)
    BY <1>1, <1>6
  <2>2. /\ Latest(r, n) \in Seq(S) /\ Len(Latest(r, n)) = n
        /\ \A j \in 1 .. n : Latest(r, n)[j] = r[Len(r) - n + j]
    BY <2>1, LatestIs
  <2>3. QED
    BY <2>1, <2>2
<1>10. ASSUME NEW j \in 1 .. n PROVE ToEnd(c, key)[j] = Latest(r, n)[j]
  <2>1. Len(q) - n + j \in 1 .. Len(q) /\ Len(q) \in Nat /\ n \in Nat /\ i \in Nat
    BY <1>1
  <2>2. CASE j < i
    <3>1. ToEnd(c, key)[j] = c[j] /\ c[j] = q[Len(q) - n + j]
      BY <1>2, <1>7, <2>2
    <3>2. r[Len(q) - n + j] = q[Len(q) - n + j]
      BY <1>6, <2>1, <2>2
    <3>3. QED
      BY <1>9, <3>1, <3>2
  <2>3. CASE i <= j /\ j < n
    <3>1. ToEnd(c, key)[j] = c[j + 1] /\ c[j + 1] = q[Len(q) - n + (j + 1)]
      BY <1>2, <1>7, <2>1, <2>3
    <3>2. r[Len(q) - n + j] = q[Len(q) - n + j + 1]
      BY <1>6, <2>1, <2>3
    <3>3. Len(q) - n + (j + 1) = Len(q) - n + j + 1
      BY <2>1
    <3>4. QED
      BY <1>9, <3>1, <3>2, <3>3
  <2>4. CASE j = n
    <3>1. Len(q) - n + j = Len(q)
      BY <2>1, <2>4
    <3>2. r[Len(q)] = key
      BY <1>6, <2>1, <2>4, <3>1
    <3>3. ToEnd(c, key)[j] = key
      BY <1>7, <2>1, <2>4
    <3>4. QED
      BY <1>9, <3>1, <3>2, <3>3
  <2>5. QED
    BY <2>1, <2>2, <2>3, <2>4
<1>11. ToEnd(c, key) = Latest(r, n)
  BY <1>7, <1>9, <1>10, SameSequence
<1>12. QED
  BY <1>8, <1>11 DEF n, c, r

\* Without its first key an order is its keys from the second on.
LEMMA Shorter ==
    ASSUME NEW S, NEW q \in Seq(S), Once(q), q # <<>>
    PROVE  /\ Tail(q) \in Seq(S) /\ Len(Tail(q)) = Len(q) - 1 /\ Once(Tail(q))
           /\ \A j \in 1 .. Len(q) - 1 : Tail(q)[j] = q[j + 1]
           /\ Keys(Tail(q)) = Keys(q) \ {Head(q)}
<1> DEFINE r == Tail(q)
<1>1. /\ r \in Seq(S) /\ Len(r) = Len(q) - 1 /\ DOMAIN r = 1 .. Len(q) - 1
      /\ DOMAIN q = 1 .. Len(q) /\ Len(q) \in Nat /\ Len(q) >= 1 /\ Head(q) = q[1]
      /\ \A j \in 1 .. Len(q) - 1 : r[j] = q[j + 1]
  OBVIOUS
<1> HIDE DEF r
<1>2. Once(r)
  BY <1>1 DEF Once
<1>3. ASSUME NEW j \in DOMAIN r PROVE r[j] \in Keys(q) \ {Head(q)}
  <2>1. j + 1 \in DOMAIN q /\ 1 \in DOMAIN q /\ j + 1 # 1 /\ r[j] = q[j + 1]
    BY <1>1
  <2>2. QED
    BY <1>1, <2>1 DEF Keys, Once
<1>4. ASSUME NEW j \in DOMAIN q, q[j] # Head(q) PROVE q[j] \in Keys(r)
  <2>1. j - 1 \in DOMAIN r /\ r[j - 1] = q[j]
    BY <1>1, <1>4
  <2>2. QED
    BY <2>1 DEF Keys
<1>5. Keys(r) = Keys(q) \ {Head(q)}
  BY <1>3, <1>4 DEF Keys
<1>6. QED
  BY <1>1, <1>2, <1>5 DEF r

\* A miss puts its key last in both, and the oldest of a full cache goes.
LEMMA MissKeepsLatest ==
    ASSUME NEW S, NEW q \in Seq(S), Once(q), NEW key \in S, key \notin Keys(Latest(q, Size(q)))
    PROVE  LET c == Latest(q, Size(q))
           IN  (IF Len(c) = MaxEntries THEN Tail(Append(c, key)) ELSE Append(c, key))
                   = Latest(ToEnd(q, key), Size(ToEnd(q, key)))
<1> DEFINE n == Size(q)
           c == Latest(q, n)
           a == Append(c, key)
           r == ToEnd(q, key)
<1>1. n \in 0 .. Len(q) /\ n <= MaxEntries /\ MaxEntries \in Nat /\ Len(q) \in Nat
  BY SizeIs, ModelAssumption DEF ModelAssumption
<1>2. /\ c \in Seq(S) /\ Len(c) = n /\ DOMAIN c = 1 .. n
      /\ \A j \in 1 .. n : c[j] = q[Len(q) - n + j]
  BY <1>1, LatestIs
<1>3. n # MaxEntries => n = Len(q) /\ Len(q) < MaxEntries
  BY <1>1 DEF Size
<1>4. n = MaxEntries => Len(q) >= MaxEntries
  BY <1>1
<1>5. /\ r \in Seq(S) /\ Once(r) /\ Len(r) = IF key \in Keys(q) THEN Len(q) ELSE Len(q) + 1
  BY EndsWithKey
<1>6. key \notin Keys(c)
  OBVIOUS
<1> HIDE DEF n, c, r
<1>7. /\ a \in Seq(S) /\ Len(a) = n + 1 /\ a[n + 1] = key
      /\ \A j \in 1 .. n : a[j] = c[j]
  <2>1. a \in Seq(S) /\ Len(a) = n + 1
    BY <1>2
  <2>2. \A j \in 1 .. n + 1 : a[j] = IF j = n + 1 THEN key ELSE c[j]
    BY <1>1, <1>2
  <2>3. n + 1 \in 1 .. n + 1 /\ \A j \in 1 .. n : j \in 1 .. n + 1 /\ j # n + 1
    BY <1>1
  <2>4. QED
    BY <2>1, <2>2, <2>3
<1> HIDE DEF a
<1>8. ASSUME NEW m \in 0 .. Len(r)
      PROVE  /\ Latest(r, m) \in Seq(S) /\ Len(Latest(r, m)) = m
             /\ \A j \in 1 .. m : Latest(r, m)[j] = r[Len(r) - m + j]
  <2>1. r \in Seq(S) /\ m \in 0 .. Len(r)
    BY <1>5, <1>8
  <2>2. QED
    BY ONLY <2>1, LatestIs
<1>9. CASE n # MaxEntries
  <2>1. key \notin Keys(q)
    <3>1. \A j \in 1 .. Len(q) : c[j] = q[j]
      <4>1. \A j \in 1 .. Len(q) : Len(q) - n + j = j
        BY <1>1, <1>3, <1>9
      <4>2. QED
        BY <1>2, <1>3, <1>9, <4>1
    <3>2. DOMAIN c = DOMAIN q
      BY <1>2, <1>3, <1>9
    <3>3. QED
      BY <1>6, <3>1, <3>2 DEF Keys
  <2>2. r = Append(q, key)
    BY <2>1, AddedAtEnd DEF r
  <2>3. /\ Len(r) = Len(q) + 1 /\ r[Len(q) + 1] = key
        /\ \A j \in 1 .. Len(q) : r[j] = q[j]
    BY <2>2
  <2>4. Size(r) = Len(r) /\ Len(r) \in 0 .. Len(r)
    BY <1>1, <1>3, <1>9, <2>3 DEF Size
  <2>5. /\ Latest(r, Len(r)) \in Seq(S) /\ Len(Latest(r, Len(r))) = Len(r)
        /\ \A j \in 1 .. Len(r) : Latest(r, Len(r))[j] = r[Len(r) - Len(r) + j]
    BY <1>8, <2>4
  <2>6. \A j \in 1 .. Len(r) : a[j] = Latest(r, Len(r))[j]
    <3>1. \A j \in 1 .. Len(r) : Len(r) - Len(r) + j = j
      BY <1>1, <2>3
    <3>2. \A j \in 1 .. n : c[j] = q[j]
      <4>1. \A j \in 1 .. n : Len(q) - n + j = j
        BY <1>1, <1>3, <1>9
      <4>2. QED
        BY <1>2, <4>1
    <3>3. \A j \in 1 .. Len(r) : a[j] = r[j]
      <4>1. \A j \in 1 .. Len(q) : a[j] = r[j]
        BY <1>3, <1>7, <1>9, <2>3, <3>2
      <4>2. a[Len(q) + 1] = r[Len(q) + 1]
        BY <1>3, <1>7, <1>9, <2>3
      <4>3. \A j \in 1 .. Len(r) : j \in 1 .. Len(q) \/ j = Len(q) + 1
        BY <1>1, <2>3
      <4>4. QED
        BY <4>1, <4>2, <4>3
    <3>4. QED
      BY <2>5, <3>1, <3>3
  <2>7. Len(a) = Len(r)
    BY <1>3, <1>7, <1>9, <2>3
  <2>8. a = Latest(r, Len(r))
    BY <1>7, <2>5, <2>6, <2>7, SameSequence
  <2>9. QED
    BY <1>2, <1>9, <2>4, <2>8 DEF a, c, r, n
<1>10. CASE n = MaxEntries
  <2>1. /\ Tail(a) \in Seq(S) /\ Len(Tail(a)) = n
        /\ \A j \in 1 .. n : Tail(a)[j] = a[j + 1]
    BY <1>1, <1>7
  <2>2. ASSUME NEW j \in 1 .. n
        PROVE  Tail(a)[j] = IF j < n THEN q[Len(q) - n + j + 1] ELSE key
    <3>1. CASE j < n
      <4>1. j + 1 \in 1 .. n /\ Len(q) - n + (j + 1) = Len(q) - n + j + 1
        BY <1>1, <3>1
      <4>2. QED
        BY <1>2, <1>7, <2>1, <3>1, <4>1
    <3>2. CASE j = n
      <4>1. Tail(a)[j] = a[n + 1] /\ ~(j < n)
        BY <1>1, <2>1, <3>2
      <4>2. Tail(a)[j] = key
        BY <1>7, <4>1
      <4>3. QED
        BY <4>1, <4>2
    <3>3. j < n \/ j = n
      BY <1>1
    <3>4. QED
      BY <3>1, <3>2, <3>3
  <2>3. Size(r) = n /\ n \in 0 .. Len(r)
    BY <1>1, <1>4, <1>5, <1>10 DEF Size
  <2>4. /\ Latest(r, n) \in Seq(S) /\ Len(Latest(r, n)) = n
        /\ \A j \in 1 .. n : Latest(r, n)[j] = r[Len(r) - n + j]
    BY <1>8, <2>3
  <2>5. ASSUME NEW j \in 1 .. n
        PROVE  r[Len(r) - n + j] = IF j < n THEN q[Len(q) - n + j + 1] ELSE key
    <3>1. CASE key \in Keys(q)
      <4>1. PICK i \in DOMAIN q : key = q[i]
        BY <3>1 DEF Keys
      <4>2. i <= Len(q) - n
        <5>1. SUFFICES ASSUME i > Len(q) - n PROVE FALSE
          BY <1>1
        <5>2. i - (Len(q) - n) \in 1 .. n /\ Len(q) - n + (i - (Len(q) - n)) = i
          BY <1>1, <5>1
        <5>3. c[i - (Len(q) - n)] = key
          BY <1>2, <4>1, <5>2
        <5>4. QED
          BY <1>2, <1>6, <5>2, <5>3 DEF Keys
      <4>3. \A k \in 1 .. Len(q) :
                r[k] = IF k < i THEN q[k] ELSE IF k < Len(q) THEN q[k + 1] ELSE q[i]
        BY <4>1, MovedToEnd DEF r
      <4>4. /\ Len(q) - n + j \in 1 .. Len(q) /\ ~(Len(q) - n + j < i)
            /\ (Len(q) - n + j < Len(q) <=> j < n) /\ Len(r) = Len(q)
        BY <1>1, <1>5, <3>1, <4>2
      <4>5. QED
        BY <4>1, <4>3, <4>4
    <3>2. CASE key \notin Keys(q)
      <4>1. r = Append(q, key)
        BY <3>2, AddedAtEnd DEF r
      <4>2. /\ r[Len(q) + 1] = key /\ Len(r) = Len(q) + 1
            /\ \A k \in 1 .. Len(q) : r[k] = q[k]
        BY <4>1
      <4>3. CASE j < n
        <5>1. Len(r) - n + j = Len(q) - n + j + 1 /\ Len(q) - n + j + 1 \in 1 .. Len(q)
          BY <1>1, <4>2, <4>3
        <5>2. QED
          BY <4>2, <4>3, <5>1
      <4>4. CASE j = n
        <5>1. Len(r) - n + j = Len(q) + 1
          BY <1>1, <4>2, <4>4
        <5>2. QED
          BY <4>2, <4>4, <5>1
      <4>5. QED
        BY <1>1, <4>3, <4>4
    <3>3. QED
      BY <3>1, <3>2
  <2>6. \A j \in 1 .. n : Tail(a)[j] = Latest(r, n)[j]
    BY <2>2, <2>4, <2>5
  <2>7. Tail(a) = Latest(r, n)
    BY <2>1, <2>4, <2>6, SameSequence
  <2>8. QED
    BY <1>2, <1>10, <2>3, <2>7 DEF a, c, r, n
<1>11. QED
  BY <1>9, <1>10
-----------------------------------------------------------------------------
(***************************************************************************)
(* The working set.                                                        *)
(***************************************************************************)
\* A cache's order has its keys, once each, within its bound; the one of response times has the
\* latest of those that were answered, and a key it waits for it has not.
CacheInv(c, K) ==
    /\ c.order \in Seq(K) /\ Once(c.order) /\ Len(c.order) <= MaxEntries
    /\ Keys(c.order) = DOMAIN c.value

RecentInv ==
    /\ recent \in Seq(RTs) /\ Once(recent)
    /\ rtCache.order = Latest(recent, Size(recent))

KeptInv ==
    /\ CacheInv(rtCache, RTs) /\ CacheInv(costCache, CostKeys) /\ RecentInv
    /\ pc = "evaluate_avg_rt" => ~Holds(rtCache, rt)

LEMMA KeptMeansRecent == KeptInv => KeepsTheRecent
<1> SUFFICES ASSUME KeptInv PROVE KeepsTheRecent
  OBVIOUS
<1>1. ASSUME NEW K, NEW c, CacheInv(c, K) PROVE Bounded(c)
  <2>1. Len(c.order) = Cardinality(DOMAIN c.value)
    BY <1>1, KeysCount DEF CacheInv
  <2>2. QED
    BY <1>1, <2>1 DEF CacheInv, Bounded, Keys
<1>2. QED
  BY <1>1 DEF KeptInv, RecentInv, KeepsTheRecent, Latest, Size

LEMMA TouchKeeps ==
    ASSUME NEW K, NEW c, CacheInv(c, K), c = [order |-> c.order, value |-> c.value],
           NEW key \in K, Holds(c, key)
    PROVE  CacheInv(Touch(c, key), K) /\ Touch(c, key).order = ToEnd(c.order, key)
<1>1. Touch(c, key) = [order |-> ToEnd(c.order, key), value |-> c.value]
  BY TouchKeepsValues
<1>2. key \in Keys(c.order) /\ c.order \in Seq(K) /\ Once(c.order)
  BY DEF CacheInv, Holds
<1>3. /\ ToEnd(c.order, key) \in Seq(K) /\ Once(ToEnd(c.order, key))
      /\ Keys(ToEnd(c.order, key)) = Keys(c.order) /\ Len(ToEnd(c.order, key)) = Len(c.order)
  <2> DEFINE q == c.order
  <2>1. q \in Seq(K) /\ Once(q) /\ key \in Keys(q)
    BY <1>2
  <2> HIDE DEF q
  <2>2. /\ ToEnd(q, key) \in Seq(K) /\ Once(ToEnd(q, key))
        /\ Keys(ToEnd(q, key)) = Keys(q) \cup {key}
        /\ Len(ToEnd(q, key)) = IF key \in Keys(q) THEN Len(q) ELSE Len(q) + 1
    BY <2>1, EndsWithKey
  <2>3. Keys(q) \cup {key} = Keys(q)
    BY <2>1
  <2>4. QED
    BY <2>1, <2>2, <2>3 DEF q
<1> DEFINE d == Touch(c, key)
<1>4. d.order = ToEnd(c.order, key) /\ d.value = c.value
  BY <1>1
<1> HIDE DEF d
<1>5. CacheInv(d, K)
  BY <1>3, <1>4 DEF CacheInv
<1>6. QED
  BY <1>4, <1>5 DEF d

\* What a put of a new key leaves: an order with its bound, and its keys.
LEMMA PutKeeps ==
    ASSUME NEW K, NEW c, CacheInv(c, K), NEW key \in K, ~Holds(c, key), NEW v
    PROVE  /\ CacheInv(Put(c, key, v), K)
           /\ Put(c, key, v).order =
                  IF Len(c.order) = MaxEntries THEN Tail(Append(c.order, key)) ELSE Append(c.order, key)
<1> DEFINE q == c.order
           r == ToEnd(q, key)
           full == Len(r) > MaxEntries
           p == Put(c, key, v)
<1>0. MaxEntries \in Nat
  BY ModelAssumption DEF ModelAssumption
<1>held. /\ q \in Seq(K) /\ Once(q) /\ Len(q) <= MaxEntries
       /\ Keys(q) = DOMAIN c.value /\ key \notin Keys(q)
  BY DEF CacheInv, Holds
<1>1. /\ r \in Seq(K) /\ Once(r) /\ Len(r) = Len(q) + 1 /\ Keys(r) = Keys(q) \cup {key}
      /\ r = Append(q, key)
  BY <1>held, EndsWithKey, AddedAtEnd
<1>2. /\ p.order = IF full THEN Tail(r) ELSE r
      /\ DOMAIN p.value = (DOMAIN c.value \cup {key}) \ (IF full THEN {Head(r)} ELSE {})
  BY DEF Put
<1>3. full <=> Len(q) = MaxEntries
  <2>1. Len(q) \in Nat /\ Len(q) <= MaxEntries /\ Len(r) = Len(q) + 1
    BY <1>held, <1>1
  <2>2. QED
    BY <1>0, <2>1
<1> HIDE DEF p, r, q
<1>4. CASE full
  <2>1. /\ Tail(r) \in Seq(K) /\ Len(Tail(r)) = Len(r) - 1 /\ Once(Tail(r))
        /\ Keys(Tail(r)) = Keys(r) \ {Head(r)}
    <3>1. r # <<>>
      BY <1>0, <1>1, <1>4
    <3>2. QED
      BY <1>1, <3>1, Shorter
  <2>2. p.order = Tail(r) /\ DOMAIN p.value = (DOMAIN c.value \cup {key}) \ {Head(r)}
    BY <1>2, <1>4
  <2>3. Len(q) = MaxEntries /\ Len(Tail(r)) = MaxEntries
    BY <1>0, <1>1, <1>3, <1>4, <2>1
  <2>4. DOMAIN p.value = Keys(p.order)
    BY <1>held, <1>1, <2>1, <2>2
  <2>5. QED
    <3>1. CacheInv(p, K)
      BY <1>0, <2>1, <2>2, <2>3, <2>4 DEF CacheInv
    <3>2. QED
      BY <1>1, <2>2, <2>3, <3>1 DEF p, q
<1>5. CASE ~full
  <2>1. p.order = r /\ DOMAIN p.value = DOMAIN c.value \cup {key}
    BY <1>2, <1>5
  <2>2. Len(q) # MaxEntries /\ Len(r) <= MaxEntries
    BY <1>0, <1>1, <1>3, <1>5
  <2>3. QED
    <3>1. CacheInv(p, K)
      BY <1>held, <1>1, <2>1, <2>2 DEF CacheInv
    <3>2. QED
      BY <1>1, <2>1, <2>2, <3>1 DEF p, q
<1>6. QED
  BY <1>4, <1>5

LEMMA KeptInit == Init => KeptInv
<1> SUFFICES ASSUME Init PROVE KeptInv
  OBVIOUS
<1>0. MaxEntries \in Nat
  BY ModelAssumption DEF ModelAssumption
<1>1. CacheInv(EmptyCache, RTs) /\ CacheInv(EmptyCache, CostKeys)
  BY <1>0 DEF CacheInv, EmptyCache, Keys, Once
<1>2. Size(<<>>) = 0 /\ Latest(<<>>, 0) = <<>>
  BY <1>0 DEF Size, Latest
<1>3. RecentInv
  BY <1>2 DEF Init, RecentInv, EmptyCache, Once
<1>4. QED
  BY <1>1, <1>3 DEF Init, KeptInv

LEMMA KeptStep == Inv /\ TypeOK /\ KeptInv /\ [Next]_vars => KeptInv'
<1> SUFFICES ASSUME Inv, TypeOK, KeptInv, [Next]_vars PROVE KeptInv'
  OBVIOUS
<1>0. /\ CacheInv(rtCache, RTs) /\ CacheInv(costCache, CostKeys) /\ RecentInv
      /\ pc = "evaluate_avg_rt" => ~Holds(rtCache, rt)
      /\ Coherent /\ rt \in RTs
  BY DEF KeptInv, Inv, KeyInv
<1>1. ASSUME UNCHANGED <<rtCache, costCache, recent>>, pc' = "evaluate_avg_rt" => ~Holds(rtCache, rt')
      PROVE  KeptInv'
  BY <1>0, <1>1 DEF KeptInv, CacheInv, RecentInv, Holds
<1>2. CASE Configure
  BY <1>1, <1>2 DEF Configure
<1>3. CASE Reweigh \/ EvaluateMiss \/ Interrupt \/ UNCHANGED vars
  BY <1>0, <1>1, <1>3 DEF Reweigh, EvaluateMiss, Interrupt, vars
<1>4. ASSUME NEW reader \in Readers, Read(reader) PROVE KeptInv'
  <2>1. reader # "evaluate_avg_rt"
    BY ModelAssumption DEF ModelAssumption
  <2>2. QED
    BY <1>1, <1>4, <2>1 DEF Read
<1>5. CASE UpdateNe
  <2>1. CacheInv(EmptyCache, CostKeys)
    BY ModelAssumption DEF ModelAssumption, CacheInv, EmptyCache, Keys, Once
  <2>2. costCache' = EmptyCache /\ UNCHANGED <<rtCache, recent, pc>> /\ pc = "idle"
    BY <1>5 DEF UpdateNe
  <2>3. QED
    BY <1>0, <2>1, <2>2 DEF KeptInv, CacheInv, RecentInv
<1>6. CASE EvaluateHit
  <2>1. /\ rtCache' = Touch(rtCache, rt) /\ recent' = ToEnd(recent, rt) /\ Holds(rtCache, rt)
        /\ UNCHANGED <<costCache, pc>> /\ pc = "idle"
    BY <1>6 DEF EvaluateHit
  <2>2. CacheInv(Touch(rtCache, rt), RTs) /\ Touch(rtCache, rt).order = ToEnd(rtCache.order, rt)
    BY <1>0, <2>1, TouchKeeps DEF Coherent
  <2>3. rt \in Keys(Latest(recent, Size(recent)))
    BY <1>0, <2>1 DEF CacheInv, Holds, RecentInv
  <2>4. ToEnd(rtCache.order, rt) = Latest(ToEnd(recent, rt), Size(ToEnd(recent, rt)))
    BY <1>0, <2>3, HitKeepsLatest DEF RecentInv
  <2>5. ToEnd(recent, rt) \in Seq(RTs) /\ Once(ToEnd(recent, rt))
    BY <1>0, EndsWithKey DEF RecentInv
  <2>6. RecentInv'
    BY <2>1, <2>2, <2>4, <2>5 DEF RecentInv, Size, Latest, Once
  <2>7. CacheInv(rtCache, RTs)' /\ CacheInv(costCache, CostKeys)'
    BY <1>0, <2>1, <2>2 DEF CacheInv
  <2>8. QED
    BY <2>1, <2>6, <2>7 DEF KeptInv
<1>7. CASE EvaluateCost
  <2>1. CostKey \in CostKeys
    BY DEF TypeOK, CostKeys
  <2>2. CacheInv(costCache, CostKeys)'
    <3>1. CASE Holds(costCache, CostKey)
      <4>1. costCache' = Touch(costCache, CostKey)
        BY <1>7, <3>1 DEF EvaluateCost
      <4>2. CacheInv(Touch(costCache, CostKey), CostKeys)
        BY <1>0, <2>1, <3>1, TouchKeeps DEF Coherent
      <4>3. QED
        BY <4>1, <4>2 DEF CacheInv
    <3>2. CASE ~Holds(costCache, CostKey)
      <4>1. costCache' = Put(costCache, CostKey, E!CostOf(ne, rt, mem))
        BY <1>7, <3>2 DEF EvaluateCost
      <4>2. CacheInv(Put(costCache, CostKey, E!CostOf(ne, rt, mem)), CostKeys)
        BY <1>0, <2>1, <3>2, PutKeeps
      <4>3. QED
        BY <4>1, <4>2 DEF CacheInv
    <3>3. QED
      BY <3>1, <3>2
  <2>3. UNCHANGED <<rtCache, recent, pc>> /\ pc = "idle"
    BY <1>7 DEF EvaluateCost
  <2>4. QED
    BY <1>0, <2>2, <2>3 DEF KeptInv, CacheInv, RecentInv
<1>8. CASE EndReduction
  <2>1. CASE pc = "evaluate_avg_rt"
    <3>1. PICK v : rtCache' = Put(rtCache, rt, v)
      BY <1>8, <2>1 DEF EndReduction
    <3>2. recent' = ToEnd(recent, rt) /\ ~Holds(rtCache, rt) /\ UNCHANGED costCache /\ pc' = "idle"
      BY <1>0, <1>8, <2>1 DEF EndReduction
    <3>3. CacheInv(Put(rtCache, rt, v), RTs)
      BY <1>0, <3>2, PutKeeps
    <3>4. rt \notin Keys(Latest(recent, Size(recent)))
      BY <1>0, <3>2 DEF CacheInv, Holds, RecentInv
    <3>5. Put(rtCache, rt, v).order =
              IF Len(rtCache.order) = MaxEntries THEN Tail(Append(rtCache.order, rt))
                                                 ELSE Append(rtCache.order, rt)
      BY <1>0, <3>2, PutKeeps
    <3>6. rtCache'.order = Latest(ToEnd(recent, rt), Size(ToEnd(recent, rt)))
      BY <1>0, <3>1, <3>4, <3>5, MissKeepsLatest DEF RecentInv
    <3>7. ToEnd(recent, rt) \in Seq(RTs) /\ Once(ToEnd(recent, rt))
      BY <1>0, EndsWithKey DEF RecentInv
    <3>8. RecentInv'
      BY <3>2, <3>6, <3>7 DEF RecentInv, Size, Latest, Once
    <3>9. CacheInv(rtCache, RTs)' /\ CacheInv(costCache, CostKeys)'
      BY <1>0, <3>1, <3>2, <3>3 DEF CacheInv
    <3>10. QED
      BY <3>2, <3>8, <3>9 DEF KeptInv
  <2>2. CASE pc # "evaluate_avg_rt"
    BY <1>1, <1>8, <2>2 DEF EndReduction
  <2>3. QED
    BY <2>1, <2>2
<1>9. QED
  BY <1>2, <1>3, <1>4, <1>5, <1>6, <1>7, <1>8 DEF Next

\* The caches keep their bound and the working set: for every size, 0 and 1 among them, the response
\* times that are cached are those of the configurations answered last.
THEOREM CachesKeepTheRecent == Spec => []KeepsTheRecent
<1>1. Inv /\ [Next]_vars => Inv'
  BY InvStep
<1>2. QED
  BY <1>1, InvInit, TypeInit, TypeStep, KeptInit, KeptStep, KeptMeansRecent, PTL DEF Spec
=============================================================================
