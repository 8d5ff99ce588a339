-------------------------- MODULE MCMemoizedModel --------------------------
(***************************************************************************)
(* Instances of MemoizedModel small enough for TLC.                        *)
(***************************************************************************)
EXTENDS MemoizedModel, TLC

CONSTANTS r1, r2, r3, m1, m2, w1, w2

\* One response time more than a cache has entries.
ThreeRTs == {r1, r2, r3}
TwoMems == {m1, m2}
TwoWeights == {w1, w2}
AllReaders == {"avg_rt", "approximations"}

\* Response times, memories and weights are names: nothing compares them but =.
Names == Permutations(ThreeRTs) \cup Permutations(TwoMems) \cup Permutations(TwoWeights)
=============================================================================
