--------------------------- MODULE ProfilerProofs ---------------------------
(***************************************************************************)
(* For every memory space, budget and number of crashes: nothing in the    *)
(* checkpoint is measured again, a crash loses at most one memory, what    *)
(* proved infeasible is not probed again, and the budget holds.            *)
(***************************************************************************)
EXTENDS Profiler, FiniteSetTheorems, TLAPS

\* The disk answers reads; it may still refuse a save.
Readable == "load" \notin Faults

\* Where each stage's probe is, and what was explored before it.
SeedInv ==
    /\ stage = "first" /\ step # "save" => explored = {}
    /\ stage = "first" /\ step = "save" => explored = {probe}
    /\ stage = "first" /\ step # "none" => Size >= 3 /\ probe = floor
    /\ stage \in {"second", "third"} => Size >= 3
    /\ stage = "second" /\ step # "save" => explored = {floor}
    /\ stage = "second" /\ step = "save" => explored = {floor, SecondSeed}
    /\ stage = "second" /\ step # "none" => probe = SecondSeed
    /\ stage = "third" /\ step # "save" => explored = {floor, SecondSeed}
    /\ stage = "third" /\ step = "save" => explored = {floor, SecondSeed, top}
    /\ stage = "third" /\ step # "none" => probe = top
    /\ step \in {"measure", "sample"} => probe \notin explored
    /\ step = "save" => probe \in explored

\* The file against the process.
CheckpointInv ==
    /\ ~Durable => ckpt.samples = {}
    /\ Durable /\ Running /\ step # "save" => explored \subseteq ckpt.samples
    /\ Durable /\ Running /\ step = "save" => explored \subseteq ckpt.samples \cup {probe}
    /\ ckpt.samples # {} => ckpt.floor <= ckpt.top

\* What a readable file adds: a process that runs has loaded all of it.
LoadedInv ==
    Durable /\ Running =>
        /\ ckpt.samples \subseteq explored
        /\ step = "save" => probe \notin ckpt.samples
        /\ ckpt.samples # {} => floor >= ckpt.floor /\ top = ckpt.top

Inv == TypeOK /\ SeedInv /\ CheckpointInv /\ AtMostOneAtRisk

\* In a space of three memories or more the three seeds are different memories of it.
LEMMA SeedsAreDistinct ==
    ASSUME floor \in Nat \ {0}, top \in Nat, Size >= 3
    PROVE  /\ floor \in floor .. top /\ SecondSeed \in floor .. top /\ top \in floor .. top
           /\ floor < SecondSeed /\ SecondSeed < top
  BY DEF Size, SecondSeed

LEMMA InvInit == Init => Inv
<1> SUFFICES ASSUME Init PROVE Inv
  OBVIOUS
<1>1. bounds \in Bounds /\ bounds.floor \in Nat \ {0} /\ bounds.top \in Nat
  BY ProfilerAssumption DEF Init, ProfilerAssumption
<1>2. bounds.floor .. bounds.top \subseteq Memories
  BY <1>1 DEF Memories
<1>3. TypeOK
  BY <1>1, <1>2, ProfilerAssumption
  DEF Init, TypeOK, NoKnowledge, NoCheckpoint, ProfilerAssumption, Seeding
<1>4. QED
  BY <1>3 DEF Init, Inv, SeedInv, CheckpointInv, AtMostOneAtRisk, NoCheckpoint, Running, Seeding

LEMMA TypeStep == Inv /\ [Next]_vars => TypeOK'
<1> SUFFICES ASSUME Inv, [Next]_vars PROVE TypeOK'
  OBVIOUS
<1> USE ProfilerAssumption DEF ProfilerAssumption, Inv, TypeOK, Seeding, Stops, Fail, Fit,
        spaceVars, measureVars
<1>1. CASE Start
  <2>1. bounds' \in Bounds /\ bounds'.floor \in Nat \ {0} /\ bounds'.top \in Nat
    BY <1>1 DEF Start
  <2>2. bounds'.floor .. bounds'.top \subseteq Memories
    BY <2>1 DEF Memories
  <2>3. QED
    BY <1>1, <2>1, <2>2 DEF Start, NoKnowledge
<1>2. CASE Crash
  BY <1>2 DEF Crash
<1>3. CASE Run
  <2>1. ckpt.samples \subseteq Memories /\ ckpt.floor \in Nat \ {0} /\ ckpt.top \in Nat
    OBVIOUS
  <2>2. QED
    BY <1>3, <2>1 DEF Run
<1>4. CASE Interrupt
  BY <1>4 DEF Interrupt
<1>5. CASE Measured
  BY <1>5 DEF Measured
<1>6. CASE ExtraSample
  BY <1>6 DEF ExtraSample
<1>7. CASE Infeasible
  BY <1>7 DEF Infeasible, Invoking
<1>8. CASE InvocationFails
  BY <1>8 DEF InvocationFails
<1>9. CASE Record
  BY <1>9 DEF Record
<1>10. CASE SaveFails
  BY <1>10 DEF SaveFails
<1>11. CASE Seed
  BY <1>11, SeedsAreDistinct DEF Seed, Explore, SeedInv
<1>12. CASE TooFewToSeed
  BY <1>12 DEF TooFewToSeed
<1>13. CASE SeedSaved
  BY <1>13 DEF SeedSaved, Checkpoint
<1>14. CASE Initialize
  BY <1>14 DEF Initialize
<1>15. CASE LoopSaved
  BY <1>15 DEF LoopSaved, Checkpoint
<1>16. CASE Finish
  BY <1>16 DEF Finish, Looping
<1>17. CASE Select
  BY <1>17 DEF Select, Looping, Explore
<1>18. CASE Exhausted
  BY <1>18 DEF Exhausted
<1>19. CASE EmptySpace
  BY <1>19 DEF EmptySpace
<1>20. CASE Stopped \/ UNCHANGED vars
  BY <1>20 DEF Stopped, vars
<1>21. QED
  BY <1>1, <1>2, <1>3, <1>4, <1>5, <1>6, <1>7, <1>8, <1>9, <1>10, <1>11, <1>12, <1>13, <1>14,
     <1>15, <1>16, <1>17, <1>18, <1>19, <1>20 DEF Next, RunStep

LEMMA InvStep == Inv /\ [Next]_vars => Inv'
<1> SUFFICES ASSUME Inv, [Next]_vars PROVE SeedInv' /\ CheckpointInv' /\ AtMostOneAtRisk'
  BY TypeStep DEF Inv
<1> USE DEF Inv, TypeOK, SeedInv, CheckpointInv, AtMostOneAtRisk, Running, Seeding, Stops, Fail,
        Fit, spaceVars, measureVars, Size, SecondSeed
<1>1. CASE Start \/ Crash
  BY <1>1 DEF Start, Crash
<1>3. CASE Run
  BY <1>3 DEF Run
<1>4. CASE Interrupt \/ InvocationFails \/ SaveFails \/ TooFewToSeed \/ Exhausted \/ EmptySpace
  BY <1>4 DEF Interrupt, InvocationFails, SaveFails, TooFewToSeed, Exhausted, EmptySpace
<1>5. CASE Measured \/ ExtraSample
  BY <1>5 DEF Measured, ExtraSample
<1>7. CASE Infeasible
  BY <1>7, ProfilerAssumption DEF Infeasible, Invoking, ProfilerAssumption
<1>9. CASE Record
  BY <1>9 DEF Record
<1>11. CASE Seed
  BY <1>11, SeedsAreDistinct DEF Seed, Explore
<1>13. CASE SeedSaved
  BY <1>13, SeedsAreDistinct DEF SeedSaved, Checkpoint
<1>14. CASE Initialize
  BY <1>14 DEF Initialize
<1>15. CASE LoopSaved
  BY <1>15 DEF LoopSaved, Checkpoint
<1>16. CASE Finish
  BY <1>16 DEF Finish, Looping
<1>17. CASE Select
  BY <1>17 DEF Select, Looping, Explore
<1>20. CASE Stopped \/ UNCHANGED vars
  BY <1>20 DEF Stopped, vars
<1>21. QED
  BY <1>1, <1>3, <1>4, <1>5, <1>7, <1>9, <1>11, <1>13, <1>14,
     <1>15, <1>16, <1>17, <1>20 DEF Next, RunStep

\* The inductive invariant holds throughout.
THEOREM ProfilerInvariant == Spec => []Inv
  BY InvInit, InvStep, PTL DEF Spec

\* Types, for every memory space and budget.
THEOREM ProfilerTypeCorrect == Spec => []TypeOK
<1>1. Inv => TypeOK
  BY DEF Inv
<1>2. QED
  BY <1>1, ProfilerInvariant, PTL

\* A crash costs at most one measured memory.
THEOREM CrashCostsOne == Spec => []AtMostOneAtRisk
<1>1. Inv => AtMostOneAtRisk
  BY DEF Inv
<1>2. QED
  BY <1>1, ProfilerInvariant, PTL
-----------------------------------------------------------------------------
(***************************************************************************)
(* A readable file is loaded whole, so it is never measured or written     *)
(* again for less.                                                         *)
(***************************************************************************)
LEMMA LoadedInit == Init => LoadedInv
  BY DEF Init, LoadedInv, Running, Seeding

LEMMA LoadedStep ==
    ASSUME Readable, Inv, LoadedInv, [Next]_vars
    PROVE  LoadedInv'
<1> USE DEF Readable, Inv, TypeOK, SeedInv, CheckpointInv, LoadedInv, Running, Seeding, Stops, Fail,
        Fit, spaceVars, measureVars, Size, SecondSeed
<1>1. CASE Start \/ Crash
  BY <1>1 DEF Start, Crash
<1>2. CASE Run
  BY <1>2 DEF Run
<1>3. CASE Interrupt \/ InvocationFails \/ SaveFails \/ TooFewToSeed \/ Exhausted \/ EmptySpace
  BY <1>3 DEF Interrupt, InvocationFails, SaveFails, TooFewToSeed, Exhausted, EmptySpace
<1>4. CASE Measured \/ ExtraSample
  BY <1>4 DEF Measured, ExtraSample
<1>5. CASE Infeasible
  BY <1>5, ProfilerAssumption DEF Infeasible, Invoking, ProfilerAssumption
<1>6. CASE Record
  BY <1>6 DEF Record
<1>7. CASE Seed
  BY <1>7 DEF Seed, Explore
<1>8. CASE SeedSaved
  BY <1>8 DEF SeedSaved, Checkpoint
<1>9. CASE Initialize
  BY <1>9 DEF Initialize
<1>10. CASE LoopSaved
  BY <1>10 DEF LoopSaved, Checkpoint
<1>11. CASE Finish \/ Select
  BY <1>11 DEF Finish, Looping, Select, Explore
<1>12. CASE Stopped \/ UNCHANGED vars
  BY <1>12 DEF Stopped, vars
<1>13. QED
  BY <1>1, <1>2, <1>3, <1>4, <1>5, <1>6, <1>7, <1>8, <1>9, <1>10, <1>11, <1>12 DEF Next, RunStep

\* Nothing that is in the checkpoint is measured again.
THEOREM NothingIsRepaid ==
    ASSUME Readable
    PROVE  Spec => []NoRepay
<1>1. Inv /\ LoadedInv => NoRepay
  BY DEF Inv, TypeOK, SeedInv, CheckpointInv, LoadedInv, NoRepay, Running
<1>2. Inv /\ LoadedInv /\ [Next]_vars => LoadedInv'
  BY LoadedStep
<1>3. QED
  BY <1>1, <1>2, LoadedInit, ProfilerInvariant, PTL DEF Spec

\* A save adds one measured memory to the file and takes nothing from it.
LEMMA SaveAddsOne ==
    ASSUME Inv, LoadedInv, [Next]_vars, ckpt' # ckpt
    PROVE  /\ \E m \in Memories \ ckpt.samples : ckpt'.samples = ckpt.samples \cup {m}
           /\ ckpt.samples # {} => ckpt'.floor >= ckpt.floor /\ ckpt'.top = ckpt.top
<1>1. SeedSaved \/ LoopSaved
  BY DEF Next, RunStep, Start, Crash, Run, Interrupt, Measured, ExtraSample, Infeasible,
     InvocationFails, Record, SaveFails, Seed, TooFewToSeed, Explore, Initialize, Finish, Select,
     Exhausted, EmptySpace, Stopped, vars
<1>2. /\ step = "save" /\ Durable /\ Running
      /\ ckpt' = [samples |-> explored, floor |-> floor, top |-> top]
  BY <1>1 DEF SeedSaved, LoopSaved, Checkpoint, Running
<1>3. probe \in Memories /\ probe \notin ckpt.samples /\ probe \in explored
  BY <1>2 DEF Inv, TypeOK, LoadedInv, SeedInv
<1>4. explored = ckpt.samples \cup {probe}
  BY <1>2, <1>3 DEF Inv, CheckpointInv, LoadedInv
<1>5. ckpt.samples # {} => floor >= ckpt.floor /\ top = ckpt.top
  BY <1>2 DEF LoadedInv
<1>6. QED
  BY <1>2, <1>3, <1>4, <1>5

\* What was measured and pruned stays in the file.
THEOREM ProgressKept ==
    ASSUME Readable
    PROVE  Spec => ProgressIsKept
<1>1. Inv /\ LoadedInv /\ [Next]_vars => LoadedInv'
  BY LoadedStep
<1>2. Inv /\ LoadedInv /\ [Next]_vars =>
        [/\ \E m \in Memories \ ckpt.samples : ckpt'.samples = ckpt.samples \cup {m}
         /\ ckpt.samples # {} => ckpt'.floor >= ckpt.floor /\ ckpt'.top = ckpt.top]_ckpt
  BY SaveAddsOne
<1>3. QED
  BY <1>1, <1>2, LoadedInit, ProfilerInvariant, PTL DEF Spec, ProgressIsKept
-----------------------------------------------------------------------------
(***************************************************************************)
(* What was found infeasible lies below the floor for the rest of the run. *)
(***************************************************************************)
PrunedInv == Running => \A m \in infeasible : m < floor

LEMMA PrunedStep == Inv /\ PrunedInv /\ [Next]_vars => PrunedInv'
<1> SUFFICES ASSUME Inv, PrunedInv, [Next]_vars PROVE PrunedInv'
  OBVIOUS
<1> USE ProfilerAssumption DEF ProfilerAssumption, Inv, TypeOK, PrunedInv, Running, Seeding, Stops,
        Fail, Fit, spaceVars, measureVars
<1>1. CASE Start \/ Crash \/ Run
  BY <1>1 DEF Start, Crash, Run
<1>2. CASE Interrupt \/ InvocationFails \/ SaveFails \/ TooFewToSeed \/ Exhausted \/ EmptySpace
  BY <1>2 DEF Interrupt, InvocationFails, SaveFails, TooFewToSeed, Exhausted, EmptySpace
<1>3. CASE Measured \/ ExtraSample \/ Record
  BY <1>3 DEF Measured, ExtraSample, Record
<1>4. CASE Infeasible
  <2>1. CASE stage \in {"first", "loop"}
    <3>1. /\ probe \in Nat /\ floor \in Nat /\ floor <= probe
          /\ floor' = probe + FloorStep /\ infeasible' = infeasible \cup {probe} /\ stage' = stage
      BY <1>4, <2>1 DEF Infeasible, Invoking
    <3>2. \A m \in infeasible : m < floor /\ m \in Nat
      BY <2>1, ProfilerAssumption DEF Memories
    <3>3. QED
      BY <3>1, <3>2
  <2>2. CASE stage \notin {"first", "loop"}
    BY <1>4, <2>2 DEF Infeasible
  <2>3. QED
    BY <2>1, <2>2
<1>5. CASE Seed \/ Select
  BY <1>5 DEF Seed, Select, Explore, Looping
<1>6. CASE SeedSaved \/ LoopSaved \/ Initialize \/ Finish
  BY <1>6 DEF SeedSaved, LoopSaved, Initialize, Finish, Looping
<1>7. CASE Stopped \/ UNCHANGED vars
  BY <1>7 DEF Stopped, vars
<1>8. QED
  BY <1>1, <1>2, <1>3, <1>4, <1>5, <1>6, <1>7 DEF Next, RunStep

\* A memory that proved infeasible is not probed again in the same run.
THEOREM PrunedIsNotReprobed == Spec => []NeverReprobed
<1>1. Init => PrunedInv
  BY DEF Init, PrunedInv
<1>2. Inv /\ PrunedInv => NeverReprobed
  <2> SUFFICES ASSUME Inv, PrunedInv, step \in {"measure", "sample"}, probe \in infeasible
               PROVE  FALSE
    BY DEF NeverReprobed
  <2>1. Running /\ floor <= probe /\ probe \in Nat /\ floor \in Nat
    BY DEF Inv, TypeOK, Running
  <2>2. QED
    BY <2>1 DEF PrunedInv
<1>3. QED
  BY <1>1, <1>2, PrunedStep, ProfilerInvariant, PTL DEF Spec
-----------------------------------------------------------------------------
(***************************************************************************)
(* The sample budget, counted over every process that contributed.         *)
(***************************************************************************)

\* Seeding takes three configurations whatever the budget is.
Seedable == MaxTotal >= 2

AtMost(S, n) == IsFiniteSet(S) /\ Cardinality(S) <= n

BudgetInv ==
    /\ AtMost(explored, MaxTotal + 1) /\ AtMost(ckpt.samples, MaxTotal + 1)
    /\ stage = "loop" /\ step \in {"measure", "sample"} => AtMost(explored, MaxTotal)

LEMMA AtMostOneMore ==
    ASSUME NEW S, NEW x, NEW n \in Nat, AtMost(S, n)
    PROVE  AtMost(S \cup {x}, n + 1)
<1>1. IsFiniteSet(S) /\ Cardinality(S) <= n
  BY DEF AtMost
<1>2. Cardinality(S) \in Nat
  BY <1>1, FS_CardinalityType
<1>3. /\ IsFiniteSet(S \cup {x})
      /\ Cardinality(S \cup {x}) = Cardinality(S) \/ Cardinality(S \cup {x}) = Cardinality(S) + 1
  BY <1>1, FS_AddElement
<1>4. QED
  BY <1>1, <1>2, <1>3 DEF AtMost

LEMMA AtMostThree == ASSUME NEW x, NEW y, NEW z PROVE AtMost({x, y, z}, 3)
<1>1. IsFiniteSet({x}) /\ Cardinality({x}) = 1
  BY FS_Singleton
<1>2. /\ IsFiniteSet({x} \cup {y}) /\ Cardinality({x} \cup {y}) \in Nat
      /\ Cardinality({x} \cup {y}) <= 2
  BY <1>1, FS_AddElement
<1>3. /\ IsFiniteSet(({x} \cup {y}) \cup {z})
      /\ Cardinality(({x} \cup {y}) \cup {z}) <= 3
  BY <1>2, FS_AddElement
<1>4. ({x} \cup {y}) \cup {z} = {x, y, z}
  OBVIOUS
<1>5. QED
  BY <1>3, <1>4 DEF AtMost

LEMMA BudgetStep ==
    ASSUME Seedable, Inv, BudgetInv, [Next]_vars
    PROVE  BudgetInv'
<1> USE ProfilerAssumption DEF ProfilerAssumption, BudgetInv, Stops, Fail, Fit, spaceVars,
        measureVars
<1>1. CASE Start
  BY <1>1, FS_EmptySet DEF Start, AtMost
<1>2. CASE Run
  BY <1>2, FS_EmptySet DEF Run, AtMost
<1>3. CASE Interrupt \/ InvocationFails \/ SaveFails \/ TooFewToSeed \/ Exhausted \/ EmptySpace
  BY <1>3 DEF Interrupt, InvocationFails, SaveFails, TooFewToSeed, Exhausted, EmptySpace, AtMost
<1>4. CASE Crash \/ Measured \/ ExtraSample \/ Infeasible
  BY <1>4 DEF Crash, Measured, ExtraSample, Infeasible, Invoking, AtMost
<1>5. CASE Record
  <2>1. /\ step = "sample" /\ explored' = explored \cup {probe} /\ step' = "save"
        /\ UNCHANGED <<stage, ckpt>>
    BY <1>5 DEF Record
  <2>2. CASE stage = "loop"
    BY <2>1, <2>2, AtMostOneMore DEF AtMost
  <2>3. CASE stage # "loop"
    <3>1. \/ explored = {} \/ explored = {floor} \/ explored = {floor, SecondSeed}
      BY <2>1, <2>3 DEF Inv, TypeOK, SeedInv, Seeding
    <3>2. \E x, y : explored' = {x, y, probe}
      <4>1. CASE explored = {}
        <5>1. explored' = {probe, probe, probe}
          BY <2>1, <4>1
        <5>2. QED
          BY <5>1
      <4>2. CASE explored = {floor}
        <5>1. explored' = {floor, floor, probe}
          BY <2>1, <4>2
        <5>2. QED
          BY <5>1
      <4>3. CASE explored = {floor, SecondSeed}
        <5>1. explored' = {floor, SecondSeed, probe}
          BY <2>1, <4>3
        <5>2. QED
          BY <5>1
      <4>4. QED
        BY <3>1, <4>1, <4>2, <4>3
    <3>3. PICK x, y : explored' = {x, y, probe}
      BY <3>2
    <3>4. AtMost({x, y, probe}, 3)
      BY AtMostThree
    <3>5. AtMost({x, y, probe}, MaxTotal + 1)
      BY <3>4, FS_CardinalityType DEF AtMost, Seedable
    <3>6. QED
      BY <2>1, <2>3, <3>3, <3>5 DEF AtMost
  <2>4. QED
    BY <2>2, <2>3
<1>6. CASE Seed
  BY <1>6 DEF Seed, Explore, AtMost
<1>7. CASE Select
  <2>1. /\ ~Enough /\ step' = "measure" /\ UNCHANGED <<stage, explored, ckpt>>
    BY <1>7 DEF Select, Explore
  <2>2. Cardinality(explored) \in Nat /\ AtMost(explored, MaxTotal)
    BY <2>1, FS_CardinalityType DEF Enough, AtMost
  <2>3. QED
    BY <2>1, <2>2 DEF AtMost
<1>8. CASE SeedSaved \/ LoopSaved
  BY <1>8 DEF SeedSaved, LoopSaved, Checkpoint, AtMost
<1>9. CASE Initialize \/ Finish
  BY <1>9 DEF Initialize, Finish, Looping, AtMost
<1>10. CASE Stopped \/ UNCHANGED vars
  BY <1>10 DEF Stopped, vars, AtMost
<1>11. QED
  BY <1>1, <1>2, <1>3, <1>4, <1>5, <1>6, <1>7, <1>8, <1>9, <1>10 DEF Next, RunStep

\* When the budget covers the seeds, no process, and no sequence of resumed processes, measures more
\* than one configuration past it: the loop stops above the budget, not at it (fitting.py:133).
THEOREM BudgetIsKept ==
    ASSUME Seedable
    PROVE  Spec => []BudgetHolds
<1>1. Init => BudgetInv
  BY FS_EmptySet, ProfilerAssumption
  DEF Init, BudgetInv, AtMost, NoCheckpoint, ProfilerAssumption
<1>2. Inv /\ BudgetInv /\ [Next]_vars => BudgetInv'
  BY BudgetStep
<1>3. BudgetInv => BudgetHolds
  BY DEF BudgetInv, AtMost, BudgetHolds
<1>4. QED
  BY <1>1, <1>2, <1>3, ProfilerInvariant, PTL DEF Spec
-----------------------------------------------------------------------------
(***************************************************************************)
(* Why run() ends: the part of RunEnds that needs no fairness.  A turn of  *)
(* the seeding or the fitting loop prunes memories that were never pruned, *)
(* explores one that was never explored, or goes on towards doing so.      *)
(***************************************************************************)
StageRank == CASE stage = "first"  -> 1
               [] stage = "second" -> 2
               [] stage = "third"  -> 3
               [] stage = "fit"    -> 4
               [] OTHER            -> 5

StepRank == CASE step = "save"    -> 1
              [] step = "none"    -> 2
              [] step = "measure" -> 3
              [] OTHER            -> 4

RunAdvances ==
    Running /\ Running' =>
        /\ RunStep /\ UNCHANGED top
        /\ \/ floor < floor' /\ floor' <= top + FloorStep /\ UNCHANGED explored
           \/ UNCHANGED floor /\ explored \subseteq explored' /\ explored # explored'
           \/ UNCHANGED <<floor, explored>> /\ StageRank < StageRank'
           \/ UNCHANGED <<floor, explored, stage>> /\ StepRank < StepRank'
           \/ /\ UNCHANGED <<floor, explored, stage, step>>
              /\ extra < extra' /\ extra' <= MaxDynamic

\* Every step of a run that goes on raises the floor of the memory space, explores a memory that was
\* not explored, or comes nearer to either: none of it is ever given back, so a run over finitely many
\* memories ends (fitting.py:117-172, sampler.py:130-190).
THEOREM EveryStepAdvances == Spec => [][RunAdvances]_vars
<1>1. Inv /\ [Next]_vars => RunAdvances \/ UNCHANGED vars
  <2> SUFFICES ASSUME Inv, Next, Running, Running' PROVE RunAdvances
    BY DEF RunAdvances
  <2> USE ProfilerAssumption DEF ProfilerAssumption, Inv, TypeOK, Running, Seeding, Stops, Fail,
          RunAdvances, spaceVars, measureVars
  <2>1. CASE Measured \/ ExtraSample
    BY <2>1 DEF Measured, ExtraSample, StepRank, RunStep
  <2>2. CASE Infeasible
    BY <2>2 DEF Infeasible, Invoking, RunStep
  <2>3. CASE InvocationFails \/ SaveFails \/ TooFewToSeed \/ Exhausted \/ EmptySpace \/ Finish
    BY <2>3 DEF InvocationFails, SaveFails, TooFewToSeed, Exhausted, EmptySpace, Finish
  <2>4. CASE Record
    <3>1. probe \notin explored
      BY <2>4 DEF Record, SeedInv
    <3>. QED
      BY <2>4, <3>1 DEF Record, RunStep
  <2>5. CASE Seed \/ Select
    BY <2>5 DEF Seed, Select, Explore, StepRank, RunStep
  <2>6. CASE SeedSaved
    BY <2>6 DEF SeedSaved, StageRank, RunStep
  <2>7. CASE Initialize
    BY <2>7 DEF Initialize, Fit, StageRank, RunStep
  <2>8. CASE LoopSaved
    BY <2>8 DEF LoopSaved, Fit, StepRank, RunStep
  <2>9. CASE Start \/ Run \/ Interrupt \/ Crash \/ Stopped
    BY <2>9 DEF Start, Run, Interrupt, Crash, Stopped
  <2>. QED
    BY <2>1, <2>2, <2>3, <2>4, <2>5, <2>6, <2>7, <2>8, <2>9 DEF Next, RunStep
<1>. QED
  BY <1>1, ProfilerInvariant, PTL DEF Spec
=============================================================================
