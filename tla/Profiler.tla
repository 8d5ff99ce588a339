------------------------------ MODULE Profiler ------------------------------
(***************************************************************************)
(* Profiling one model of one function: FunctionPerformanceModeling.run    *)
(* (src/optiserve/modeling/function_model.py), the fitting loop of         *)
(* Optimizer (modeling/fitting.py), Sampler (profiling/sampler.py) and the *)
(* checkpoint (profiling/state.py) that a later process resumes from.      *)
(*                                                                         *)
(* Measuring one memory size ends as Measurement says it may.  What the    *)
(* fit makes of the durations is left open: the acquisition picks any      *)
(* unexplored memory, and the confidence test may pass once there are      *)
(* enough bumps of knowledge for it to pass at all.                        *)
(*                                                                         *)
(* A memory size is counted in memory_space_step's.  A memory space only   *)
(* ever loses its low end, so `floor` and `top` stand for it.              *)
(***************************************************************************)
EXTENDS Integers, FiniteSets, Functions

CONSTANTS
    Bounds,      \* memory_bounds a process may be started with
    FloorStep,   \* memory_floor_step_mb
    MaxTotal,    \* max_total_sample_count
    MaxDynamic,  \* max_dynamic_samples; 0 is noise_reduction=False
    Threshold,   \* knowledge_termination_threshold
    Durable,     \* a JsonCheckpointStore is in use, not the NullCheckpointStore
    Faults,      \* subset of {"load", "save"}: what the disk may refuse
    MaxRuns,     \* bound on the calls of run() in a behaviour
    MaxCrashes   \* bound on the deaths of the process

ASSUME ProfilerAssumption ==
    /\ Bounds \subseteq [floor : Nat \ {0}, top : Nat]
    /\ \A b \in Bounds : b.floor <= b.top
    /\ FloorStep \in Nat \ {0} /\ MaxTotal \in Nat /\ MaxDynamic \in Nat /\ Threshold \in Nat
    /\ Durable \in BOOLEAN /\ Faults \subseteq {"load", "save"}
    /\ MaxRuns \in Nat /\ MaxCrashes \in Nat

VARIABLES
    stage,      \* "down" (no process), "idle", "first", "second", "third", "fit", "loop", "done"
    step,       \* of update_exploration: "none", "measure", "sample" (dynamically), "save"
    probe,      \* memory_mb being explored, 0 when none is
    extra,      \* count of _explore_dynamically
    bounds,     \* memory_bounds of this process
    floor, top, \* memory_spaces[model]: the memories floor .. top
    explored,   \* memories in explorations[model]
    knowledge,  \* bumps that update_knowledge centred at each memory
    failure,    \* how the last run() failed
    ckpt,       \* the file of the checkpoint store
    infeasible, \* history: memories that proved infeasible in this run
    runs, crashes

spaceVars == <<bounds, floor, top>>
measureVars == <<step, probe, extra>>
vars == <<stage, step, probe, extra, bounds, floor, top, explored, knowledge, failure, ckpt,
          infeasible, runs, crashes>>

Memories == UNION {b.floor .. b.top : b \in Bounds}
Seeding == {"first", "second", "third"}
Running == stage \in Seeding \cup {"fit", "loop"}

TypeOK ==
    /\ stage \in Seeding \cup {"down", "idle", "fit", "loop", "done"}
    /\ step \in {"none", "measure", "sample", "save"}
    /\ step # "none" => stage \in Seeding \cup {"loop"}
    /\ probe \in Nat /\ (step = "none" <=> probe = 0)
    /\ step # "none" => floor <= probe /\ probe <= top
    /\ extra \in 0 .. MaxDynamic
    /\ bounds \in Bounds
    /\ floor \in Nat \ {0} /\ top \in Nat
    /\ (floor .. top) \cup (ckpt.floor .. ckpt.top) \subseteq Memories
    /\ explored \subseteq Memories
    /\ knowledge \in [Memories -> Nat]
    /\ failure \in {"none", "no_memory_left", "value_error", "infeasible", "invocation", "fit",
                    "disk", "interrupted"}
    /\ ckpt \in [samples : SUBSET Memories, floor : Nat \ {0}, top : Nat]
    /\ infeasible \subseteq Memories
    /\ runs \in 0 .. MaxRuns /\ crashes \in 0 .. MaxCrashes

NoCheckpoint == [samples |-> {}, floor |-> 1, top |-> 0]
NoKnowledge == [m \in Memories |-> 0]

Init ==
    /\ stage = "down" /\ step = "none" /\ probe = 0 /\ extra = 0
    /\ bounds \in Bounds /\ floor = bounds.floor /\ top = bounds.top
    /\ explored = {} /\ knowledge = NoKnowledge /\ failure = "none"
    /\ ckpt = NoCheckpoint /\ infeasible = {}
    /\ runs = 0 /\ crashes = 0

Size == top - floor + 1

Stops == step' = "none" /\ probe' = 0 /\ extra' = 0

\* An exception reaches the caller of run(), who may call it again.
Fail(f) == stage' = "idle" /\ failure' = f /\ Stops
-----------------------------------------------------------------------------
(* The process *)

\* FunctionPerformanceModeling is built.
Start ==
    /\ stage = "down"
    /\ stage' = "idle"
    /\ bounds' \in Bounds /\ floor' = bounds'.floor /\ top' = bounds'.top
    /\ explored' = {} /\ knowledge' = NoKnowledge /\ failure' = "none"
    /\ UNCHANGED <<measureVars, ckpt, infeasible, runs, crashes>>

\* The process dies or simply ends: what is not in the checkpoint is gone.
Crash ==
    /\ stage # "down" /\ crashes < MaxCrashes
    /\ stage' = "down" /\ Stops
    /\ crashes' = crashes + 1
    /\ UNCHANGED <<spaceVars, explored, knowledge, failure, ckpt, infeasible, runs>>

\* Faulty variant: a checkpoint is written but never read.
RunFromScratch ==
    /\ stage = "idle" /\ runs < MaxRuns
    /\ runs' = runs + 1 /\ failure' = "none" /\ infeasible' = {}
    /\ explored' = {} /\ stage' = "first"
    /\ UNCHANGED <<measureVars, spaceVars, knowledge, ckpt, crashes>>

\* run(), exploration_init and _try_resume: an unreadable checkpoint counts as none.
Run ==
    /\ stage = "idle" /\ runs < MaxRuns
    /\ runs' = runs + 1 /\ failure' = "none" /\ infeasible' = {}
    /\ \/ /\ ckpt.samples # {}
          /\ explored' = ckpt.samples /\ stage' = "fit"
          /\ IF ckpt.floor <= ckpt.top
             THEN floor' = ckpt.floor /\ top' = ckpt.top
             ELSE UNCHANGED <<floor, top>>
       \/ /\ ckpt.samples = {} \/ "load" \in Faults
          /\ explored' = {} /\ stage' = "first"
          /\ UNCHANGED <<floor, top>>
    /\ UNCHANGED <<measureVars, bounds, knowledge, ckpt, crashes>>

\* KeyboardInterrupt.
Interrupt ==
    /\ Running
    /\ Fail("interrupted")
    /\ UNCHANGED <<spaceVars, explored, knowledge, ckpt, infeasible, runs, crashes>>
-----------------------------------------------------------------------------
(* Measuring one memory: Sampler.update_exploration *)

Explore(m) ==
    /\ step = "none"
    /\ step' = "measure" /\ probe' = m
    /\ UNCHANGED <<stage, extra, spaceVars, explored, knowledge, failure, ckpt, infeasible, runs,
                   crashes>>

\* explore_multi_threading returned the samples.
Measured ==
    /\ step = "measure"
    /\ step' = "sample"
    /\ UNCHANGED <<stage, probe, extra, spaceVars, explored, knowledge, failure, ckpt, infeasible,
                   runs, crashes>>

\* _explore_dynamically invokes once more while the durations are noisy.
Invoking == step = "measure" \/ (step = "sample" /\ extra < MaxDynamic)

ExtraSample ==
    /\ step = "sample" /\ extra < MaxDynamic
    /\ extra' = extra + 1
    /\ UNCHANGED <<stage, step, probe, spaceVars, explored, knowledge, failure, ckpt, infeasible,
                   runs, crashes>>

\* Faulty variant: only smaller memories are dropped.
InfeasibleKept ==
    /\ Invoking
    /\ infeasible' = infeasible \cup {probe}
    /\ IF stage \in {"first", "loop"}
       THEN floor' = probe /\ Stops /\ UNCHANGED <<stage, failure>>
       ELSE Fail("infeasible") /\ UNCHANGED floor
    /\ UNCHANGED <<bounds, top, explored, knowledge, ckpt, runs, crashes>>

\* NotEnoughMemory: the first configuration and the loop raise the floor of the memory space, and
\* nothing of that is saved; the other two seeds let it through.
Infeasible ==
    /\ Invoking
    /\ infeasible' = infeasible \cup {probe}
    /\ IF stage \in {"first", "loop"}
       THEN floor' = probe + FloorStep /\ Stops /\ UNCHANGED <<stage, failure>>
       ELSE Fail("infeasible") /\ UNCHANGED floor
    /\ UNCHANGED <<bounds, top, explored, knowledge, ckpt, runs, crashes>>

\* Any other error of a configuration update or an invocation.
InvocationFails ==
    /\ Invoking
    /\ Fail("invocation")
    /\ UNCHANGED <<spaceVars, explored, knowledge, ckpt, infeasible, runs, crashes>>

\* The durations are steady, or there have been enough of them.
Record ==
    /\ step = "sample"
    /\ explored' = explored \cup {probe}
    /\ step' = "save"
    /\ UNCHANGED <<stage, probe, extra, spaceVars, knowledge, failure, ckpt, infeasible, runs,
                   crashes>>

\* JsonCheckpointStore.save replaces the file in one step.
Checkpoint ==
    IF Durable THEN ckpt' = [samples |-> explored, floor |-> floor, top |-> top]
    ELSE UNCHANGED ckpt

SaveFails ==
    /\ step = "save" /\ Durable /\ "save" \in Faults
    /\ Fail("disk")
    /\ UNCHANGED <<spaceVars, explored, knowledge, ckpt, infeasible, runs, crashes>>
-----------------------------------------------------------------------------
(* Seeding: Sampler.exploration_init and _explore_first_config *)

\* memory_space[ceil(n / 3)]
SecondSeed == floor + (Size + 2) \div 3

Seed ==
    \/ stage = "first" /\ Size >= 3 /\ Explore(floor)
    \/ stage = "second" /\ Explore(SecondSeed)
    \/ stage = "third" /\ Explore(top)

\* NoMemoryLeft: too few memories to seed.
TooFewToSeed ==
    /\ stage = "first" /\ step = "none" /\ Size < 3
    /\ Fail("no_memory_left")
    /\ UNCHANGED <<spaceVars, explored, knowledge, ckpt, infeasible, runs, crashes>>

\* Faulty variant: the checkpoint is written once, when seeding is complete.
SeedSavedAtTheEnd ==
    /\ stage \in Seeding /\ step = "save"
    /\ IF stage = "third" THEN Checkpoint ELSE UNCHANGED ckpt
    /\ stage' = CASE stage = "first" -> "second" [] stage = "second" -> "third" [] OTHER -> "fit"
    /\ Stops
    /\ UNCHANGED <<spaceVars, explored, knowledge, failure, infeasible, runs, crashes>>

\* Faulty variant: having explored the first configuration does not end its loop.
SeedSavedWithoutReturn ==
    /\ stage \in Seeding /\ step = "save"
    /\ Checkpoint
    /\ stage' = CASE stage = "second" -> "third" [] stage = "third" -> "fit" [] OTHER -> stage
    /\ Stops
    /\ UNCHANGED <<spaceVars, explored, knowledge, failure, infeasible, runs, crashes>>

SeedSaved ==
    /\ stage \in Seeding /\ step = "save"
    /\ Checkpoint
    /\ stage' = CASE stage = "first" -> "second" [] stage = "second" -> "third" [] OTHER -> "fit"
    /\ Stops
    /\ UNCHANGED <<spaceVars, explored, knowledge, failure, infeasible, runs, crashes>>
-----------------------------------------------------------------------------
(* The fitting loop: Optimizer *)

\* curve_fit converges, or _update and _initialize raise RuntimeError.
Fit == \/ stage' = "loop" /\ UNCHANGED failure /\ Stops
       \/ Fail("fit")

\* The rest of _initialize.
Initialize ==
    /\ stage = "fit"
    /\ knowledge' = [m \in Memories |-> knowledge[m] + IF m \in explored THEN 1 ELSE 0]
    /\ Fit
    /\ UNCHANGED <<spaceVars, explored, ckpt, infeasible, runs, crashes>>

\* The rest of _update.
LoopSaved ==
    /\ stage = "loop" /\ step = "save"
    /\ Checkpoint
    /\ knowledge' = [knowledge EXCEPT ![probe] = @ + 1]
    /\ Fit
    /\ UNCHANGED <<spaceVars, explored, infeasible, runs, crashes>>

Looping == stage = "loop" /\ step = "none"

\* The termination value is 1 plus the bumps as seen from the cheapest memory, at most 1 each.
MayBeConfident == FoldFunction(+, 0, knowledge) >= Threshold

Enough == Cardinality(explored) > MaxTotal

Finish ==
    /\ Looping /\ floor <= top
    /\ Enough \/ MayBeConfident
    /\ stage' = "done"
    /\ UNCHANGED <<measureVars, spaceVars, explored, knowledge, failure, ckpt, infeasible, runs,
                   crashes>>

\* Faulty variant: observations are not counted.
SelectUncounted ==
    /\ Looping
    /\ \E m \in floor .. top \ explored : Explore(m)

\* Faulty variant: memories measured before the restart are not left out.
SelectAnything ==
    /\ Looping /\ ~Enough
    /\ \E m \in floor .. top : Explore(m)

\* _select_next_memory_to_explore
Select ==
    /\ Looping /\ ~Enough
    /\ \E m \in floor .. top \ explored : Explore(m)

Exhausted ==
    /\ Looping /\ floor <= top /\ ~Enough
    /\ floor .. top \subseteq explored
    /\ Fail("no_memory_left")
    /\ UNCHANGED <<spaceVars, explored, knowledge, ckpt, infeasible, runs, crashes>>

\* termination_value takes the argmin of an empty array.
EmptySpace ==
    /\ Looping /\ floor > top
    /\ Fail("value_error")
    /\ UNCHANGED <<spaceVars, explored, knowledge, ckpt, infeasible, runs, crashes>>

Stopped ==
    /\ stage = "done" \/ (stage = "idle" /\ runs = MaxRuns)
    /\ UNCHANGED vars

RunStep ==
    \/ Measured \/ ExtraSample \/ Infeasible \/ InvocationFails \/ Record \/ SaveFails
    \/ Seed \/ TooFewToSeed \/ SeedSaved
    \/ Initialize \/ LoopSaved \/ Finish \/ Select \/ Exhausted \/ EmptySpace

Next == RunStep \/ Start \/ Run \/ Interrupt \/ Crash \/ Stopped

Spec == Init /\ [][Next]_vars

\* Fairness: run() is one thread of the process, and every measurement ends (InvocationPool).
FairSpec == Spec /\ WF_vars(RunStep)
-----------------------------------------------------------------------------
(* Correctness *)

\* A configuration that is in the checkpoint is never measured again, whichever process, seed or
\* iteration comes next: "re-running a completed configuration is a checkpoint hit"
\* (docs/TARGET_ARCHITECTURE.md:262).
NoRepay == step \in {"measure", "sample"} => probe \notin ckpt.samples

\* A crash costs at most the configuration in flight: all others this process measured are in the
\* file (sampler.py:232).
AtMostOneAtRisk ==
    Durable => \A m, n \in explored \ ckpt.samples : m = n

\* The file only gains: each save adds one measured configuration and never gives back a memory
\* that was pruned, also when it comes from a retry or another process.
ProgressIsKept ==
    [][ /\ \E m \in Memories \ ckpt.samples : ckpt'.samples = ckpt.samples \cup {m}
        /\ ckpt.samples # {} => ckpt'.floor >= ckpt.floor /\ ckpt'.top = ckpt.top ]_ckpt

\* The sample budget is exceeded by at most one configuration, counted over every process that
\* contributed (fitting.py:117-135).
BudgetHolds == Cardinality(explored) <= MaxTotal + 1

\* A memory that proved infeasible is not probed again in the same run, by whatever seed or
\* iteration (sampler.py:170-188, fitting.py:152-154).
NeverReprobed == step \in {"measure", "sample"} => probe \notin infeasible

\* Nor in a later run of the same process: what it pruned stays pruned (fitting.py:152-154).
PruneIsKept == [][floor' < floor => stage = "down"]_vars

\* run() ends, however the memory space shrinks.
RunEnds == Running ~> ~Running

=============================================================================
