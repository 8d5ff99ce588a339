------------------------ MODULE InvocationPoolProofs ------------------------
(***************************************************************************)
(* For every number of invocations, threads, attempts and resends: the     *)
(* pool implements Measurement, never repeats an execution, leaves nothing *)
(* running behind, and every step brings a measurement nearer to its end.  *)
(***************************************************************************)
EXTENDS InvocationPool, TLAPS

USE DEF taskVars, mainVars, Pool, Tasks, M!Pool, M!Tasks, Active

\* Each task for itself.
TaskInv ==
    \A t \in Tasks :
        /\ state[t] \in {"queued", "running"} => attempts[t] < MaxAttempts
        /\ state[t] # "done" => result[t] = "none" /\ executions[t] <= resends[t]
        /\ executions[t] <= resends[t] + 1
        /\ result[t] = "exhausted" => executions[t] <= resends[t]

\* The pool exists only after a successful warm-up, and an interrupt before it ends the call.
PhaseInv ==
    /\ phase \in {"configure", "warmup"} => interrupts = 0 /\ verdict = "none"
                                            /\ \A t \in Pool : state[t] = "queued"
    /\ phase = "configure" => state[0] = "queued"
    /\ phase = "warmup" /\ state[0] = "done" => result[0] # "none"
    /\ phase = "collect" => result[0] = "ok" /\ verdict = "none"
    /\ phase = "ended" => verdict # "none"
    /\ interrupts > 1 => phase = "ended"
    /\ interrupts > 1 \/ (\E t \in Pool : state[t] # "queued") => result[0] = "ok"
    /\ result[0] # "none" => state[0] = "done"

\* A pool task is done exactly when it has a result; interrupts aside.
DoneInv == \A t \in Pool : state[t] = "done" => result[t] # "none"

\* What was folded from the futures taken so far.
FoldInv ==
    /\ \A t \in collected : state[t] = "done"
    /\ firstError = "none" <=> \A t \in collected : result[t] = "ok"
    /\ firstError \in M!Infeasible <=> \E t \in collected : result[t] \in M!Infeasible

Inv == TypeOK /\ TaskInv /\ PhaseInv /\ DoneInv /\ FoldInv /\ NoCallOutlivesThePool

LEMMA ResultKinds ==
    /\ "none" \notin M!Results
    /\ M!Infeasible \subseteq M!Results
    /\ "ok" \in M!Results /\ "ok" \notin M!Infeasible
    /\ {"invocation", "exhausted", "timeout"} \subseteq M!Results
    /\ \A log \in Logs : Parse(log) \in M!Results \ {"exhausted"}
  BY DEF M!Results, M!Infeasible, M!Failures, Parse, Logs

LEMMA InvInit == Init => Inv
  BY PoolAssumption, ResultKinds
  DEF PoolAssumption, Init, Inv, TypeOK, TaskInv, PhaseInv, DoneInv, FoldInv, NoCallOutlivesThePool,
      M!Infeasible

\* A step of a task: the fold reads only finished tasks, and those no longer change.
LEMMA TaskStepKeepsInv ==
    ASSUME Inv, NEW t \in Tasks, TaskStep(t)
    PROVE  Inv'
<1> USE PoolAssumption DEF PoolAssumption
<1>1. TypeOK'
  <2> USE DEF Inv, TypeOK, TaskInv
  <2>1. CASE Start(t)
    BY <2>1 DEF Start
  <2>2. CASE Throttled(t)
    BY <2>2 DEF Throttled
  <2>3. CASE BackoffEnds(t)
    BY <2>3, ResultKinds DEF BackoffEnds, Ends
  <2>4. CASE Refused(t)
    BY <2>4, ResultKinds DEF Refused, Ends
  <2>5. CASE ReadTimeout(t)
    BY <2>5, ResultKinds DEF ReadTimeout, Ends
  <2>6. CASE Answered(t)
    BY <2>6, ResultKinds DEF Answered, Ends
  <2>7. CASE Resent(t)
    BY <2>7 DEF Resent
  <2>8. QED
    BY <2>1, <2>2, <2>3, <2>4, <2>5, <2>6, <2>7 DEF TaskStep
<1>2. TaskInv'
  <2> USE DEF Inv, TypeOK, TaskInv
  <2>1. CASE Start(t)
    BY <2>1 DEF Start
  <2>2. CASE Throttled(t)
    BY <2>2 DEF Throttled
  <2>3. CASE BackoffEnds(t)
    BY <2>3, ResultKinds DEF BackoffEnds, Ends
  <2>4. CASE Refused(t)
    BY <2>4, ResultKinds DEF Refused, Ends
  <2>5. CASE ReadTimeout(t)
    BY <2>5, ResultKinds DEF ReadTimeout, Ends
  <2>6. CASE Answered(t)
    BY <2>6, ResultKinds DEF Answered, Ends
  <2>7. CASE Resent(t)
    BY <2>7 DEF Resent
  <2>8. QED
    BY <2>1, <2>2, <2>3, <2>4, <2>5, <2>6, <2>7 DEF TaskStep
\* Only task t changes, from a state that is not "done", and it gets a result as it ends.
<1>3. /\ state[t] # "done" /\ result[t] = "none"
      /\ \A u \in Tasks : u # t => state'[u] = state[u] /\ result'[u] = result[u]
      /\ result'[t] = "none" <=> state'[t] # "done"
      /\ result'[t] # "none" => state'[t] = "done" /\ result'[t] \in M!Results
      /\ state'[t] # "queued"
      /\ UNCHANGED <<mainVars, interrupts>>
  <2> USE DEF Inv, TypeOK, TaskInv
  <2>1. CASE Start(t)
    BY <2>1 DEF Start
  <2>2. CASE Throttled(t)
    BY <2>2 DEF Throttled
  <2>3. CASE BackoffEnds(t)
    BY <2>3, ResultKinds DEF BackoffEnds, Ends
  <2>4. CASE Refused(t)
    BY <2>4, ResultKinds DEF Refused, Ends
  <2>5. CASE ReadTimeout(t)
    BY <2>5, ResultKinds DEF ReadTimeout, Ends
  <2>6. CASE Answered(t)
    BY <2>6, ResultKinds DEF Answered, Ends
  <2>7. CASE Resent(t)
    BY <2>7 DEF Resent
  <2>8. QED
    BY <2>1, <2>2, <2>3, <2>4, <2>5, <2>6, <2>7 DEF TaskStep
<1>4. t = 0 => phase \notin {"configure"} \/ state[0] # "queued"
  BY DEF TaskStep, Start, Throttled, BackoffEnds, Resent, Refused, ReadTimeout, Answered
<1>5. t \in Pool /\ state[t] = "queued" => phase = "collect" \/ interrupts > 1
  BY DEF TaskStep, Start, Throttled, BackoffEnds, Resent, Refused, ReadTimeout, Answered
<1>6. PhaseInv'
  BY <1>3, <1>4, <1>5 DEF Inv, PhaseInv, TypeOK
<1>7. DoneInv'
  BY <1>3 DEF Inv, DoneInv
<1>8. FoldInv'
  <2>1. \A u \in collected : u # t /\ u \in Tasks
    BY <1>3 DEF Inv, FoldInv, TypeOK
  <2>2. \A u \in collected : state'[u] = state[u] /\ result'[u] = result[u]
    BY <1>3, <2>1
  <2>3. collected' = collected /\ firstError' = firstError
    BY <1>3
  <2>4. QED
    BY <2>2, <2>3 DEF Inv, FoldInv
<1>9. NoCallOutlivesThePool'
  <2> SUFFICES ASSUME phase = "ended", interrupts < 2
               PROVE  (\A u \in Pool : state'[u] = "queued") \/ (\A u \in Pool : state'[u] = "done")
    BY <1>3 DEF NoCallOutlivesThePool
  <2>1. t \notin Pool
    BY <1>3, <1>5 DEF Inv, TypeOK, NoCallOutlivesThePool
  <2>2. QED
    BY <1>3, <2>1 DEF Inv, NoCallOutlivesThePool
<1>10. QED
  BY <1>1, <1>2, <1>6, <1>7, <1>8, <1>9 DEF Inv

\* One more future is taken.
LEMMA CollectKeepsFold ==
    ASSUME Inv, NEW t \in Pool, Collect(t)
    PROVE  FoldInv' /\ firstError' \in (M!Results \ {"ok"}) \cup {"none"}
<1>1. /\ collected' = collected \cup {t} /\ state' = state /\ result' = result
      /\ state[t] = "done" /\ result[t] \in M!Results
  BY DEF Collect, Inv, TypeOK, DoneInv
<1>2. CASE result[t] = "ok"
  <2>1. firstError' = firstError
    BY <1>2 DEF Collect
  <2>2. QED
    BY <1>1, <1>2, <2>1, ResultKinds DEF Inv, FoldInv, TypeOK
<1>3. CASE result[t] # "ok"
  <2>1. firstError' = Preferred(firstError, result[t])
    BY <1>3 DEF Collect
  <2>2. firstError' # "none"
    BY <1>1, <2>1, ResultKinds DEF Preferred
  <2>3. firstError' \in M!Infeasible <=> firstError \in M!Infeasible \/ result[t] \in M!Infeasible
    BY <1>1, <2>1, ResultKinds DEF Preferred
  <2>4. firstError' \in (M!Results \ {"ok"}) \cup {"none"}
    BY <1>1, <1>3, <2>1 DEF Preferred, Inv, TypeOK
  <2>5. QED
    BY <1>1, <1>3, <2>2, <2>3, <2>4 DEF Inv, FoldInv
<1>4. QED
  BY <1>2, <1>3

LEMMA InvStep == Inv /\ [Next]_vars => Inv'
<1> SUFFICES ASSUME Inv, [Next]_vars
             PROVE  Inv'
  OBVIOUS
<1> USE PoolAssumption DEF PoolAssumption
<1>1. ASSUME NEW t \in Tasks, TaskStep(t) PROVE Inv'
  BY <1>1, TaskStepKeepsInv
<1>2. CASE Configure
  BY <1>2 DEF Configure, Decide, Inv, TypeOK, TaskInv, PhaseInv, DoneInv, FoldInv,
              NoCallOutlivesThePool
<1>3. CASE WarmupEnds
  BY <1>3 DEF WarmupEnds, Decide, M!Raised, Inv, TypeOK, TaskInv, PhaseInv, DoneInv, FoldInv,
              NoCallOutlivesThePool
<1>4. ASSUME NEW t \in Pool, Collect(t) PROVE Inv'
  <2>1. FoldInv' /\ firstError' \in (M!Results \ {"ok"}) \cup {"none"}
    BY <1>4, CollectKeepsFold
  <2>2. TypeOK'
    BY <1>4, <2>1 DEF Collect, Inv, TypeOK
  <2>3. TaskInv' /\ PhaseInv' /\ DoneInv' /\ NoCallOutlivesThePool'
    BY <1>4 DEF Collect, Inv, TypeOK, TaskInv, PhaseInv, DoneInv, NoCallOutlivesThePool
  <2>4. QED
    BY <2>1, <2>2, <2>3 DEF Inv
<1>5. CASE Finish
  BY <1>5 DEF Finish, Decide, M!Raised, Inv, TypeOK, TaskInv, PhaseInv, DoneInv, FoldInv,
              NoCallOutlivesThePool
<1>6. CASE Drained
  BY <1>6 DEF Drained, Decide, Inv, TypeOK, TaskInv, PhaseInv, DoneInv, FoldInv,
              NoCallOutlivesThePool
<1>7. CASE Interrupt
  <2>1. TypeOK'
    BY <1>7 DEF Interrupt, Decide, Inv, TypeOK
  <2>2. \A u \in Pool : state'[u] = state[u]
    BY <1>7 DEF Interrupt, Inv, TypeOK
  <2>3. TaskInv' /\ DoneInv'
    BY <1>7, <2>2 DEF Interrupt, Inv, TypeOK, TaskInv, DoneInv
  <2>4. PhaseInv'
    BY <1>7, <2>2 DEF Interrupt, Decide, Inv, TypeOK, PhaseInv
  <2>5. FoldInv'
    BY <1>7, <2>2 DEF Interrupt, Inv, TypeOK, FoldInv
  <2>6. NoCallOutlivesThePool'
    BY <1>7, <2>2 DEF Interrupt, Decide, Inv, TypeOK, PhaseInv, NoCallOutlivesThePool
  <2>7. QED
    BY <2>1, <2>3, <2>4, <2>5, <2>6 DEF Inv
<1>8. CASE Terminated \/ UNCHANGED vars
  <2>1. UNCHANGED vars
    BY <1>8 DEF Terminated
  <2>2. TypeOK' /\ TaskInv' /\ PhaseInv' /\ DoneInv'
    BY <2>1 DEF vars, Inv, TypeOK, TaskInv, PhaseInv, DoneInv
  <2>3. FoldInv' /\ NoCallOutlivesThePool'
    BY <2>1 DEF vars, Inv, FoldInv, NoCallOutlivesThePool
  <2>4. QED
    BY <2>2, <2>3 DEF Inv
<1>9. QED
  BY <1>1, <1>2, <1>3, <1>4, <1>5, <1>6, <1>7, <1>8 DEF Next, MainStep

\* The inductive invariant holds throughout.
THEOREM PoolInvariant == Spec => []Inv
  BY InvInit, InvStep, PTL DEF Spec

\* Types, the drained pool and the harmless retries, for every size of the pool.
THEOREM PoolTypeCorrect == Spec => []TypeOK
<1>1. Inv => TypeOK
  BY DEF Inv
<1>2. QED
  BY <1>1, PoolInvariant, PTL

\* A measurement that ended left no invocation running or waiting.
THEOREM PoolIsDrained == Spec => []NoCallOutlivesThePool
<1>1. Inv => NoCallOutlivesThePool
  BY DEF Inv
<1>2. QED
  BY <1>1, PoolInvariant, PTL

\* No retry repeats an execution.
THEOREM RetriesStaySafe == Spec => []RetriesAreSafe
<1>1. Inv => RetriesAreSafe
  BY DEF Inv, TaskInv, RetriesAreSafe
<1>2. QED
  BY <1>1, PoolInvariant, PTL
-----------------------------------------------------------------------------
(***************************************************************************)
(* The refinement.  A task that ends is an Observe, the calling thread's   *)
(* last step is a decision, everything else stutters.                      *)
(***************************************************************************)
LEMMA PoolVerdict ==
    ASSUME Inv, phase = "collect", collected = Pool
    PROVE  (IF firstError = "none" THEN "samples" ELSE M!Raised(firstError)) = M!Verdict(result)
  BY DEF Inv, FoldInv, M!Verdict, M!Raised

LEMMA TaskStepObserves ==
    ASSUME Inv, NEW t \in Tasks, TaskStep(t)
    PROVE  M!Observe \/ UNCHANGED <<result, verdict>>
<1>1. verdict' = verdict
  BY DEF TaskStep, Start, Throttled, BackoffEnds, Resent, Refused, ReadTimeout, Answered
<1>2. CASE result' = result
  BY <1>1, <1>2
<1>3. CASE result' # result
  <2>1. /\ state[t] \in {"running", "backoff"}
        /\ \E r \in M!Results : result' = [result EXCEPT ![t] = r]
    BY <1>3, ResultKinds DEF TaskStep, Start, Throttled, BackoffEnds, Resent, Refused,
       ReadTimeout, Answered, Ends
  <2>2. result[t] = "none" /\ (t \in Pool => result[0] = "ok")
    BY <2>1 DEF Inv, TaskInv, PhaseInv
  <2>3. QED
    BY <1>1, <2>1, <2>2 DEF M!Observe
<1>4. QED
  BY <1>2, <1>3

LEMMA StepRefines == Inv /\ [Next]_vars => [M!Next]_<<result, verdict>>
<1> SUFFICES ASSUME Inv, [Next]_vars
             PROVE  M!Next \/ UNCHANGED <<result, verdict>>
  OBVIOUS
<1>1. ASSUME NEW t \in Tasks, TaskStep(t) PROVE M!Observe \/ UNCHANGED <<result, verdict>>
  BY <1>1, TaskStepObserves
<1>2. CASE Configure
  <2>1. \A t \in Tasks : result[t] = "none"
    BY <1>2 DEF Configure, Inv, PhaseInv, TaskInv
  <2>2. QED
    BY <1>2, <2>1 DEF Configure, Decide, M!Next, M!GivesUp, Inv, PhaseInv
<1>3. CASE WarmupEnds
  BY <1>3 DEF WarmupEnds, Decide, M!Next, M!WarmupDecides, Inv, PhaseInv
<1>4. ASSUME NEW t \in Pool, Collect(t) PROVE UNCHANGED <<result, verdict>>
  BY <1>4 DEF Collect
<1>5. CASE Finish
  <2>1. \A t \in Tasks : result[t] # "none"
    BY <1>5 DEF Finish, Inv, FoldInv, DoneInv, PhaseInv
  <2>2. verdict = "none" /\ result' = result /\ verdict' = M!Verdict(result)
    BY <1>5, PoolVerdict DEF Finish, Decide, Inv, PhaseInv
  <2>3. QED
    BY <2>1, <2>2 DEF M!Next, M!PoolDecides
<1>6. CASE Drained
  BY <1>6 DEF Drained, Decide, M!Next, M!GivesUp, Inv, PhaseInv
<1>7. CASE Interrupt
  BY <1>7 DEF Interrupt, Decide, M!Next, M!GivesUp, Inv, PhaseInv, TypeOK
<1>8. CASE Terminated \/ UNCHANGED vars
  BY <1>8 DEF Terminated, vars
<1>9. QED
  BY <1>1, <1>2, <1>3, <1>4, <1>5, <1>6, <1>7, <1>8 DEF Next, MainStep, M!Next

\* Whatever the scheduling, the pool does what Measurement allows.
THEOREM PoolImplementsMeasurement == Spec => MeasurementSpec
<1>1. Init => M!Init
  BY DEF Init, M!Init
<1>2. QED
  BY <1>1, PoolInvariant, StepRefines, PTL DEF Spec, M!Spec, MeasurementSpec
-----------------------------------------------------------------------------
(***************************************************************************)
(* Why a measurement ends: the part of Terminates that needs no fairness.  *)
(* A task has a rank that its own steps raise until it is done, which no   *)
(* other step changes, and which the attempts and the resends bound; a     *)
(* step of the calling thread takes a future or goes to a later phase.     *)
(***************************************************************************)
TaskRank(t) == 2 * attempts[t] + resends[t] + (IF state[t] = "running" THEN 1 ELSE 0)

PhaseRank == CASE phase = "configure" -> 1
               [] phase = "warmup"    -> 2
               [] phase = "collect"   -> 3
               [] OTHER               -> 4

TaskAdvances(t) ==
    \/ state'[t] = "done"
    \/ /\ TaskStep(t)
       /\ TaskRank(t) < TaskRank(t)' /\ TaskRank(t)' <= 2 * MaxAttempts + MaxResends
    \/ ~TaskStep(t) /\ UNCHANGED TaskRank(t)

MainAdvances ==
    \/ PhaseRank < PhaseRank'
    \/ UNCHANGED phase /\ (collected \subseteq collected') /\ (MainStep => collected # collected')

PoolAdvances ==
    /\ \A t \in Tasks : TaskAdvances(t) /\ (state[t] = "done" => state'[t] = "done")
    /\ MainAdvances

LEMMA RankGrows ==
    ASSUME NEW a \in Nat, NEW b \in Nat, NEW r \in Nat, NEW q \in Nat,
           NEW i \in {0, 1}, NEW j \in {0, 1}, NEW A \in Nat, NEW R \in Nat,
           b <= A, q <= R, b < A \/ j = 0
    PROVE  /\ 2 * b + q + j <= 2 * A + R
           /\ \/ b = a + 1 /\ q = r
              \/ b = a /\ q = r + 1 /\ j = i
              \/ b = a /\ q = r /\ i < j
              => 2 * a + r + i < 2 * b + q + j
  OBVIOUS

LEMMA TaskStepAdvances ==
    ASSUME Inv, Inv', NEW t \in Tasks, TaskStep(t)
    PROVE  /\ TaskAdvances(t)
           /\ \A u \in Tasks \ {t} :
                UNCHANGED <<state[u], attempts[u], resends[u]>>
           /\ UNCHANGED mainVars
<1> DEFINE Runs == IF state[t] = "running" THEN 1 ELSE 0
<1>1. /\ attempts[t] \in Nat /\ attempts'[t] \in Nat /\ attempts'[t] <= MaxAttempts
      /\ resends[t] \in Nat /\ resends'[t] \in Nat /\ resends'[t] <= MaxResends
      /\ MaxAttempts \in Nat /\ MaxResends \in Nat
      /\ Runs \in {0, 1} /\ Runs' \in {0, 1}
  BY PoolAssumption DEF PoolAssumption, Inv, TypeOK
<1>2. attempts'[t] < MaxAttempts \/ Runs' = 0
  BY <1>1 DEF Inv, TypeOK, TaskInv
<1>3. \/ state'[t] = "done"
      \/ attempts'[t] = attempts[t] + 1 /\ resends'[t] = resends[t]
      \/ attempts'[t] = attempts[t] /\ resends'[t] = resends[t] + 1 /\ Runs' = Runs
      \/ attempts'[t] = attempts[t] /\ resends'[t] = resends[t] /\ Runs < Runs'
  BY DEF TaskStep, Start, Throttled, BackoffEnds, Resent, Refused, ReadTimeout, Answered, Ends,
         Inv, TypeOK
<1>4. TaskRank(t) = 2 * attempts[t] + resends[t] + Runs
      /\ TaskRank(t)' = 2 * attempts'[t] + resends'[t] + Runs'
  BY DEF TaskRank
<1>5. TaskRank(t)' <= 2 * MaxAttempts + MaxResends
      /\ (state'[t] = "done" \/ TaskRank(t) < TaskRank(t)')
  <2> HIDE DEF Runs
  <2>. QED
    BY ONLY <1>1, <1>2, <1>3, <1>4, RankGrows
<1>6. /\ \A u \in Tasks \ {t} : UNCHANGED <<state[u], attempts[u], resends[u]>>
      /\ UNCHANGED mainVars
  BY DEF TaskStep, Start, Throttled, BackoffEnds, Resent, Refused, ReadTimeout, Answered, Ends,
         Inv, TypeOK
<1>. QED
  BY <1>5, <1>6 DEF TaskAdvances

\* A measurement takes a bounded number of steps for each task and a bounded number of its own, in
\* whatever order the threads run and however they are throttled (explorer.py:130-215).
THEOREM EveryTaskAdvances == Spec => [][PoolAdvances]_vars
<1>1. Inv /\ Inv' /\ [Next]_vars => PoolAdvances \/ UNCHANGED vars
  <2> SUFFICES ASSUME Inv, Inv', Next PROVE PoolAdvances \/ UNCHANGED vars
    OBVIOUS
  <2>1. ASSUME NEW t \in Tasks, TaskStep(t) PROVE PoolAdvances
    <3>1. state[t] # "done"
      BY <2>1 DEF TaskStep, Start, Throttled, BackoffEnds, Resent, Refused, ReadTimeout, Answered
    <3>2. ASSUME NEW u \in Tasks \ {t} PROVE ~TaskStep(u) /\ UNCHANGED <<state[u], TaskRank(u)>>
      <4>1. UNCHANGED <<state[u], attempts[u], resends[u]>>
        BY <2>1, TaskStepAdvances
      <4>2. ~TaskStep(u)
        <5> SUFFICES ASSUME TaskStep(u) PROVE FALSE
          OBVIOUS
        <5>1. UNCHANGED <<state[t], attempts[t], resends[t]>>
          BY <3>2, TaskStepAdvances, t \in Tasks \ {u}
        <5>. QED
          BY <2>1, <5>1 DEF TaskStep, Start, Throttled, BackoffEnds, Resent, Refused, ReadTimeout,
                            Answered, Ends, Inv, TypeOK
      <4>. QED
        BY <4>1, <4>2 DEF TaskRank
    <3>3. MainAdvances
      <4>1. UNCHANGED mainVars /\ ~MainStep
        <5>1. UNCHANGED mainVars
          BY <2>1, TaskStepAdvances
        <5>2. ~MainStep
          BY <5>1 DEF MainStep, Configure, WarmupEnds, Collect, Finish, Drained, Decide
        <5>. QED
          BY <5>1, <5>2
      <4>. QED
        BY <4>1 DEF MainAdvances
    <3>. QED
      BY <2>1, <3>1, <3>2, <3>3, TaskStepAdvances DEF PoolAdvances, TaskAdvances
  <2>2. ASSUME MainStep PROVE PoolAdvances
    <3>1. UNCHANGED taskVars
      BY <2>2 DEF MainStep, Configure, WarmupEnds, Collect, Finish, Drained
    <3>2. ASSUME NEW t \in Tasks PROVE TaskAdvances(t) /\ (state[t] = "done" => state'[t] = "done")
      <4>1. ~TaskStep(t)
        <5> SUFFICES ASSUME TaskStep(t) PROVE FALSE
          OBVIOUS
        <5>1. UNCHANGED mainVars
          BY TaskStepAdvances
        <5>. QED
          BY <2>2, <5>1 DEF MainStep, Configure, WarmupEnds, Collect, Finish, Drained, Decide
      <4>. QED
        BY <3>1, <4>1 DEF TaskAdvances, TaskRank
    <3>3. MainAdvances
      BY <2>2 DEF MainAdvances, PhaseRank, MainStep, Configure, WarmupEnds, Collect, Finish, Drained,
                  Decide
    <3>. QED
      BY <3>2, <3>3 DEF PoolAdvances
  <2>3. ASSUME Interrupt PROVE PoolAdvances
    <3>1. UNCHANGED <<attempts, resends, collected>>
          /\ \A t \in Tasks : state'[t] = "done" \/ state'[t] = state[t]
      BY <2>3 DEF Interrupt, Inv, TypeOK
    <3>2. ASSUME NEW t \in Tasks PROVE ~TaskStep(t)
      BY <2>3 DEF Interrupt, TaskStep, Start, Throttled, BackoffEnds, Resent, Refused, ReadTimeout,
                  Answered, Inv, TypeOK
    <3>3. MainAdvances
      <4>1. ~MainStep
        BY <2>3 DEF Interrupt, MainStep, Configure, WarmupEnds, Collect, Finish, Drained, Inv, TypeOK
      <4>2. UNCHANGED phase \/ PhaseRank < PhaseRank'
        BY <2>3 DEF Interrupt, Decide, PhaseRank, Inv, TypeOK
      <4>. QED
        BY <3>1, <4>1, <4>2 DEF MainAdvances
    <3>. QED
      BY <3>1, <3>2, <3>3 DEF PoolAdvances, TaskAdvances, TaskRank
  <2>. QED
    BY <2>1, <2>2, <2>3 DEF Next, Terminated
<1>. QED
  BY <1>1, PoolInvariant, PTL DEF Spec
=============================================================================
