--------------------------- MODULE InvocationPool ---------------------------
(***************************************************************************)
(* Explorer.explore_multi_threading (src/optiserve/profiling/explorer.py)  *)
(* over Invoker._invoke (src/optiserve/aws/lambda_client.py): configure,   *)
(* one warm-up invocation on the calling thread, then N invocations on a   *)
(* pool of threads, each retried while it is throttled, their results      *)
(* taken in completion order and reduced to one verdict.                   *)
(*                                                                         *)
(* Task 0 is the warm-up.  Ctrl-C and SIGTERM (cli.py turns it into        *)
(* KeyboardInterrupt) may arrive at any time; `with ThreadPoolExecutor`    *)
(* then still waits for every submitted task, unless a second one arrives. *)
(***************************************************************************)
EXTENDS Naturals, FiniteSets

CONSTANTS
    N,              \* num_of_invocations
    Threads,        \* num_of_threads
    MaxAttempts,    \* Invoker's max_invocations
    MaxResends,     \* how often the SDK sends an invocation again, one per behaviour
    MaxInterrupts   \* bound on the interrupts of a behaviour

ASSUME PoolAssumption ==
    /\ N \in Nat /\ MaxResends \in Nat /\ MaxInterrupts \in Nat
    /\ Threads \in Nat \ {0} /\ MaxAttempts \in Nat \ {0}

VARIABLES
    phase,       \* of the calling thread: "configure", "warmup", "collect", "ended"
    state,       \* of each task: "queued", "running", "backoff", "done"
    result,      \* how each task ended
    attempts,    \* throttled attempts of each task
    resends,     \* requests the SDK sent again for each task, unknown to the Invoker
    executions,  \* history: how often the function ran for the task
    collected,   \* futures as_completed has yielded
    samples,     \* tasks whose duration is in `results`
    firstError,  \* first_error
    verdict,     \* what the caller gets
    interrupts

M == INSTANCE Measurement

Pool == M!Pool
Tasks == M!Tasks

taskVars == <<state, result, attempts, resends, executions>>
mainVars == <<phase, collected, samples, firstError, verdict>>
vars == <<phase, state, result, attempts, resends, executions, collected,
          samples, firstError, verdict, interrupts>>

TypeOK ==
    /\ phase \in {"configure", "warmup", "collect", "ended"}
    /\ state \in [Tasks -> {"queued", "running", "backoff", "done"}]
    /\ result \in [Tasks -> M!Results \cup {"none"}]
    /\ attempts \in [Tasks -> 0 .. MaxAttempts]
    /\ resends \in [Tasks -> 0 .. MaxResends]
    /\ executions \in [Tasks -> Nat]
    /\ collected \subseteq Pool /\ samples \subseteq Pool
    /\ firstError \in (M!Results \ {"ok"}) \cup {"none"}
    /\ verdict \in {"none", "samples", "infeasible", "failed", "interrupted"}
    /\ interrupts \in 0 .. MaxInterrupts

Init ==
    /\ phase = "configure"
    /\ state = [t \in Tasks |-> "queued"]
    /\ result = [t \in Tasks |-> "none"]
    /\ attempts = [t \in Tasks |-> 0]
    /\ resends = [t \in Tasks |-> 0]
    /\ executions = [t \in Tasks |-> 0]
    /\ collected = {} /\ samples = {}
    /\ firstError = "none" /\ verdict = "none"
    /\ interrupts = 0
-----------------------------------------------------------------------------
(* One task: Explorer._invoke_once, Invoker._invoke, LogParser *)

\* What parse_function_execution_time makes of a tail log.  An application error is a
\* completed invocation: its billed duration counts.
Logs == [report : BOOLEAN, timedOut : BOOLEAN, oom : BOOLEAN, appError : BOOLEAN]

Parse(log) ==
    CASE ~log.report -> "parse"
      [] log.report /\ log.timedOut -> "timeout"
      [] log.report /\ ~log.timedOut /\ log.oom -> "oom"
      [] OTHER -> "ok"

Active(t) == state[t] \in {"running", "backoff"}

\* The executor starts tasks in submission order, on at most `Threads` threads; the warm-up
\* runs on the calling thread.
Start(t) ==
    /\ state[t] = "queued"
    /\ \/ t = 0 /\ phase = "warmup"
       \/ /\ t \in Pool
          /\ phase = "collect" \/ (phase = "ended" /\ interrupts > 1)
          /\ \A u \in Pool : u < t => state[u] # "queued"
          /\ Cardinality({u \in Pool : Active(u)}) < Threads
    /\ state' = [state EXCEPT ![t] = "running"]
    /\ UNCHANGED <<result, attempts, resends, executions, mainVars, interrupts>>

Ends(t, r) ==
    /\ state' = [state EXCEPT ![t] = "done"]
    /\ result' = [result EXCEPT ![t] = r]

\* Faulty variant: throttled attempts are not counted.
ThrottledUncounted(t) ==
    /\ state[t] = "running"
    /\ state' = [state EXCEPT ![t] = "backoff"]
    /\ UNCHANGED <<result, attempts, resends, executions, mainVars, interrupts>>

\* TooManyRequestsException: AWS did not run the function; sleep, then try again.
Throttled(t) ==
    /\ state[t] = "running"
    /\ attempts' = [attempts EXCEPT ![t] = @ + 1]
    /\ state' = [state EXCEPT ![t] = "backoff"]
    /\ UNCHANGED <<result, resends, executions, mainVars, interrupts>>

BackoffEnds(t) ==
    /\ state[t] = "backoff"
    /\ IF attempts[t] < MaxAttempts
       THEN state' = [state EXCEPT ![t] = "running"] /\ UNCHANGED result
       ELSE Ends(t, "exhausted")
    /\ UNCHANGED <<attempts, resends, executions, mainVars, interrupts>>

\* The client's own retry policy (default_botocore_config: adaptive, 10 attempts) takes an
\* invocation that goes unanswered for one to send again; the function may have run.
Resent(t) ==
    /\ state[t] = "running" /\ resends[t] < MaxResends
    /\ \A u \in Tasks \ {t} : resends[u] = 0
    /\ resends' = [resends EXCEPT ![t] = @ + 1]
    /\ \E n \in {0, 1} : executions' = [executions EXCEPT ![t] = @ + n]
    /\ UNCHANGED <<state, result, attempts, mainVars, interrupts>>

\* Any other refusal, or an answer without a tail log.
Refused(t) ==
    /\ state[t] = "running"
    /\ \E n \in {0, 1} : executions' = [executions EXCEPT ![t] = @ + n]
    /\ Ends(t, "invocation")
    /\ UNCHANGED <<attempts, resends, mainVars, interrupts>>

\* Faulty variant: a read timeout is retried like throttling.
ReadTimeoutRetried(t) ==
    /\ state[t] = "running"
    /\ attempts[t] < MaxAttempts
    /\ executions' = [executions EXCEPT ![t] = @ + 1]
    /\ attempts' = [attempts EXCEPT ![t] = @ + 1]
    /\ state' = [state EXCEPT ![t] = "backoff"]
    /\ UNCHANGED <<result, resends, mainVars, interrupts>>

\* The answer does not come: taken for a timeout of the function.
ReadTimeout(t) ==
    /\ state[t] = "running"
    /\ executions' = [executions EXCEPT ![t] = @ + 1]
    /\ Ends(t, "timeout")
    /\ UNCHANGED <<attempts, resends, mainVars, interrupts>>

Answered(t) ==
    /\ state[t] = "running"
    /\ executions' = [executions EXCEPT ![t] = @ + 1]
    /\ \E log \in Logs : Ends(t, Parse(log))
    /\ UNCHANGED <<attempts, resends, mainVars, interrupts>>

TaskStep(t) == \/ Start(t) \/ Throttled(t) \/ BackoffEnds(t)
               \/ Resent(t) \/ Refused(t) \/ ReadTimeout(t) \/ Answered(t)
-----------------------------------------------------------------------------
(* The calling thread *)

Decide(v) == phase' = "ended" /\ verdict' = v

\* set_config, the subject of LambdaConfig.
Configure ==
    /\ phase = "configure"
    /\ \/ phase' = "warmup" /\ UNCHANGED verdict
       \/ Decide("failed")
    /\ UNCHANGED <<taskVars, collected, samples, firstError, interrupts>>

WarmupEnds ==
    /\ phase = "warmup" /\ state[0] = "done"
    /\ IF result[0] = "ok"
       THEN phase' = "collect" /\ UNCHANGED verdict
       ELSE Decide(M!Raised(result[0]))
    /\ UNCHANGED <<taskVars, collected, samples, firstError, interrupts>>

\* Faulty variant: the first error wins.
FirstErrorSeen(current, candidate) == IF current = "none" THEN candidate ELSE current

\* _preferred_error
Preferred(current, candidate) ==
    IF current = "none" \/ (candidate \in M!Infeasible /\ current \notin M!Infeasible)
    THEN candidate ELSE current

\* as_completed yields a finished future.
Collect(t) ==
    /\ phase = "collect" /\ interrupts = 0
    /\ state[t] = "done" /\ t \notin collected
    /\ collected' = collected \cup {t}
    /\ IF result[t] = "ok"
       THEN samples' = samples \cup {t} /\ UNCHANGED firstError
       ELSE firstError' = Preferred(firstError, result[t]) /\ UNCHANGED samples
    /\ UNCHANGED <<taskVars, phase, verdict, interrupts>>

\* The end of the `with` block: every future was consumed and every thread has ended.
Finish ==
    /\ phase = "collect" /\ interrupts = 0
    /\ collected = Pool
    /\ Decide(IF firstError = "none" THEN "samples" ELSE M!Raised(firstError))
    /\ UNCHANGED <<taskVars, collected, samples, firstError, interrupts>>

\* KeyboardInterrupt.  Before the pool exists it ends the call at once, and with it the
\* invocation the calling thread was waiting for; a second one ends the wait for the pool.
Interrupt ==
    /\ phase # "ended" /\ interrupts < MaxInterrupts
    /\ interrupts' = interrupts + 1
    /\ IF phase = "collect" /\ interrupts = 0
       THEN UNCHANGED <<phase, verdict>>
       ELSE Decide("interrupted")
    /\ state' = IF phase = "collect" THEN state ELSE [state EXCEPT ![0] = "done"]
    /\ UNCHANGED <<result, attempts, resends, executions, collected, samples, firstError>>

\* Faulty variant: the pool is abandoned (shutdown(wait=False)).
DrainedAtOnce ==
    /\ phase = "collect" /\ interrupts > 0
    /\ Decide("interrupted")
    /\ UNCHANGED <<taskVars, collected, samples, firstError, interrupts>>

\* shutdown(wait=True) after an interrupt: queued tasks are not cancelled, they run.
Drained ==
    /\ phase = "collect" /\ interrupts > 0
    /\ \A t \in Pool : state[t] = "done"
    /\ Decide("interrupted")
    /\ UNCHANGED <<taskVars, collected, samples, firstError, interrupts>>

Terminated == phase = "ended" /\ (\A t \in Tasks : ~Active(t)) /\ UNCHANGED vars

MainStep == Configure \/ WarmupEnds \/ (\E t \in Pool : Collect(t)) \/ Finish \/ Drained

Next == \/ \E t \in Tasks : TaskStep(t)
        \/ MainStep \/ Interrupt \/ Terminated

Spec == Init /\ [][Next]_vars

\* Fairness: the scheduler runs every thread, backoffs end, AWS answers or the read times out.
Fairness == WF_vars(MainStep) /\ \A t \in Tasks : WF_vars(TaskStep(t))
FairSpec == Spec /\ Fairness
-----------------------------------------------------------------------------
(* Correctness *)

\* Threads, retries and completion order are invisible: the pool implements Measurement, so the
\* sampler prunes a memory size, aborts or takes the samples according to how the invocations
\* ended and never according to which of them ended first (explorer.py:194-214).
MeasurementSpec == M!Spec

\* When the measurement returns or raises, no invocation is running or waiting to run: the next
\* step, which may be the restore of the function, never races one.  (A second interrupt gives
\* this up: it ends the wait for the pool.)
NoCallOutlivesThePool ==
    phase = "ended" /\ interrupts < 2 =>
        (\A t \in Pool : state[t] = "queued") \/ (\A t \in Pool : state[t] = "done")

\* The Invoker's retries never repeat work: what runs a function more often than it was asked to
\* is the SDK sending an unanswered request again, never a retried attempt, and an invocation
\* reported as throttled to the end ran only that way (lambda_client.py:374-424).
RetriesAreSafe ==
    \A t \in Tasks : /\ executions[t] <= resends[t] + 1
                     /\ result[t] = "exhausted" => executions[t] <= resends[t]

\* Every measurement ends, whatever the mix of throttling, failures and interrupts.
Terminates == <>(phase = "ended")
=============================================================================
