---------------------------- MODULE LambdaConfig ----------------------------
(***************************************************************************)
(* ConfigManager (src/optiserve/aws/lambda_client.py) and the live Lambda  *)
(* function it rewrites.                                                   *)
(*                                                                         *)
(* One client process drives the manager: it opens managed() sessions,     *)
(* calls set_config inside or outside of them, and leaves a session by     *)
(* running reset_config in a `finally`.  Each remote call of _apply_config *)
(* is a step of its own, so that the function's operator, AWS's            *)
(* asynchronous settling, failing calls, KeyboardInterrupt and the death   *)
(* of the process may come between any two of them.                        *)
(*                                                                         *)
(* A configuration is a memory size, a timeout, the MODEL_NAME variable    *)
(* and `rest`, everything else in the function's environment.              *)
(***************************************************************************)
EXTENDS Naturals

CONSTANTS
    Memories,            \* memory sizes in use
    Timeouts,            \* timeouts in use
    MaxTimeouts,         \* what the quota lookup can answer (quota or the documented ceiling)
    Models,              \* MODEL_NAME values
    Rests,               \* contents of the rest of the environment
    Sentinel,            \* the MODEL_NAME "None", set_config's way of saying "non-ML"
    NoModel,             \* MODEL_NAME is not in the environment
    Nothing,             \* Python's None
    OperatorModels,      \* MODEL_NAME values the function's operator deploys
    MaxConflictRetries,  \* set_config's max_conflict_retries
    MaxSessions,         \* bound on the managed() sessions of a behaviour
    MaxChanges,          \* bound on the operator's updates
    MaxCrashes,          \* bound on the deaths of the client process
    Faults               \* subset of {"error", "interrupt"}: how a remote call may end

VARIABLES
    live,        \* the deployed function's configuration, kept by AWS
    busy,        \* LastUpdateStatus is InProgress
    initial,     \* self._initial_config
    settled,     \* self._settled_config
    maxTimeout,  \* self._max_timeout
    session,     \* "out", "in" the body of managed(), or in its "exit" block
    pc,          \* where the running set_config call is, "idle" when none runs
    req,         \* its arguments
    seen,        \* the environment its first read returned
    attempt,     \* its retry counter
    outcome,     \* how the last set_config call ended
    restored,    \* how the last reset_config ended, "none" once another call began
    sessions, changes, crashes,  \* how many of each so far
    pristine,    \* history: the configuration before anybody changed it
    undisturbed, \* history: no operator's update since the last set_config began
    conflictAt   \* history: `changes` when this set_config call last met a conflict

awsVars == <<live, busy>>
cacheVars == <<initial, settled, maxTimeout>>
callVars == <<pc, req, seen, attempt>>
countVars == <<sessions, changes, crashes>>
historyVars == <<pristine, undisturbed, conflictAt>>
vars == <<live, busy, initial, settled, maxTimeout, session, pc, req, seen,
          attempt, outcome, restored, sessions, changes, crashes, pristine, undisturbed,
          conflictAt>>

FullConfig == [mem : Memories, timeout : Timeouts,
               model : Models \cup {NoModel}, rest : Rests]
FunctionConfig == [mem : Memories, timeout : Timeouts, model : Models \cup {NoModel}]
Request == [mem : Memories, timeout : Timeouts \cup {Nothing},
            model : Models \cup {Nothing}, clear : BOOLEAN]
Environment == [model : Models \cup {NoModel}, rest : Rests]
Outcomes == {"none", "ok", "failed", "interrupted"}

ASSUME ConstantsAssumption ==
    /\ MaxTimeouts \subseteq Timeouts
    /\ Sentinel \in Models
    /\ NoModel \notin Models
    /\ OperatorModels \subseteq Models \cup {NoModel}
    /\ Nothing \notin Timeouts /\ Nothing \notin Models \cup {NoModel}
    /\ Nothing \notin Nat /\ Nothing \notin FunctionConfig
    /\ MaxConflictRetries \in Nat
    /\ MaxSessions \in Nat /\ MaxChanges \in Nat /\ MaxCrashes \in Nat
    /\ Faults \subseteq {"error", "interrupt"}

ToFunctionConfig(c) == [mem |-> c.mem, timeout |-> c.timeout, model |-> c.model]

TypeOK ==
    /\ live \in FullConfig /\ pristine \in FullConfig
    /\ busy \in BOOLEAN /\ undisturbed \in BOOLEAN
    /\ initial \in FunctionConfig \cup {Nothing}
    /\ settled \in FunctionConfig \cup {Nothing}
    /\ maxTimeout \in MaxTimeouts \cup {Nothing}
    /\ session \in {"out", "in", "exit"}
    /\ pc \in {"idle", "read", "quota", "update", "wait", "confirm"}
    /\ session # "out" => initial # Nothing
    /\ pc # "idle" => req \in Request
    /\ pc \in {"quota", "update"} => seen \in Environment
    /\ pc = "update" /\ req.timeout = Nothing => maxTimeout # Nothing
    /\ attempt \in 0 .. MaxConflictRetries
    /\ outcome \in Outcomes /\ restored \in Outcomes
    /\ sessions \in 0 .. MaxSessions
    /\ changes \in 0 .. MaxChanges
    /\ crashes \in 0 .. MaxCrashes
    /\ conflictAt \in 0 .. MaxChanges \cup {Nothing}

Init ==
    /\ live \in {c \in FullConfig : c.model \in OperatorModels}
    /\ busy = FALSE
    /\ initial = Nothing /\ settled = Nothing /\ maxTimeout = Nothing
    /\ session = "out" /\ pc = "idle"
    /\ req = Nothing /\ seen = Nothing /\ attempt = 0
    /\ outcome = "none" /\ restored = "none"
    /\ sessions = 0 /\ changes = 0 /\ crashes = 0
    /\ pristine = live /\ undisturbed = TRUE /\ conflictAt = Nothing
-----------------------------------------------------------------------------
(* set_config, one remote call of _apply_config after the other *)

\* set_config normalizes the sentinel: MODEL_NAME is then left alone.
NormalModel(model) == IF model = Sentinel THEN Nothing ELSE model

\* Enters set_config; the caller has checked that no call is running.
Call(mem, timeout, model, clear) ==
    /\ req' = [mem |-> mem, timeout |-> timeout, model |-> NormalModel(model), clear |-> clear]
    /\ pc' = "read"
    /\ attempt' = 0
    /\ outcome' = "none" /\ restored' = "none"
    /\ seen' = Nothing /\ conflictAt' = Nothing
    /\ undisturbed' = TRUE /\ UNCHANGED pristine

\* Leaves set_config.  A reset_config run by managed() also leaves the session: an
\* exception is logged there and a KeyboardInterrupt propagates, both past the restore.
Return(how) ==
    /\ pc' = "idle"
    /\ req' = Nothing /\ seen' = Nothing /\ attempt' = 0
    /\ conflictAt' = Nothing /\ UNCHANGED <<pristine, undisturbed>>
    /\ outcome' = how
    /\ IF session = "exit"
       THEN session' = "out" /\ restored' = how
       ELSE UNCHANGED <<session, restored>>

AfterRead == IF req.timeout = Nothing /\ maxTimeout = Nothing THEN "quota" ELSE "update"

\* The first get_function_configuration; it fixes what a later restore goes back to.
ReadConfig ==
    /\ pc = "read"
    /\ seen' = [model |-> live.model, rest |-> live.rest]
    /\ initial' = IF initial = Nothing THEN ToFunctionConfig(live) ELSE initial
    /\ pc' = AfterRead
    /\ UNCHANGED <<live, busy, settled, maxTimeout, session, req, attempt,
                   outcome, restored, countVars, historyVars>>

\* A failing lookup falls back to the documented ceiling, so that it never aborts the call.
GetMaxTimeout ==
    /\ pc = "quota"
    /\ maxTimeout' \in MaxTimeouts
    /\ pc' = "update"
    /\ UNCHANGED <<awsVars, initial, settled, session, req, seen, attempt,
                   outcome, restored, countVars, historyVars>>

NewModel == IF req.clear THEN NoModel
            ELSE IF req.model = Nothing THEN seen.model ELSE req.model

\* Faulty variant: the environment is replaced instead of merged.
RequestedWithoutMerge == [mem |-> req.mem,
                          timeout |-> IF req.timeout = Nothing THEN maxTimeout ELSE req.timeout,
                          model |-> NewModel,
                          rest |-> CHOOSE r \in Rests : TRUE]

\* The environment is written whole, from the first read.
Requested == [mem |-> req.mem,
              timeout |-> IF req.timeout = Nothing THEN maxTimeout ELSE req.timeout,
              model |-> NewModel,
              rest |-> seen.rest]

Update ==
    /\ pc = "update" /\ ~busy
    /\ live' = Requested
    /\ busy' = TRUE
    /\ pc' = "wait"
    /\ UNCHANGED <<cacheVars, session, req, seen, attempt, outcome, restored,
                   countVars, historyVars>>

\* set_config's handler of a ResourceConflictException (another update is settling): up to
\* `limit` times the attempt counter becomes `count` and the attempt resumes at `next`.
Retry(limit, count, next) ==
    /\ pc = "update" /\ busy
    /\ IF attempt < limit
       THEN /\ attempt' = count
            /\ pc' = next
            /\ conflictAt' = changes
            /\ UNCHANGED <<session, req, seen, outcome, restored, pristine, undisturbed>>
       ELSE Return("failed")
    /\ UNCHANGED <<awsVars, cacheVars, countVars>>

\* Faulty variants: the attempts are not counted; the stale read is sent again.
UpdateConflictUncounted == Retry(MaxConflictRetries, attempt, "read")
UpdateConflictStaleRead == Retry(MaxConflictRetries, attempt + 1, "update")

\* The whole attempt is redone, from its first read.
UpdateConflict == Retry(MaxConflictRetries, attempt + 1, "read")

\* waiter.wait
Wait ==
    /\ pc = "wait" /\ ~busy
    /\ pc' = "confirm"
    /\ UNCHANGED <<awsVars, cacheVars, session, req, seen, attempt,
                   outcome, restored, countVars, historyVars>>

\* Faulty variant: the removal of MODEL_NAME goes unchecked.
ModelSettledUnlessCleared == req.model = Nothing \/ live.model = req.model

ModelSettled ==
    IF req.clear THEN live.model = NoModel
    ELSE req.model = Nothing \/ live.model = req.model

\* Faulty variant: the cache is not refreshed after a change.
ConfirmKeepsCache ==
    /\ pc = "confirm"
    /\ IF live.mem = req.mem /\ ModelSettled
       THEN settled' = (IF settled = Nothing THEN ToFunctionConfig(live) ELSE settled) /\ Return("ok")
       ELSE settled' = Nothing /\ Return("failed")
    /\ UNCHANGED <<awsVars, initial, maxTimeout, countVars>>

\* The second get_function_configuration and the check that the change took.
Confirm ==
    /\ pc = "confirm"
    /\ IF live.mem = req.mem /\ ModelSettled
       THEN settled' = ToFunctionConfig(live) /\ Return("ok")
       ELSE settled' = Nothing /\ Return("failed")
    /\ UNCHANGED <<awsVars, initial, maxTimeout, countVars>>

\* A remote call raises, or a KeyboardInterrupt arrives while it runs.  The quota lookup
\* swallows its errors.  An update may have been applied before its answer was lost.
How(fault) == IF fault = "error" THEN "failed" ELSE "interrupted"

CallFails ==
    /\ \E fault \in Faults :
        /\ pc # "idle"
        /\ pc = "quota" => fault = "interrupt"
        /\ Return(How(fault))
    /\ UNCHANGED <<awsVars, cacheVars, countVars>>

UpdateAnswerLost ==
    /\ pc = "update" /\ ~busy
    /\ \E fault \in Faults : Return(How(fault))
    /\ live' = Requested
    /\ busy' = TRUE
    /\ UNCHANGED <<cacheVars, countVars>>
-----------------------------------------------------------------------------
(* The client: sessions, set_config calls, the cached read *)

\* Faulty variant: every session captures, also after a restore that failed.
EnterManagedRecaptures ==
    /\ session = "out" /\ pc = "idle"
    /\ sessions < MaxSessions
    /\ session' = "in"
    /\ sessions' = sessions + 1
    /\ initial' = ToFunctionConfig(live) /\ settled' = ToFunctionConfig(live)
    /\ restored' = "none"
    /\ UNCHANGED <<awsVars, maxTimeout, callVars, outcome, changes, crashes, historyVars>>

\* managed(), up to its yield.  A failing get_config leaves everything as it was.
EnterManaged ==
    /\ session = "out" /\ pc = "idle"
    /\ sessions < MaxSessions
    /\ session' = "in"
    /\ sessions' = sessions + 1
    /\ IF initial = Nothing
       THEN initial' = ToFunctionConfig(live) /\ settled' = ToFunctionConfig(live)
       ELSE UNCHANGED <<initial, settled>>
    /\ restored' = "none"
    /\ UNCHANGED <<awsVars, maxTimeout, callVars, outcome, changes, crashes, historyVars>>

\* Explorer._configure; nothing obliges a caller to open a session first.
SetConfig ==
    /\ session \in {"out", "in"} /\ pc = "idle"
    /\ \E mem \in Memories, model \in Models : Call(mem, Nothing, model, FALSE)
    /\ UNCHANGED <<awsVars, cacheVars, session, countVars>>

\* current_config, called before every invocation, on a cache miss.
CurrentConfig ==
    /\ session \in {"out", "in"} /\ pc = "idle"
    /\ settled = Nothing
    /\ settled' = ToFunctionConfig(live)
    /\ UNCHANGED <<awsVars, initial, maxTimeout, session, callVars, outcome,
                   restored, countVars, historyVars>>

\* Faulty variant: a MODEL_NAME that was not there is left alone instead of removed.
ExitManagedKeepsModel ==
    /\ session = "in" /\ pc = "idle"
    /\ session' = "exit"
    /\ Call(initial.mem, initial.timeout,
            IF initial.model = NoModel THEN Nothing ELSE initial.model, FALSE)
    /\ UNCHANGED <<awsVars, cacheVars, countVars>>

\* The body of the session ends, by any exit path, and reset_config begins.
ExitManaged ==
    /\ session = "in" /\ pc = "idle"
    /\ session' = "exit"
    /\ Call(initial.mem, initial.timeout,
            IF initial.model = NoModel THEN Nothing ELSE initial.model,
            initial.model = NoModel)
    /\ UNCHANGED <<awsVars, cacheVars, countVars>>

\* The process dies; the next one starts with an empty manager.
Crash ==
    /\ crashes < MaxCrashes
    /\ crashes' = crashes + 1
    /\ session' = "out" /\ pc' = "idle"
    /\ req' = Nothing /\ seen' = Nothing /\ attempt' = 0
    /\ conflictAt' = Nothing
    /\ initial' = Nothing /\ settled' = Nothing /\ maxTimeout' = Nothing
    /\ outcome' = "none" /\ restored' = "none"
    /\ UNCHANGED <<awsVars, sessions, changes, pristine, undisturbed>>
-----------------------------------------------------------------------------
(* AWS and the function's operator *)

Settle ==
    /\ busy
    /\ busy' = FALSE
    /\ UNCHANGED <<live, cacheVars, session, callVars, outcome, restored,
                   countVars, historyVars>>

OperatorUpdates ==
    /\ ~busy
    /\ changes < MaxChanges
    /\ changes' = changes + 1
    /\ live' \in {c \in FullConfig : c.model \in OperatorModels} \ {live}
    /\ busy' = TRUE /\ undisturbed' = FALSE
    /\ UNCHANGED <<cacheVars, session, callVars, outcome, restored, sessions,
                   crashes, pristine, conflictAt>>

ClientStep == \/ ReadConfig \/ GetMaxTimeout \/ Update \/ UpdateConflict \/ Wait
              \/ Confirm \/ CallFails \/ UpdateAnswerLost

Next == \/ ClientStep \/ Settle
        \/ EnterManaged \/ SetConfig \/ CurrentConfig \/ ExitManaged
        \/ Crash \/ OperatorUpdates

Spec == Init /\ [][Next]_vars

\* Fairness: a running call proceeds (the waiter and every remote call give up after a
\* bounded time, which is CallFails), and the body of a session ends.  Nothing is assumed of
\* AWS, whose updates may stay in progress, of the operator, or of the starting of calls.
Fairness == WF_vars(ClientStep) /\ WF_vars(ExitManaged)
FairSpec == Spec /\ Fairness
-----------------------------------------------------------------------------
(* Correctness *)

\* The manager restores what it never let go of: when reset_config reports success, the
\* function is exactly what it was before the client first touched it (environment included),
\* even if earlier restores failed half-way and the client probed, collided and retried in
\* between.  Nobody else writes and the process survives.  lambda_client.py:279-300.
RestoredExactly ==
    changes = 0 /\ crashes = 0 /\ restored = "ok" => live = pristine

\* What will be restored is never one of the client's own probes, whatever failed before it
\* was captured: not in managed(), not in the first set_config of an unmanaged caller.
BaselineIsOriginal ==
    changes = 0 /\ crashes = 0 /\ initial # Nothing => initial = ToFunctionConfig(pristine)

\* A reset_config that succeeded has seen the memory and the model it asked for deployed, also
\* when the operator's updates fell between its update and its check; and unless one did, whatever
\* the operator deployed before, the timeout too is the captured one.
RestoreConfirmed ==
    restored = "ok" =>
        /\ settled # Nothing
        /\ settled.mem = initial.mem /\ settled.model = initial.model
        /\ undisturbed => ToFunctionConfig(live) = initial

\* The cached configuration, which every invocation reads instead of asking AWS, is the deployed
\* one, unless the operator wrote since or the last set_config failed; and no success leaves it
\* empty.  So what a failed call leaves stale lasts until the next call that succeeds.
CacheCoherent ==
    pc = "idle" /\ undisturbed /\ outcome \in {"none", "ok"} =>
        settled = ToFunctionConfig(live) \/ (settled = Nothing /\ outcome = "none")

\* An update of the operator that set_config collided with survives the retry: unless the
\* operator writes again, the retried update leaves the rest of the environment as deployed.
CollisionKeepsEnvironment ==
    [][Update /\ conflictAt = changes => live'.rest = live.rest]_vars

\* The manager implements the promise of a session: while nobody else writes and the process lives,
\* whatever fails in the body or collides with the restore, the exit of a session writes nothing but
\* the original, environment included, and reports success only when it is deployed.
\* lambda_client.py:302-330.
Promise == INSTANCE ManagedSession
         WITH Unmanaged  <- TRUE,
              function   <- IF live = pristine THEN "original" ELSE "profiled",
              unrestored <- restored \in {"failed", "interrupted"},
              disturbed  <- changes > 0 \/ crashes > 0
SessionSpec == Promise!Spec

\* Leaving a session terminates, however long AWS keeps an update in progress.
RestoreTerminates == session = "exit" ~> session # "exit"

=============================================================================
