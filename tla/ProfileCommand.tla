--------------------------- MODULE ProfileCommand ---------------------------
(***************************************************************************)
(* `optiserve profile`: main, cmd_profile, _emit and the SIGTERM handler   *)
(* (src/optiserve/cli.py), the modeling object it builds and the profiling *)
(* session it runs in (modeling/function_model.py, profiling/explorer.py). *)
(*                                                                         *)
(* The deployed function is as it was found or as profiling left it;       *)
(* LambdaConfig has what happens between the two.  What a run measures is  *)
(* Profiler's.                                                             *)
(***************************************************************************)
EXTENDS Naturals, Sequences, FiniteSets

CONSTANTS
    Models,     \* MODEL_NAME values
    None,       \* the model "None" of a function without variants
    MaxSignals, \* bound on SIGINTs and SIGTERMs
    MaxFaults   \* bound on what else goes wrong

ASSUME CommandAssumption == None \notin Models /\ MaxSignals \in Nat /\ MaxFaults \in Nat

VARIABLES
    args,     \* yes, models, output_dir
    pc,       \* "main", "build", "install", "enter", "body", "run", "pool", "drain", "save",
              \* "restore", "report", "over"
    handled,  \* the SIGTERM handler is installed
    todo,     \* what is left of available_models
    ran,      \* _explored
    raised,   \* the exception on its way out: "none", "error", "interrupt"
    workers,  \* threads of the pool are invoking the function
    function, \* "original" or "profiled"
    curves,   \* models with a .mdl file in output_dir
    emitted,  \* the JSON result is out
    exit,     \* exit status: "none", "0", "1", "2", "130", or "terminated", "killed" by a signal
    signals, faults, unrestored \* history; unrestored: a reset_config failed or was interrupted

vars == <<args, pc, handled, todo, ran, raised, workers, function, curves, emitted, exit, signals,
          faults, unrestored>>

Names == Models \cup {None}
ModelArgs == {<<>>} \cup {<<m>> : m \in Names} \cup (Names \X Names)

TypeOK ==
    /\ args \in [yes : BOOLEAN, models : ModelArgs, output_dir : BOOLEAN]
    /\ pc \in {"main", "build", "install", "enter", "body", "run", "pool", "drain", "save",
              "restore", "report", "over"}
    /\ handled \in BOOLEAN /\ todo \in Seq(Names) /\ ran \subseteq Names
    /\ raised \in {"none", "error", "interrupt"} /\ workers \in BOOLEAN
    /\ function \in {"original", "profiled"} /\ curves \subseteq Names /\ emitted \in BOOLEAN
    /\ exit \in {"none", "0", "1", "2", "130", "terminated", "killed"}
    /\ signals \in 0 .. MaxSignals /\ faults \in 0 .. MaxFaults /\ unrestored \in BOOLEAN

Init ==
    /\ args \in [yes : BOOLEAN, models : ModelArgs, output_dir : BOOLEAN]
    /\ pc = "main" /\ handled = FALSE /\ todo = <<>> /\ ran = {} /\ raised = "none"
    /\ workers = FALSE /\ function = "original" /\ curves = {} /\ emitted = FALSE /\ exit = "none"
    /\ signals = 0 /\ faults = 0 /\ unrestored = FALSE

\* available_models
Requested == IF args.models = <<>> THEN <<None>> ELSE args.models
Asked == {Requested[i] : i \in DOMAIN Requested}

Fault == faults < MaxFaults /\ faults' = faults + 1

\* main returns, and with it the process ends.
Exits(status) == pc' = "over" /\ exit' = status /\ raised' = "none"

Goes(where) == pc' = where /\ UNCHANGED <<exit, raised>>

\* Faulty variant: the pool is left without waiting for its workers.
RaisesAtOnce(what) ==
    IF pc \in {"body", "run", "pool", "drain", "save"}
    THEN pc' = "restore" /\ raised' = what /\ UNCHANGED exit
    ELSE Exits(IF what = "interrupt" THEN "130" ELSE "1")

\* Faulty variant: managed() restores only when its body ends normally.
RaisesPastTheRestore(what) == Exits(IF what = "interrupt" THEN "130" ELSE "1")

\* An exception: out of the pool it waits for the workers, but a second one does not; inside the
\* session it reaches the restore, elsewhere it reaches main.
Raises(what) ==
    CASE pc = "pool" -> pc' = "drain" /\ raised' = what /\ UNCHANGED exit
      [] pc \in {"body", "run", "drain", "save"} ->
            pc' = "restore" /\ raised' = what /\ UNCHANGED exit
      [] OTHER -> Exits(IF what = "interrupt" THEN "130" ELSE "1")
-----------------------------------------------------------------------------
(* cmd_profile *)

Refuse ==
    /\ pc = "main" /\ ~args.yes
    /\ Exits("2")
    /\ UNCHANGED <<args, handled, todo, ran, workers, function, curves, emitted, signals, faults,
                   unrestored>>

Confirm ==
    /\ pc = "main" /\ args.yes
    /\ Goes("build")
    /\ UNCHANGED <<args, handled, todo, ran, workers, function, curves, emitted, signals, faults,
                   unrestored>>

\* The trace sink, the checkpoint store, the Explorer.  The bounds are a pair, so the only memory
\* space is that of "None": the objectives of any other model raise KeyError.
Build ==
    /\ pc = "build"
    /\ \/ /\ Asked \subseteq {None}
          /\ Goes("install")
          /\ UNCHANGED faults
       \/ /\ ~(Asked \subseteq {None})
          /\ Raises("error")
          /\ UNCHANGED faults
       \/ Fault /\ Raises("error")
    /\ todo' = Requested
    /\ UNCHANGED <<args, handled, ran, workers, function, curves, emitted, signals, unrestored>>

\* Faulty variant: a container stop is not turned into an exception.
InstallNothing ==
    /\ pc = "install"
    /\ Goes("enter")
    /\ UNCHANGED <<args, handled, todo, ran, workers, function, curves, emitted, signals, faults,
                   unrestored>>

\* _install_sigterm_handler
InstallHandler ==
    /\ pc = "install"
    /\ handled' = TRUE
    /\ Goes("enter")
    /\ UNCHANGED <<args, todo, ran, workers, function, curves, emitted, signals, faults,
                   unrestored>>

\* managed() captures the live configuration before the body begins.
EnterSession ==
    /\ pc = "enter"
    /\ \/ Goes("body") /\ UNCHANGED faults
       \/ Fault /\ Raises("error")
    /\ UNCHANGED <<args, handled, todo, ran, workers, function, curves, emitted, signals,
                   unrestored>>

\* run() of the next model, if it has not been explored.
BeginRun ==
    /\ pc = "body" /\ todo # <<>>
    /\ Goes(IF Head(todo) \in ran THEN "save" ELSE "run")
    /\ UNCHANGED <<args, handled, todo, ran, workers, function, curves, emitted, signals, faults,
                   unrestored>>

\* set_config, for the next memory size; it may fail before or after the update.
Configure ==
    /\ pc = "run"
    /\ \/ function' = "profiled" /\ Goes("run") /\ UNCHANGED faults
       \/ Fault /\ Raises("error") /\ function' \in {function, "profiled"}
    /\ UNCHANGED <<args, handled, todo, ran, workers, curves, emitted, signals, unrestored>>

\* explore_multi_threading
Measure ==
    /\ pc = "run" /\ function = "profiled"
    /\ workers' = TRUE
    /\ Goes("pool")
    /\ UNCHANGED <<args, handled, todo, ran, function, curves, emitted, signals, faults,
                   unrestored>>

WorkersEnd ==
    /\ workers
    /\ workers' = FALSE
    /\ UNCHANGED <<args, pc, handled, todo, ran, raised, function, curves, emitted, exit, signals,
                   faults, unrestored>>

\* The pool is left; an exception on its way out goes on to the restore.
LeavePool ==
    /\ pc \in {"pool", "drain"} /\ ~workers
    /\ Goes(IF pc = "pool" THEN "run" ELSE "restore")
    /\ UNCHANGED <<args, handled, todo, ran, workers, function, curves, emitted, signals, faults,
                   unrestored>>

\* The run ends in a fitted curve, at once when a checkpoint holds all of it; or it fails.
EndRun ==
    /\ pc = "run"
    /\ \/ /\ ran' = ran \cup {Head(todo)}
          /\ Goes("save")
          /\ UNCHANGED faults
       \/ /\ Fault /\ Raises("error")
          /\ UNCHANGED ran
    /\ UNCHANGED <<args, handled, todo, workers, function, curves, emitted, signals, unrestored>>

\* Faulty variant: a curve that cannot be written is only logged.
SaveCurveLeniently ==
    /\ pc = "save"
    /\ todo' = Tail(todo)
    /\ Goes("body")
    /\ \/ /\ curves' = IF args.output_dir THEN curves \cup {Head(todo)} ELSE curves
          /\ UNCHANGED faults
       \/ args.output_dir /\ Fault /\ UNCHANGED curves
    /\ UNCHANGED <<args, handled, ran, workers, function, emitted, signals, unrestored>>

\* curve.save, inside the session.
SaveCurve ==
    /\ pc = "save"
    /\ \/ /\ curves' = IF args.output_dir THEN curves \cup {Head(todo)} ELSE curves
          /\ todo' = Tail(todo)
          /\ Goes("body")
          /\ UNCHANGED faults
       \/ /\ args.output_dir /\ Fault /\ Raises("error")
          /\ UNCHANGED <<curves, todo>>
    /\ UNCHANGED <<args, handled, ran, workers, function, emitted, signals, unrestored>>

LeaveBody ==
    /\ pc = "body" /\ todo = <<>>
    /\ Goes("restore")
    /\ UNCHANGED <<args, handled, todo, ran, workers, function, curves, emitted, signals, faults,
                   unrestored>>

\* What was on its way out of the session goes on.
Resume == IF raised = "none" THEN Goes("report")
          ELSE Exits(IF raised = "interrupt" THEN "130" ELSE "1")

\* Faulty variant: an exception that left the body ends in managed().
RestoreSwallowing ==
    /\ pc = "restore"
    /\ \/ /\ function' = "original"
          /\ UNCHANGED <<faults, unrestored>>
       \/ Fault /\ unrestored' = TRUE /\ function' \in {function, "original"}
    /\ Goes("report")
    /\ UNCHANGED <<args, handled, todo, ran, workers, curves, emitted, signals>>

\* reset_config on the way out of managed(): a failure, before or after its update, is logged and
\* nothing else.
Restore ==
    /\ pc = "restore"
    /\ \/ /\ function' = "original"
          /\ UNCHANGED <<faults, unrestored>>
       \/ Fault /\ unrestored' = TRUE /\ function' \in {function, "original"}
    /\ Resume
    /\ UNCHANGED <<args, handled, todo, ran, workers, curves, emitted, signals>>

\* The payload and _emit; the output cannot be written, or the memory space has become empty.
Emit ==
    /\ pc = "report"
    /\ \/ /\ emitted' = TRUE
          /\ Exits("0")
          /\ UNCHANGED faults
       \/ /\ Fault /\ Raises("error")
          /\ UNCHANGED emitted
    /\ UNCHANGED <<args, handled, todo, ran, workers, function, curves, signals, unrestored>>
-----------------------------------------------------------------------------
(* Signals *)

\* A KeyboardInterrupt.  In the restore it takes the place of what was raised, and the update it
\* cuts off has reached the function or has not.
Interrupt ==
    /\ signals' = signals + 1
    /\ IF pc = "restore"
       THEN function' \in {function, "original"} /\ unrestored' = TRUE
       ELSE UNCHANGED <<function, unrestored>>
    /\ Raises("interrupt")
    /\ UNCHANGED <<args, handled, todo, ran, workers, curves, emitted, faults>>

\* SIGINT, or SIGTERM once the handler is there.
Signal ==
    /\ pc # "over" /\ signals < MaxSignals
    /\ Interrupt

\* SIGTERM before the handler is there.
Terminate ==
    /\ pc # "over" /\ ~handled /\ signals < MaxSignals
    /\ signals' = signals + 1
    /\ Exits("terminated") /\ workers' = FALSE
    /\ UNCHANGED <<args, handled, todo, ran, function, curves, emitted, faults, unrestored>>

\* SIGKILL, or the machine goes down.
Kill ==
    /\ pc # "over" /\ Fault
    /\ Exits("killed") /\ workers' = FALSE
    /\ UNCHANGED <<args, handled, todo, ran, function, curves, emitted, signals, unrestored>>

\* The interpreter waits for the workers that are left.
Over == pc = "over" /\ ~workers /\ UNCHANGED vars

Next ==
    \/ Refuse \/ Confirm \/ Build \/ InstallHandler \/ EnterSession \/ BeginRun \/ Configure
    \/ Measure \/ WorkersEnd \/ LeavePool \/ EndRun \/ SaveCurve \/ LeaveBody \/ Restore \/ Emit
    \/ Signal \/ Terminate \/ Kill \/ Over

Spec == Init /\ [][Next]_vars
-----------------------------------------------------------------------------
(* Correctness *)

\* The function is left as profiling had it only if the restore itself failed or was interrupted, or
\* the process was killed outright: "the function is restored on
\* every exit path" (cli.py:11-13).  A container stop is not among the reasons, whenever it comes.
RestoredOnEveryExit ==
    pc = "over" /\ function = "profiled" => unrestored \/ exit = "killed"

\* Status 0 promises the whole result: every model asked for was run, its curve is in the output
\* directory, and the JSON is out.
ZeroMeansDone ==
    exit = "0" => emitted /\ Asked \subseteq ran /\ (args.output_dir => Asked \subseteq curves)

\* A signal that is turned into an exception always reaches the status, also when the restore fails
\* after it or it interrupts the restore of a run that failed.
InterruptIsReported ==
    pc = "over" /\ signals > 0 => exit \in {"130", "terminated", "killed"}

\* The pool's workers, which go on retrying and invoking, are gone before the function is restored
\* and the command ends, unless a second signal cut the wait for them short (explorer.py:167-169).
NoWorkerOutlivesTheSession ==
    pc \in {"restore", "report", "over"} /\ workers => signals >= 2

\* The command keeps a session's promise, which it takes from LambdaConfig: it writes only inside of
\* one, leaves it through the restore whatever is raised in the body and whenever a signal comes, and
\* nothing is written after the restore.  cli.py:249-275.
Promise == INSTANCE ManagedSession
         WITH Unmanaged <- FALSE,
              session   <- CASE pc \in {"body", "run", "pool", "drain", "save"} -> "in"
                             [] pc = "restore" -> "exit"
                             [] OTHER -> "out",
              disturbed <- exit = "killed"
SessionSpec == Promise!Spec
=============================================================================
