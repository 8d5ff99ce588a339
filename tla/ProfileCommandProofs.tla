------------------------ MODULE ProfileCommandProofs ------------------------
(***************************************************************************)
(* For every set of models and number of signals and faults: what an exit  *)
(* of `optiserve profile` says of the function and of the output.          *)
(***************************************************************************)
EXTENDS ProfileCommand, TLAPS

Session == {"body", "run", "pool", "drain", "save", "restore"}

\* The handler is there before anything can be changed, and what is changed is restored on the way
\* to the report.
RestoreInv ==
    /\ pc \in Session \cup {"enter", "report"} => handled
    /\ function = "profiled" => pc \in Session \/ unrestored \/ exit = "killed"
    /\ exit # "none" => pc = "over"

\* A signal is on its way to the status, or has arrived there.
SignalInv ==
    /\ signals > 0 => \/ pc = "over" /\ exit \in {"130", "terminated", "killed"}
                      \/ pc \in {"drain", "restore"} /\ raised = "interrupt"
    /\ pc = "drain" => signals >= 1
    /\ workers => pc \in {"pool", "drain"} \/ signals >= 2

Left == {todo[i] : i \in DOMAIN todo}

Done(m) == m \in ran /\ (args.output_dir => m \in curves)

\* Every model asked for is done or still to do.
WorkInv ==
    /\ pc \in {"body", "run", "pool", "save"} => \A m \in Asked : m \in Left \/ Done(m)
    /\ pc \in {"install", "enter"} => todo = Requested
    /\ pc \in {"run", "pool", "save"} => todo # <<>>
    /\ pc = "save" => Head(todo) \in ran
    /\ pc = "restore" /\ raised = "none" => \A m \in Asked : Done(m)
    /\ pc = "report" => \A m \in Asked : Done(m)
    /\ exit = "0" => emitted /\ \A m \in Asked : Done(m)
    /\ raised # "none" => pc \in {"drain", "restore"}
    /\ pc = "drain" => raised # "none"
    /\ exit # "none" => pc = "over"

\* The type invariant, by what its parts are about; a run in progress has a model to run.
WorkType ==
    /\ args \in [yes : BOOLEAN, models : ModelArgs, output_dir : BOOLEAN]
    /\ todo \in Seq(Names) /\ ran \subseteq Names /\ curves \subseteq Names
    /\ pc \in {"run", "pool", "save"} => todo # <<>>

ControlType ==
    /\ pc \in {"main", "build", "install", "enter", "body", "run", "pool", "drain", "save",
               "restore", "report", "over"}
    /\ raised \in {"none", "error", "interrupt"}
    /\ exit \in {"none", "0", "1", "2", "130", "terminated", "killed"}

FlagType ==
    /\ handled \in BOOLEAN /\ workers \in BOOLEAN /\ emitted \in BOOLEAN
    /\ unrestored \in BOOLEAN /\ function \in {"original", "profiled"}

CountType == signals \in 0 .. MaxSignals /\ faults \in 0 .. MaxFaults

TypeInv == WorkType /\ ControlType /\ FlagType /\ CountType

LEMMA RequestedType == args \in [yes : BOOLEAN, models : ModelArgs, output_dir : BOOLEAN]
                       => Requested \in Seq(Names)
<1> SUFFICES ASSUME args.models \in ModelArgs PROVE Requested \in Seq(Names)
  OBVIOUS
<1> None \in Names
  BY DEF Names
<1>1. CASE args.models = <<>>
  BY <1>1 DEF Requested
<1>2. CASE \E m \in Names : args.models = <<m>>
  BY <1>2 DEF Requested
<1>3. CASE args.models \in Names \X Names
  <2>1. PICK m \in Names, n \in Names : args.models = <<m, n>>
    BY <1>3
  <2>2. <<m, n>> \in Seq(Names)
    OBVIOUS
  <2>3. QED
    BY <2>1, <2>2, args.models # <<>> DEF Requested
<1>4. QED
  BY <1>1, <1>2, <1>3 DEF ModelArgs

LEMMA TypeInit == Init => TypeInv
<1> SUFFICES ASSUME Init PROVE TypeInv
  OBVIOUS
<1>1. WorkType
  BY DEF Init, WorkType
<1>2. ControlType /\ FlagType
  BY DEF Init, ControlType, FlagType
<1>3. CountType
  BY CommandAssumption DEF CommandAssumption, Init, CountType
<1>4. QED
  BY <1>1, <1>2, <1>3 DEF TypeInv

LEMMA WorkTypeStep == TypeInv /\ [Next]_vars => WorkType'
<1> SUFFICES ASSUME TypeInv, [Next]_vars PROVE WorkType'
  OBVIOUS
<1> USE DEF TypeInv, WorkType, Goes, Exits, Raises, Fault
<1>1. CASE Refuse \/ Confirm \/ Build \/ InstallHandler \/ EnterSession
  BY <1>1, RequestedType DEF Refuse, Confirm, Build, InstallHandler, EnterSession
<1>2. CASE BeginRun \/ Configure \/ Measure \/ WorkersEnd \/ LeavePool \/ EndRun
  BY <1>2 DEF BeginRun, Configure, Measure, WorkersEnd, LeavePool, EndRun
<1>3. CASE SaveCurve \/ LeaveBody \/ Restore \/ Emit
  BY <1>3 DEF SaveCurve, LeaveBody, Restore, Resume, Emit
<1>4. CASE Signal \/ Terminate \/ Kill
  BY <1>4 DEF Signal, Interrupt, Terminate, Kill
<1>5. CASE Over \/ UNCHANGED vars
  BY <1>5 DEF Over, vars
<1>6. QED
  BY <1>1, <1>2, <1>3, <1>4, <1>5 DEF Next

LEMMA ControlTypeStep == TypeInv /\ [Next]_vars => ControlType'
<1> SUFFICES ASSUME TypeInv, [Next]_vars PROVE ControlType'
  OBVIOUS
<1> USE DEF TypeInv, ControlType, Goes, Exits, Raises, Fault
<1>1. CASE Refuse \/ Confirm \/ Build \/ InstallHandler \/ EnterSession
  BY <1>1 DEF Refuse, Confirm, Build, InstallHandler, EnterSession
<1>2. CASE BeginRun \/ Configure \/ Measure \/ WorkersEnd \/ LeavePool \/ EndRun
  BY <1>2 DEF BeginRun, Configure, Measure, WorkersEnd, LeavePool, EndRun
<1>3. CASE SaveCurve \/ LeaveBody \/ Restore \/ Emit
  BY <1>3 DEF SaveCurve, LeaveBody, Restore, Resume, Emit
<1>4. CASE Signal \/ Terminate \/ Kill
  BY <1>4 DEF Signal, Interrupt, Terminate, Kill
<1>5. CASE Over \/ UNCHANGED vars
  BY <1>5 DEF Over, vars
<1>6. QED
  BY <1>1, <1>2, <1>3, <1>4, <1>5 DEF Next

LEMMA FlagTypeStep == TypeInv /\ [Next]_vars => FlagType'
<1> SUFFICES ASSUME TypeInv, [Next]_vars PROVE FlagType'
  OBVIOUS
<1> USE DEF TypeInv, FlagType, Goes, Exits, Raises, Fault
<1>1. CASE Refuse \/ Confirm \/ Build \/ InstallHandler \/ EnterSession
  BY <1>1 DEF Refuse, Confirm, Build, InstallHandler, EnterSession
<1>2. CASE BeginRun \/ Configure \/ Measure \/ WorkersEnd \/ LeavePool \/ EndRun
  BY <1>2 DEF BeginRun, Configure, Measure, WorkersEnd, LeavePool, EndRun
<1>3. CASE SaveCurve \/ LeaveBody \/ Restore \/ Emit
  BY <1>3 DEF SaveCurve, LeaveBody, Restore, Resume, Emit
<1>4. CASE Signal \/ Terminate \/ Kill
  BY <1>4 DEF Signal, Interrupt, Terminate, Kill
<1>5. CASE Over \/ UNCHANGED vars
  BY <1>5 DEF Over, vars
<1>6. QED
  BY <1>1, <1>2, <1>3, <1>4, <1>5 DEF Next

LEMMA CountTypeStep == TypeInv /\ [Next]_vars => CountType'
<1> SUFFICES ASSUME TypeInv, [Next]_vars PROVE CountType'
  OBVIOUS
<1> USE CommandAssumption DEF CommandAssumption, TypeInv, CountType, Goes, Exits, Raises, Fault
<1>1. CASE Refuse \/ Confirm \/ Build \/ InstallHandler \/ EnterSession
  BY <1>1 DEF Refuse, Confirm, Build, InstallHandler, EnterSession
<1>2. CASE BeginRun \/ Configure \/ Measure \/ WorkersEnd \/ LeavePool \/ EndRun
  BY <1>2 DEF BeginRun, Configure, Measure, WorkersEnd, LeavePool, EndRun
<1>3. CASE SaveCurve \/ LeaveBody \/ Restore \/ Emit
  BY <1>3 DEF SaveCurve, LeaveBody, Restore, Resume, Emit
<1>4. CASE Signal \/ Terminate \/ Kill
  BY <1>4 DEF Signal, Interrupt, Terminate, Kill
<1>5. CASE Over \/ UNCHANGED vars
  BY <1>5 DEF Over, vars
<1>6. QED
  BY <1>1, <1>2, <1>3, <1>4, <1>5 DEF Next

LEMMA TypeInvariant == Spec => []TypeInv
<1>1. TypeInv /\ [Next]_vars => TypeInv'
  BY WorkTypeStep, ControlTypeStep, FlagTypeStep, CountTypeStep DEF TypeInv
<1>2. QED
  BY <1>1, TypeInit, PTL DEF Spec

\* Types, for every set of models.
THEOREM CommandTypeCorrect == Spec => []TypeOK
<1>1. TypeInv => TypeOK
  BY DEF TypeInv, WorkType, ControlType, FlagType, CountType, TypeOK
<1>2. QED
  BY <1>1, TypeInvariant, PTL
-----------------------------------------------------------------------------
LEMMA RestoreStep == TypeOK /\ RestoreInv /\ [Next]_vars => RestoreInv'
<1> SUFFICES ASSUME TypeOK, RestoreInv, [Next]_vars PROVE RestoreInv'
  OBVIOUS
<1> USE DEF RestoreInv, Session, TypeOK, Goes, Exits, Raises, Fault
<1>1. CASE Refuse \/ Confirm \/ Build \/ InstallHandler \/ EnterSession
  BY <1>1 DEF Refuse, Confirm, Build, InstallHandler, EnterSession
<1>2. CASE BeginRun \/ Configure \/ Measure \/ WorkersEnd \/ LeavePool \/ EndRun \/ SaveCurve
  BY <1>2 DEF BeginRun, Configure, Measure, WorkersEnd, LeavePool, EndRun, SaveCurve
<1>3. CASE LeaveBody \/ Restore \/ Emit
  BY <1>3 DEF LeaveBody, Restore, Resume, Emit
<1>4. CASE Signal \/ Terminate \/ Kill
  BY <1>4 DEF Signal, Interrupt, Terminate, Kill
<1>5. CASE Over \/ UNCHANGED vars
  BY <1>5 DEF Over, vars
<1>6. QED
  BY <1>1, <1>2, <1>3, <1>4, <1>5 DEF Next

\* The function is restored however the command ends, but for the three reasons the property names.
THEOREM CommandRestores == Spec => []RestoredOnEveryExit
<1>1. Init => RestoreInv
  BY DEF Init, RestoreInv, Session
<1>2. TypeOK /\ RestoreInv => RestoredOnEveryExit
  BY DEF RestoreInv, RestoredOnEveryExit, Session
<1>3. QED
  BY <1>1, <1>2, RestoreStep, CommandTypeCorrect, PTL DEF Spec

LEMMA SignalStep == TypeOK /\ SignalInv /\ [Next]_vars => SignalInv'
<1> SUFFICES ASSUME TypeOK, SignalInv, [Next]_vars PROVE SignalInv'
  OBVIOUS
<1> USE DEF SignalInv, TypeOK, Goes, Exits, Raises, Fault
<1>1. CASE Refuse \/ Confirm \/ Build \/ InstallHandler \/ EnterSession
  BY <1>1 DEF Refuse, Confirm, Build, InstallHandler, EnterSession
<1>2. CASE BeginRun \/ Configure \/ Measure \/ WorkersEnd \/ LeavePool \/ EndRun \/ SaveCurve
  BY <1>2 DEF BeginRun, Configure, Measure, WorkersEnd, LeavePool, EndRun, SaveCurve
<1>3. CASE LeaveBody \/ Restore \/ Emit
  BY <1>3 DEF LeaveBody, Restore, Resume, Emit
<1>4. CASE Signal
  BY <1>4 DEF Signal, Interrupt
<1>5. CASE Terminate \/ Kill
  BY <1>5 DEF Terminate, Kill
<1>6. CASE Over \/ UNCHANGED vars
  BY <1>6 DEF Over, vars
<1>7. QED
  BY <1>1, <1>2, <1>3, <1>4, <1>5, <1>6 DEF Next

LEMMA SignalInvariant == Spec => [](TypeOK /\ SignalInv)
<1>1. Init => SignalInv
  BY DEF Init, SignalInv
<1>2. QED
  BY <1>1, SignalStep, CommandTypeCorrect, PTL DEF Spec

\* A signal reaches the exit status.
THEOREM SignalsAreReported == Spec => []InterruptIsReported
<1>1. TypeOK /\ SignalInv => InterruptIsReported
  BY DEF SignalInv, InterruptIsReported
<1>2. QED
  BY <1>1, SignalInvariant, PTL

\* One signal does not let a worker outlive the session.
THEOREM WorkersEndFirst == Spec => []NoWorkerOutlivesTheSession
<1>1. TypeOK /\ SignalInv => NoWorkerOutlivesTheSession
  BY DEF SignalInv, NoWorkerOutlivesTheSession
<1>2. QED
  BY <1>1, SignalInvariant, PTL
-----------------------------------------------------------------------------
LEMMA TailLeavesTheRest ==
    ASSUME NEW S, NEW t \in Seq(S), t # <<>>
    PROVE  \A m : (\E i \in DOMAIN t : t[i] = m) =>
                      m = Head(t) \/ \E j \in DOMAIN Tail(t) : Tail(t)[j] = m
<1> SUFFICES ASSUME NEW i \in DOMAIN t, t[i] # Head(t)
             PROVE  \E j \in DOMAIN Tail(t) : Tail(t)[j] = t[i]
  OBVIOUS
<1>1. i \in 2 .. Len(t)
  OBVIOUS
<1>2. i - 1 \in DOMAIN Tail(t) /\ Tail(t)[i - 1] = t[i]
  BY <1>1
<1>3. QED
  BY <1>2

LEMMA WorkStep == TypeOK /\ WorkInv /\ [Next]_vars => WorkInv'
<1> SUFFICES ASSUME TypeOK, WorkInv, [Next]_vars PROVE WorkInv'
  OBVIOUS
<1> USE DEF WorkInv, TypeOK, Goes, Exits, Raises, Fault, Left, Done, Asked
<1>0. UNCHANGED args => Requested' = Requested
  BY DEF Requested
<1>1. CASE Refuse \/ Confirm
  BY <1>0, <1>1 DEF Refuse, Confirm
<1>2. CASE Build
  BY <1>0, <1>2 DEF Build
<1>3. CASE InstallHandler \/ EnterSession
  BY <1>0, <1>3 DEF InstallHandler, EnterSession
<1>4. CASE BeginRun
  BY <1>0, <1>4 DEF BeginRun
<1>5. CASE Configure \/ Measure \/ WorkersEnd \/ LeavePool
  BY <1>0, <1>5 DEF Configure, Measure, WorkersEnd, LeavePool
<1>6. CASE EndRun
  BY <1>0, <1>6 DEF EndRun
<1>7. CASE SaveCurve
  <2>1. todo \in Seq(Names) /\ todo # <<>> /\ Head(todo) \in ran
    BY <1>7 DEF SaveCurve
  <2>2. \A m \in Left : m = Head(todo) \/ \E j \in DOMAIN Tail(todo) : Tail(todo)[j] = m
    BY <2>1, TailLeavesTheRest
  <2>3. QED
    BY <1>0, <1>7, <2>1, <2>2 DEF SaveCurve
<1>8. CASE LeaveBody \/ Restore \/ Emit
  BY <1>0, <1>8 DEF LeaveBody, Restore, Resume, Emit
<1>9. CASE Signal
  BY <1>0, <1>9 DEF Signal, Interrupt
<1>10. CASE Terminate \/ Kill
  BY <1>0, <1>10 DEF Terminate, Kill
<1>11. CASE Over \/ UNCHANGED vars
  BY <1>0, <1>11 DEF Over, vars
<1>12. QED
  BY <1>1, <1>2, <1>3, <1>4, <1>5, <1>6, <1>7, <1>8, <1>9, <1>10, <1>11 DEF Next

\* Status 0 means that the whole result was produced.
THEOREM ZeroIsTheWholeResult == Spec => []ZeroMeansDone
<1>1. Init => WorkInv
  BY DEF Init, WorkInv
<1>2. WorkInv => ZeroMeansDone
  BY DEF WorkInv, ZeroMeansDone, Done
<1>3. QED
  BY <1>1, <1>2, WorkStep, CommandTypeCorrect, PTL DEF Spec
-----------------------------------------------------------------------------
(***************************************************************************)
(* The command implements ManagedSession.  A failed restore is on record   *)
(* only once the session is left, and outside of one nothing can have been *)
(* changed but by a restore that failed.                                   *)
(***************************************************************************)
StepBar == [Promise!Next]_(Promise!vars)

RecordInv == unrestored => pc \in {"report", "over"}

SessionInv == TypeOK /\ RestoreInv /\ RecordInv

LEMMA RecordStep == TypeOK /\ RecordInv /\ [Next]_vars => RecordInv'
<1> SUFFICES ASSUME TypeOK, RecordInv, [Next]_vars PROVE RecordInv'
  OBVIOUS
<1> USE DEF RecordInv, Goes, Exits, Raises, Fault
<1>1. CASE Refuse \/ Confirm \/ Build \/ InstallHandler \/ EnterSession
  BY <1>1 DEF Refuse, Confirm, Build, InstallHandler, EnterSession
<1>2. CASE BeginRun \/ Configure \/ Measure \/ WorkersEnd \/ LeavePool \/ EndRun \/ SaveCurve
  BY <1>2 DEF BeginRun, Configure, Measure, WorkersEnd, LeavePool, EndRun, SaveCurve
<1>3. CASE LeaveBody \/ Restore \/ Emit
  BY <1>3 DEF LeaveBody, Restore, Resume, Emit
<1>4. CASE Signal \/ Terminate \/ Kill
  BY <1>4 DEF Signal, Interrupt, Terminate, Kill
<1>5. CASE Over \/ UNCHANGED vars
  BY <1>5 DEF Over, vars
<1>. QED
  BY <1>1, <1>2, <1>3, <1>4, <1>5 DEF Next

LEMMA CommandSessionStep == SessionInv /\ SessionInv' /\ [Next]_vars => StepBar
<1> SUFFICES ASSUME SessionInv, SessionInv', [Next]_vars PROVE StepBar
  OBVIOUS
<1> USE DEF StepBar, Promise!Next, Promise!vars, SessionInv, RecordInv
<1>0. pc # "over" => exit = "none"
  BY DEF RestoreInv
<1>1. CASE Refuse \/ Confirm \/ Build \/ InstallHandler
  BY <1>0, <1>1 DEF Refuse, Confirm, Build, InstallHandler, Goes, Exits, Raises, TypeOK
<1>2. CASE EnterSession
  BY <1>0, <1>2 DEF EnterSession, Goes, Exits, Raises, TypeOK, Promise!Enter
<1>3. CASE BeginRun \/ Measure \/ WorkersEnd
  BY <1>0, <1>3 DEF BeginRun, Measure, WorkersEnd, Goes, TypeOK
<1>4. CASE Configure
  BY <1>0, <1>4 DEF Configure, Goes, Raises, TypeOK, Promise!Touch, Promise!Exit
<1>5. CASE LeavePool \/ LeaveBody
  BY <1>0, <1>5 DEF LeavePool, LeaveBody, Goes, TypeOK, Promise!Exit
<1>6. CASE EndRun \/ SaveCurve
  BY <1>0, <1>6 DEF EndRun, SaveCurve, Goes, Raises, TypeOK, Promise!Exit
<1>7. CASE Restore
  BY <1>0, <1>7 DEF Restore, Resume, Goes, Exits, TypeOK, Promise!Leave
<1>8. CASE Emit
  BY <1>0, <1>8 DEF Emit, Goes, Exits, Raises, TypeOK
<1>9. CASE Signal
  BY <1>0, <1>9 DEF Signal, Interrupt, Exits, Raises, TypeOK, Promise!Exit, Promise!Leave
<1>10. CASE Terminate
  BY <1>0, <1>10 DEF Terminate, Exits, TypeOK, RestoreInv, Session
<1>11. CASE Kill
  BY <1>0, <1>11 DEF Kill, Exits, TypeOK, Promise!Disturb
<1>12. CASE Over \/ UNCHANGED vars
  BY <1>12 DEF Over, vars
<1>. QED
  BY <1>1, <1>2, <1>3, <1>4, <1>5, <1>6, <1>7, <1>8, <1>9, <1>10, <1>11, <1>12 DEF Next

\* Every run of the command, failures and signals included, is one of a session that keeps its promise,
\* for any models and any number of faults and signals.
THEOREM CommandImplementsSession == Spec => SessionSpec
<1>1. Init => Promise!Init
  BY DEF Init, Promise!Init
<1>2. Init => RestoreInv /\ RecordInv
  BY DEF Init, RestoreInv, RecordInv, Session
<1>3. Spec => []SessionInv
  BY <1>2, RestoreStep, RecordStep, CommandTypeCorrect, PTL DEF Spec, SessionInv
<1>. QED
  BY <1>1, <1>3, CommandSessionStep, PTL DEF Spec, SessionSpec, Promise!Spec, StepBar
=============================================================================
