------------------------- MODULE LambdaConfigProofs -------------------------
(***************************************************************************)
(* ConfigManager's restore guarantee, for every set of configurations and  *)
(* every bound: proofs about LambdaConfig.                                 *)
(***************************************************************************)
EXTENDS LambdaConfig, TLAPS

USE DEF awsVars, cacheVars, callVars, countVars, historyVars

LEMMA NewModelType ==
    ASSUME req \in Request, seen \in Environment
    PROVE  NewModel \in Models \cup {NoModel}
  BY DEF NewModel, Request, Environment

LEMMA RequestedType ==
    ASSUME TypeOK, pc = "update"
    PROVE  Requested \in FullConfig
<1>1. req \in Request /\ seen \in Environment
  BY DEF TypeOK
<1>2. NewModel \in Models \cup {NoModel}
  BY <1>1, NewModelType
<1>3. (IF req.timeout = Nothing THEN maxTimeout ELSE req.timeout) \in Timeouts
  BY <1>1, ConstantsAssumption DEF TypeOK, Request, ConstantsAssumption
<1>4. QED
  BY <1>1, <1>2, <1>3 DEF Requested, FullConfig, Request, Environment

LEMMA ProjectionType ==
    ASSUME NEW c \in FullConfig
    PROVE  ToFunctionConfig(c) \in FunctionConfig
  BY DEF ToFunctionConfig, FullConfig, FunctionConfig

LEMMA TypeInit ==
    ASSUME Init
    PROVE  TypeOK
<1>1. live \in FullConfig /\ pristine \in FullConfig /\ busy \in BOOLEAN
  BY DEF Init
<1>2. 0 \in 0 .. MaxConflictRetries /\ 0 \in 0 .. MaxSessions /\ 0 \in 0 .. MaxChanges
      /\ 0 \in 0 .. MaxCrashes
  BY ConstantsAssumption DEF ConstantsAssumption
<1>3. QED
  BY <1>1, <1>2 DEF Init, TypeOK, Outcomes

LEMMA TypeStep ==
    ASSUME TypeOK, [Next]_vars
    PROVE  TypeOK'
<1> USE ConstantsAssumption DEF ConstantsAssumption
<1>1. CASE ReadConfig
  BY <1>1, ProjectionType DEF TypeOK, ReadConfig, AfterRead, FullConfig, Environment
<1>2. CASE GetMaxTimeout
  BY <1>2 DEF TypeOK, GetMaxTimeout
<1>3. CASE Update
  BY <1>3, RequestedType DEF TypeOK, Update
<1>4. CASE UpdateConflict
  BY <1>4 DEF TypeOK, UpdateConflict, Retry, Return, Outcomes
<1>5. CASE Wait
  BY <1>5 DEF TypeOK, Wait
<1>6. CASE Confirm
  BY <1>6, ProjectionType DEF TypeOK, Confirm, Return, Outcomes
<1>7. CASE CallFails
  BY <1>7 DEF TypeOK, CallFails, Return, How, Outcomes
<1>8. CASE UpdateAnswerLost
  BY <1>8, RequestedType DEF TypeOK, UpdateAnswerLost, Return, How, Outcomes
<1>9. CASE EnterManaged
  BY <1>9, ProjectionType DEF TypeOK, EnterManaged, Outcomes
<1>10. CASE SetConfig
  BY <1>10 DEF TypeOK, SetConfig, Call, NormalModel, Request, Outcomes
<1>11. CASE CurrentConfig
  BY <1>11, ProjectionType DEF TypeOK, CurrentConfig
<1>12. CASE ExitManaged
  <2>1. initial \in FunctionConfig
    BY <1>12 DEF TypeOK, ExitManaged
  <2>2. req' \in Request
    BY <1>12, <2>1 DEF ExitManaged, Call, NormalModel, Request, FunctionConfig
  <2>3. QED
    BY <1>12, <2>1, <2>2 DEF TypeOK, ExitManaged, Call, Outcomes
<1>13. CASE Crash
  BY <1>13 DEF TypeOK, Crash, Outcomes
<1>14. CASE Settle
  BY <1>14 DEF TypeOK, Settle
<1>15. CASE OperatorUpdates
  <2>1. changes \in 0 .. MaxChanges /\ changes < MaxChanges /\ changes' = changes + 1
        /\ live' \in FullConfig /\ undisturbed' \in BOOLEAN
    BY <1>15 DEF TypeOK, OperatorUpdates
  <2>2. UNCHANGED <<cacheVars, session, callVars, outcome, restored, sessions, crashes, pristine,
                    conflictAt>> /\ busy' \in BOOLEAN
    BY <1>15 DEF OperatorUpdates
  <2>3. changes' \in 0 .. MaxChanges
    BY <2>1
  <2>4. QED
    BY <2>1, <2>2, <2>3 DEF TypeOK
<1>16. CASE UNCHANGED vars
  BY <1>16 DEF TypeOK, vars
<1>17. QED
  BY <1>1, <1>2, <1>3, <1>4, <1>5, <1>6, <1>7, <1>8, <1>9, <1>10, <1>11, <1>12, <1>13,
     <1>14, <1>15, <1>16 DEF Next, ClientStep

\* Every state of the specification is well typed.
THEOREM TypeCorrect == Spec => []TypeOK
<1>1. Init => TypeOK
  BY TypeInit
<1>2. TypeOK /\ [Next]_vars => TypeOK'
  BY TypeStep
<1>3. QED
  BY <1>1, <1>2, PTL DEF Spec
-----------------------------------------------------------------------------
(***************************************************************************)
(* The restore guarantee.  As long as nobody else writes and the process   *)
(* lives (Quiet), the baseline is the original configuration, everything   *)
(* before it was captured left the function alone, the rest of the         *)
(* environment never changes, and a restore asks for the original and,     *)
(* once its update is through, has it.                                     *)
(***************************************************************************)
Quiet == changes = 0 /\ crashes = 0

Original == ToFunctionConfig(pristine)

RestoreRequest == [mem |-> pristine.mem, timeout |-> pristine.timeout,
                   model |-> IF pristine.model = NoModel THEN Nothing ELSE pristine.model,
                   clear |-> (pristine.model = NoModel)]

RestoreInv ==
    /\ initial \in {Nothing, Original}
    /\ initial = Nothing => live = pristine
    /\ live.rest = pristine.rest
    /\ pc \in {"quota", "update", "wait", "confirm"} => initial # Nothing
    /\ pc \in {"quota", "update"} => seen.rest = pristine.rest
    /\ session = "exit" => pc # "idle" /\ req = RestoreRequest
    /\ session = "exit" /\ pc \in {"wait", "confirm"} => live = pristine
    /\ restored = "ok" => pc = "idle" /\ live = pristine

Inv == TypeOK /\ pristine.model \in OperatorModels /\ (Quiet => RestoreInv)

\* What an update of a restore deploys is the original configuration.
LEMMA RestoreDeploysOriginal ==
    ASSUME TypeOK, pristine.model \in OperatorModels, RestoreInv,
           pc = "update", session = "exit"
    PROVE  Requested = pristine
<1>1. req = RestoreRequest /\ seen.rest = pristine.rest /\ pristine \in FullConfig
  BY DEF RestoreInv, TypeOK
<1>2. req.mem = pristine.mem /\ req.timeout = pristine.timeout
      /\ req.clear = (pristine.model = NoModel)
      /\ req.model = (IF pristine.model = NoModel THEN Nothing ELSE pristine.model)
  BY <1>1 DEF RestoreRequest
<1>3. pristine.timeout # Nothing /\ (pristine.model # NoModel => pristine.model # Nothing)
  BY <1>1, ConstantsAssumption DEF ConstantsAssumption, FullConfig
<1>4. NewModel = pristine.model
  BY <1>2, <1>3 DEF NewModel
<1>5. Requested = [mem |-> pristine.mem, timeout |-> pristine.timeout,
                   model |-> pristine.model, rest |-> pristine.rest]
  BY <1>1, <1>2, <1>3, <1>4 DEF Requested
<1>6. QED
  BY <1>1, <1>5 DEF FullConfig

\* Whatever is requested, the rest of the environment stays.
LEMMA RequestedKeepsRest ==
    ASSUME RestoreInv, pc = "update"
    PROVE  Requested.rest = pristine.rest
  BY DEF RestoreInv, Requested

\* The sentinel aside, reset_config's arguments reach the call unchanged.
LEMMA ExitRequestsOriginal ==
    ASSUME TypeOK, pristine.model \in OperatorModels, Sentinel \notin OperatorModels,
           initial = Original, ExitManaged
    PROVE  req' = RestoreRequest
<1>1. pristine \in FullConfig
  BY DEF TypeOK
<1>2. initial.mem = pristine.mem /\ initial.timeout = pristine.timeout
      /\ initial.model = pristine.model
  BY DEF Original, ToFunctionConfig
<1>3. Nothing # Sentinel
  BY ConstantsAssumption DEF ConstantsAssumption
<1>4. NormalModel(IF initial.model = NoModel THEN Nothing ELSE initial.model)
      = IF pristine.model = NoModel THEN Nothing ELSE pristine.model
  BY <1>2, <1>3 DEF NormalModel
<1>5. QED
  BY <1>2, <1>4 DEF ExitManaged, Call, RestoreRequest

LEMMA RestoreInvStep ==
    ASSUME Sentinel \notin OperatorModels, Inv, [Next]_vars
    PROVE  Inv'
<1>1. TypeOK'
  BY TypeStep DEF Inv
<1>2. pristine' = pristine
  BY DEF Next, ClientStep, vars, ReadConfig, GetMaxTimeout, Update, UpdateConflict, Retry, Wait,
         Confirm, CallFails, UpdateAnswerLost, Return, EnterManaged, SetConfig, Call,
         CurrentConfig, ExitManaged, Crash, Settle, OperatorUpdates
<1>3. Original' = Original /\ RestoreRequest' = RestoreRequest /\ Original # Nothing
  <2>1. Original \in FunctionConfig
    BY ProjectionType DEF Inv, TypeOK, Original
  <2>2. QED
    BY <1>2, <2>1, ConstantsAssumption
    DEF ConstantsAssumption, Original, RestoreRequest, ToFunctionConfig
<1>4. ASSUME Quiet' PROVE RestoreInv'
  <2> USE <1>2, <1>3, <1>4 DEF Inv, RestoreInv, Quiet
  <2>1. CASE ReadConfig
    BY <2>1 DEF ReadConfig, AfterRead, Original
  <2>2. CASE GetMaxTimeout
    BY <2>2 DEF GetMaxTimeout
  <2>3. CASE Update
    <3>1. Quiet /\ pc = "update" /\ live' = Requested
      BY <2>3 DEF Update
    <3>2. live'.rest = pristine.rest
      BY <3>1, RequestedKeepsRest
    <3>3. session = "exit" => live' = pristine
      BY <3>1, RestoreDeploysOriginal
    <3>4. QED
      BY <2>3, <3>1, <3>2, <3>3 DEF Update
  <2>4. CASE UpdateConflict
    BY <2>4 DEF UpdateConflict, Retry, Return
  <2>5. CASE Wait
    BY <2>5 DEF Wait
  <2>6. CASE Confirm
    BY <2>6 DEF Confirm, Return
  <2>7. CASE CallFails
    BY <2>7 DEF CallFails, Return, How
  <2>8. CASE UpdateAnswerLost
    <3>1. Quiet /\ pc = "update" /\ live' = Requested
      BY <2>8 DEF UpdateAnswerLost
    <3>2. live'.rest = pristine.rest
      BY <3>1, RequestedKeepsRest
    <3>3. restored' # "ok" /\ session' # "exit" /\ pc' = "idle" /\ initial' = initial
      BY <2>8, <3>1 DEF UpdateAnswerLost, Return, How, TypeOK
    <3>4. QED
      BY <3>1, <3>2, <3>3
  <2>9. CASE EnterManaged
    BY <2>9 DEF EnterManaged, TypeOK, Original
  <2>10. CASE SetConfig
    BY <2>10 DEF SetConfig, Call
  <2>11. CASE CurrentConfig
    BY <2>11 DEF CurrentConfig
  <2>12. CASE ExitManaged
    <3>1. Quiet /\ initial = Original /\ session = "in" /\ pc = "idle"
      BY <2>12 DEF ExitManaged, TypeOK
    <3>2. req' = RestoreRequest
      BY <2>12, <3>1, ExitRequestsOriginal
    <3>3. QED
      BY <2>12, <3>1, <3>2 DEF ExitManaged, Call
  <2>13. CASE Crash
    BY <2>13 DEF Crash, TypeOK
  <2>14. CASE Settle
    BY <2>14 DEF Settle
  <2>15. CASE OperatorUpdates
    BY <2>15 DEF OperatorUpdates, TypeOK
  <2>16. CASE UNCHANGED vars
    BY <2>16 DEF vars
  <2>17. QED
    BY <2>1, <2>2, <2>3, <2>4, <2>5, <2>6, <2>7, <2>8, <2>9, <2>10, <2>11, <2>12, <2>13,
       <2>14, <2>15, <2>16 DEF Next, ClientStep
<1>5. QED
  BY <1>1, <1>2, <1>4 DEF Inv

\* When nobody deploys the sentinel as a model name, RestoreInv holds throughout.
THEOREM RestoreInvariant ==
    ASSUME Sentinel \notin OperatorModels
    PROVE  Spec => []Inv
<1>1. Init => Inv
  BY TypeInit DEF Init, Inv, RestoreInv, Original
<1>2. Inv /\ [Next]_vars => Inv'
  BY RestoreInvStep
<1>3. QED
  BY <1>1, <1>2, PTL DEF Spec

\* A reset_config that succeeds leaves the function exactly as it was found.
THEOREM RestoresExactly ==
    ASSUME Sentinel \notin OperatorModels
    PROVE  Spec => []RestoredExactly
<1>1. Inv => RestoredExactly
  BY DEF Inv, RestoreInv, RestoredExactly, Quiet
<1>2. QED
  BY <1>1, RestoreInvariant, PTL

\* The baseline a restore goes back to is never one of the client's own probes.
THEOREM BaselineStaysOriginal ==
    ASSUME Sentinel \notin OperatorModels
    PROVE  Spec => []BaselineIsOriginal
<1>1. Inv => BaselineIsOriginal
  BY DEF Inv, RestoreInv, BaselineIsOriginal, Quiet, Original
<1>2. QED
  BY <1>1, RestoreInvariant, PTL
-----------------------------------------------------------------------------
\* The cache is what is deployed, unless the operator wrote since or the last set_config failed:
\* for any number of sessions, failures and crashes (lambda_client.py:150-169, 253-270).
THEOREM CacheStaysCoherent == Spec => []CacheCoherent
<1>1. Init => CacheCoherent
  BY DEF Init, CacheCoherent
<1>2. CacheCoherent /\ [Next]_vars => CacheCoherent'
  <2> SUFFICES ASSUME CacheCoherent, [Next]_vars, pc' = "idle", undisturbed',
                      outcome' \in {"none", "ok"}
               PROVE  \/ settled' = ToFunctionConfig(live')
                      \/ settled' = Nothing /\ outcome' = "none"
    BY DEF CacheCoherent
  <2> USE DEF CacheCoherent
  <2>1. CASE ReadConfig \/ GetMaxTimeout \/ Update \/ Wait
    BY <2>1 DEF ReadConfig, AfterRead, GetMaxTimeout, Update, Wait
  <2>2. CASE UpdateConflict \/ CallFails \/ UpdateAnswerLost
    BY <2>2 DEF UpdateConflict, Retry, CallFails, UpdateAnswerLost, Return, How
  <2>3. CASE Confirm
    BY <2>3 DEF Confirm, Return
  <2>4. CASE EnterManaged \/ CurrentConfig
    BY <2>4 DEF EnterManaged, CurrentConfig
  <2>5. CASE SetConfig \/ ExitManaged
    BY <2>5 DEF SetConfig, ExitManaged, Call
  <2>6. CASE Crash \/ Settle \/ OperatorUpdates
    BY <2>6 DEF Crash, Settle, OperatorUpdates
  <2>7. CASE UNCHANGED vars
    BY <2>7 DEF vars
  <2>8. QED
    BY <2>1, <2>2, <2>3, <2>4, <2>5, <2>6, <2>7 DEF Next, ClientStep
<1>3. QED
  BY <1>1, <1>2, PTL DEF Spec
-----------------------------------------------------------------------------
(***************************************************************************)
(* A confirmed restore.  The sentinel never reaches the function, so the   *)
(* running restore still asks for what was captured; its last read confirms *)
(* the memory and the model of it whatever the operator did, and its update *)
(* has deployed all of it unless the operator wrote after that.            *)
(***************************************************************************)
NoSentinel ==
    /\ live.model # Sentinel
    /\ initial # Nothing => initial.model # Sentinel
    /\ pc \in {"quota", "update"} => seen.model # Sentinel
    /\ pc # "idle" => req.model # Sentinel

RestoreAsks ==
    session = "exit" =>
        /\ pc # "idle"
        /\ req.mem = initial.mem /\ req.timeout = initial.timeout
        /\ req.clear = (initial.model = NoModel)
        /\ initial.model # NoModel => req.model = initial.model

RestoreLands ==
    session = "exit" /\ pc \in {"wait", "confirm"} /\ undisturbed =>
        ToFunctionConfig(live) = initial

ConfirmInv == TypeOK /\ NoSentinel /\ RestoreAsks /\ RestoreLands /\ RestoreConfirmed
              /\ (restored = "ok" => pc = "idle")

LEMMA NoSentinelStep ==
    ASSUME Sentinel \notin OperatorModels, TypeOK, NoSentinel, [Next]_vars
    PROVE  NoSentinel'
<1>1. Nothing # Sentinel /\ NoModel # Sentinel
  BY ConstantsAssumption DEF ConstantsAssumption
<1> USE <1>1 DEF NoSentinel
<1>2. CASE ReadConfig
  BY <1>2, ConstantsAssumption DEF ConstantsAssumption, ReadConfig, AfterRead, ToFunctionConfig
<1>3. CASE GetMaxTimeout \/ Wait \/ Settle
  BY <1>3 DEF GetMaxTimeout, Wait, Settle
<1>4. pc = "update" => Requested.model # Sentinel
  BY DEF Requested, NewModel
<1>5. CASE Update
  BY <1>4, <1>5 DEF Update
<1>6. CASE UpdateConflict \/ CallFails
  BY <1>6 DEF UpdateConflict, Retry, CallFails, Return
<1>7. CASE UpdateAnswerLost
  BY <1>4, <1>7 DEF UpdateAnswerLost, Return
<1>8. CASE Confirm
  BY <1>8 DEF Confirm, Return
<1>9. CASE EnterManaged \/ CurrentConfig
  BY <1>9 DEF EnterManaged, CurrentConfig, ToFunctionConfig
<1>10. CASE SetConfig \/ ExitManaged
  BY <1>10 DEF SetConfig, ExitManaged, Call, NormalModel
<1>11. CASE Crash
  BY <1>11 DEF Crash
<1>12. CASE OperatorUpdates
  BY <1>12 DEF OperatorUpdates
<1>13. CASE UNCHANGED vars
  BY <1>13 DEF vars
<1>14. QED
  BY <1>2, <1>3, <1>5, <1>6, <1>7, <1>8, <1>9, <1>10, <1>11, <1>12, <1>13 DEF Next, ClientStep

\* What the update of a restore deploys.
LEMMA RestoreDeploysCaptured ==
    ASSUME TypeOK, NoSentinel, RestoreAsks, session = "exit", pc = "update"
    PROVE  ToFunctionConfig(Requested) = initial
<1>1. initial \in FunctionConfig /\ req \in Request
  BY DEF TypeOK
<1>2. initial.timeout # Nothing /\ initial.model # Nothing
  BY <1>1, ConstantsAssumption DEF ConstantsAssumption, TypeOK, FullConfig, FunctionConfig
<1>3. NewModel = initial.model
  BY <1>1, <1>2 DEF RestoreAsks, NewModel
<1>4. ToFunctionConfig(Requested) = [mem |-> initial.mem, timeout |-> initial.timeout,
                                     model |-> initial.model]
  BY <1>1, <1>2, <1>3 DEF RestoreAsks, Requested, ToFunctionConfig
<1>. QED
  BY <1>1, <1>4 DEF FunctionConfig

LEMMA ConfirmStep ==
    ASSUME Sentinel \notin OperatorModels, ConfirmInv, [Next]_vars
    PROVE  ConfirmInv'
<1> USE DEF ConfirmInv
<1>1. TypeOK' /\ NoSentinel'
  BY TypeStep, NoSentinelStep
<1>2. RestoreAsks' /\ RestoreLands' /\ RestoreConfirmed' /\ (restored' = "ok" => pc' = "idle")
  <2> USE DEF RestoreAsks, RestoreLands, RestoreConfirmed
  <2>1. CASE ReadConfig
    BY <2>1 DEF ReadConfig, AfterRead, TypeOK
  <2>2. CASE GetMaxTimeout \/ Wait \/ Settle
    BY <2>2 DEF GetMaxTimeout, Wait, Settle
  <2>3. CASE Update
    <3>1. session = "exit" => ToFunctionConfig(live') = initial
      BY <2>3, RestoreDeploysCaptured DEF Update
    <3>. QED
      BY <2>3, <3>1 DEF Update
  <2>4. CASE UpdateConflict \/ CallFails \/ UpdateAnswerLost
    BY <2>4 DEF UpdateConflict, Retry, CallFails, UpdateAnswerLost, Return, How
  <2>5. CASE Confirm
    <3>1. CASE live.mem = req.mem /\ ModelSettled /\ session = "exit"
      <4>1. settled' = ToFunctionConfig(live) /\ initial' = initial /\ session' = "out"
            /\ pc' = "idle"
        BY <2>5, <3>1 DEF Confirm, Return
      <4>2. live.mem = initial.mem /\ live.model = initial.model
        <5>1. initial \in FunctionConfig /\ pc = "confirm" /\ req.model # Sentinel
          BY <2>5, <3>1 DEF Confirm, TypeOK, NoSentinel
        <5>2. initial.model # Nothing
          BY <5>1, ConstantsAssumption DEF ConstantsAssumption, FunctionConfig, TypeOK, FullConfig
        <5>3. QED
          BY <3>1, <5>1, <5>2 DEF ModelSettled
      <4>3. settled'.mem = initial.mem /\ settled'.model = initial.model /\ settled' # Nothing
        BY <4>1, <4>2, ProjectionType, ConstantsAssumption
        DEF ConstantsAssumption, TypeOK, ToFunctionConfig
      <4>4. undisturbed' => ToFunctionConfig(live') = initial'
        BY <2>5, <3>1, <4>1 DEF Confirm, Return
      <4>5. QED
        BY <4>1, <4>3, <4>4
    <3>2. CASE ~(live.mem = req.mem /\ ModelSettled /\ session = "exit")
      BY <2>5, <3>2 DEF Confirm, Return
    <3>3. QED
      BY <3>1, <3>2
  <2>6. CASE EnterManaged \/ CurrentConfig
    BY <2>6 DEF EnterManaged, CurrentConfig
  <2>7. CASE SetConfig
    BY <2>7 DEF SetConfig, Call
  <2>8. CASE ExitManaged
    <3>1. initial \in FunctionConfig /\ initial.model # Sentinel
      BY <2>8 DEF ExitManaged, TypeOK, NoSentinel
    <3>2. req' = [mem |-> initial.mem, timeout |-> initial.timeout,
                  model |-> IF initial.model = NoModel THEN Nothing ELSE initial.model,
                  clear |-> (initial.model = NoModel)]
      BY <2>8, <3>1, ConstantsAssumption DEF ConstantsAssumption, ExitManaged, Call, NormalModel
    <3>3. QED
      BY <2>8, <3>1, <3>2 DEF ExitManaged, Call
  <2>9. CASE Crash
    BY <2>9 DEF Crash
  <2>10. CASE OperatorUpdates
    BY <2>10 DEF OperatorUpdates
  <2>11. CASE UNCHANGED vars
    BY <2>11 DEF vars
  <2>12. QED
    BY <2>1, <2>2, <2>3, <2>4, <2>5, <2>6, <2>7, <2>8, <2>9, <2>10, <2>11 DEF Next, ClientStep
<1>3. QED
  BY <1>1, <1>2

\* A restore that reports success has seen the captured memory and model deployed, and left all of
\* the captured configuration unless the operator wrote meanwhile: for any operator and any crashes.
THEOREM RestoreIsConfirmed ==
    ASSUME Sentinel \notin OperatorModels
    PROVE  Spec => []RestoreConfirmed
<1>1. Init => ConfirmInv
  BY TypeInit DEF Init, ConfirmInv, NoSentinel, RestoreAsks, RestoreLands, RestoreConfirmed
<1>2. ConfirmInv /\ [Next]_vars => ConfirmInv'
  BY ConfirmStep
<1>3. ConfirmInv => RestoreConfirmed
  BY DEF ConfirmInv
<1>4. QED
  BY <1>1, <1>2, <1>3, PTL DEF Spec
-----------------------------------------------------------------------------
(***************************************************************************)
(* The retry.  A call that met a conflict reads again before it updates:   *)
(* what it then holds of the environment is what is deployed, until the    *)
(* operator writes once more.                                              *)
(***************************************************************************)
ReadSinceConflict ==
    /\ conflictAt # Nothing => conflictAt <= changes
    /\ pc \in {"quota", "update"} /\ conflictAt = changes => seen.rest = live.rest

LEMMA ReadSinceConflictStep ==
    ASSUME TypeOK, ReadSinceConflict, [Next]_vars
    PROVE  ReadSinceConflict'
<1>1. changes \in Nat /\ changes' \in Nat /\ Nothing \notin Nat
  BY TypeStep, ConstantsAssumption DEF ConstantsAssumption, TypeOK
<1> USE <1>1 DEF ReadSinceConflict
<1>2. CASE ReadConfig
  BY <1>2 DEF ReadConfig, AfterRead
<1>3. CASE GetMaxTimeout
  BY <1>3 DEF GetMaxTimeout
<1>4. CASE Update \/ UpdateAnswerLost
  BY <1>4 DEF Update, UpdateAnswerLost, Return
<1>5. CASE UpdateConflict
  BY <1>5 DEF UpdateConflict, Retry, Return
<1>6. CASE Wait \/ Confirm \/ CallFails
  BY <1>6 DEF Wait, Confirm, CallFails, Return
<1>7. CASE EnterManaged \/ CurrentConfig \/ Settle
  BY <1>7 DEF EnterManaged, CurrentConfig, Settle
<1>8. CASE SetConfig \/ ExitManaged
  BY <1>8 DEF SetConfig, ExitManaged, Call
<1>9. CASE Crash
  BY <1>9 DEF Crash
<1>10. CASE OperatorUpdates
  <2>1. changes' = changes + 1 /\ UNCHANGED <<pc, seen, conflictAt>>
    BY <1>10 DEF OperatorUpdates
  <2>2. conflictAt # Nothing => conflictAt \in Nat
    BY DEF TypeOK
  <2>3. conflictAt # changes'
    BY <2>1, <2>2
  <2>4. QED
    BY <2>1, <2>2, <2>3
<1>11. CASE UNCHANGED vars
  BY <1>11 DEF vars
<1>12. QED
  BY <1>2, <1>3, <1>4, <1>5, <1>6, <1>7, <1>8, <1>9, <1>10, <1>11 DEF Next, ClientStep

\* A retried update keeps the environment that the colliding update of the operator deployed, for
\* any number of retries, sessions and crashes (lambda_client.py:190-215).
THEOREM CollisionsKeepTheEnvironment == Spec => CollisionKeepsEnvironment
<1>1. Init => ReadSinceConflict
  BY DEF Init, ReadSinceConflict
<1>2. TypeOK /\ ReadSinceConflict /\ [Next]_vars => ReadSinceConflict'
  BY ReadSinceConflictStep
<1>3. ReadSinceConflict /\ [Next]_vars =>
        [Update /\ conflictAt = changes => live'.rest = live.rest]_vars
  BY DEF ReadSinceConflict, Update, Requested
<1>4. QED
  BY <1>1, <1>2, <1>3, TypeCorrect, PTL DEF Spec, CollisionKeepsEnvironment
-----------------------------------------------------------------------------
(***************************************************************************)
(* The manager implements ManagedSession.  What has to be shown is that in *)
(* the exit block the function and the session change as Rewrite and Leave *)
(* allow, and that is RestoreInv; elsewhere a step only has to leave the   *)
(* session and the record of the restore alone.                            *)
(***************************************************************************)
StepBar == [Promise!Next]_(Promise!vars)

Unrestored == restored \in {"failed", "interrupted"}

LEMMA SessionQuietStep ==
    ASSUME Sentinel \notin OperatorModels, Inv, Inv', [Next]_vars, Quiet'
    PROVE  StepBar
<1> USE DEF StepBar, Promise!Next, Promise!vars, Quiet
<1>1. pristine' = pristine
  BY DEF Next, ClientStep, vars, ReadConfig, GetMaxTimeout, Update, UpdateConflict, Retry, Wait,
         Confirm, CallFails, UpdateAnswerLost, Return, EnterManaged, SetConfig, Call,
         CurrentConfig, ExitManaged, Crash, Settle, OperatorUpdates
<1>2. changes \in Nat /\ crashes \in Nat /\ session \in {"out", "in", "exit"}
      /\ restored \in Outcomes
  BY ConstantsAssumption DEF ConstantsAssumption, Inv, TypeOK
<1>3. CASE ReadConfig \/ GetMaxTimeout \/ Wait \/ CurrentConfig \/ Settle \/ UNCHANGED vars
  BY <1>1, <1>3 DEF ReadConfig, GetMaxTimeout, Wait, CurrentConfig, Settle, vars
<1>4. CASE Update
  <2>1. Quiet /\ pc = "update" /\ live' = Requested
        /\ UNCHANGED <<session, restored, changes, crashes>>
    BY <1>4 DEF Update
  <2>2. CASE session = "exit"
    <3>1. live' = pristine
      BY <2>1, <2>2, RestoreDeploysOriginal DEF Inv
    <3>. QED
      BY <1>1, <2>1, <2>2, <3>1 DEF Promise!Rewrite
  <2>3. CASE session # "exit"
    BY <1>1, <1>2, <2>1, <2>3 DEF Promise!Touch
  <2>. QED
    BY <2>2, <2>3
<1>5. CASE UpdateConflict \/ CallFails
  <2>1. UNCHANGED <<live, changes, crashes>>
    BY <1>5 DEF UpdateConflict, Retry, CallFails
  <2>2. \/ UNCHANGED <<session, restored>>
        \/ session = "exit" /\ session' = "out" /\ Unrestored'
    BY <1>5 DEF UpdateConflict, Retry, CallFails, Return, How, Unrestored
  <2>. QED
    BY <1>1, <2>1, <2>2 DEF Promise!Leave, Unrestored
<1>6. CASE Confirm
  <2>1. UNCHANGED <<live, changes, crashes>> /\ pc = "confirm"
    BY <1>6 DEF Confirm
  <2>2. \/ UNCHANGED <<session, restored>>
        \/ session = "exit" /\ session' = "out" /\ restored' \in {"ok", "failed"}
    BY <1>6 DEF Confirm, Return
  <2>3. session = "exit" => live = pristine
    BY <2>1 DEF Inv, RestoreInv
  <2>. QED
    BY <1>1, <2>1, <2>2, <2>3 DEF Promise!Leave
<1>7. CASE UpdateAnswerLost
  <2>1. Quiet /\ pc = "update" /\ live' = Requested /\ UNCHANGED <<changes, crashes>>
    BY <1>7 DEF UpdateAnswerLost
  <2>2. CASE session = "exit"
    <3>1. live' = pristine
      BY <2>1, <2>2, RestoreDeploysOriginal DEF Inv
    <3>2. session' = "out" /\ Unrestored'
      BY <1>7, <2>2 DEF UpdateAnswerLost, Return, How, Unrestored
    <3>. QED
      BY <1>1, <2>1, <2>2, <3>1, <3>2 DEF Promise!Leave, Unrestored
  <2>3. CASE session # "exit"
    <3>1. UNCHANGED <<session, restored>>
      BY <1>7, <2>3 DEF UpdateAnswerLost, Return
    <3>. QED
      BY <1>1, <1>2, <2>1, <2>3, <3>1 DEF Promise!Touch
  <2>. QED
    BY <2>2, <2>3
<1>8. CASE EnterManaged
  BY <1>1, <1>8 DEF EnterManaged, Promise!Enter
<1>9. CASE SetConfig
  <2>1. UNCHANGED <<live, session, changes, crashes>> /\ session # "exit" /\ restored' = "none"
    BY <1>9 DEF SetConfig, Call
  <2>. QED
    BY <1>1, <1>2, <2>1 DEF Promise!Touch
<1>10. CASE ExitManaged
  BY <1>1, <1>10 DEF ExitManaged, Call, Promise!Exit
<1>11. CASE Crash \/ OperatorUpdates
  BY <1>2, <1>11 DEF Crash, OperatorUpdates
<1>. QED
  BY <1>3, <1>4, <1>5, <1>6, <1>7, <1>8, <1>9, <1>10, <1>11 DEF Next, ClientStep

LEMMA SessionDisturbedStep ==
    ASSUME Inv, Inv', [Next]_vars, ~Quiet'
    PROVE  StepBar
<1>1. (changes > 0 \/ crashes > 0)' /\ session' \in {"out", "in", "exit"}
  BY ConstantsAssumption DEF ConstantsAssumption, Inv, TypeOK, Quiet
<1>. QED
  BY <1>1 DEF StepBar, Promise!Next, Promise!Disturb

\* Sessions, calls, retries, failures and crashes of the manager implement the promise, for every set
\* of configurations and every bound.
THEOREM ManagerImplementsSession ==
    ASSUME Sentinel \notin OperatorModels
    PROVE  Spec => SessionSpec
<1>1. Init => Promise!Init
  BY DEF Init, Promise!Init
<1>2. Inv /\ Inv' /\ [Next]_vars => StepBar
  BY SessionQuietStep, SessionDisturbedStep
<1>. QED
  BY <1>1, <1>2, RestoreInvariant, PTL DEF Spec, SessionSpec, Promise!Spec, StepBar
-----------------------------------------------------------------------------
(***************************************************************************)
(* Why a call ends, and with it a restore: the part of RestoreTerminates   *)
(* that needs no fairness.  A running call has a rank that its own steps   *)
(* raise, nobody else's step touches, and max_conflict_retries bounds.     *)
(***************************************************************************)
Stage == CASE pc = "read"   -> 1
           [] pc = "quota"  -> 2
           [] pc = "update" -> 3
           [] pc = "wait"   -> 4
           [] OTHER         -> 5

CallRank == 6 * attempt + Stage

CallAdvances ==
    pc # "idle" /\ pc' # "idle" =>
        \/ ClientStep /\ CallRank < CallRank' /\ CallRank' <= 6 * MaxConflictRetries + 5
        \/ ~ClientStep /\ UNCHANGED CallRank

LEMMA RankGrows ==
    ASSUME NEW a \in Nat, NEW b \in Nat, NEW m \in Nat, b <= m, NEW s \in 1 .. 5, NEW r \in 1 .. 5
    PROVE  /\ 6 * b + r <= 6 * m + 5
           /\ b = a + 1 \/ (b = a /\ s < r) => 6 * a + s < 6 * b + r
  OBVIOUS

\* A set_config, a restore among them, takes at most six remote calls for each attempt it is allowed,
\* whatever AWS and the operator do between them (lambda_client.py:171-205).
THEOREM EveryCallAdvances == Spec => [][CallAdvances]_vars
<1>1. TypeOK /\ TypeOK' /\ [Next]_vars => CallAdvances
  <2> SUFFICES ASSUME TypeOK, TypeOK', [Next]_vars, pc # "idle", pc' # "idle"
               PROVE  \/ ClientStep /\ CallRank < CallRank'
                         /\ CallRank' <= 6 * MaxConflictRetries + 5
                      \/ ~ClientStep /\ UNCHANGED CallRank
    BY DEF CallAdvances
  <2>1. attempt \in Nat /\ attempt' \in Nat /\ attempt' <= MaxConflictRetries
        /\ MaxConflictRetries \in Nat
    BY ConstantsAssumption DEF ConstantsAssumption, TypeOK
  <2>2. Stage \in 1 .. 5 /\ Stage' \in 1 .. 5
    BY DEF Stage
  <2>3. /\ CallRank' <= 6 * MaxConflictRetries + 5
        /\ attempt' = attempt + 1 \/ (attempt' = attempt /\ Stage < Stage') => CallRank < CallRank'
    BY ONLY <2>1, <2>2, RankGrows DEF CallRank
  <2>4. CASE ClientStep
    <3>1. CASE UpdateConflict
      <4>1. attempt' = attempt + 1
        BY <3>1 DEF UpdateConflict, Retry, Return
      <4>. QED
        BY <2>3, <2>4, <4>1
    <3>2. CASE ~UpdateConflict
      <4>1. attempt' = attempt /\ Stage < Stage'
        BY <2>4, <3>2 DEF ClientStep, ReadConfig, AfterRead, GetMaxTimeout, Update, Wait, Confirm,
                          CallFails, UpdateAnswerLost, Return, Stage
      <4>. QED
        BY <2>3, <2>4, <4>1
    <3>. QED
      BY <3>1, <3>2
  <2>5. CASE ~ClientStep
    <3>1. UNCHANGED <<pc, attempt>>
      BY <2>5 DEF Next, vars, Settle, EnterManaged, SetConfig, CurrentConfig, ExitManaged, Crash,
                  OperatorUpdates
    <3>. QED
      BY <2>5, <3>1 DEF CallRank, Stage
  <2>. QED
    BY <2>4, <2>5
<1>. QED
  BY <1>1, TypeCorrect, PTL DEF Spec
=============================================================================
