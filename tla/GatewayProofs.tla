--------------------------- MODULE GatewayProofs ---------------------------
(***************************************************************************)
(* The bridge and the store composed, for any models, queue lengths and    *)
(* numbers of connections: the composition is the bridge of HIDBridge,     *)
(* whose theorems it keeps, and drives the store as UPSHIDDevice assumes.  *)
(***************************************************************************)
EXTENDS Gateway, HIDBridgeProofs, UPSHIDDeviceProofs

\* The store and the bridge agree on the device and on how far it has come;
\* between the removals of a device's endpoints the store is ahead.
LinkInv ==
    /\ devId <= MaxPlug
    /\ dev \in Nat /\ dev <= app.dev
    /\ removals \in Nat
    /\ removals = 0 => phase = app.phase
    /\ removals > 0 => phase = "absent" /\ (pc = "aborted" \/ At("CLOSE"))
    /\ phase # "absent" \/ pipe # "free" => dev > 0
    /\ app.phase = "described" => app.dev = devId
    /\ app.phase # "absent" /\ app.dev = devId => model = devModel
    /\ job \in {"match", "configure"} \/ connected => phase = "described"

-----------------------------------------------------------------------------
(* The bridge in the composition.                                          *)

\* Every step of the composition is a step of the bridge, or leaves it alone.
LEMMA BridgeStep == [GatewayNext]_gatewayVars => [Next]_vars
<1> SUFFICES ASSUME [GatewayNext]_gatewayVars PROVE [Next]_vars
  OBVIOUS
<1> USE DEF Next, ClassDriver, HandleEvents, RunStage
<1>1. CASE SilentStep
  BY <1>1 DEF SilentStep
<1>2. CASE Introduce
  BY <1>2 DEF Introduce
<1>3. CASE Describes
  BY <1>3 DEF Describes
<1>4. CASE Reports
  BY <1>4 DEF Reports
<1>5. CASE RemoveEndpoint
  BY <1>5 DEF RemoveEndpoint
<1>6. CASE Close
  BY <1>6 DEF Close
<1>7. CASE InCallback
  BY <1>7 DEF InCallback
<1>8. CASE Environment
  BY <1>8 DEF Environment
<1>9. CASE RestartBoard
  BY <1>9 DEF RestartBoard
<1>10. CASE UNCHANGED gatewayVars
  BY <1>10 DEF gatewayVars
<1> QED
  BY <1>1, <1>2, <1>3, <1>4, <1>5, <1>6, <1>7, <1>8, <1>9, <1>10 DEF GatewayNext, Driver

\* The composition implements HIDBridge: what is proved of the bridge alone
\* holds while the store's callbacks run in its task.
THEOREM BridgeKept == GatewaySpec => Spec
<1>1. GatewayInit => Init
  BY DEF GatewayInit
<1> QED BY <1>1, BridgeStep, PTL DEF GatewaySpec, Spec

-----------------------------------------------------------------------------
(* The invariant.                                                          *)

\* The steps of a callback keep the phase, the device and its model.
LEMMA CallbackKeeps ==
    ASSUME CallbackStep
    PROVE  /\ UNCHANGED <<dev, model, phase>>
           /\ job' \in {"match", "configure"} => job \in {"match", "configure"}
           /\ connected' => connected \/ job = "configure"
BY DEF CallbackStep, MatchField, ConfigureField, StoreValue, ResetData, NextField, NextDatum

\* Each step, of the bridge or of a callback, keeps the agreement.
LEMMA LinkStep ==
    ASSUME IInv, LinkInv, [GatewayNext]_gatewayVars
    PROVE  LinkInv'
<1> USE DEF LinkInv, StoreIdle, deviceVars, At
<1>1. CASE SilentStep
  <2>1. /\ UNCHANGED <<dev, model, phase, job, connected, removals>>
    BY <1>1 DEF SilentStep
  <2>2. UNCHANGED <<app, devId, devModel>>
    BY <1>1 DEF SilentStep, Register, Loop, Skip, ClientEvent, EventsHandled, OpenDev, OpenAborts,
       Abort, GetInfo, GetDevDesc, GetConfigDesc, Describe, ClaimInterface, SubmitCtrl,
       SubmitIntr, CloseAborts, hostVars
  <2>3. removals > 0 => pc' = "aborted"
    BY <1>1 DEF SilentStep, Register, Loop, Skip, ClientEvent, EventsHandled, OpenDev, OpenAborts,
       Abort, GetInfo, GetDevDesc, GetConfigDesc, Describe, ClaimInterface, SubmitCtrl,
       SubmitIntr, CloseAborts, Stage
  <2>4. pipe' # "free" => dev > 0
    <3>1. CASE ClaimInterface
      <4>1. app.phase = "informed" /\ removals = 0
        BY <3>1 DEF ClaimInterface, IInv, AppInv
      <4> QED BY <4>1
    <3>2. CASE ~ClaimInterface
      <4>1. UNCHANGED pipe
        BY <1>1, <3>2 DEF SilentStep, Register, Loop, Skip, ClientEvent, EventsHandled, OpenDev,
           OpenAborts, Abort, GetInfo, GetDevDesc, GetConfigDesc, Describe, SubmitCtrl,
           SubmitIntr, CloseAborts, hostVars
      <4> QED BY <4>1
    <3> QED BY <3>1, <3>2
  <2> QED BY <2>1, <2>2, <2>3, <2>4
<1>2. CASE Introduce
  <2>1. /\ "STR_DESC" \in actions /\ pc = "STR_DESC"
        /\ app' = [dev |-> dev_hdl, phase |-> "informed", last |-> 0]
        /\ UNCHANGED <<devId, devModel, pipe>>
    BY <1>2 DEF Introduce, GetStrDesc, Describe, hostVars
  <2>2. /\ dev' = dev + 1 /\ model' = devModel /\ phase' = "informed"
        /\ UNCHANGED <<job, connected, removals>>
    BY <1>2 DEF Introduce, SetDeviceInfo
  <2>3. app.phase # "described" /\ app.dev < dev_hdl
    BY <2>1 DEF IInv, AppInv, Preparing
  <2>4. removals = 0 /\ phase = app.phase
    BY <2>1
  <2>5. app.dev \in Nat /\ dev_hdl \in Nat
    BY DEF IInv, TypeOK
  <2>6. app'.dev = dev_hdl /\ app'.phase = "informed"
    BY <2>1
  <2> QED BY <2>1, <2>2, <2>3, <2>4, <2>5, <2>6
<1>3. CASE Describes
  <2>1. pc = "events" /\ UNCHANGED <<devId, devModel, pipe, pc>>
    BY <1>3 DEF Describes, CtrlCallback
  <2>2. removals = 0 /\ phase = app.phase
    BY <2>1
  <2>3. CASE ctrl = "done"
    <3>1. /\ app' = [dev |-> devId, phase |-> "described", last |-> 0]
          /\ phase' = "described" /\ UNCHANGED <<dev, model, connected, removals>>
      BY <1>3, <2>3 DEF Describes, CtrlCallback, BuildFromHIDReport
    <3>2. app.phase = "informed" /\ app.dev = dev_hdl /\ dev_hdl = devId
      BY <2>3 DEF IInv, AppInv, HandleInv, HandleDiscipline, HandleMatchesLibrary
    <3>3. app'.dev = devId /\ app'.phase = "described"
      BY <3>1
    <3> QED BY <2>1, <2>2, <3>1, <3>2, <3>3
  <2>4. CASE ctrl # "done"
    BY <1>3, <2>1, <2>4 DEF Describes, CtrlCallback
  <2> QED BY <2>3, <2>4
<1>4. CASE Reports
  <2>1. pc = "events" /\ UNCHANGED <<devId, devModel, pipe, pc>>
    BY <1>4 DEF Reports, IntrCallback
  <2>2. app'.dev = app.dev /\ app'.phase = app.phase
    BY <1>4 DEF Reports, IntrCallback, IInv, TypeOK
  <2>3. UNCHANGED <<dev, model, phase, connected, removals>>
    BY <1>4 DEF Reports, HidReportData
  <2>4. job' = job \/ job' = "store"
    BY <1>4 DEF Reports, HidReportData
  <2> QED BY <2>1, <2>2, <2>3, <2>4
<1>5. CASE RemoveEndpoint
  <2>1. /\ UNCHANGED <<vars, dev, model>> /\ pc = "CLOSE" /\ "CLOSE" \in actions
        /\ removals' = removals + 1 /\ phase' = "absent" /\ ~connected' /\ job' = "reset"
        /\ pipe # "free"
    BY <1>5 DEF RemoveEndpoint, DeviceRemoved, Disconnect, ReleaseSucceeds
  <2> QED BY <2>1 DEF vars, hostVars, taskVars
<1>6. CASE Close
  <2>1. /\ removals' = 0 /\ pipe' = "free"
        /\ UNCHANGED <<dev, model, phase, job, connected, devId, devModel>>
    BY <1>6 DEF Close, CloseDev
  <2>2. CASE IsHid
    <3>1. removals > 0 /\ app'.phase = "absent" /\ app'.dev = app.dev
      BY <1>6, <2>2 DEF Close, RemovalsDue, IsHid, CloseDev, TellRemoved, IInv, TypeOK
    <3> QED BY <2>1, <3>1
  <2>3. CASE ~IsHid
    <3>1. removals = 0 /\ app' = app
      BY <1>6, <2>3 DEF Close, RemovalsDue, CloseDev, TellRemoved
    <3> QED BY <2>1, <3>1
  <2> QED BY <2>2, <2>3
<1>7. CASE InCallback
  <2>1. UNCHANGED <<app, devId, devModel, pipe, pc, actions, removals>>
    BY <1>7 DEF InCallback, vars, hostVars, taskVars
  <2> QED BY <1>7, <2>1, CallbackKeeps DEF InCallback
<1>8. CASE Environment
  <2>1. UNCHANGED <<dev, model, phase, job, connected, removals, app, pc, actions>>
    BY <1>8 DEF Environment, Install, Daemon, Bus, Cable, taskVars
  <2>2. CASE Daemon /\ Enumerate
    <3>1. devId < MaxPlug /\ devId' = devId + 1 /\ devState = "absent" /\ pipe' = pipe
      BY <2>2 DEF Enumerate
    <3>2. dev_hdl = NULL /\ app.phase # "described"
      BY <3>1 DEF IInv, HandleInv, HandleMatchesLibrary, AppInv, Held
    <3>3. app.dev <= devId /\ app.dev \in Nat /\ devId \in Nat
      BY DEF IInv, AppInv, TypeOK, HostTypeOK
    <3>4. devId' <= MaxPlug /\ app.dev # devId'
      BY <3>1, <3>3, BoundAssumption
    <3> QED BY <2>1, <3>1, <3>2, <3>4
  <2>3. CASE Install \/ (Daemon /\ ReportGone) \/ Bus \/ Cable
    <3>1. UNCHANGED <<devId, devModel>>
      BY <2>3 DEF Install, Daemon, ReportGone, Bus, CompleteCtrl, CompleteIntr, Cable, Plug,
         Unplug, hostVars
    <3>2. pipe' # "free" => pipe # "free"
      BY <2>3 DEF Install, Daemon, ReportGone, Bus, CompleteCtrl, CompleteIntr, Cable, Plug,
         Unplug, hostVars, IInv, PipeInv
    <3> QED BY <2>1, <3>1, <3>2
  <2> QED BY <1>8, <2>2, <2>3 DEF Environment, Daemon
<1>9. CASE RestartBoard
  <2>1. /\ removals' = 0 /\ phase' = "absent" /\ job' = "idle" /\ ~connected' /\ dev' = dev
        /\ pipe' = "free" /\ devId' = devId
    BY <1>9 DEF RestartBoard, DeviceRestart, Reboot, HostReset
  <2>2. app'.phase = "absent" /\ app'.dev = app.dev
    BY <1>9 DEF RestartBoard, Reboot, IInv, TypeOK
  <2> QED BY <2>1, <2>2
<1>10. CASE UNCHANGED gatewayVars
  BY <1>10 DEF gatewayVars, vars, hostVars, taskVars
<1> QED
  BY <1>1, <1>2, <1>3, <1>4, <1>5, <1>6, <1>7, <1>8, <1>9, <1>10 DEF GatewayNext, Driver

\* The agreement, for every value of the constants.
THEOREM LinkInvariance == GatewaySpec => [](IInv /\ LinkInv)
<1>1. GatewayInit => LinkInv
  BY BoundAssumption DEF GatewayInit, Init, HostInit, DeviceInit, LinkInv
<1>2. GatewaySpec => []IInv
  BY BridgeKept, Invariance, PTL
<1>3. IInv /\ LinkInv /\ [GatewayNext]_gatewayVars => LinkInv'
  BY LinkStep
<1> QED BY <1>1, <1>2, <1>3, PTL DEF GatewaySpec

-----------------------------------------------------------------------------
(* What follows.                                                           *)

\* ConnectedIsHeld: a UPS shown as connected is the one the bridge holds open.
THEOREM ConnectedHeld == GatewaySpec => []ConnectedIsHeld
<1>1. IInv /\ LinkInv => ConnectedIsHeld
  <2> SUFFICES ASSUME IInv, LinkInv, connected PROVE ConnectedIsHeld
    BY DEF ConnectedIsHeld
  <2>1. app.phase = "described"
    BY DEF LinkInv
  <2>2. dev_hdl # NULL
    BY <2>1 DEF IInv, AppInv
  <2>3. devState \in Held
    BY <2>2 DEF IInv, HandleInv, HandleMatchesLibrary
  <2>4. app.dev = devId /\ model = devModel
    BY <2>1 DEF LinkInv
  <2> QED BY <2>3, <2>4 DEF ConnectedIsHeld
<1> QED BY <1>1, LinkInvariance, PTL

\* Every step of the composition is one the store's specification allows.
LEMMA StoreStep ==
    ASSUME IInv, LinkInv, [GatewayNext]_gatewayVars
    PROVE  [DeviceNext \/ DeviceRestart]_deviceVars
<1> USE DEF DeviceNext
<1>1. CASE job = "idle" /\ Introduce
  <2>1. pc = "STR_DESC" /\ "STR_DESC" \in actions
    BY <1>1 DEF Introduce, GetStrDesc, Describe, At
  <2>2. phase # "described" /\ app.dev < dev_hdl
    BY <2>1 DEF LinkInv, At, IInv, AppInv, Preparing
  <2>3. dev_hdl # NULL /\ dev_hdl = devId /\ devState # "absent"
    BY <2>1 DEF IInv, HandleInv, HandleDiscipline, HandleMatchesLibrary, NeedsHandle, Stage, Held
  <2>4. dev < MaxDev
    <3>1. dev \in Nat /\ app.dev \in Nat /\ devId \in Nat /\ MaxPlug \in Nat /\ MaxDev \in Nat
      BY BoundAssumption, MaxDevAssumption DEF LinkInv, IInv, TypeOK, HostTypeOK
    <3> QED BY <2>2, <2>3, <3>1, DevicesConsidered DEF LinkInv
  <2>5. devModel \in Ups
    BY <2>3, SameModels DEF IInv, TypeOK, HostTypeOK
  <2> QED BY <1>1, <2>2, <2>4, <2>5 DEF Introduce, OnInfo
<1>2. CASE job = "idle" /\ Describes
  <2>1. CASE ctrl = "done"
    <3>1. phase = "informed"
      BY <1>2, <2>1 DEF Describes, CtrlCallback, LinkInv, At, IInv, AppInv
    <3> QED BY <1>2, <2>1, <3>1 DEF Describes, OnDescriptor
  <2>2. CASE ctrl # "done"
    BY <1>2, <2>2 DEF Describes, StoreIdle
  <2> QED BY <2>1, <2>2
<1>3. CASE job = "idle" /\ Reports
  <2>1. phase = "described"
    BY <1>3 DEF Reports, IntrCallback, LinkInv, At, IInv, AppInv
  <2> QED BY <1>3, <2>1 DEF Reports, OnReport, StoreIdle
<1>4. CASE job = "idle" /\ RemoveEndpoint
  <2>1. dev > 0
    BY <1>4 DEF RemoveEndpoint, ReleaseSucceeds, LinkInv
  <2> QED BY <1>4, <2>1 DEF RemoveEndpoint, OnRemoved
<1>5. CASE SilentStep \/ Close \/ Environment
  BY <1>5 DEF SilentStep, Close, Environment, StoreIdle
<1>6. CASE InCallback
  BY <1>6 DEF InCallback
<1>7. CASE RestartBoard
  BY <1>7 DEF RestartBoard
<1>8. CASE UNCHANGED gatewayVars
  BY <1>8 DEF gatewayVars
<1> QED
  BY <1>1, <1>2, <1>3, <1>4, <1>5, <1>6, <1>7, <1>8 DEF GatewayNext, Driver

\* StoreProtocol: the bridge calls the store as UPSHIDDevice assumes, so that
\* what is proved of the store on that assumption holds of the program.
THEOREM StoreDriven == GatewaySpec => StoreProtocol
<1>1. GatewayInit => DeviceInit
  BY DEF GatewayInit
<1>2. IInv /\ LinkInv /\ [GatewayNext]_gatewayVars => [DeviceNext \/ DeviceRestart]_deviceVars
  BY StoreStep
<1> QED BY <1>1, <1>2, LinkInvariance, PTL DEF GatewaySpec, StoreProtocol, DeviceSpec
-----------------------------------------------------------------------------
(* The bridge and the store keep, composed, what each keeps alone.         *)

\* The invariants of the bridge, while the callbacks run in its task.
THEOREM BridgeInvariants ==
    GatewaySpec => [](/\ TypeOK /\ HandleDiscipline /\ HandleMatchesLibrary /\ OneTransfer
                      /\ GoneIsTheOpenDevice /\ EndpointIsCurrent)
BY BridgeKept, TypeCorrect, AssertionsHold, HandleAgrees, TransfersExclude, GoneMatches,
   EndpointValid, PTL

\* And what its steps may not do: abort over an attached device, or close one
\* that answers, or call the store out of order.
THEOREM BridgeActions == GatewaySpec => NoAbortWhileAttached /\ AttachedIsKept /\ CallbackProtocol
BY BridgeKept, AbortsNeedUnplug, AttachedKept, CallbacksImplemented, PTL

\* The store's invariants hold of what the bridge does, and no longer only of
\* an order of callbacks assumed: no report is decoded with the layout of
\* another device, whatever its first byte and whatever identifiers the
\* descriptors give or leave out, and a connected UPS has a datum to read.
THEOREM StoreInvariants ==
    GatewaySpec => [](DeviceTypeOK /\ ReportsUseOwnLayout /\ LayoutIsOfDevice /\ ConnectedMeansData)
<1>1. StoreInv => DeviceTypeOK
  BY DEF StoreInv
<1> QED BY <1>1, StoreDriven, StoreInvariance, StoreOwnLayout, StoreLayout, StoreConnected, PTL
        DEF StoreProtocol

\* While a report is handled, its device is the one the library holds open for
\* the bridge and the one the store has the name of, and each datum the report
\* would set has that device's layout if it is in use and none otherwise: a
\* reset datum, which a first byte of 0 selects, takes no bit of the report.
ReportIsOfHeld ==
    job = "store" =>
        /\ devState \in Held /\ dev_hdl = devId
        /\ model = devModel
        /\ \A d \in Data : layout[d] = IF used[d] THEN dev ELSE 0

\* No report of a device that is closed or replaced is ever decoded: the
\* handle, the model and every datum agree, in each iteration of hidReportData.
THEOREM ReportsAreOfHeld == GatewaySpec => []ReportIsOfHeld
<1>1. IInv /\ LinkInv /\ StoreInv => ReportIsOfHeld
  <2> SUFFICES ASSUME IInv, LinkInv, StoreInv, job = "store"
               PROVE  /\ devState \in Held /\ dev_hdl = devId
                      /\ model = devModel
                      /\ \A d \in Data : layout[d] = IF used[d] THEN dev ELSE 0
    BY DEF ReportIsOfHeld
  <2>1. phase = "described"
    BY DEF StoreInv, DeviceInv
  <2>2. removals = 0 /\ app.phase = "described"
    BY <2>1 DEF LinkInv
  <2>3. dev_hdl # NULL
    BY <2>2 DEF IInv, AppInv
  <2>4. devState \in Held /\ dev_hdl = devId
    BY <2>3 DEF IInv, HandleInv, HandleMatchesLibrary
  <2>5. model = devModel
    BY <2>2 DEF LinkInv
  <2>6. \A d \in Data : layout[d] = IF used[d] THEN dev ELSE 0
    BY DEF StoreInv, DeviceInv, Configuring
  <2> QED BY <2>4, <2>5, <2>6
<1>2. GatewaySpec => []StoreInv
  BY StoreDriven, StoreInvariance, PTL DEF StoreProtocol
<1> QED BY <1>1, <1>2, LinkInvariance, PTL
=============================================================================
