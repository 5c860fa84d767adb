--------------------------- MODULE UPSSNMPProofs ---------------------------
(***************************************************************************)
(* The SNMP agent and the web request over the UPS data, for any set of    *)
(* data, any published ones and any number of connections: what they read  *)
(* between two steps of the store, whose own invariant UPSHIDDeviceProofs  *)
(* gives.                                                                  *)
(***************************************************************************)
EXTENDS UPSSNMP, UPSHIDDeviceProofs

-----------------------------------------------------------------------------
(* The invariant.                                                          *)

\* callbacks_ lists what the library holds, and a poll that finds no UPS to
\* forget starts from nothing.
HandlerInv ==
    /\ \A d \in Data : handlers[d] = callbacks[d] /\ handlers[d] <= 1
    /\ oid = 0 /\ ~wasConnected => \A d \in Data : handlers[d] = 0
    /\ oid > 0 => /\ ~wasConnected
                  /\ \A i \in DOMAIN Published : i >= oid => handlers[Published[i]] = 0

\* A UPS the agent still has to miss is connected or counted as lost.
TrapInv ==
    /\ traps <= losses
    /\ wasConnected \/ oid > 0 => connected \/ traps < losses

\* The fields a status has so far are those of the device it began with, as
\* long as that one is described.
StatusInv ==
    /\ status.checked => status.at > 0
    /\ status.at > 0 => status.of <= dev
    /\ status.at > 0 /\ status.of = dev => phase # "informed"
    /\ status.at > 0 /\ status.of = dev /\ phase = "described" =>
           /\ status.fields \subseteq Described
           /\ status.checked => status.at \in Described

\* The types of the agent.
AgentOK ==
    /\ started \in BOOLEAN
    /\ wasConnected \in BOOLEAN
    /\ callbacks \in [Data -> Nat]
    /\ handlers \in [Data -> Nat]
    /\ oid \in 0..Len(Published)
    /\ traps \in Nat
    /\ losses \in Nat

IInv == TypeOK /\ DeviceInv /\ HandlerInv /\ TrapInv /\ StatusInv

-----------------------------------------------------------------------------
(* Steps.                                                                  *)

\* The data initializeOID publishes are data, each named once.
LEMMA PublishedFacts ==
    /\ Len(Published) \in Nat
    /\ DOMAIN Published = 1..Len(Published)
    /\ Published # <<>> => Len(Published) > 0
    /\ \A i \in 1..Len(Published) : Published[i] \in 1..NumData
    /\ \A i, j \in 1..Len(Published) : Published[i] = Published[j] => i = j
<1>1. Published \in Seq(Data) /\ NumData \in Nat
  BY PublishedAssumption, NumDataAssumption
<1>2. \A i, j \in DOMAIN Published : Published[i] = Published[j] => i = j
  BY PublishedAssumption
<1>3. QED
  BY <1>1, <1>2 DEF Data

\* TypeOK is the conjunction of its parts.
LEMMA TypeParts == TypeOK <=> WalkOK /\ DataOK /\ AgentOK /\ status \in Status
  BY DEF TypeOK, DeviceTypeOK, WalkOK, DataOK, AgentOK

\* A step of the program is one of the store, leaves it alone or restarts.
LEMMA StoreStep == [Next]_vars => [DeviceNext \/ DeviceRestart]_deviceVars
  BY DEF Next, ClassDriver, Start, Stop, Loop, Web, vars, PollConnected, InitializeOID,
         PollDisconnected, StatusBegin, StatusCheck, StatusAdd, Restart

\* Every step keeps the types of the agent: destroyOID subtracts equal counts.
LEMMA AgentStep ==
    ASSUME TypeOK, HandlerInv, [Next]_vars
    PROVE  AgentOK'
<1>0. AgentOK
  BY TypeParts
<1> USE DEF AgentOK
<1>1. CASE ClassDriver
  BY <1>0, <1>1 DEF ClassDriver, agentVars
<1>2. CASE Start \/ Stop
  BY <1>0, <1>2 DEF Start, Stop
<1>3. CASE PollConnected
  <2>1. oid' \in 0..Len(Published)
    BY <1>0, <1>3, PublishedFacts DEF PollConnected
  <2>2. QED
    BY <1>0, <1>3, <2>1 DEF PollConnected
<1>4. CASE InitializeOID
  <2>1. oid' \in 0..Len(Published)
    BY <1>0, <1>4, PublishedFacts DEF InitializeOID
  <2>2. handlers' \in [Data -> Nat] /\ callbacks' \in [Data -> Nat]
    BY <1>0, <1>4 DEF InitializeOID, AddHandler
  <2>3. QED
    BY <1>0, <1>4, <2>1, <2>2 DEF InitializeOID
<1>5. CASE PollDisconnected
  <2>1. \A d \in Data : handlers[d] - callbacks[d] = 0
    BY <1>0 DEF HandlerInv
  <2>2. handlers' \in [Data -> Nat] /\ callbacks' \in [Data -> Nat]
    BY <1>5, <2>1 DEF PollDisconnected, DestroyOID
  <2>3. traps' \in {traps, traps + 1} /\ wasConnected' = FALSE
    BY <1>5 DEF PollDisconnected, SendTrap, NoteGone
  <2>4. traps' \in Nat /\ UNCHANGED <<started, oid, losses>>
    BY <1>0, <1>5, <2>3 DEF PollDisconnected
  <2>5. QED
    BY <1>0, <2>2, <2>3, <2>4
<1>6. CASE Web
  BY <1>0, <1>6 DEF Web, StatusBegin, StatusCheck, StatusAdd, agentVars
<1>7. CASE UNCHANGED vars
  BY <1>0, <1>7 DEF vars, agentVars
<1>8. CASE Restart
  <2>1. 0 \in 0..Len(Published)
    BY PublishedFacts
  <2>2. QED
    BY <1>8, <2>1 DEF Restart
<1>9. QED
  BY <1>1, <1>2, <1>3, <1>4, <1>5, <1>6, <1>7, <1>8 DEF Next, Loop

\* Every step keeps the type of the status request.
LEMMA StatusTypeStep ==
    ASSUME TypeOK, StatusInv, [Next]_vars
    PROVE  status' \in Status
<1>0. status \in Status /\ dev \in 0..MaxDev
  BY TypeParts DEF DataOK
<1>1. /\ status.at \in 0..NumData
      /\ status.of \in 0..MaxDev
      /\ status.fields \in SUBSET Data
      /\ status.checked \in BOOLEAN
  BY <1>0 DEF Status
<1>2. NoStatus \in Status
  BY NumDataAssumption, MaxDevAssumption DEF Status, NoStatus
<1>3. ASSUME NEW f \in SUBSET Data, status.at > 0, StatusNext(f)
      PROVE  status' \in Status
  <2>1. CASE status.at < NumData
    <3>1. status' = [status EXCEPT !.at = @ + 1, !.checked = FALSE, !.fields = f]
      BY <1>3, <2>1 DEF StatusNext
    <3>2. status.at + 1 \in 0..NumData
      BY <1>1, <2>1, NumDataAssumption
    <3>3. QED
      BY <1>0, <3>1, <3>2 DEF Status
  <2>2. CASE ~(status.at < NumData)
    BY <1>2, <1>3, <2>2 DEF StatusNext
  <2>3. QED
    BY <2>1, <2>2
<1>4. CASE StatusBegin
  <2>1. status' = [at |-> 1, checked |-> FALSE, of |-> dev, fields |-> {}]
    BY <1>4 DEF StatusBegin
  <2>2. 1 \in 0..NumData
    BY NumDataAssumption
  <2>3. QED
    BY <1>0, <2>1, <2>2 DEF Status
<1>5. CASE StatusCheck
  <2>1. CASE used[status.at]
    BY <1>0, <1>5, <2>1 DEF StatusCheck, IsUsed, Status
  <2>2. CASE ~used[status.at]
    BY <1>1, <1>3, <1>5, <2>2 DEF StatusCheck, IsUsed
  <2>3. QED
    BY <2>1, <2>2
<1>6. CASE StatusAdd
  <2>1. status.fields \cup {status.at} \in SUBSET Data /\ status.at > 0
    BY <1>1, <1>6, NumDataAssumption DEF StatusAdd, StatusInv, Data
  <2>2. QED
    BY <1>3, <1>6, <2>1 DEF StatusAdd
<1>7. CASE UNCHANGED status
  BY <1>0, <1>7
<1>8. CASE Restart
  BY <1>2, <1>8 DEF Restart
<1>9. QED
  BY <1>4, <1>5, <1>6, <1>7, <1>8
     DEF Next, ClassDriver, Start, Stop, Loop, Web, vars,
         PollConnected, InitializeOID, PollDisconnected

\* Every step preserves HandlerInv: handlers come and go with callbacks_.
LEMMA HandlerStep ==
    ASSUME TypeOK, HandlerInv, [Next]_vars
    PROVE  HandlerInv'
<1>0. AgentOK
  BY TypeParts
<1> USE DEF HandlerInv
<1>1. CASE ClassDriver
  BY <1>1 DEF ClassDriver, agentVars
<1>2. CASE Start \/ Stop
  BY <1>2 DEF Start, Stop
<1>3. CASE PollConnected
  BY <1>3, PublishedFacts DEF PollConnected, Data
<1>4. CASE InitializeOID
  <2>1. CASE used[Published[oid]]
    <3> DEFINE d == Published[oid]
    <3>1. oid \in 1..Len(Published) /\ d \in Data
      BY <1>0, <1>4, PublishedFacts DEF InitializeOID, AgentOK, Data
    <3>2. handlers[d] = 0 /\ callbacks[d] = 0
      BY <3>1, <1>4, PublishedFacts DEF InitializeOID
    <3>3. /\ handlers' = [handlers EXCEPT ![d] = @ + 1]
          /\ callbacks' = [callbacks EXCEPT ![d] = @ + 1]
      BY <1>4, <2>1 DEF InitializeOID, AddHandler
    <3>4. \A e \in Data : handlers'[e] = callbacks'[e] /\ handlers'[e] <= 1
      BY <1>0, <3>1, <3>2, <3>3 DEF AgentOK
    <3>5. \A i \in 1..Len(Published) : i >= oid + 1 => handlers'[Published[i]] = 0
      BY <1>0, <1>4, <3>1, <3>3, PublishedFacts DEF AgentOK, InitializeOID
    <3>6. QED
      BY <1>4, <3>1, <3>4, <3>5, PublishedFacts DEF InitializeOID
  <2>2. CASE ~used[Published[oid]]
    BY <1>0, <1>4, <2>2, PublishedFacts DEF InitializeOID, AgentOK
  <2>3. QED
    BY <2>1, <2>2
<1>5. CASE PollDisconnected
  <2>1. \A d \in Data : handlers[d] - callbacks[d] = 0
    BY <1>0 DEF AgentOK
  <2>2. \A d \in Data : handlers'[d] = 0 /\ callbacks'[d] = 0
    BY <1>5, <2>1 DEF PollDisconnected, DestroyOID
  <2>3. QED
    BY <1>5, <2>2 DEF PollDisconnected
<1>6. CASE Web
  BY <1>6 DEF Web, StatusBegin, StatusCheck, StatusAdd, agentVars
<1>7. CASE UNCHANGED vars
  BY <1>7 DEF vars, agentVars
<1>8. CASE Restart
  BY <1>8 DEF Restart
<1>9. QED
  BY <1>1, <1>2, <1>3, <1>4, <1>5, <1>6, <1>7, <1>8 DEF Next, Loop

\* Every step preserves TrapInv: a loss is counted before its trap.
LEMMA TrapStep ==
    ASSUME TypeOK, DeviceInv, TrapInv, [Next]_vars
    PROVE  TrapInv'
<1>0. AgentOK
  BY TypeParts
<1> USE DEF TrapInv, AgentOK
<1>1. CASE ClassDriver
  BY <1>0, <1>1 DEF ClassDriver, agentVars
<1>2. CASE Start \/ Stop
  BY <1>2 DEF Start, Stop, deviceVars
<1>3. CASE PollConnected
  BY <1>0, <1>3 DEF PollConnected, deviceVars
<1>4. CASE InitializeOID
  BY <1>0, <1>4 DEF InitializeOID, deviceVars
<1>5. CASE PollDisconnected
  BY <1>0, <1>5 DEF PollDisconnected, SendTrap, NoteGone, deviceVars
<1>6. CASE Web
  BY <1>6 DEF Web, StatusBegin, StatusCheck, StatusAdd, agentVars, deviceVars
<1>7. CASE UNCHANGED vars
  BY <1>7 DEF vars, agentVars, deviceVars
<1>8. CASE Restart
  BY <1>8 DEF Restart, DeviceRestart
<1>9. QED
  BY <1>1, <1>2, <1>3, <1>4, <1>5, <1>6, <1>7, <1>8 DEF Next, Loop

\* Every step preserves StatusInv: the fields read so far are of one device.
LEMMA StatusStep ==
    ASSUME TypeOK, DeviceInv, StatusInv, [Next]_vars
    PROVE  StatusInv'
<1>0. DataOK /\ status \in Status
  BY TypeParts
<1>1. status.at \in Nat /\ status.of \in Nat /\ dev \in Nat
  BY <1>0 DEF Status, DataOK
<1>d. model' = model => Described' = Described
  BY DEF Described
<1> USE DEF StatusInv
<1>2. CASE OnInfo /\ UNCHANGED status
  BY <1>1, <1>2 DEF OnInfo, SetDeviceInfo
<1>3. CASE OnDescriptor /\ UNCHANGED status
  BY <1>3 DEF OnDescriptor, BuildFromHIDReport
<1>4. CASE (CallbackStep \/ OnReport) /\ UNCHANGED status
  BY <1>4, <1>d DEF CallbackStep, OnReport, HidReportData, MatchField, ConfigureField, StoreValue, ResetData
<1>5. CASE OnRemoved /\ UNCHANGED status
  BY <1>5 DEF OnRemoved, DeviceRemoved
<1>6. CASE UNCHANGED <<deviceVars, status>>
  BY <1>6, <1>d DEF deviceVars
<1>7. CASE StatusBegin
  BY <1>1, <1>7 DEF StatusBegin, deviceVars, DeviceInv
<1>8. ASSUME NEW f, status.at > 0, StatusNext(f), UNCHANGED deviceVars,
             status.of = dev /\ phase = "described" => f \subseteq Described
      PROVE  StatusInv'
  <2>1. CASE status.at < NumData
    <3>1. status' = [status EXCEPT !.at = @ + 1, !.checked = FALSE, !.fields = f]
      BY <1>8, <2>1 DEF StatusNext
    <3>2. /\ status'.at = status.at + 1
          /\ status'.checked = FALSE
          /\ status'.fields = f
          /\ status'.of = status.of
      BY <1>0, <3>1 DEF Status
    <3>3. QED
      BY <1>1, <1>8, <1>d, <3>2 DEF deviceVars
  <2>2. CASE ~(status.at < NumData)
    BY <1>8, <2>2 DEF StatusNext, NoStatus
  <2>3. QED
    BY <2>1, <2>2
<1>9. CASE StatusCheck
  <2>1. CASE used[status.at]
    <3>1. /\ status'.at = status.at
          /\ status'.checked = TRUE
          /\ status'.fields = status.fields
          /\ status'.of = status.of
      BY <1>0, <1>9, <2>1 DEF StatusCheck, IsUsed, Status
    <3>2. status.at \in Described
      BY <1>0, <1>9, <2>1 DEF StatusCheck, IsUsed, Status, Data, DeviceInv
    <3>3. QED
      BY <1>9, <1>d, <3>1, <3>2 DEF StatusCheck, IsUsed, deviceVars
  <2>2. CASE ~used[status.at]
    BY <1>8, <1>9, <2>2 DEF StatusCheck, IsUsed
  <2>3. QED
    BY <2>1, <2>2
<1>10. CASE StatusAdd
  <2>1. status.of = dev /\ phase = "described" =>
            status.fields \cup {status.at} \subseteq Described
    BY <1>10 DEF StatusAdd
  <2>2. QED
    BY <1>8, <1>10, <2>1 DEF StatusAdd
<1>11. CASE Restart
  BY <1>11 DEF Restart, NoStatus
<1>12. QED
  BY <1>2, <1>3, <1>4, <1>5, <1>6, <1>7, <1>9, <1>10, <1>11
     DEF Next, ClassDriver, DeviceNext, Start, Stop, Loop, Web, vars,
         PollConnected, InitializeOID, PollDisconnected

\* The conjunction of the parts is inductive.
LEMMA Inductive == IInv /\ [Next]_vars => IInv'
<1> SUFFICES ASSUME IInv, [Next]_vars PROVE IInv'
  OBVIOUS
<1>0. DeviceTypeOK /\ DeviceInv /\ [DeviceNext \/ DeviceRestart]_deviceVars
  BY StoreStep DEF IInv, TypeOK
<1>1. DeviceInv' /\ HandlerInv' /\ TrapInv' /\ StatusInv'
  BY <1>0, DeviceStep, HandlerStep, TrapStep, StatusStep DEF IInv
<1>2. WalkOK' /\ DataOK' /\ AgentOK' /\ (status \in Status)'
  BY <1>0, WalkStep, DataStep, AgentStep, StatusTypeStep DEF IInv
<1>3. TypeOK'
  BY <1>2 DEF TypeOK, DeviceTypeOK, WalkOK, DataOK, AgentOK
<1>4. QED
  BY <1>1, <1>3 DEF IInv

\* The initial states satisfy the invariant.
LEMMA Initial == Init => IInv
<1> SUFFICES ASSUME Init PROVE IInv
  OBVIOUS
<1>1. /\ 0 \in 0..MaxDev /\ 0 \in 0..NumData
      /\ 0 \in 0..Len(Published)
  BY MaxDevAssumption, NumDataAssumption, PublishedFacts
<1>2. status \in Status /\ status.at = 0 /\ ~status.checked
  BY <1>1 DEF Init, NoStatus, Status
<1>3. WalkOK /\ DataOK
  BY <1>1, NothingTypes DEF Init, DeviceInit, WalkOK, DataOK, Job
<1>4. AgentOK
  BY <1>1 DEF Init, AgentOK
<1>5. TypeOK
  BY <1>2, <1>3, <1>4, TypeParts
<1>6. DeviceInv
  BY DEF Init, DeviceInit, DeviceInv, ConnectedMeansData, Configuring, ReportsUseOwnLayout, NoBits
<1>7. HandlerInv /\ TrapInv
  BY DEF Init, HandlerInv, TrapInv
<1>8. StatusInv
  BY <1>2 DEF StatusInv
<1>9. QED
  BY <1>5, <1>6, <1>7, <1>8 DEF IInv

-----------------------------------------------------------------------------
(* Theorems.                                                               *)

\* The strengthened invariant holds in every behaviour.
THEOREM Invariance == Spec => []IInv
<1>1. QED
  BY Initial, Inductive, PTL DEF Spec

\* Every variable keeps its type: in particular a callback never indexes past
\* the descriptor or past datas_, and callbacks_ never lists a handler the
\* library does not hold.
THEOREM TypeCorrect == Spec => []TypeOK
<1>1. IInv => TypeOK
  BY DEF IInv
<1>2. QED
  BY <1>1, Invariance, PTL

\* The agent and the web server only read the store, so that the program keeps
\* what the store keeps: StoreOwnLayout, StoreLayout and StoreConnected.
THEOREM StoreKept == Spec => DeviceSpec
<1>1. Init => DeviceInit
  BY DEF Init
<1>2. QED
  BY <1>1, StoreStep, PTL DEF Spec, DeviceSpec

\* No report, whatever its first byte, is decoded with the layout of another
\* device than the one that sends it, while the agent and the web server read.
THEOREM OwnLayout == Spec => []ReportsUseOwnLayout
BY StoreKept, StoreOwnLayout, PTL

\* A datum in use has the layout of the latest device.
THEOREM LayoutCurrent == Spec => []LayoutIsOfDevice
BY StoreKept, StoreLayout, PTL

\* A connected UPS has a datum to read.
THEOREM ConnectedHasData == Spec => []ConnectedMeansData
BY StoreKept, StoreConnected, PTL

\* No OID has two handlers, however long the agent runs.
THEOREM OneHandler == Spec => []NoDuplicateOid
<1>1. IInv => NoDuplicateOid
  BY DEF IInv, HandlerInv, NoDuplicateOid
<1>2. QED
  BY <1>1, Invariance, PTL

\* Traps never outnumber the losses of the UPS.
THEOREM TrapsBounded == Spec => []TrapsNeverExceedLosses
<1>1. IInv => TrapsNeverExceedLosses
  BY DEF IInv, TrapInv, TrapsNeverExceedLosses
<1>2. QED
  BY <1>1, Invariance, PTL

\* A status lists only what the UPS describes, unless the UPS went meanwhile.
THEOREM StatusCurrent == Spec => []StatusIsOfDevice
<1>1. IInv => StatusIsOfDevice
  BY DEF IInv, StatusInv, DeviceInv, Described, StatusIsOfDevice
<1>2. QED
  BY <1>1, Invariance, PTL
=============================================================================
