------------------------- MODULE UPSHIDDeviceProofs -------------------------
(***************************************************************************)
(* What the store of the UPS data keeps, for any set of data, any UPS      *)
(* descriptors and any number of connections, whoever calls it in the      *)
(* order UPSHIDDevice assumes: the bridge in Gateway, any devices at all   *)
(* under the agent in UPSSNMP.                                             *)
(***************************************************************************)
EXTENDS UPSHIDDevice, TLAPS

\* What the device describes.
Described == {Fields[model][i].data : i \in DOMAIN Fields[model]}

\* Between its match and its setters a datum is used without a layout.
Configuring(d) == job = "configure" /\ Fields[model][index].data = d

\* A callback belongs to its phase; an unused datum is reset; data are used
\* only while the device that describes them has not been removed; so that a
\* report finds in every datum either the layout of its own device or none.
DeviceInv ==
    /\ job \in {"match", "configure", "store"} => phase = "described"
    /\ job = "reset" => phase = "absent"
    /\ job = "configure" => used[Fields[model][index].data]
    /\ \A d \in Data : ~used[d] => reportId[d] = 0 /\ layout[d] = 0
    /\ \A d \in Data : used[d] /\ ~Configuring(d) => layout[d] = dev
    /\ \A d \in Data : used[d] => d \in Described
    /\ phase # "described" => \A d \in Data : used[d] => job = "reset" /\ index <= d
    /\ connected => phase = "described"
    /\ ConnectedMeansData
    /\ ReportsUseOwnLayout

\* DeviceTypeOK in parts: where the callback is, and the data.
WalkOK ==
    /\ job \in Job
    /\ index \in Nat
    /\ job \in {"store", "reset"} => index \in Data
    /\ job \in {"match", "configure"} => index \in 1..Len(Fields[model])

DataOK ==
    /\ dev \in 0..MaxDev
    /\ model \in Ups
    /\ phase \in {"absent", "informed", "described"}
    /\ arriving \in ReportId
    /\ used \in [Data -> BOOLEAN]
    /\ reportId \in [Data -> ReportId]
    /\ layout \in [Data -> 0..MaxDev]
    /\ value \in [Data -> Number]
    /\ connected \in BOOLEAN
    /\ names \in 0..MaxDev

StoreInv == DeviceTypeOK /\ DeviceInv

-----------------------------------------------------------------------------
(* Steps.                                                                  *)

\* What the walk over a descriptor relies on.
LEMMA FieldFacts ==
    \A m \in Ups :
        /\ Len(Fields[m]) \in Nat
        /\ DOMAIN Fields[m] = 1..Len(Fields[m])
        /\ \A i \in 1..Len(Fields[m]) :
               /\ Fields[m][i].data \in 1..NumData
               /\ IdsOf(Fields[m][i]) \subseteq ReportId
<1> TAKE m \in Ups
<1>1. Fields[m] \in Seq(Field)
  BY FieldsAssumption
<1>2. Len(Fields[m]) \in Nat /\ DOMAIN Fields[m] = 1..Len(Fields[m])
  BY <1>1
<1>3. ASSUME NEW i \in 1..Len(Fields[m])
      PROVE  Fields[m][i] \in Field
  BY <1>1
<1>4. QED
  BY <1>2, <1>3 DEF Field, Data, IdsOf

\* What a restart and a datum without a layout leave in a datum.
LEMMA NothingTypes == NoBits \in Number /\ 0 \in ReportId /\ 0 \in 0..MaxDev
BY MaxDevAssumption, ReportIdAssumption DEF NoBits, Number

\* DeviceTypeOK is the conjunction of its parts.
LEMMA StoreTypes == DeviceTypeOK <=> WalkOK /\ DataOK
  BY DEF DeviceTypeOK, WalkOK, DataOK

\* The walk over the descriptor stays inside it.
LEMMA NextFieldWalk ==
    ASSUME model \in Ups, NEW i \in Nat, NextField(i), UNCHANGED model
    PROVE  WalkOK'
<1>1. Len(Fields[model]) \in Nat
  BY FieldFacts
<1>2. CASE i < Len(Fields[model])
  BY <1>1, <1>2 DEF NextField, WalkOK, Job
<1>3. CASE ~(i < Len(Fields[model]))
  BY <1>3 DEF NextField, WalkOK, Job
<1>4. QED
  BY <1>2, <1>3

\* The loop over datas_ stays inside it.
LEMMA NextDatumWalk ==
    ASSUME index \in Data, job \in {"store", "reset"}, NextDatum, UNCHANGED model
    PROVE  WalkOK'
  BY NumDataAssumption DEF NextDatum, WalkOK, Job, Data

\* Every step keeps the callback where the code can be.
LEMMA WalkStep ==
    ASSUME DeviceTypeOK, [DeviceNext \/ DeviceRestart]_deviceVars
    PROVE  WalkOK'
<1> USE DEF DeviceTypeOK
<1>1. CASE OnInfo
  BY <1>1 DEF OnInfo, SetDeviceInfo, WalkOK, Job
<1>2. CASE OnDescriptor
  BY <1>2, NextFieldWalk DEF OnDescriptor, BuildFromHIDReport
<1>3. CASE MatchField
  <2>1. CASE used[Fields[model][index].data]
    BY <1>3, <2>1, NextFieldWalk DEF MatchField
  <2>2. CASE ~used[Fields[model][index].data]
    BY <1>3, <2>2 DEF MatchField, WalkOK, Job
  <2>3. QED
    BY <2>1, <2>2
<1>4. CASE ConfigureField
  BY <1>4, NextFieldWalk DEF ConfigureField
<1>5. CASE OnReport
  BY <1>5, NumDataAssumption DEF OnReport, HidReportData, WalkOK, Job, Data
<1>6. CASE StoreValue
  BY <1>6, NextDatumWalk DEF StoreValue
<1>7. CASE OnRemoved
  BY <1>7, NumDataAssumption DEF OnRemoved, DeviceRemoved, WalkOK, Job, Data
<1>8. CASE ResetData
  BY <1>8, NextDatumWalk DEF ResetData
<1>9. CASE UNCHANGED deviceVars
  BY <1>9 DEF deviceVars, WalkOK
<1>10. CASE DeviceRestart
  BY <1>10 DEF DeviceRestart, WalkOK, Job
<1>11. QED
  BY <1>1, <1>2, <1>3, <1>4, <1>5, <1>6, <1>7, <1>8, <1>9, <1>10
     DEF DeviceNext, CallbackStep

\* Every step keeps the types of the data.
LEMMA DataStep ==
    ASSUME DeviceTypeOK, [DeviceNext \/ DeviceRestart]_deviceVars
    PROVE  DataOK'
<1>0. DataOK /\ WalkOK
  BY StoreTypes
<1> USE DEF DataOK, Data
<1>1. CASE OnInfo
  BY <1>0, <1>1, MaxDevAssumption DEF OnInfo, SetDeviceInfo
<1>2. CASE OnDescriptor
  BY <1>0, <1>2 DEF OnDescriptor, BuildFromHIDReport
<1>3. CASE MatchField
  BY <1>0, <1>3 DEF MatchField
<1>4. CASE ConfigureField
  <2>1. PICK id \in IdsOf(Fields[model][index]) :
            reportId' = [reportId EXCEPT ![Fields[model][index].data] = id]
    BY <1>4 DEF ConfigureField
  <2>2. id \in ReportId
    BY <1>0, <1>4, <2>1, FieldFacts DEF ConfigureField, WalkOK
  <2>3. QED
    BY <1>0, <1>4, <2>1, <2>2 DEF ConfigureField
<1>5. CASE OnReport
  BY <1>0, <1>5 DEF OnReport, HidReportData
<1>6. CASE StoreValue
  <2>1. value' \in [Data -> Number]
    <3>1. CASE UNCHANGED value
      BY <1>0, <3>1
    <3>2. CASE SetValue(index) /\ layout[index] = 0
      BY <1>0, <3>2, NothingTypes DEF SetValue
    <3>3. CASE SetValue(index) /\ layout[index] # 0
      <4>1. index \in Data
        BY <1>0, <1>6 DEF StoreValue, WalkOK
      <4>2. [report |-> dev, layout |-> layout[index]] \in Number
        BY <1>0, <4>1 DEF Number
      <4>3. value' = [value EXCEPT ![index] = [report |-> dev, layout |-> layout[index]]]
        BY <3>3 DEF SetValue
      <4> QED BY <1>0, <4>2, <4>3
    <3> QED BY <1>6, <3>1, <3>2, <3>3 DEF StoreValue
  <2>2. arriving' \in ReportId
    BY <1>0, <1>6, NothingTypes DEF StoreValue
  <2> QED BY <1>0, <1>6, <2>1, <2>2 DEF StoreValue
<1>7. CASE OnRemoved
  BY <1>0, <1>7 DEF OnRemoved, DeviceRemoved, Disconnect
<1>8. CASE ResetData
  <2>1. 0 \in 0..MaxDev /\ 0 \in ReportId
    BY NothingTypes
  <2>2. /\ used' = [used EXCEPT ![index] = FALSE]
        /\ reportId' = [reportId EXCEPT ![index] = 0]
        /\ layout' = [layout EXCEPT ![index] = 0]
        /\ names' \in {0, names}
        /\ UNCHANGED <<dev, model, phase, arriving, value, connected>>
    BY <1>8 DEF ResetData, ResetDatum
  <2>3. QED
    BY <1>0, <2>1, <2>2
<1>9. CASE UNCHANGED deviceVars
  BY <1>0, <1>9 DEF deviceVars
<1>10. CASE DeviceRestart
  <2>1. 0 \in 0..MaxDev /\ 0 \in ReportId /\ NoBits \in Number
    BY NothingTypes
  <2>2. UNCHANGED <<dev, model>> /\ phase' = "absent" /\ arriving' = 0 /\ ~connected' /\ names' = 0
    BY <1>10 DEF DeviceRestart
  <2>3. /\ used' = [d \in Data |-> FALSE]
        /\ reportId' = [d \in Data |-> 0]
        /\ layout' = [d \in Data |-> 0]
        /\ value' = [d \in Data |-> NoBits]
        /\ connected' = FALSE
    BY <1>10 DEF DeviceRestart
  <2>4. QED
    BY <1>0, <2>1, <2>2, <2>3
<1>11. QED
  BY <1>1, <1>2, <1>3, <1>4, <1>5, <1>6, <1>7, <1>8, <1>9, <1>10
     DEF DeviceNext, CallbackStep

\* Only setValue decodes, and while a report is handled every datum has the
\* layout of the latest device or none.
LEMMA OwnLayoutStep ==
    ASSUME DeviceTypeOK, DeviceInv, [DeviceNext \/ DeviceRestart]_deviceVars
    PROVE  ReportsUseOwnLayout'
<1>0. DataOK /\ WalkOK /\ ReportsUseOwnLayout
  BY StoreTypes DEF DeviceInv
<1>1. CASE UNCHANGED value
  BY <1>0, <1>1 DEF ReportsUseOwnLayout
<1>2. CASE StoreValue /\ SetValue(index)
  <2>1. index \in Data /\ layout[index] \in {0, dev}
    BY <1>0, <1>2 DEF StoreValue, WalkOK, DeviceInv, Configuring
  <2>2. value'[index].layout = value'[index].report
    <3>1. CASE layout[index] = 0
      BY <1>0, <1>2, <2>1, <3>1 DEF SetValue, NoBits, DataOK
    <3>2. CASE layout[index] # 0
      BY <1>0, <1>2, <2>1, <3>2 DEF SetValue, DataOK
    <3> QED BY <3>1, <3>2
  <2>3. \A d \in Data : d # index => value'[d] = value[d]
    BY <1>0, <1>2 DEF SetValue, DataOK
  <2> QED BY <1>0, <2>2, <2>3 DEF ReportsUseOwnLayout
<1>3. CASE DeviceRestart
  BY <1>3 DEF DeviceRestart, NoBits, ReportsUseOwnLayout
<1> QED
  BY <1>1, <1>2, <1>3
     DEF DeviceNext, CallbackStep, OnInfo, SetDeviceInfo, OnDescriptor, BuildFromHIDReport,
         OnReport, HidReportData, OnRemoved, DeviceRemoved, MatchField, ConfigureField,
         StoreValue, ResetData, deviceVars

\* Every step preserves DeviceInv: the work is in the setters and in reset.
LEMMA DeviceStep ==
    ASSUME DeviceTypeOK, DeviceInv, [DeviceNext \/ DeviceRestart]_deviceVars
    PROVE  DeviceInv'
<1>0. DataOK /\ WalkOK
  BY StoreTypes
<1>d. model' = model => Described' = Described
  BY DEF Described
<1>f. \A i \in 1..Len(Fields[model]) : Fields[model][i].data \in Described
  BY <1>0, FieldFacts DEF DataOK, Described
<1>v. ReportsUseOwnLayout'
  BY <1>0, OwnLayoutStep DEF DeviceInv
<1> USE DEF DeviceInv, ConnectedMeansData, Configuring
<1>1. CASE OnInfo
  BY <1>0, <1>1, <1>v DEF OnInfo, SetDeviceInfo
<1>2. CASE OnDescriptor
  BY <1>0, <1>2, <1>d, <1>v DEF OnDescriptor, BuildFromHIDReport, NextField
<1>3. CASE MatchField
  <2>1. CASE used[Fields[model][index].data]
    BY <1>0, <1>3, <1>d, <1>v, <2>1 DEF MatchField, NextField
  <2>2. CASE ~used[Fields[model][index].data]
    <3> DEFINE d == Fields[model][index].data
    <3>1. index \in 1..Len(Fields[model]) /\ d \in Described
      BY <1>0, <1>3, <1>f DEF MatchField, WalkOK
    <3>2. /\ used' = [used EXCEPT ![d] = TRUE]
          /\ job = "match" /\ job' = "configure"
          /\ UNCHANGED <<dev, model, phase, index, reportId, layout, connected>>
      BY <1>3, <2>2 DEF MatchField
    <3>3. phase = "described" /\ phase' = "described"
      BY <3>2
    <3>4. \A e \in Data : e # d => used'[e] = used[e]
      BY <1>0, <3>2 DEF DataOK
    <3>5. \A e \in Data : used[e] => used'[e]
      BY <1>0, <3>2 DEF DataOK
    <3>6. \A e \in Data : Configuring(e)' <=> e = d
      BY <3>2
    <3>7. \A e \in Data : ~Configuring(e)
      BY <3>2
    <3>8. \A e \in Data : used'[e] /\ ~Configuring(e)' => layout'[e] = dev'
      BY <3>2, <3>4, <3>6, <3>7
    <3>9. \A e \in Data : used'[e] => e \in Described'
      BY <1>d, <3>1, <3>2, <3>4
    <3>10. \A e \in Data : ~used'[e] => reportId'[e] = 0 /\ layout'[e] = 0
      BY <3>2, <3>5
    <3>11. ConnectedMeansData'
      BY <3>2, <3>5
    <3>12. used'[d] /\ d = d'
      BY <1>0, <3>1, <3>2, FieldFacts DEF DataOK, Data
    <3>13. QED
      BY <1>v, <3>2, <3>12, <3>3, <3>8, <3>9, <3>10, <3>11
  <2>3. QED
    BY <2>1, <2>2
<1>4. CASE ConfigureField
  <2> DEFINE d == Fields[model][index].data
  <2>1. /\ \E id : reportId' = [reportId EXCEPT ![d] = id]
        /\ layout' = [layout EXCEPT ![d] = dev]
        /\ connected' = TRUE
        /\ job' \in {"match", "idle"}
        /\ phase = "described"
        /\ UNCHANGED <<dev, model, phase, used>>
    BY <1>4 DEF ConfigureField, NextField
  <2>2. d \in Data /\ used[d]
    BY <1>0, <1>4, FieldFacts DEF ConfigureField, WalkOK, DataOK, Data, DeviceInv
  <2>3. /\ layout'[d] = dev
        /\ \A e \in Data : e # d => layout'[e] = layout[e] /\ reportId'[e] = reportId[e]
    BY <1>0, <2>1, <2>2 DEF DataOK
  <2>4. \A e \in Data : ~used'[e] => reportId'[e] = 0 /\ layout'[e] = 0
    BY <2>1, <2>2, <2>3
  <2>5. \A e \in Data : used'[e] => layout'[e] = dev'
    BY <2>1, <2>2, <2>3
  <2>6. QED
    BY <1>d, <1>v, <2>1, <2>2, <2>4, <2>5
<1>5. CASE OnReport
  <2>1. /\ job = "idle" /\ job' = "store"
        /\ phase = "described"
        /\ UNCHANGED <<dev, model, phase, used, reportId, layout, connected>>
    BY <1>5 DEF OnReport, HidReportData
  <2>2. QED
    BY <1>d, <1>v, <2>1
<1>6. CASE StoreValue
  BY <1>0, <1>6, <1>d, <1>v DEF StoreValue, NextDatum
<1>7. CASE OnRemoved
  BY <1>0, <1>7, <1>d, <1>v DEF OnRemoved, DeviceRemoved, Disconnect, DataOK, Data
<1>8. CASE ResetData
  <2>1. /\ used' = [used EXCEPT ![index] = FALSE]
        /\ reportId' = [reportId EXCEPT ![index] = 0]
        /\ layout' = [layout EXCEPT ![index] = 0]
        /\ job = "reset" /\ phase = "absent" /\ ~connected
        /\ UNCHANGED <<dev, model, phase, connected>>
    BY <1>8 DEF ResetData, ResetDatum
  <2>2. /\ ~used'[index] /\ reportId'[index] = 0 /\ layout'[index] = 0
        /\ \A e \in Data : e # index => /\ used'[e] = used[e]
                                       /\ reportId'[e] = reportId[e]
                                       /\ layout'[e] = layout[e]
    BY <1>0, <2>1 DEF DataOK, WalkOK
  <2>3. \/ index = NumData /\ job' = "idle"
        \/ index < NumData /\ index' = index + 1 /\ job' = "reset"
    BY <1>0, <1>8, NumDataAssumption DEF ResetData, NextDatum, WalkOK, Data
  <2>4. \A e \in Data : used'[e] => used[e] /\ e # index
    BY <2>2
  <2>5. \A e \in Data : used'[e] => job' = "reset" /\ index' <= e
    BY <1>0, <2>1, <2>3, <2>4, NumDataAssumption DEF WalkOK, Data
  <2>6. \A e \in Data : ~used'[e] => reportId'[e] = 0 /\ layout'[e] = 0
    BY <2>2
  <2>7. \A e \in Data : used'[e] => layout'[e] = dev' /\ e \in Described'
    BY <1>d, <2>1, <2>2, <2>4
  <2>8. QED
    BY <1>v, <2>1, <2>3, <2>5, <2>6, <2>7
<1>9. CASE UNCHANGED deviceVars
  BY <1>0, <1>9, <1>d, <1>v DEF deviceVars
<1>10. CASE DeviceRestart
  BY <1>10, <1>v DEF DeviceRestart
<1>11. QED
  BY <1>1, <1>2, <1>3, <1>4, <1>5, <1>6, <1>7, <1>8, <1>9, <1>10
     DEF DeviceNext, CallbackStep

-----------------------------------------------------------------------------
(* Theorems.                                                               *)

\* The invariant of the store, and in particular its types: a callback never
\* indexes past the descriptor or past datas_.
THEOREM StoreInvariance == DeviceSpec => []StoreInv
<1>1. DeviceInit => StoreInv
  <2> SUFFICES ASSUME DeviceInit PROVE StoreInv
    OBVIOUS
  <2>1. 0 \in 0..MaxDev /\ 0 \in ReportId /\ NoBits \in Number
    BY NothingTypes
  <2>2. WalkOK /\ DataOK
    BY <2>1 DEF DeviceInit, WalkOK, DataOK, Job
  <2>3. DeviceInv
    BY DEF DeviceInit, DeviceInv, ConnectedMeansData, Configuring, ReportsUseOwnLayout, NoBits
  <2> QED BY <2>2, <2>3, StoreTypes DEF StoreInv
<1>2. StoreInv /\ [DeviceNext \/ DeviceRestart]_deviceVars => StoreInv'
  <2> SUFFICES ASSUME StoreInv, [DeviceNext \/ DeviceRestart]_deviceVars PROVE StoreInv'
    OBVIOUS
  <2>1. DeviceInv' /\ WalkOK' /\ DataOK'
    BY WalkStep, DataStep, DeviceStep DEF StoreInv
  <2>2. DeviceTypeOK'
    BY <2>1 DEF DeviceTypeOK, WalkOK, DataOK
  <2> QED BY <2>1, <2>2 DEF StoreInv
<1> QED BY <1>1, <1>2, PTL DEF DeviceSpec

\* No report, whatever its first byte, is decoded with the layout of another
\* device than the one that sends it.
THEOREM StoreOwnLayout == DeviceSpec => []ReportsUseOwnLayout
<1>1. StoreInv => ReportsUseOwnLayout
  BY DEF StoreInv, DeviceInv
<1> QED BY <1>1, StoreInvariance, PTL

\* A datum in use has the layout of the latest device.
THEOREM StoreLayout == DeviceSpec => []LayoutIsOfDevice
<1>1. StoreInv => LayoutIsOfDevice
  BY DEF StoreInv, DeviceInv, Configuring, LayoutIsOfDevice
<1> QED BY <1>1, StoreInvariance, PTL

\* A connected UPS has a datum to read.
THEOREM StoreConnected == DeviceSpec => []ConnectedMeansData
<1>1. StoreInv => ConnectedMeansData
  BY DEF StoreInv, DeviceInv
<1> QED BY <1>1, StoreInvariance, PTL
=============================================================================
