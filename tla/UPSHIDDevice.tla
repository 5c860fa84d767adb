---------------------------- MODULE UPSHIDDevice ----------------------------
(***************************************************************************)
(* UPSHIDDevice and its HIDData: what the board knows of the UPS.  The     *)
(* class driver task writes it from the HID bridge's callbacks; the SNMP   *)
(* agent and the web server read it from their own tasks meanwhile.  One   *)
(* mutex per datum makes setUsed, setValue, reset, isUsed and getValue     *)
(* atomic, and nothing else: a callback is a sequence of steps here.       *)
(*                                                                         *)
(* The callbacks come in the order HIDCallbacks states, which Gateway      *)
(* checks of the bridge.  A layout or a name is represented by the device  *)
(* it was obtained from, 0 for none; a value by the device whose report    *)
(* was decoded and the device whose layout decoded it.                     *)
(***************************************************************************)
EXTENDS Naturals, Sequences

CONSTANTS
    NumData,    \* the size of datas_
    Ups,        \* the models of UPS
    Fields,     \* Fields[k]: the input fields of k's report descriptor, in
                \* its order, that match an entry of datas_: [data, report]
    ReportId,   \* what the first byte of a report may be
    MaxDev      \* bound: devices considered

Data == 1..NumData

\* A field before which the descriptor has no Report ID item.
Unnumbered == 256
Field == [data : Data, report : ReportId \cup {Unnumbered}]

ASSUME NumDataAssumption == NumData \in Nat \ {0}
ASSUME ReportIdAssumption == ReportId \subseteq 0..255 /\ 0 \in ReportId
ASSUME FieldsAssumption == Fields \in [Ups -> Seq(Field)]
ASSUME MaxDevAssumption == MaxDev \in Nat

VARIABLES
    dev,            \* the number of the latest device introduced
    model,          \* its model
    phase,          \* as in HIDCallbacks
    job,            \* the callback the class driver task is in
    index,          \* its loop index
    arriving,       \* the report it is handling
    used,           \* HIDData::used_
    reportId,       \* HIDData::reportId_
    layout,         \* HIDData: bit place and width, logical and physical range
    value,          \* HIDData::value_
    connected,      \* UPSHIDDevice::connected_
    names           \* UPSHIDDevice::manufacturer_, model_, serial_

deviceVars == <<dev, model, phase, job, index, arriving,
                used, reportId, layout, value, connected, names>>

Job == {"idle", "match", "configure", "store", "reset"}

Number == [report : 0..MaxDev, layout : 0..MaxDev]

\* A number with no bit of any report in it.
NoBits == [report |-> 0, layout |-> 0]

DeviceTypeOK ==
    /\ dev \in 0..MaxDev
    /\ model \in Ups
    /\ phase \in {"absent", "informed", "described"}
    /\ job \in Job
    /\ index \in Nat
    /\ job \in {"store", "reset"} => index \in Data
    /\ job \in {"match", "configure"} => index \in 1..Len(Fields[model])
    /\ arriving \in ReportId
    /\ used \in [Data -> BOOLEAN]
    /\ reportId \in [Data -> ReportId]
    /\ layout \in [Data -> 0..MaxDev]
    /\ value \in [Data -> Number]
    /\ connected \in BOOLEAN
    /\ names \in 0..MaxDev

DeviceInit ==
    /\ dev = 0
    /\ model \in Ups
    /\ phase = "absent"
    /\ job = "idle"
    /\ index = 0
    /\ arriving = 0
    /\ used = [d \in Data |-> FALSE]
    /\ reportId = [d \in Data |-> 0]
    /\ layout = [d \in Data |-> 0]
    /\ value = [d \in Data |-> NoBits]
    /\ connected = FALSE
    /\ names = 0

-----------------------------------------------------------------------------
(* The callbacks, which take a device in whatever order they are called.   *)

\* onDeviceInfoReceived: setDeviceInfo.
SetDeviceInfo(k) ==
    /\ dev' = dev + 1
    /\ model' = k
    /\ phase' = "informed"
    /\ names' = dev'
    /\ UNCHANGED <<job, index, arriving, used, reportId, layout, value, connected>>

\* The next field of the descriptor, or the end of the parse.
NextField(i) ==
    IF i < Len(Fields[model])
    THEN job' = "match" /\ index' = i + 1
    ELSE job' = "idle" /\ index' = 0

\* onHidReportDescriptorReceived: buildFromHIDReport.
BuildFromHIDReport ==
    /\ phase' = "described"
    /\ NextField(0)
    /\ UNCHANGED <<dev, model, arriving, used, reportId, layout, value, connected, names>>

\* The first field that matches a datum takes it: setUsed(true).
MatchField ==
    /\ job = "match"
    /\ LET d == Fields[model][index].data
       IN  IF used[d]
           THEN NextField(index) /\ UNCHANGED used
           ELSE /\ used' = [used EXCEPT ![d] = TRUE]
                /\ job' = "configure"
                /\ UNCHANGED index
    /\ UNCHANGED <<dev, model, phase, arriving, reportId, layout, value, connected, names>>

\* Without a Report ID item the parser's reportID was never given a value.
IdsOf(f) == IF f.report = Unnumbered THEN ReportId ELSE {f.report}

\* The setters that follow, outside the datum's mutex.
ConfigureField ==
    /\ job = "configure"
    /\ LET f == Fields[model][index]
       IN  /\ \E id \in IdsOf(f) : reportId' = [reportId EXCEPT ![f.data] = id]
           /\ layout' = [layout EXCEPT ![f.data] = dev]
    /\ connected' = TRUE
    /\ NextField(index)
    /\ UNCHANGED <<dev, model, phase, arriving, used, value, names>>

\* onReportReceived: hidReportData, one iteration per entry of datas_.  The
\* first byte is the report's identifier, or data if the UPS has only one.
HidReportData ==
    /\ arriving' \in ReportId
    /\ job' = "store"
    /\ index' = 1
    /\ UNCHANGED <<dev, model, phase, used, reportId, layout, value, connected, names>>

NextDatum == IF index < NumData
             THEN index' = index + 1 /\ UNCHANGED job
             ELSE index' = 0 /\ job' = "idle"

\* setValue decodes with the datum's layout.  Of a datum that has none it takes
\* no bit: the number is 0, or not a number when both logical limits are equal.
SetValue(d) ==
    value' = [value EXCEPT ![d] = IF layout[d] = 0
                                  THEN NoBits
                                  ELSE [report |-> dev, layout |-> layout[d]]]

\* The identifier is compared with that of every datum, used or not: a reset
\* datum has 0.
StoreValue ==
    /\ job = "store"
    /\ IF reportId[index] = arriving THEN SetValue(index) ELSE UNCHANGED value
    /\ arriving' = IF index < NumData THEN arriving ELSE 0
    /\ NextDatum
    /\ UNCHANGED <<dev, model, phase, used, reportId, layout, connected, names>>

Disconnect_Later == UNCHANGED connected
Disconnect == connected' = FALSE

\* onDeviceRemoved: deviceRemoved.
DeviceRemoved ==
    /\ phase' = "absent"
    /\ Disconnect
    /\ job' = "reset"
    /\ index' = 1
    /\ UNCHANGED <<dev, model, arriving, used, reportId, layout, value, names>>

\* HIDData::reset leaves value_ as it is.
ResetDatum_KeepsUsed(d) ==
    /\ reportId' = [reportId EXCEPT ![d] = 0]
    /\ layout' = [layout EXCEPT ![d] = 0]
    /\ UNCHANGED used
ResetDatum_KeepsLayout(d) ==
    /\ used' = [used EXCEPT ![d] = FALSE]
    /\ reportId' = [reportId EXCEPT ![d] = 0]
    /\ UNCHANGED layout
ResetDatum(d) ==
    /\ used' = [used EXCEPT ![d] = FALSE]
    /\ reportId' = [reportId EXCEPT ![d] = 0]
    /\ layout' = [layout EXCEPT ![d] = 0]

ResetData ==
    /\ job = "reset"
    /\ ResetDatum(index)
    /\ NextDatum
    /\ names' = IF index = NumData THEN 0 ELSE names
    /\ UNCHANGED <<dev, model, phase, arriving, value, connected>>

\* A callback that has begun runs to its end.
CallbackStep == MatchField \/ ConfigureField \/ StoreValue \/ ResetData

-----------------------------------------------------------------------------
(* The class driver task as the store relies on it: one callback after the *)
(* other, in the order of HIDCallbacks; a removal once per endpoint.       *)

OnInfo ==
    /\ job = "idle"
    /\ phase # "described"
    /\ dev < MaxDev
    /\ \E k \in Ups : SetDeviceInfo(k)
OnDescriptor == job = "idle" /\ phase = "informed" /\ BuildFromHIDReport
OnReport     == job = "idle" /\ phase = "described" /\ HidReportData
OnRemoved    == job = "idle" /\ dev > 0 /\ DeviceRemoved

DeviceNext == OnInfo \/ OnDescriptor \/ OnReport \/ OnRemoved \/ CallbackStep

\* The board restarts: the store is constructed again.
DeviceRestart ==
    /\ phase' = "absent"
    /\ job' = "idle"
    /\ index' = 0
    /\ arriving' = 0
    /\ used' = [d \in Data |-> FALSE]
    /\ reportId' = [d \in Data |-> 0]
    /\ layout' = [d \in Data |-> 0]
    /\ value' = [d \in Data |-> NoBits]
    /\ connected' = FALSE
    /\ names' = 0
    /\ UNCHANGED <<dev, model>>

DeviceSpec == DeviceInit /\ [][DeviceNext \/ DeviceRestart]_deviceVars

-----------------------------------------------------------------------------
(* What another task reads: HIDData::getValue.                             *)

GetValue(d) == IF used[d] THEN value[d] ELSE NoBits

-----------------------------------------------------------------------------
(* Safety.                                                                 *)

\* No report is decoded with the layout of another device.  This does not
\* come from the identifiers, which cannot tell the devices apart: hidReportData
\* calls setValue on reset data too, those with identifier 0, when a report
\* begins with 0.  It takes reset clearing every layout before the next report.
ReportsUseOwnLayout == \A d \in Data : value[d].layout = value[d].report

\* A datum that is in use and not being configured has the layout of the
\* latest device, although setUsed and the setters of the layout are separate
\* steps and reset runs datum by datum.
LayoutIsOfDevice ==
    \A d \in Data :
        used[d] /\ ~(job = "configure" /\ Fields[model][index].data = d) => layout[d] = dev

\* While the UPS counts as connected, some datum of it is ready to be read:
\* deviceRemoved clears connected_ before the first datum and the parser sets
\* it after one.
ConnectedMeansData == connected => \E d \in Data : used[d] /\ layout[d] = dev
=============================================================================
