------------------------------ MODULE Gateway ------------------------------
(***************************************************************************)
(* The HID bridge and the data store composed: the class driver task of    *)
(* HIDBridge calls the callbacks of UPSHIDDevice, which run step by step   *)
(* in that task while the cable, the bus and the daemon go on.  The order  *)
(* in which the store is told of devices, which UPSHIDDevice assumes, is   *)
(* here what the bridge does.                                              *)
(***************************************************************************)
EXTENDS HIDBridge, UPSHIDDevice

ASSUME SameModels == Model = Ups
ASSUME DevicesConsidered == MaxPlug <= MaxDev

VARIABLE removals   \* the endpoints onDeviceRemoved has been called for

gatewayVars == <<vars, deviceVars, removals>>

GatewayInit == Init /\ DeviceInit /\ removals = 0

-----------------------------------------------------------------------------

StoreIdle == UNCHANGED <<deviceVars, removals>>

\* The stages and events that call no callback.
SilentStep ==
    /\ \/ Register \/ Loop \/ Skip \/ ClientEvent \/ EventsHandled
       \/ OpenDev \/ OpenAborts \/ GetInfo \/ GetDevDesc \/ GetConfigDesc
       \/ ClaimInterface \/ SubmitCtrl \/ SubmitIntr \/ CloseAborts
    /\ StoreIdle

\* action_get_str_desc calls onDeviceInfoReceived.
Introduce ==
    /\ GetStrDesc
    /\ SetDeviceInfo(devModel)
    /\ UNCHANGED removals

\* transfer_control_get_report_descriptor_cb, of a completed transfer.
Describes ==
    /\ CtrlCallback
    /\ IF ctrl = "done"
       THEN BuildFromHIDReport /\ UNCHANGED removals
       ELSE StoreIdle

\* action_interrupt_get_report_cb, of a completed transfer with data.
Reports ==
    /\ IntrCallback
    /\ \/ intr = "done" /\ app'.last = devId /\ HidReportData /\ UNCHANGED removals
       \/ app' = app /\ StoreIdle

RemovalsDue_None == 0
RemovalsDue == IF IsHid THEN Endpoints[devModel] ELSE 0

\* action_close_dev halts and flushes each endpoint of the interface, and
\* calls onDeviceRemoved for it...
RemoveEndpoint ==
    /\ At("CLOSE")
    /\ ReleaseSucceeds
    /\ removals < RemovalsDue
    /\ removals' = removals + 1
    /\ DeviceRemoved
    /\ UNCHANGED vars

\* ...then releases the interface and closes the device.
Close ==
    /\ At("CLOSE")
    /\ removals = RemovalsDue
    /\ CloseDev
    /\ removals' = 0
    /\ UNCHANGED deviceVars

\* The class driver task returns from a callback before it does anything else.
InCallback == CallbackStep /\ UNCHANGED <<vars, removals>>

Driver ==
    \/ /\ job = "idle"
       /\ \/ SilentStep \/ Introduce \/ Describes \/ Reports \/ RemoveEndpoint \/ Close
    \/ InCallback

Environment == (Install \/ Daemon \/ Bus \/ Cable) /\ StoreIdle

RestartBoard == Reboot /\ DeviceRestart /\ removals' = 0

GatewayNext == Driver \/ Environment \/ RestartBoard

GatewaySpec == GatewayInit /\ [][GatewayNext]_gatewayVars

(* Both tasks are scheduled, a control transfer ends, a panic restarts.    *)
(* Nothing obliges anybody to plug a cable or a UPS to send a report.      *)
GatewayFairness ==
    /\ WF_gatewayVars(Install /\ StoreIdle)
    /\ WF_gatewayVars(Driver)
    /\ WF_gatewayVars(Daemon /\ StoreIdle)
    /\ WF_gatewayVars(pc # "aborted" /\ CompleteCtrl /\ UNCHANGED taskVars /\ StoreIdle)
    /\ WF_gatewayVars(RestartBoard)

FairGatewaySpec == GatewaySpec /\ GatewayFairness

-----------------------------------------------------------------------------
(* Safety.                                                                 *)

\* The bridge calls the store as UPSHIDDevice assumes: its callbacks come one
\* at a time and in order, and no report reaches it before its layout or
\* after its removal.  What is checked and proved of the store on that
\* assumption therefore holds of the program.
StoreProtocol == DeviceSpec

\* While the store says that a UPS is connected, it is the one the bridge
\* described last, and the library still holds it for the bridge: a device
\* that is closed, replaced or lost in a restart is never shown as connected.
ConnectedIsHeld ==
    connected => devState \in Held /\ app.dev = devId /\ model = devModel

(* Liveness, under FairGatewaySpec.                                        *)

\* A UPS that has been unplugged stops being shown as connected, whatever the
\* class driver was doing with it.
GoneIsDisconnected == devState = "lost" ~> ~connected
=============================================================================
