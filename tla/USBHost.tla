------------------------------ MODULE USBHost ------------------------------
(***************************************************************************)
(* The ESP-IDF USB host library as the HID bridge sees it.  Its code is    *)
(* not in the repository: what is here is the behaviour usb_host_hid_      *)
(* bridge.cpp relies on, call by call.                                     *)
(*                                                                         *)
(* The board has one root port.  The library keeps one device object for   *)
(* it, numbered by devId (a fresh number for each enumeration, standing    *)
(* for the handle's identity), and takes the port back only once that      *)
(* object has been closed by the client.                                   *)
(***************************************************************************)
EXTENDS Naturals, Sequences

CONSTANTS
    Model,      \* the models of USB devices that may be plugged in
    NoModel,    \* an empty socket
    Endpoints,  \* Endpoints[m]: endpoints of m's HID interface, 0 if it has none
    Mps,        \* Mps[m]: wMaxPacketSize of m's interrupt IN endpoint
    Addr,       \* the addresses enumeration may assign
    MaxMsg,     \* CLIENT_NUM_EVENT_MSG, the length of the client's event queue
    MaxPlug     \* bound: enumerations considered

ASSUME ModelAssumption == NoModel \notin Model
ASSUME EndpointsAssumption == Endpoints \in [Model -> Nat]
ASSUME MpsAssumption == Mps \in [Model -> Nat \ {0}]
ASSUME AddrAssumption == Addr \subseteq Nat \ {0}
ASSUME BoundAssumption == MaxMsg \in Nat /\ MaxPlug \in Nat

VARIABLES
    socket,         \* the model plugged into the socket, or NoModel
    devId,          \* the number of the latest device object
    devModel,       \* its model
    devAddr,        \* its address
    devState,       \* its life cycle, below
    pipe,           \* the interrupt IN pipe: "free" until the interface is claimed
    ctrl, intr,     \* the control and the interrupt transfer
    msgs            \* the client's queue of event messages

hostVars == <<socket, devId, devModel, devAddr, devState, pipe, ctrl, intr, msgs>>

\* absent: no device object.  enumerated: ready, never opened by the client.
\* open: opened and attached.  lost: opened, the port has seen it leave.
\* gone: lost, and the daemon has posted DEV_GONE.  closed: closed, attached.
DevState == {"absent", "enumerated", "open", "lost", "gone", "closed"}
Held     == {"open", "lost", "gone"}

NewDev(a)  == [event |-> "NEW_DEV", address |-> a]
DevGone(h) == [event |-> "DEV_GONE", dev_hdl |-> h]
Message    == [event : {"NEW_DEV"}, address : Addr] \cup [event : {"DEV_GONE"}, dev_hdl : Nat]

\* "done" and "failed": completed, its callback not yet run.
Transfer == {"none", "inflight", "done", "failed"}
Pipe     == {"free", "active", "halted"}

HostTypeOK ==
    /\ socket \in Model \cup {NoModel}
    /\ devId \in Nat
    /\ devModel \in Model \cup {NoModel}
    /\ devAddr \in Addr \cup {0}
    /\ devState \in DevState
    /\ devState # "absent" => devModel \in Model /\ devAddr \in Addr /\ devId # 0
    /\ pipe \in Pipe
    /\ ctrl \in Transfer
    /\ intr \in Transfer
    /\ msgs \in Seq(Message) /\ Len(msgs) <= MaxMsg

HostInit ==
    /\ socket \in Model \cup {NoModel}
    /\ devId = 0
    /\ devModel = NoModel
    /\ devAddr = 0
    /\ devState = "absent"
    /\ pipe = "free"
    /\ ctrl = "none"
    /\ intr = "none"
    /\ msgs = <<>>

-----------------------------------------------------------------------------
(* What the library answers to the client's calls.                         *)

\* usb_host_device_open finds an unopened device at that address.
OpenSucceeds(a) == devState = "enumerated" /\ devAddr = a

\* usb_host_interface_claim allocates the pipes, on an enabled port only.
ClaimSucceeds == devState = "open" /\ pipe = "free"

\* usb_host_transfer_submit_control.
SubmitCtrlSucceeds == devState = "open" /\ ctrl = "none"

\* usb_host_transfer_submit: a live pipe, an idle transfer, and a length that
\* is a multiple of the endpoint's maximum packet size.
SubmitIntrSucceeds(numBytes) ==
    /\ devState = "open"
    /\ pipe = "active"
    /\ intr = "none"
    /\ numBytes % Mps[devModel] = 0

\* usb_host_endpoint_halt, _flush and usb_host_interface_release: the
\* interface is claimed and none of its transfers awaits its callback.
ReleaseSucceeds == pipe # "free" /\ intr = "none"

\* usb_host_device_close: no control transfer awaits its callback.
CloseSucceeds == ctrl = "none"

-----------------------------------------------------------------------------
(* What happens on its own: the cable, the bus, the daemon task.           *)

Post_Unbounded(m) == msgs' = Append(msgs, m)

Post(m) == msgs' = IF Len(msgs) < MaxMsg THEN Append(msgs, m) ELSE msgs

Plug ==
    /\ socket = NoModel
    /\ socket' \in Model
    /\ UNCHANGED <<devId, devModel, devAddr, devState, pipe, ctrl, intr, msgs>>

\* The board restarts: the library loses its state, the socket is as it was.
HostReset ==
    /\ devModel' = NoModel
    /\ devAddr' = 0
    /\ devState' = "absent"
    /\ pipe' = "free"
    /\ ctrl' = "none"
    /\ intr' = "none"
    /\ msgs' = <<>>
    /\ UNCHANGED <<socket, devId>>

\* The disconnection interrupt invalidates the pipe and retires transfers.
Unplug ==
    /\ socket # NoModel
    /\ socket' = NoModel
    /\ devState' = CASE devState \in {"enumerated", "closed"} -> "absent"
                     [] devState = "open" -> "lost"
                     [] OTHER -> devState
    /\ pipe' = IF pipe = "active" THEN "halted" ELSE pipe
    /\ ctrl' = IF ctrl = "inflight" THEN "failed" ELSE ctrl
    /\ intr' = IF intr = "inflight" THEN "failed" ELSE intr
    /\ UNCHANGED <<devId, devModel, devAddr, msgs>>

\* Every registered client hears of a new device, if its queue has room.
Enumerate ==
    /\ socket # NoModel
    /\ devState = "absent"
    /\ devId < MaxPlug
    /\ devId' = devId + 1
    /\ devModel' = socket
    /\ devAddr' \in Addr
    /\ devState' = "enumerated"
    /\ Post(NewDev(devAddr'))
    /\ UNCHANGED <<socket, pipe, ctrl, intr>>

\* Only a client that holds the device open hears that it has gone.
ReportGone ==
    /\ devState = "lost"
    /\ devState' = "gone"
    /\ Post(DevGone(devId))
    /\ UNCHANGED <<socket, devId, devModel, devAddr, pipe, ctrl, intr>>

CompleteCtrl ==
    /\ ctrl = "inflight"
    /\ ctrl' \in {"done", "failed"}
    /\ UNCHANGED <<socket, devId, devModel, devAddr, devState, pipe, intr, msgs>>

\* An endpoint without news does not answer, so this need never happen.  A
\* failed interrupt transfer halts its pipe.
CompleteIntr ==
    /\ intr = "inflight"
    /\ intr' \in {"done", "failed"}
    /\ pipe' = IF intr' = "failed" THEN "halted" ELSE pipe
    /\ UNCHANGED <<socket, devId, devModel, devAddr, devState, ctrl, msgs>>
=============================================================================
