----------------------------- MODULE HIDBridge -----------------------------
(***************************************************************************)
(* The USB HID bridge (lib/HIDBridge): the class driver task that opens a  *)
(* HID device, walks it through its set-up stages, polls its reports and   *)
(* closes it, against the USB host library and the cable of USBHost.       *)
(*                                                                         *)
(* The task alternates between usb_host_client_handle_events, which runs   *)
(* every pending callback, and one pass over its stages, which runs those  *)
(* whose bit is set in actions.  Nothing handles events during a pass, and *)
(* the device may be unplugged between any two stages.                     *)
(***************************************************************************)
EXTENDS USBHost

VARIABLES
    hostInstalled,  \* the daemon task has installed the library
    pc,             \* where the class driver task is
    dev_addr,       \* class_driver_t: 0 when there is no device
    dev_hdl,        \* class_driver_t: a devId, 0 for NULL
    ep_in,          \* class_driver_t: the device whose descriptor it points into
    actions,        \* class_driver_t: the stages to run
    mps,            \* the static of the interrupt stage, 0 until initialised
    app             \* what the callbacks told the application (HIDCallbacks)

taskVars == <<hostInstalled, pc, dev_addr, dev_hdl, ep_in, actions, mps, app>>
vars == <<hostVars, taskVars>>

NULL == 0

\* The stages in the order of a pass; a stage's name is also its action bit.
NextStage == [OPEN |-> "INFO", INFO |-> "DEV_DESC", DEV_DESC |-> "CONFIG_DESC",
              CONFIG_DESC |-> "STR_DESC", STR_DESC |-> "CLAIM", CLAIM |-> "CTRL",
              CTRL |-> "INTR", INTR |-> "CLOSE", CLOSE |-> "loop"]

Stage == {"OPEN", "INFO", "DEV_DESC", "CONFIG_DESC", "STR_DESC", "CLAIM",
          "CTRL", "INTR", "CLOSE"}
NeedsHandle == Stage \ {"OPEN"}
PC == Stage \cup {"register", "loop", "events", "aborted"}

TypeOK ==
    /\ HostTypeOK
    /\ hostInstalled \in BOOLEAN
    /\ pc \in PC
    /\ dev_addr \in Addr \cup {0}
    /\ dev_hdl \in Nat
    /\ ep_in \in Nat
    /\ actions \subseteq Stage
    /\ mps \in Nat
    /\ app \in [dev : Nat, phase : {"absent", "informed", "described"}, last : Nat]

Init ==
    /\ HostInit
    /\ hostInstalled = FALSE
    /\ pc = "register"
    /\ dev_addr = 0
    /\ dev_hdl = NULL
    /\ ep_in = NULL
    /\ actions = {}
    /\ mps = 0
    /\ app = [dev |-> 0, phase |-> "absent", last |-> 0]

-----------------------------------------------------------------------------
(* Start-up: the daemon installs the library, then the class driver, which *)
(* polls hostInstalled, registers as its client.  Enumeration takes many   *)
(* delayed turns of the daemon, so the client is registered by then.       *)

Install ==
    /\ ~hostInstalled
    /\ hostInstalled' = TRUE
    /\ UNCHANGED <<hostVars, pc, dev_addr, dev_hdl, ep_in, actions, mps, app>>

Register ==
    /\ pc = "register"
    /\ hostInstalled
    /\ pc' = "loop"
    /\ UNCHANGED <<hostVars, hostInstalled, dev_addr, dev_hdl, ep_in, actions, mps, app>>

Daemon ==
    /\ hostInstalled
    /\ pc \notin {"register", "aborted"}
    /\ Enumerate \/ ReportGone
    /\ UNCHANGED taskVars

Bus ==
    /\ pc # "aborted"
    /\ CompleteCtrl \/ CompleteIntr
    /\ UNCHANGED taskVars

Cable ==
    /\ Plug \/ Unplug
    /\ UNCHANGED taskVars

-----------------------------------------------------------------------------
(* usb_host_client_handle_events: run the callbacks until none is pending. *)

\* client_event_cb, NEW_DEV: a device is opened next unless one is there.
OnNewDev_WhileBusy(a) == dev_addr' = a /\ actions' = actions \cup {"OPEN"}
OnNewDev(a) ==
    IF dev_addr = 0
    THEN dev_addr' = a /\ actions' = actions \cup {"OPEN"}
    ELSE UNCHANGED <<dev_addr, actions>>

\* client_event_cb, DEV_GONE: cancel any other action, close next.
OnDevGone_DescribedOnly ==
    actions' = IF dev_hdl # NULL /\ app.phase = "described" THEN {"CLOSE"} ELSE actions
OnDevGone == actions' = IF dev_hdl # NULL THEN {"CLOSE"} ELSE actions

ClientEvent ==
    /\ pc = "events"
    /\ msgs # <<>>
    /\ msgs' = Tail(msgs)
    /\ \/ Head(msgs).event = "NEW_DEV" /\ OnNewDev(Head(msgs).address)
       \/ Head(msgs).event = "DEV_GONE" /\ OnDevGone /\ UNCHANGED dev_addr
    /\ UNCHANGED <<socket, devId, devModel, devAddr, devState, pipe, ctrl, intr,
                   hostInstalled, pc, dev_hdl, ep_in, mps, app>>

\* transfer_control_get_report_descriptor_cb; a completed transfer counts its
\* setup packet, so its length is never 0.
CtrlCallback ==
    /\ pc = "events"
    /\ ctrl \in {"done", "failed"}
    /\ ctrl' = "none"
    /\ IF ctrl = "done"
       THEN /\ app' = [dev |-> devId, phase |-> "described", last |-> 0]
            /\ actions' = actions \cup {"INTR"}
       ELSE UNCHANGED <<app, actions>>
    /\ UNCHANGED <<socket, devId, devModel, devAddr, devState, pipe, intr, msgs,
                   hostInstalled, pc, dev_addr, dev_hdl, ep_in, mps>>

\* Whatever the outcome of one report, the next is requested.
PollAgain_IfTold == actions' = IF app' = app THEN actions ELSE actions \cup {"INTR"}
PollAgain == actions' = actions \cup {"INTR"}

\* action_interrupt_get_report_cb; a report may be empty.
IntrCallback ==
    /\ pc = "events"
    /\ intr \in {"done", "failed"}
    /\ intr' = "none"
    /\ \/ intr = "done" /\ app' = [app EXCEPT !.last = devId]
       \/ UNCHANGED app
    /\ PollAgain
    /\ UNCHANGED <<socket, devId, devModel, devAddr, devState, pipe, ctrl, msgs,
                   hostInstalled, pc, dev_addr, dev_hdl, ep_in, mps>>

NothingPending_IfBusy == actions # {}
NothingPending == msgs = <<>> /\ {ctrl, intr} \cap {"done", "failed"} = {}

\* The call blocks for an event and returns once none is pending.
EventsHandled ==
    /\ pc = "events"
    /\ NothingPending
    /\ actions # {}
    /\ pc' = "loop"
    /\ UNCHANGED <<hostVars, hostInstalled, dev_addr, dev_hdl, ep_in, actions, mps, app>>

-----------------------------------------------------------------------------
(* The stages.  ESP_ERROR_CHECK of a call that fails aborts the program.   *)

At(s) == pc = s /\ s \in actions
Proceed == pc' = NextStage[pc]
Abort ==
    /\ pc' = "aborted"
    /\ UNCHANGED <<hostVars, hostInstalled, dev_addr, dev_hdl, ep_in, actions, mps, app>>

Loop ==
    /\ pc = "loop"
    /\ pc' = IF actions = {} THEN "events" ELSE "OPEN"
    /\ UNCHANGED <<hostVars, hostInstalled, dev_addr, dev_hdl, ep_in, actions, mps, app>>

Skip ==
    /\ pc \in Stage \ actions
    /\ Proceed
    /\ UNCHANGED <<hostVars, hostInstalled, dev_addr, dev_hdl, ep_in, actions, mps, app>>

OpenDev ==
    /\ At("OPEN")
    /\ OpenSucceeds(dev_addr)
    /\ devState' = "open"
    /\ dev_hdl' = devId
    /\ actions' = (actions \ {"OPEN"}) \cup {"INFO"}
    /\ Proceed
    /\ UNCHANGED <<socket, devId, devModel, devAddr, pipe, ctrl, intr, msgs,
                   hostInstalled, dev_addr, ep_in, mps, app>>

OpenAborts == At("OPEN") /\ ~OpenSucceeds(dev_addr) /\ Abort

\* Getting the device info and its descriptors reads what the library holds,
\* for an unplugged device too.
Describe(s, next) ==
    /\ At(s)
    /\ actions' = (actions \ {s}) \cup {next}
    /\ Proceed
    /\ UNCHANGED <<hostVars, hostInstalled, dev_addr, dev_hdl, ep_in, mps>>

GetInfo == Describe("INFO", "DEV_DESC") /\ UNCHANGED app
GetDevDesc == Describe("DEV_DESC", "CONFIG_DESC") /\ UNCHANGED app
GetConfigDesc == Describe("CONFIG_DESC", "STR_DESC") /\ UNCHANGED app
GetStrDesc ==
    /\ Describe("STR_DESC", "CLAIM")
    /\ app' = [dev |-> dev_hdl, phase |-> "informed", last |-> 0]

IsHid == Endpoints[devModel] > 0

\* The endpoint is noted whether or not the claim then succeeds.
NoteEndpoint_Once == ep_in' = IF IsHid /\ ep_in = NULL THEN dev_hdl ELSE ep_in
NoteEndpoint == ep_in' = IF IsHid THEN dev_hdl ELSE ep_in

ClaimInterface ==
    /\ At("CLAIM")
    /\ NoteEndpoint
    /\ IF IsHid /\ ClaimSucceeds
       THEN /\ pipe' = "active"
            /\ actions' = (actions \ {"CLAIM"}) \cup {"CTRL"}
       ELSE /\ actions' = actions \ {"CLAIM"}
            /\ UNCHANGED pipe
    /\ Proceed
    /\ UNCHANGED <<socket, devId, devModel, devAddr, devState, ctrl, intr, msgs,
                   hostInstalled, dev_addr, dev_hdl, mps, app>>

CtrlQueued_PollsAtOnce == ctrl' = "inflight" /\ actions' = (actions \ {"CTRL"}) \cup {"INTR"}
CtrlQueued == ctrl' = "inflight" /\ actions' = actions \ {"CTRL"}

\* action_transfer_control_get_report_descriptor: a refused transfer leaves
\* the bit set, to be tried again in the next pass.
SubmitCtrl ==
    /\ At("CTRL")
    /\ IF SubmitCtrlSucceeds THEN CtrlQueued ELSE UNCHANGED <<ctrl, actions>>
    /\ Proceed
    /\ UNCHANGED <<socket, devId, devModel, devAddr, devState, pipe, intr, msgs,
                   hostInstalled, dev_addr, dev_hdl, ep_in, mps, app>>

IntrQueued_KeepsBit == intr' = "inflight" /\ UNCHANGED actions
IntrQueued == intr' = "inflight" /\ actions' = actions \ {"INTR"}

\* action_interrupt_get_report: the packet size is that of the first device
\* polled since the board started.
SubmitIntr ==
    /\ At("INTR")
    /\ mps' = IF mps = 0 THEN Mps[devModel] ELSE mps
    /\ IF SubmitIntrSucceeds(mps')
       THEN IntrQueued
       ELSE actions' = {"CLOSE"} /\ UNCHANGED intr
    /\ Proceed
    /\ UNCHANGED <<socket, devId, devModel, devAddr, devState, pipe, ctrl, msgs,
                   hostInstalled, dev_addr, dev_hdl, ep_in, app>>

CloseCanComplete == (IsHid => ReleaseSucceeds) /\ CloseSucceeds

\* onDeviceRemoved is called while a HID interface is released, not otherwise.
TellRemoved_Never == UNCHANGED app
TellRemoved == app' = IF IsHid THEN [app EXCEPT !.phase = "absent", !.last = 0] ELSE app

Forget_NotHandle == UNCHANGED dev_hdl /\ dev_addr' = 0 /\ actions' = {}
Forget_NotAddress == dev_hdl' = NULL /\ UNCHANGED dev_addr /\ actions' = {}
Forget == dev_hdl' = NULL /\ dev_addr' = 0 /\ actions' = {}

CloseDev ==
    /\ At("CLOSE")
    /\ CloseCanComplete
    /\ TellRemoved
    /\ devState' = IF devState = "open" THEN "closed" ELSE "absent"
    /\ pipe' = "free"
    /\ Forget
    /\ Proceed
    /\ UNCHANGED <<socket, devId, devModel, devAddr, ctrl, intr, msgs,
                   hostInstalled, ep_in, mps>>

CloseAborts == At("CLOSE") /\ ~CloseCanComplete /\ Abort

\* The panic handler restarts the board, which empties every task's memory.
Reboot ==
    /\ pc = "aborted"
    /\ HostReset
    /\ hostInstalled' = FALSE
    /\ pc' = "register"
    /\ dev_addr' = 0
    /\ dev_hdl' = NULL
    /\ ep_in' = NULL
    /\ actions' = {}
    /\ mps' = 0
    /\ app' = [app EXCEPT !.phase = "absent", !.last = 0]

HandleEvents == ClientEvent \/ CtrlCallback \/ IntrCallback \/ EventsHandled

RunStage ==
    \/ OpenDev \/ OpenAborts
    \/ GetInfo \/ GetDevDesc \/ GetConfigDesc \/ GetStrDesc
    \/ ClaimInterface \/ SubmitCtrl \/ SubmitIntr
    \/ CloseDev \/ CloseAborts

ClassDriver == Register \/ Loop \/ Skip \/ HandleEvents \/ RunStage

Next == Install \/ ClassDriver \/ Daemon \/ Bus \/ Cable \/ Reboot

Spec == Init /\ [][Next]_vars

(* Both tasks are scheduled, a control transfer ends, a panic restarts.    *)
(* Nothing obliges anybody to plug a cable or a UPS to send a report.      *)
Fairness ==
    /\ WF_vars(Install)
    /\ WF_vars(ClassDriver)
    /\ WF_vars(Daemon)
    /\ WF_vars(pc # "aborted" /\ CompleteCtrl /\ UNCHANGED taskVars)
    /\ WF_vars(Reboot)

FairSpec == Spec /\ Fairness

-----------------------------------------------------------------------------
(* Safety.                                                                 *)

\* The stages' assertions: a stage that uses the handle finds one (assert
\* dev_hdl != NULL), opening finds an address and no handle (assert dev_addr
\* != 0), and a transfer awaits its callback only while a device is open.
HandleDiscipline ==
    /\ "OPEN" \in actions => dev_addr # 0 /\ dev_hdl = NULL
    /\ actions \cap NeedsHandle # {} => dev_hdl # NULL
    /\ ctrl # "none" \/ intr # "none" => dev_hdl # NULL

\* The bridge and the library agree on the device that is open: the handle is
\* kept exactly as long as the library holds the device for the client.
HandleMatchesLibrary ==
    /\ dev_hdl # NULL => dev_hdl = devId /\ devState \in Held
    /\ dev_hdl = NULL => devState \notin Held

\* The one transfer buffer of each kind is never submitted while the other
\* transfer awaits its callback: the bridge has one request out at a time.
OneTransfer == ctrl = "none" \/ intr = "none"

\* DEV_GONE is handled without comparing its handle with the open one; the
\* one it closes is nevertheless always the one that has gone.
GoneIsTheOpenDevice ==
    msgs # <<>> /\ Head(msgs).event = "DEV_GONE" /\ dev_hdl # NULL
        => Head(msgs).dev_hdl = dev_hdl

\* The endpoint descriptor ep_in points to, which closing a device frees and
\* does not forget, is that of the open device whenever a report is requested.
EndpointIsCurrent == "INTR" \in actions => ep_in = dev_hdl

\* The board restarts only over a device that has left: with an open and
\* attached device every ESP_ERROR_CHECK of the stages succeeds.
NoAbortWhileAttached ==
    [][pc # "aborted" /\ pc' = "aborted" => devState # "open"]_vars

\* A UPS that is still attached is closed, for good until it is replugged,
\* only after one of its reports has failed, or because mps is that of another
\* model and does not fit it.
AttachedIsKept ==
    [][devState = "open" /\ devState' = "closed"
           => pipe = "halted" \/ mps % Mps[devModel] # 0]_vars

\* The application is told of devices in the order HIDCallbacks promises.
Callbacks == INSTANCE HIDCallbacks WITH app <- app
CallbackProtocol == Callbacks!Spec

(* Liveness, under FairSpec.                                               *)

Queued(m) == \E i \in DOMAIN msgs : msgs[i] = m

\* A device whose NEW_DEV is in the queue is opened or leaves, even when the
\* message then finds dev_addr taken and is dropped.
EnumeratedIsOpened ==
    devState = "enumerated" /\ Queued(NewDev(devAddr)) ~> devState # "enumerated"

\* Once its descriptor is known, a report is always requested of the device
\* again, as long as it stays open.
PollingContinues ==
    app.phase = "described" /\ devState = "open" ~> (intr = "inflight" \/ devState # "open")

\* A device that has left is closed once its DEV_GONE is in the queue, unless
\* it left before the descriptor request was accepted: see GoneIsClosed.
GoneIsClosedOrRetried ==
    Queued(DevGone(devId)) ~> (devState = "absent" \/ "CTRL" \in actions)

(* What the code says of itself and does not keep.                         *)

\* DEV_GONE cancels the other actions and closes the device.
GoneIsClosed == devState = "lost" ~> devState = "absent"
=============================================================================
