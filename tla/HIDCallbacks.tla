---------------------------- MODULE HIDCallbacks ----------------------------
(***************************************************************************)
(* What the HID bridge promises to the application that registers its     *)
(* callbacks (UPSHIDDevice): a device is introduced (onDeviceInfo-         *)
(* Received), then described (onHidReportDescriptorReceived), then         *)
(* reported on (onReportReceived) and finally removed (onDeviceRemoved);   *)
(* never a description or a report out of that order or of another device, *)
(* and no new device while a described one has not been removed.           *)
(***************************************************************************)
EXTENDS Naturals

VARIABLE app    \* what the application was told: [dev, phase, last]

Phase == {"absent", "informed", "described"}
AppState == [dev : Nat, phase : Phase, last : Nat]

NoDevice == [dev |-> 0, phase |-> "absent", last |-> 0]

Init == app = NoDevice

\* A device of another connection than any told before.
Info ==
    /\ app.phase # "described"
    /\ app' \in AppState
    /\ app'.dev > app.dev
    /\ app'.phase = "informed"
    /\ app'.last = 0

Described ==
    /\ app.phase = "informed"
    /\ app' = [app EXCEPT !.phase = "described"]

Report ==
    /\ app.phase = "described"
    /\ app' = [app EXCEPT !.last = app.dev]

\* Also when the board restarts, which empties the application's memory.
Removed == app' = [app EXCEPT !.phase = "absent", !.last = 0]

Next == Info \/ Described \/ Report \/ Removed

Spec == Init /\ [][Next]_app
=============================================================================
