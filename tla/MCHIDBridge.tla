---------------------------- MODULE MCHIDBridge ----------------------------
(* HIDBridge with three devices: two UPSs whose endpoints differ in packet *)
(* size, one of them with two endpoints, and a device that is not HID.     *)
EXTENDS HIDBridge

CONSTANTS smallUps, largeUps, keyfob

MCModel == {smallUps, largeUps, keyfob}
MCUps == {smallUps, largeUps}
MCEndpoints == [m \in Model |-> IF m = keyfob THEN 0 ELSE IF m = largeUps THEN 2 ELSE 1]
MCMps == [m \in Model |-> IF m = largeUps THEN 64 ELSE 8]
=============================================================================
