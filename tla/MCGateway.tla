----------------------------- MODULE MCGateway -----------------------------
(***************************************************************************)
(* Gateway with two UPSs, which differ in packet size, endpoints, fields   *)
(* and whether their reports are numbered, and a device that is not HID.   *)
(***************************************************************************)
EXTENDS Gateway

CONSTANTS smallUps, largeUps, keyfob

MCModel == {smallUps, largeUps, keyfob}
MCEndpoints == [m \in Model |-> IF m = keyfob THEN 0 ELSE IF m = largeUps THEN 2 ELSE 1]
MCMps == [m \in Model |-> IF m = largeUps THEN 64 ELSE 8]
MCFields == [m \in Ups |->
    CASE m = keyfob -> <<>>
      [] m = largeUps -> <<[data |-> 2, report |-> Unnumbered]>>
      [] m = smallUps -> <<[data |-> 1, report |-> 1], [data |-> 2, report |-> 2]>>]
=============================================================================
