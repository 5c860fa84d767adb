----------------------------- MODULE MCUPSSNMP -----------------------------
(* UPSSNMP with three data, two of them published, and two UPSs: one that  *)
(* describes all three in two reports, one that has a single unnumbered    *)
(* report, in which it describes the first twice and the second never.     *)
EXTENDS UPSSNMP

CONSTANTS full, partial

MCUps == {full, partial}
MCFields == [k \in Ups |->
    IF k = full
    THEN <<[data |-> 1, report |-> 1], [data |-> 3, report |-> 1], [data |-> 2, report |-> 2]>>
    ELSE <<[data |-> 1, report |-> Unnumbered], [data |-> 1, report |-> Unnumbered],
           [data |-> 3, report |-> Unnumbered]>>]
MCPublished == <<1, 2>>
=============================================================================
