---------------------------- MODULE MCWebserver ----------------------------
(* Webserver with the two application partitions of the boards.            *)
EXTENDS Webserver

CONSTANTS app0, app1

MCUpdate == [s \in Slot |-> IF s = app0 THEN app1 ELSE app0]
=============================================================================
