------------------------------ MODULE MCPanel ------------------------------
(* Panel with one temperature, short delays and a short logo.              *)
EXTENDS Panel

CONSTANT warm
=============================================================================
