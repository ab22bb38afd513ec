----------------------------- MODULE MCFrontDoor ----------------------------
(* Instances of FrontDoor: its constants are model values or numbers.      *)
EXTENDS FrontDoor
=============================================================================
