--------------------------- MODULE MCFinalizeFlow ---------------------------
(* Instances of FinalizeFlow: its constants are model values or small sets *)
(* the .cfg files give directly.                                           *)
EXTENDS FinalizeFlow
=============================================================================
