---------------------------- MODULE MCSponsorFlow ---------------------------
(* Instances of SponsorFlow: its constants are model values, numbers, or   *)
(* defined here.                                                           *)
EXTENDS SponsorFlow

\* Every account has an id of its own.
MCIdOf == [c \in Campaigns |-> <<c>>]

ASSUME OneAccountPerId
=============================================================================
