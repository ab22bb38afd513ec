----------------------------- MODULE StatusLife -----------------------------
(***************************************************************************)
(* What the finalization relies on of one campaign's account: nothing      *)
(* happens to it before its deadline, it is shared out at most once, and   *)
(* what is closed stays closed.  RepoBounty implements it for each of its  *)
(* campaigns, FinalizeFlow for its one (KeepsStatus in either).            *)
(***************************************************************************)
VARIABLES
    due,    \* the deadline of an opened campaign has passed
    status  \* "active", also before it is opened, "finalized" or "closed"

statusVars == <<due, status>>

StatusInit == due = FALSE /\ status = "active"

Lapse ==
    /\ ~due /\ due' = TRUE
    /\ UNCHANGED status

Settle ==
    /\ status = "active" /\ status' = "finalized"
    /\ due
    /\ UNCHANGED due

Finish ==
    /\ status # "closed" /\ status' = "closed"
    /\ due
    /\ UNCHANGED due

StatusNext == Lapse \/ Settle \/ Finish

StatusSpec == StatusInit /\ [][StatusNext]_statusVars
=============================================================================
