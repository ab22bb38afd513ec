----------------------------- MODULE ShareLife -----------------------------
(***************************************************************************)
(* What a contributor's claim can count on: who may still be paid a share  *)
(* of one campaign, and who was paid, to which wallet.  RepoBounty         *)
(* implements it for each of its campaigns (KeepsShares), ClaimFlow is     *)
(* built on it.                                                            *)
(***************************************************************************)
CONSTANTS Users, Wallets, NoWallet

VARIABLES
    paid,   \* the claim records: contributor -> recipient
    unpaid  \* contributors whose share may be claimed

shareVars == <<paid, unpaid>>

Nobody == [u \in Users |-> NoWallet]

ShareInit == paid = Nobody /\ unpaid = {}

\* The reward is shared out among S, before anybody was paid.
Fix(S) ==
    /\ S # {}
    /\ paid = Nobody
    /\ unpaid = {} /\ unpaid' = S
    /\ UNCHANGED paid

Pay(u, w) ==
    /\ u \in unpaid /\ unpaid' = unpaid \ {u}
    /\ paid' = [paid EXCEPT ![u] = w]

\* The claim window ends for all of them at once.
End ==
    /\ unpaid # {} /\ unpaid' = {}
    /\ UNCHANGED paid

ShareNext ==
    \/ \E S \in SUBSET Users : Fix(S)
    \/ \E u \in Users, w \in Wallets : Pay(u, w)
    \/ End

ShareSpec == ShareInit /\ [][ShareNext]_shareVars
=============================================================================
