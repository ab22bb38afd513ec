---------------------------- MODULE BountyEscrow ----------------------------
(***************************************************************************)
(* What the program promises to a sponsor and to contributors, without     *)
(* batches, counters, authorities or pauses.  A sponsor opens a campaign   *)
(* with a pool; the whole pool is shared out at once; each share is paid   *)
(* at most once, in full and before the campaign expires; after that, and  *)
(* only after that, what is left goes back to the sponsor.                 *)
(***************************************************************************)
EXTENDS Sums

CONSTANTS Campaigns, Users, ClaimWindow

VARIABLES
    now,     \* time
    stage,   \* campaign -> "none", "open", "shared" or "done"
    pool,    \* campaign -> the amount promised
    expiry,  \* campaign -> last moment at which a share is paid
    owed,    \* campaign -> user -> share not paid yet
    pot      \* campaign -> money held

vars == <<now, stage, pool, expiry, owed, pot>>

Nothing == [u \in Users |-> 0]

Init ==
    /\ now = 0
    /\ stage = [c \in Campaigns |-> "none"]
    /\ pool = [c \in Campaigns |-> 0]
    /\ expiry = [c \in Campaigns |-> 0]
    /\ owed = [c \in Campaigns |-> Nothing]
    /\ pot = [c \in Campaigns |-> 0]

\* Contributors have more than the claim window, counted from now.
Open(c) ==
    /\ stage[c] = "none"
    /\ stage' = [stage EXCEPT ![c] = "open"]
    /\ pool'[c] > 0 /\ pool' = [pool EXCEPT ![c] = pool'[c]]
    /\ expiry'[c] > now + ClaimWindow /\ expiry' = [expiry EXCEPT ![c] = expiry'[c]]
    /\ pot' = [pot EXCEPT ![c] = @ + pool'[c]]
    /\ UNCHANGED <<now, owed>>

\* Not before ClaimWindow ahead of the expiry, and never more or less than the pool.
Share(c) ==
    /\ stage[c] = "open"
    /\ now + ClaimWindow >= expiry[c]
    /\ stage' = [stage EXCEPT ![c] = "shared"]
    /\ owed'[c] \in [Users -> Nat] /\ Total(owed'[c]) = pool[c]
    /\ owed' = [owed EXCEPT ![c] = owed'[c]]
    /\ UNCHANGED <<now, pool, expiry, pot>>

\* The campaign is done with the last payment.
Pay(c, u) ==
    /\ stage[c] = "shared"
    /\ owed[c][u] > 0
    /\ now <= expiry[c]
    /\ pot' = [pot EXCEPT ![c] = @ - owed[c][u]]
    /\ owed' = [owed EXCEPT ![c][u] = 0]
    /\ stage' = [stage EXCEPT ![c] = IF owed'[c] = Nothing THEN "done" ELSE @]
    /\ UNCHANGED <<now, pool, expiry>>

\* Nothing was shared out; the money waits for the expiry.
Abandon(c) ==
    /\ stage[c] = "open"
    /\ now + ClaimWindow >= expiry[c]
    /\ stage' = [stage EXCEPT ![c] = "done"]
    /\ UNCHANGED <<now, pool, expiry, owed, pot>>

Return(c) ==
    /\ stage[c] # "none"
    /\ now > expiry[c]
    /\ pot[c] > 0 /\ pot' = [pot EXCEPT ![c] = 0]
    /\ owed' = [owed EXCEPT ![c] = Nothing]
    /\ stage' = [stage EXCEPT ![c] = "done"]
    /\ UNCHANGED <<now, pool, expiry>>

TopUp(c) ==
    /\ pot'[c] > pot[c] /\ pot' = [pot EXCEPT ![c] = pot'[c]]
    /\ UNCHANGED <<now, stage, pool, expiry, owed>>

Tick == now' = now + 1 /\ UNCHANGED <<stage, pool, expiry, owed, pot>>

Next ==
    \/ \E c \in Campaigns :
          Open(c) \/ Share(c) \/ (\E u \in Users : Pay(c, u)) \/ Abandon(c) \/ Return(c) \/ TopUp(c)
    \/ Tick

Spec == Init /\ [][Next]_vars
=============================================================================
