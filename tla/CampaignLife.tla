---------------------------- MODULE CampaignLife ----------------------------
(***************************************************************************)
(* What the backend relies on of a campaign's account and escrow: the      *)
(* status, the two deadlines, and whether there is money left.  RepoBounty *)
(* implements it (KeepsLife), SponsorFlow is built on it.                  *)
(***************************************************************************)
EXTENDS Naturals

CONSTANTS Campaigns, MinDeadline, ClaimWindow

VARIABLES
    now,
    status,    \* campaign -> "none", "active", "finalized" or "closed"
    deadline,  \* campaign -> when it may be finalized
    funded     \* campaign -> whether its escrow holds anything

lifeVars == <<now, status, deadline, funded>>

LifeInit ==
    /\ now = 0
    /\ status = [c \in Campaigns |-> "none"]
    /\ deadline = [c \in Campaigns |-> 0]
    /\ funded = [c \in Campaigns |-> FALSE]

Due(c) == now >= deadline[c]

Expired(c) == now > deadline[c] + ClaimWindow

Open(c) ==
    /\ status[c] = "none" /\ status' = [status EXCEPT ![c] = "active"]
    /\ deadline'[c] >= now + MinDeadline
    /\ deadline' = [deadline EXCEPT ![c] = deadline'[c]]
    /\ funded' = [funded EXCEPT ![c] = TRUE]
    /\ UNCHANGED now

Share(c) ==
    /\ status[c] = "active" /\ status' = [status EXCEPT ![c] = "finalized"]
    /\ Due(c)
    /\ UNCHANGED <<now, deadline, funded>>

\* Claims before the last leave money in the escrow; the last leaves what nobody
\* was promised, if anything.
PayLast(c) ==
    /\ status[c] = "finalized" /\ status' = [status EXCEPT ![c] = "closed"]
    /\ ~Expired(c)
    /\ funded' \in {funded, [funded EXCEPT ![c] = FALSE]}
    /\ UNCHANGED <<now, deadline>>

Abandon(c) ==
    /\ status[c] = "active" /\ status' = [status EXCEPT ![c] = "closed"]
    /\ Due(c)
    /\ UNCHANGED <<now, deadline, funded>>

Return(c) ==
    /\ status[c] # "none" /\ status' = [status EXCEPT ![c] = "closed"]
    /\ Expired(c)
    /\ funded[c] /\ funded' = [funded EXCEPT ![c] = FALSE]
    /\ UNCHANGED <<now, deadline>>

TopUp(c) ==
    /\ funded' = [funded EXCEPT ![c] = TRUE]
    /\ UNCHANGED <<now, status, deadline>>

TimePasses == now' = now + 1 /\ UNCHANGED <<status, deadline, funded>>

LifeNext ==
    \/ \E c \in Campaigns :
          Open(c) \/ Share(c) \/ PayLast(c) \/ Abandon(c) \/ Return(c) \/ TopUp(c)
    \/ TimePasses

LifeSpec == LifeInit /\ [][LifeNext]_lifeVars

\* Until it is closed, a campaign has money in its escrow.
OpenIsFunded == \A c \in Campaigns : status[c] \in {"active", "finalized"} => funded[c]
=============================================================================
