----------------------------- MODULE RepoBounty -----------------------------
(***************************************************************************)
(* The Anchor program of program/programs/repobounty: one action per       *)
(* instruction.  Solana runs an instruction atomically: a failed require!, *)
(* account constraint, transfer or checked_add undoes all of it, so a      *)
(* failure is an action that is not enabled.                               *)
(*                                                                         *)
(* What is abstracted.  A campaign PDA is an element of Campaigns, its     *)
(* sponsor (a seed of the PDA) is SponsorOf[c], and its escrow PDA is the  *)
(* key c of `lamports'.  github_user_id > 0 is membership in Users.  Rent, *)
(* transaction fees, PDA bumps, versions, created_at and events are left   *)
(* out; payer_mode only reaches an event.  Checked arithmetic never wraps, *)
(* and the sums it protects are bounded by the guards that follow it.      *)
(***************************************************************************)
EXTENDS Sums

CONSTANTS
    Campaigns,            \* addresses of campaign PDAs (and of their escrows)
    Users,                \* GitHub user ids
    Wallets,              \* wallets that hold lamports
    Keys,                 \* signing keys of the admin and of the backend
    SponsorOf,            \* campaign -> the sponsor wallet in its PDA seeds
    InitialLamports,      \* wallet -> balance before the first instruction
    MinCampaignAmount,    \* MIN_CAMPAIGN_AMOUNT
    MinAllocationAmount,  \* MIN_ALLOCATION_AMOUNT
    MinDeadline,          \* MIN_DEADLINE_SECONDS
    MaxDeadline,          \* MAX_DEADLINE_SECONDS
    ClaimWindow,          \* CLAIM_WINDOW_SECONDS
    FeeNumerator, FeeDenominator, MinServiceFee,
    MaxReward,            \* bound: largest reward a sponsor deposits
    MaxTime,              \* bound: the clock stops here
    StrayAmounts,         \* amounts somebody may send to an escrow unasked
    MaxStray,             \* bound: an escrow never holds more because of them
    NoWallet, NoKey       \* Option::None and the key of a missing config

ASSUME ConstantsAssumption ==
    /\ MinCampaignAmount \in Nat \ {0}
    /\ MinAllocationAmount \in Nat \ {0}
    /\ MinDeadline \in Nat \ {0} /\ MaxDeadline \in Nat /\ ClaimWindow \in Nat
    /\ FeeNumerator \in Nat /\ FeeDenominator \in Nat \ {0}
    /\ MinServiceFee \in Nat
    /\ MaxReward \in Nat /\ MaxTime \in Nat /\ MaxStray \in Nat
    /\ StrayAmounts \subseteq Nat \ {0}

ASSUME AccountsAssumption ==
    /\ IsFiniteSet(Users) /\ IsFiniteSet(Wallets) /\ IsFiniteSet(Campaigns)
    /\ Campaigns \cap Wallets = {}
    /\ SponsorOf \in [Campaigns -> Wallets]
    /\ InitialLamports \in [Wallets -> Nat]
    /\ NoWallet \notin Wallets /\ NoKey \notin Keys

VARIABLES
    now,        \* Clock::get()?.unix_timestamp
    config,     \* the Config account
    campaigns,  \* the Campaign accounts
    records,    \* the ClaimRecord accounts of each campaign
    lamports    \* balances of the wallets and of the escrows

vars == <<now, config, campaigns, records, lamports>>

-----------------------------------------------------------------------------
(* Accounts.                                                               *)

Config ==
    [initialized: BOOLEAN, admin_wallet: Keys \cup {NoKey},
     finalize_authority: Keys \cup {NoKey}, claim_authority: Keys \cup {NoKey},
     treasury_wallet: Wallets \cup {NoWallet}, paused: BOOLEAN]

Statuses == {"none", "active", "finalized", "closed"}

Campaign ==
    [status: Statuses, deadline_at: Nat, claim_deadline_at: Nat,
     total_reward_amount: Nat, allocated_amount: Nat, claimed_amount: Nat,
     allocations_count: Nat, claimed_count: Nat]

ClaimRecord ==
    [amount: Nat, claimed: BOOLEAN, claimed_to_wallet: Wallets \cup {NoWallet},
     claimed_at: Nat]

\* Accounts that were never created.
NoConfig ==
    [initialized |-> FALSE, admin_wallet |-> NoKey, finalize_authority |-> NoKey,
     claim_authority |-> NoKey, treasury_wallet |-> NoWallet, paused |-> FALSE]

NoCampaign ==
    [status |-> "none", deadline_at |-> 0, claim_deadline_at |-> 0,
     total_reward_amount |-> 0, allocated_amount |-> 0, claimed_amount |-> 0,
     allocations_count |-> 0, claimed_count |-> 0]

NoRecord ==
    [amount |-> 0, claimed |-> FALSE, claimed_to_wallet |-> NoWallet,
     claimed_at |-> 0]

\* Mutant: debits the receiver and credits the payer.
MoveSwapped(balances, from, to, amount) ==
    LET debited == [balances EXCEPT ![to] = @ - amount]
    IN  [debited EXCEPT ![from] = @ + amount]

\* A transfer of the system program; `from' has the amount.
Move(balances, from, to, amount) ==
    LET debited == [balances EXCEPT ![from] = @ - amount]
    IN  [debited EXCEPT ![to] = @ + amount]

\* The amounts in a campaign's records rs: all of them, the paid, the unpaid.
Amounts(rs) == [u \in Users |-> rs[u].amount]

Claimed(rs) == [u \in Users |-> IF rs[u].claimed THEN rs[u].amount ELSE 0]

Unclaimed(rs) == [u \in Users |-> IF rs[u].claimed THEN 0 ELSE rs[u].amount]

-----------------------------------------------------------------------------
Init ==
    /\ now = 0
    /\ config = NoConfig
    /\ campaigns = [c \in Campaigns |-> NoCampaign]
    /\ records = [c \in Campaigns |-> [u \in Users |-> NoRecord]]
    /\ lamports = [a \in Wallets \cup Campaigns |->
                     IF a \in Wallets THEN InitialLamports[a] ELSE 0]

(* The admin.                                                              *)

InitializeConfig(admin, finalizer, claimer, treasury) ==
    /\ ~config.initialized
    /\ config' = [initialized |-> TRUE, admin_wallet |-> admin,
                  finalize_authority |-> finalizer, claim_authority |-> claimer,
                  treasury_wallet |-> treasury, paused |-> FALSE]
    /\ UNCHANGED <<now, campaigns, records, lamports>>

SignedByAdmin(signer) == config.initialized /\ signer = config.admin_wallet

\* Every field is optional; one that is not given keeps its value.
UpdateConfig(signer, finalizer, claimer, treasury) ==
    /\ SignedByAdmin(signer)
    /\ config' = [config EXCEPT
                    !.finalize_authority = IF finalizer = NoKey THEN @ ELSE finalizer,
                    !.claim_authority = IF claimer = NoKey THEN @ ELSE claimer,
                    !.treasury_wallet = IF treasury = NoWallet THEN @ ELSE treasury]
    /\ UNCHANGED <<now, campaigns, records, lamports>>

SetPaused(signer, paused) ==
    /\ SignedByAdmin(signer)
    /\ config' = [config EXCEPT !.paused = paused]
    /\ UNCHANGED <<now, campaigns, records, lamports>>

\* Mutant: the constraint on `paused' is forgotten.
RunningPaused == config.initialized

\* The constraint every instruction below puts on the config account.
Running == config.initialized /\ ~config.paused

(* The sponsor opens a campaign.                                           *)

ServiceFee(reward) ==
    LET fee == (reward * FeeNumerator) \div FeeDenominator
    IN  IF fee >= MinServiceFee THEN fee ELSE MinServiceFee

CreateCampaignWithDeposit(c, treasury, reward, deadline) ==
    /\ Running
    /\ campaigns[c].status = "none"
    /\ treasury = config.treasury_wallet
    /\ reward >= MinCampaignAmount
    /\ deadline >= now + MinDeadline
    /\ deadline <= now + MaxDeadline
    /\ lamports[SponsorOf[c]] >= reward + ServiceFee(reward)
    /\ lamports' = Move(Move(lamports, SponsorOf[c], c, reward),
                        SponsorOf[c], treasury, ServiceFee(reward))
    /\ campaigns' = [campaigns EXCEPT ![c] =
                       [NoCampaign EXCEPT
                          !.status = "active",
                          !.deadline_at = deadline,
                          !.claim_deadline_at = deadline + ClaimWindow,
                          !.total_reward_amount = reward]]
    /\ UNCHANGED <<now, config, records>>

(* The backend, holding the finalize authority, fixes the shares.  A batch *)
(* gives each of its users an amount, 0 standing for `not in the batch';   *)
(* being a function it has no duplicate user, which the code requires.     *)

ValidBatch(batch) ==
    /\ Support(batch) # {}
    /\ \A u \in Support(batch) : batch[u] >= MinAllocationAmount

\* Mutant: a record that exists is overwritten.
RecordsOverwritten(c, batch) == TRUE

\* claim_account_info.lamports() == 0 for every record the batch creates.
RecordsAreFree(c, batch) == \A u \in Support(batch) : records[c][u].amount = 0

DeadlineReached(c) == now >= campaigns[c].deadline_at

\* Mutant: no upper bound on the shares.
FitsWithoutCap(c, allocated, has_more) ==
    has_more \/ allocated >= campaigns[c].total_reward_amount

FitsReward(c, allocated, has_more) ==
    /\ allocated <= campaigns[c].total_reward_amount
    /\ has_more \/ allocated = campaigns[c].total_reward_amount

\* Every check the instruction makes; one that fails undoes all of it.
AcceptsBatch(signer, c, batch, has_more) ==
    /\ Running
    /\ signer = config.finalize_authority
    /\ campaigns[c].status = "active"
    /\ DeadlineReached(c)
    /\ ValidBatch(batch)
    /\ RecordsAreFree(c, batch)
    /\ FitsReward(c, campaigns[c].allocated_amount + Total(batch), has_more)

FinalizeCampaignBatch(signer, c, batch, has_more) ==
    /\ AcceptsBatch(signer, c, batch, has_more)
    /\ records' = [records EXCEPT ![c] =
                     [u \in Users |->
                        IF u \in Support(batch)
                        THEN [NoRecord EXCEPT !.amount = batch[u]]
                        ELSE records[c][u]]]
    /\ campaigns' = [campaigns EXCEPT
                       ![c].allocated_amount = @ + Total(batch),
                       ![c].allocations_count = @ + Cardinality(Support(batch)),
                       ![c].status = IF has_more THEN @ ELSE "finalized"]
    /\ UNCHANGED <<now, config, lamports>>

\* Mutant: a campaign with a first batch of records is closed too.
MayCloseHalfway(c) == campaigns[c].status = "active"

MayClose(c) ==
    /\ campaigns[c].status = "active"
    /\ campaigns[c].allocations_count = 0

CloseUnfinalizableCampaign(signer, c) ==
    /\ Running
    /\ signer = config.finalize_authority
    /\ MayClose(c)
    /\ DeadlineReached(c)
    /\ campaigns' = [campaigns EXCEPT ![c].status = "closed"]
    /\ UNCHANGED <<now, config, records, lamports>>

(* A contributor, co-signed by the claim authority, takes a share.         *)

\* Mutant: counts the claim being made twice.
ShouldCloseOneEarly(claimed, total, claimed_count, allocations_count, escrow) ==
    \/ claimed = total
    \/ claimed_count + 1 = allocations_count
    \/ escrow = 0

ShouldCloseAfterClaim(claimed, total, claimed_count, allocations_count, escrow) ==
    \/ claimed = total
    \/ claimed_count = allocations_count
    \/ escrow = 0

\* Mutant: some campaign's window is open, not this one's.
AnyWindowOpen(c) == \E d \in Campaigns : now <= campaigns[d].claim_deadline_at

ClaimWindowOpen(c) == now <= campaigns[c].claim_deadline_at

Claimable(c, u) == ~records[c][u].claimed /\ records[c][u].amount > 0

Claim(signer, c, u, wallet) ==
    LET amount == records[c][u].amount
        claimed == campaigns[c].claimed_amount + amount
        count == campaigns[c].claimed_count + 1
    IN  /\ Running
        /\ signer = config.claim_authority
        /\ campaigns[c].status = "finalized"
        /\ Claimable(c, u)
        /\ ClaimWindowOpen(c)
        /\ lamports[c] >= amount
        /\ lamports' = Move(lamports, c, wallet, amount)
        /\ records' = [records EXCEPT
                         ![c][u].claimed = TRUE,
                         ![c][u].claimed_to_wallet = wallet,
                         ![c][u].claimed_at = now]
        /\ campaigns' = [campaigns EXCEPT
                           ![c].claimed_amount = claimed,
                           ![c].claimed_count = count,
                           ![c].status =
                               IF ShouldCloseAfterClaim(
                                      claimed, campaigns[c].total_reward_amount, count,
                                      campaigns[c].allocations_count, lamports[c] - amount)
                               THEN "closed" ELSE @]
        /\ UNCHANGED <<now, config>>

(* The sponsor takes back what nobody claimed.  The code looks at no       *)
(* status: an active, a finalized and a closed campaign are all refunded.  *)

\* Mutants: the wrong deadline; only a finalized campaign is refunded.
RefundableAtDeadline(c) ==
    /\ campaigns[c].status # "none"
    /\ now > campaigns[c].deadline_at
    /\ lamports[c] > 0

RefundableIfFinalized(c) ==
    /\ campaigns[c].status = "finalized"
    /\ now > campaigns[c].claim_deadline_at
    /\ lamports[c] > 0

Refundable(c) ==
    /\ campaigns[c].status # "none"
    /\ now > campaigns[c].claim_deadline_at
    /\ lamports[c] > 0

RefundUnclaimed(c) ==
    /\ Running
    /\ Refundable(c)
    /\ lamports' = Move(lamports, c, SponsorOf[c], lamports[c])
    /\ campaigns' = [campaigns EXCEPT ![c].status = "closed"]
    /\ UNCHANGED <<now, config, records>>

(* The environment: the clock, and transfers to an escrow by anybody, which *)
(* no instruction of the program makes and none can refuse.                *)

Tick ==
    /\ now < MaxTime
    /\ now' = now + 1
    /\ UNCHANGED <<config, campaigns, records, lamports>>

StrayTransfer(wallet, c, amount) ==
    /\ lamports[wallet] >= amount
    /\ lamports[c] + amount <= MaxStray
    /\ lamports' = Move(lamports, wallet, c, amount)
    /\ UNCHANGED <<now, config, campaigns, records>>

Administer ==
    \E finalizer, claimer \in Keys \cup {NoKey}, treasury \in Wallets \cup {NoWallet} :
        \/ \E admin \in Keys :
              /\ NoKey \notin {finalizer, claimer} /\ treasury # NoWallet
              /\ InitializeConfig(admin, finalizer, claimer, treasury)
        \/ \E signer \in Keys : UpdateConfig(signer, finalizer, claimer, treasury)

Pause == \E signer \in Keys, paused \in BOOLEAN : SetPaused(signer, paused)

\* Bound: a campaign is opened early enough for the clock to pass its end.
Create(c) ==
    \E treasury \in Wallets, reward \in 0 .. MaxReward, deadline \in 0 .. MaxTime :
        /\ deadline + ClaimWindow < MaxTime
        /\ CreateCampaignWithDeposit(c, treasury, reward, deadline)

Finalize(c) ==
    \E signer \in Keys, batch \in [Users -> 0 .. MaxReward], has_more \in BOOLEAN :
        FinalizeCampaignBatch(signer, c, batch, has_more)

Next ==
    \/ Administer
    \/ Pause
    \/ \E c \in Campaigns :
          \/ Create(c)
          \/ Finalize(c)
          \/ \E signer \in Keys : CloseUnfinalizableCampaign(signer, c)
          \/ \E signer \in Keys, u \in Users, wallet \in Wallets : Claim(signer, c, u, wallet)
          \/ RefundUnclaimed(c)
          \/ \E wallet \in Wallets, amount \in StrayAmounts : StrayTransfer(wallet, c, amount)
    \/ Tick

Spec == Init /\ [][Next]_vars

\* The clock runs, and a sponsor who may have money back asks for it.
Fairness == WF_vars(Tick) /\ \A c \in Campaigns : WF_vars(RefundUnclaimed(c))

FairSpec == Spec /\ Fairness

-----------------------------------------------------------------------------
(* Properties.                                                             *)

\* Every account has the fields and the ranges state/*.rs declares.
TypeOK ==
    /\ now \in 0 .. MaxTime
    /\ config \in Config
    /\ campaigns \in [Campaigns -> Campaign]
    /\ records \in [Campaigns -> [Users -> ClaimRecord]]
    /\ lamports \in [Wallets \cup Campaigns -> Nat]

Counted(c) ==
    /\ campaigns[c].allocated_amount = Total(Amounts(records[c]))
    /\ campaigns[c].allocations_count = Cardinality(Support(Amounts(records[c])))
    /\ campaigns[c].claimed_amount = Total(Claimed(records[c]))
    /\ campaigns[c].claimed_count = Cardinality(Support(Claimed(records[c])))

\* The four counters finalize_campaign.rs and claim.rs keep on the Campaign
\* account agree with the ClaimRecord accounts spread over the ledger, whatever
\* batches, claims and refunds came in between.
CountersMatchRecords == \A c \in Campaigns : Counted(c)

\* A finalized campaign can pay every share nobody has claimed yet, all of them
\* at once: the `EscrowInsufficientFunds' error of claim.rs never happens.
Solvent ==
    \A c \in Campaigns :
        campaigns[c].status = "finalized" => lamports[c] >= Total(Unclaimed(records[c]))

\* A campaign that closes while its claim window is still open, by the last
\* claim or as unfinalizable, leaves no contributor with an unpaid share.
EarlyClosureOwesNothing ==
    \A c \in Campaigns :
        campaigns[c].status = "closed" /\ now <= campaigns[c].claim_deadline_at
            => \A u \in Users : ~Claimable(c, u)

\* Shares are paid only out of a campaign whose whole reward was shared out, and
\* between its two deadlines.
PaidOnlyInFull ==
    \A c \in Campaigns, u \in Users :
        records[c][u].claimed =>
            /\ Total(Amounts(records[c])) = campaigns[c].total_reward_amount
            /\ records[c][u].claimed_at >= campaigns[c].deadline_at
            /\ records[c][u].claimed_at <= campaigns[c].claim_deadline_at

\* A share of a finalized campaign keeps its amount and stays claimable until it
\* is paid, or until the sponsor is refunded after the claim deadline.
SharesPersist ==
    [][\A c \in Campaigns, u \in Users :
          campaigns[c].status = "finalized" /\ Claimable(c, u) =>
              /\ records'[c][u].amount = records[c][u].amount
              /\ \/ records'[c][u].claimed
                 \/ campaigns'[c].status = "finalized"
                 \/ now > campaigns[c].claim_deadline_at]_vars

\* While the program is paused nothing leaves an escrow and no campaign or claim
\* record changes, whoever signs; only the admin's own instructions go through.
PauseFreezesCampaigns ==
    [][config.paused =>
          /\ UNCHANGED <<campaigns, records>>
          /\ \A c \in Campaigns : lamports'[c] >= lamports[c]]_vars

\* No money is stuck: if from some moment on the program is not paused, the
\* escrow of every campaign is emptied in the end, also that of a campaign whose
\* finalization stopped half-way or that was closed as unfinalizable.
EscrowsDrain ==
    <>[]Running => \A c \in Campaigns : campaigns[c].status # "none" ~> lamports[c] = 0

\* The invariant the proofs carry through every step: the counters, what each
\* status says of the records and of the escrow, and when a record was paid.
Funded(c) ==
    /\ campaigns[c].status = "none" =>
          campaigns[c] = NoCampaign /\ records[c] = [u \in Users |-> NoRecord]
    /\ campaigns[c].status = "active" =>
          /\ lamports[c] >= campaigns[c].total_reward_amount
          /\ \A u \in Users : ~records[c][u].claimed
    /\ campaigns[c].status = "finalized" =>
          /\ campaigns[c].allocated_amount = campaigns[c].total_reward_amount
          /\ lamports[c] + campaigns[c].claimed_amount >= campaigns[c].total_reward_amount

Settled(c) ==
    /\ campaigns[c].status = "closed" /\ now <= campaigns[c].claim_deadline_at =>
          \A u \in Users : ~Claimable(c, u)
    /\ campaigns[c].status # "none" =>
          campaigns[c].claim_deadline_at = campaigns[c].deadline_at + ClaimWindow
    /\ campaigns[c].status = "finalized" => now >= campaigns[c].deadline_at
    /\ \A u \in Users : records[c][u].claimed =>
          /\ campaigns[c].allocated_amount = campaigns[c].total_reward_amount
          /\ records[c][u].claimed_at >= campaigns[c].deadline_at
          /\ records[c][u].claimed_at <= campaigns[c].claim_deadline_at

CampaignInv(c) == Counted(c) /\ Funded(c) /\ Settled(c)

IInv == TypeOK /\ \A c \in Campaigns : CampaignInv(c)

Zeros == [u \in Users |-> 0]

\* The variables of BountyEscrow, read off the accounts.
StageOf(c) ==
    CASE campaigns[c].status = "none" -> "none"
      [] campaigns[c].status = "active" -> "open"
      [] campaigns[c].status = "finalized" -> "shared"
      [] campaigns[c].status = "closed" -> "done"

OwedOf(c) == IF campaigns[c].status = "finalized" THEN Unclaimed(records[c]) ELSE Zeros

stageNow == [c \in Campaigns |-> StageOf(c)]
poolNow == [c \in Campaigns |-> campaigns[c].total_reward_amount]
expiryNow == [c \in Campaigns |-> campaigns[c].claim_deadline_at]
potNow == [c \in Campaigns |-> lamports[c]]
owedNow == [c \in Campaigns |-> OwedOf(c)]

Promise == INSTANCE BountyEscrow WITH
    stage <- stageNow, pool <- poolNow, expiry <- expiryNow, pot <- potNow, owed <- owedNow

\* Batches, counters, authorities and pauses are invisible to sponsor and
\* contributors: what they see is a deposit, shares, payments and a return.
KeepsPromise == Promise!Spec

\* And CampaignLife's.
statusNow == [c \in Campaigns |-> campaigns[c].status]
deadlineNow == [c \in Campaigns |-> campaigns[c].deadline_at]
fundedNow == [c \in Campaigns |-> lamports[c] > 0]

Life == INSTANCE CampaignLife WITH
    status <- statusNow, deadline <- deadlineNow, funded <- fundedNow

\* What the backend relies on: an escrow is empty only before its campaign is created
\* or after it is closed, and only the last claim or a refund empties it.
KeepsLife == Life!LifeSpec

\* And ShareLife's, of one campaign.
PaidOf(c) == [u \in Users |-> IF records[c][u].claimed THEN records[c][u].claimed_to_wallet
                                                        ELSE NoWallet]

UnpaidOf(c) ==
    IF campaigns[c].status = "finalized" /\ ClaimWindowOpen(c)
    THEN {u \in Users : Claimable(c, u)} ELSE {}

Shares(c) == INSTANCE ShareLife WITH paid <- PaidOf(c), unpaid <- UnpaidOf(c)

\* What the backend's claims rely on: the shares are fixed at once and before anybody is
\* paid, each is paid at most once, and they end together.
KeepsShares ==
    /\ \A c \in Campaigns : Shares(c)!ShareInit
    /\ [][\A c \in Campaigns : [Shares(c)!ShareNext]_(Shares(c)!shareVars)]_vars

\* And StatusLife's, of one campaign.
DueOf(c) == campaigns[c].status # "none" /\ DeadlineReached(c)

StatusOf(c) == IF campaigns[c].status = "none" THEN "active" ELSE campaigns[c].status

Standing(c) == INSTANCE StatusLife WITH due <- DueOf(c), status <- StatusOf(c)

\* What the backend's finalization relies on: before its deadline a campaign is neither
\* shared out nor closed, then it is shared out at most once, and no instruction reopens it.
KeepsStatus ==
    /\ \A c \in Campaigns : Standing(c)!StatusInit
    /\ [][\A c \in Campaigns : [Standing(c)!StatusNext]_(Standing(c)!statusVars)]_vars
=============================================================================
