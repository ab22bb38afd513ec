-------------------------- MODULE RepoBountyProofs --------------------------
(* Theorems about the program (RepoBounty), for any sets of campaigns,     *)
(* users, wallets and keys and any limits.  IInv is the inductive          *)
(* invariant; a step touches one campaign, so its proof has one lemma for  *)
(* the campaigns a step leaves alone and one for each instruction.         *)
EXTENDS RepoBounty, SumsTheorems

-----------------------------------------------------------------------------
(* Types.                                                                  *)

LEMMA MoveType ==
    ASSUME NEW S, NEW balances \in [S -> Nat], NEW from \in S, NEW to \in S,
           NEW amount \in Nat, balances[from] >= amount
    PROVE  /\ Move(balances, from, to, amount) \in [S -> Nat]
           /\ from # to =>
                /\ Move(balances, from, to, amount)[from] = balances[from] - amount
                /\ Move(balances, from, to, amount)[to] = balances[to] + amount
           /\ \A a \in S \ {from, to} : Move(balances, from, to, amount)[a] = balances[a]
           /\ from # to \/ Move(balances, from, to, amount) = balances
<1>1. CASE from = to
  <2> DEFINE moved == Move(balances, from, to, amount)
  <2>0. moved = [a \in S |-> IF a = from THEN (balances[a] - amount) + amount ELSE balances[a]]
    BY <1>1 DEF Move
  <2>1. moved = balances
    BY <2>0
  <2> QED
    BY <1>1, <2>1
<1>2. CASE from # to
  BY <1>2 DEF Move
<1> QED
  BY <1>1, <1>2

LEMMA ServiceFeeType == ASSUME NEW reward \in Nat PROVE ServiceFee(reward) \in Nat
<1>1. reward * FeeNumerator \in Nat /\ FeeDenominator \in Nat \ {0} /\ MinServiceFee \in Nat
  BY ConstantsAssumption
<1>2. (reward * FeeNumerator) \div FeeDenominator \in Nat
  BY <1>1
<1> QED
  BY <1>1, <1>2 DEF ServiceFee

LEMMA TypeInit == Init => TypeOK
<1> SUFFICES ASSUME Init PROVE TypeOK
  OBVIOUS
<1> USE ConstantsAssumption, AccountsAssumption DEF Init
<1>1. now \in 0 .. MaxTime
  OBVIOUS
<1>2. config \in Config
  BY DEF Config, NoConfig
<1>3. campaigns \in [Campaigns -> Campaign]
  BY DEF Campaign, NoCampaign, Statuses
<1>4. records \in [Campaigns -> [Users -> ClaimRecord]]
  BY DEF ClaimRecord, NoRecord
<1>5. lamports \in [Wallets \cup Campaigns -> Nat]
  OBVIOUS
<1> QED
  BY <1>1, <1>2, <1>3, <1>4, <1>5 DEF TypeOK

LEMMA CreateType ==
    ASSUME TypeOK, NEW c \in Campaigns, NEW treasury \in Wallets, NEW reward \in Nat,
           NEW deadline \in Nat, CreateCampaignWithDeposit(c, treasury, reward, deadline)
    PROVE  /\ TypeOK' /\ lamports'[c] = lamports[c] + reward
           /\ \A d \in Campaigns \ {c} : lamports'[d] = lamports[d]
<1> DEFINE S == Wallets \cup Campaigns
           fee == ServiceFee(reward)
           deposited == Move(lamports, SponsorOf[c], c, reward)
<1>1. /\ SponsorOf[c] \in S /\ c \in S /\ treasury \in S /\ SponsorOf[c] # c
      /\ treasury \notin Campaigns /\ SponsorOf[c] \notin Campaigns
  BY AccountsAssumption
<1>2. lamports \in [S -> Nat] /\ fee \in Nat /\ lamports[SponsorOf[c]] >= reward + fee
  BY ServiceFeeType DEF TypeOK, CreateCampaignWithDeposit
<1>3. /\ deposited \in [S -> Nat]
      /\ deposited[SponsorOf[c]] = lamports[SponsorOf[c]] - reward
      /\ deposited[c] = lamports[c] + reward
      /\ \A a \in S \ {SponsorOf[c], c} : deposited[a] = lamports[a]
  <2>1. lamports[SponsorOf[c]] \in Nat /\ lamports[SponsorOf[c]] >= reward
    BY <1>1, <1>2
  <2> QED
    BY <1>1, <1>2, <2>1, MoveType
<1>4. deposited[SponsorOf[c]] >= fee
  BY <1>1, <1>2, <1>3
<1>5. lamports' = Move(deposited, SponsorOf[c], treasury, fee)
  BY DEF CreateCampaignWithDeposit
<1>6. /\ lamports' \in [S -> Nat]
      /\ \A a \in S \ {SponsorOf[c], treasury} : lamports'[a] = deposited[a]
  <2> HIDE DEF deposited, fee, S
  <2> QED
    BY <1>1, <1>2, <1>3, <1>4, <1>5, MoveType
<1>7. campaigns' \in [Campaigns -> Campaign]
  <2> DEFINE opened == [NoCampaign EXCEPT !.status = "active", !.deadline_at = deadline,
                          !.claim_deadline_at = deadline + ClaimWindow,
                          !.total_reward_amount = reward]
  <2>1. deadline + ClaimWindow \in Nat
    BY ConstantsAssumption
  <2>2. opened \in Campaign
    BY <2>1 DEF NoCampaign, Campaign, Statuses
  <2>3. campaigns' = [campaigns EXCEPT ![c] = opened]
    BY DEF CreateCampaignWithDeposit
  <2> HIDE DEF opened
  <2> QED
    BY <2>2, <2>3 DEF TypeOK
<1>8. now' = now /\ config' = config /\ records' = records
  BY DEF CreateCampaignWithDeposit
<1>9. lamports'[c] = lamports[c] + reward
  BY <1>1, <1>3, <1>6
<1>10. \A d \in Campaigns \ {c} : lamports'[d] = lamports[d]
  BY <1>1, <1>3, <1>6
<1> QED
  BY <1>6, <1>7, <1>8, <1>9, <1>10 DEF TypeOK

LEMMA FinalizeType ==
    ASSUME TypeOK, NEW signer \in Keys, NEW c \in Campaigns, NEW batch \in [Users -> Nat],
           NEW has_more \in BOOLEAN, FinalizeCampaignBatch(signer, c, batch, has_more)
    PROVE  TypeOK'
<1>1. Total(batch) \in Nat /\ Cardinality(Support(batch)) \in Nat
  BY AccountsAssumption, TotalType, SupportType
<1>2. campaigns[c] \in Campaign /\ campaigns \in [Campaigns -> Campaign]
  BY DEF TypeOK
<1>3. campaigns' \in [Campaigns -> Campaign]
  <2> DEFINE allocated == campaigns[c].allocated_amount + Total(batch)
             count == campaigns[c].allocations_count + Cardinality(Support(batch))
             status == IF has_more THEN campaigns[c].status ELSE "finalized"
             closed == [campaigns[c] EXCEPT !.allocated_amount = allocated,
                                            !.allocations_count = count, !.status = status]
  <2>1. campaigns[c].allocated_amount \in Nat /\ campaigns[c].allocations_count \in Nat
    BY <1>2 DEF Campaign
  <2>2. allocated \in Nat /\ count \in Nat /\ status \in Statuses
    BY <1>1, <1>2, <2>1 DEF Campaign, Statuses
  <2>3. closed \in Campaign
    <3> HIDE DEF allocated, count, status
    <3> QED
      BY <1>2, <2>2 DEF Campaign
  <2>4. campaigns' = [campaigns EXCEPT ![c] = closed]
    BY <1>2 DEF FinalizeCampaignBatch, Campaign
  <2> HIDE DEF closed
  <2> QED
    BY <1>2, <2>3, <2>4
<1>4. records' \in [Campaigns -> [Users -> ClaimRecord]]
  <2>1. records \in [Campaigns -> [Users -> ClaimRecord]]
    BY DEF TypeOK
  <2>2. \A u \in Users : [NoRecord EXCEPT !.amount = batch[u]] \in ClaimRecord
    BY DEF NoRecord, ClaimRecord
  <2> QED
    BY <2>1, <2>2 DEF FinalizeCampaignBatch
<1>5. now' = now /\ config' = config /\ lamports' = lamports
  BY DEF FinalizeCampaignBatch
<1> QED
  BY <1>3, <1>4, <1>5 DEF TypeOK

LEMMA ClaimType ==
    ASSUME TypeOK, NEW signer \in Keys, NEW c \in Campaigns, NEW u \in Users,
           NEW wallet \in Wallets, Claim(signer, c, u, wallet)
    PROVE  /\ TypeOK' /\ lamports'[c] = lamports[c] - records[c][u].amount
           /\ \A d \in Campaigns \ {c} : lamports'[d] = lamports[d]
<1> DEFINE S == Wallets \cup Campaigns
           amount == records[c][u].amount
<1>1. wallet \in S /\ c \in S /\ wallet # c /\ wallet \notin Campaigns
  BY AccountsAssumption
<1>2. records \in [Campaigns -> [Users -> ClaimRecord]] /\ records[c][u] \in ClaimRecord
  BY DEF TypeOK
<1>3. amount \in Nat /\ lamports \in [S -> Nat] /\ lamports[c] >= amount
  BY <1>2 DEF TypeOK, ClaimRecord, Claim
<1>4. /\ lamports' \in [S -> Nat]
      /\ lamports'[c] = lamports[c] - amount
      /\ \A a \in S \ {c, wallet} : lamports'[a] = lamports[a]
  <2>1. lamports' = Move(lamports, c, wallet, amount)
    BY DEF Claim
  <2> HIDE DEF amount, S
  <2> QED
    BY <1>1, <1>3, <2>1, MoveType
<1>5. records' \in [Campaigns -> [Users -> ClaimRecord]]
  <2>1. now \in Nat
    BY ConstantsAssumption DEF TypeOK
  <2>2. [records[c][u] EXCEPT !.claimed = TRUE, !.claimed_to_wallet = wallet,
                              !.claimed_at = now] \in ClaimRecord
    BY <1>2, <2>1 DEF ClaimRecord
  <2>3. records' = [records EXCEPT ![c] = [records[c] EXCEPT ![u] =
                      [records[c][u] EXCEPT !.claimed = TRUE, !.claimed_to_wallet = wallet,
                                            !.claimed_at = now]]]
    BY <1>2 DEF Claim, ClaimRecord
  <2> QED
    BY <1>2, <2>2, <2>3
<1>6. campaigns' \in [Campaigns -> Campaign]
  <2>1. campaigns \in [Campaigns -> Campaign] /\ campaigns[c] \in Campaign
    BY DEF TypeOK
  <2>2. campaigns'[c] \in Campaign
    BY <1>3, <2>1 DEF Claim, Campaign, Statuses
  <2> QED
    BY <2>1, <2>2 DEF Claim
<1>7. now' = now /\ config' = config
  BY DEF Claim
<1> QED
  BY <1>1, <1>4, <1>5, <1>6, <1>7 DEF TypeOK

LEMMA RefundType ==
    ASSUME TypeOK, NEW c \in Campaigns, RefundUnclaimed(c)
    PROVE  TypeOK' /\ \A d \in Campaigns \ {c} : lamports'[d] = lamports[d]
<1> DEFINE S == Wallets \cup Campaigns
<1>1. SponsorOf[c] \in S /\ c \in S /\ SponsorOf[c] # c /\ SponsorOf[c] \notin Campaigns
  BY AccountsAssumption
<1>2. lamports \in [S -> Nat] /\ lamports[c] \in Nat
  BY <1>1 DEF TypeOK
<1>3. lamports' \in [S -> Nat] /\ \A a \in S \ {c, SponsorOf[c]} : lamports'[a] = lamports[a]
  <2>1. lamports' = Move(lamports, c, SponsorOf[c], lamports[c])
    BY DEF RefundUnclaimed
  <2>2. lamports[c] >= lamports[c]
    BY <1>2
  <2> HIDE DEF S
  <2> QED
    BY <1>1, <1>2, <2>1, <2>2, MoveType
<1>4. campaigns' \in [Campaigns -> Campaign]
  BY DEF RefundUnclaimed, TypeOK, Campaign, Statuses
<1>5. now' = now /\ config' = config /\ records' = records
  BY DEF RefundUnclaimed
<1> QED
  BY <1>1, <1>3, <1>4, <1>5 DEF TypeOK

LEMMA StrayType ==
    ASSUME TypeOK, NEW c \in Campaigns, NEW wallet \in Wallets, NEW amount \in StrayAmounts,
           StrayTransfer(wallet, c, amount)
    PROVE  TypeOK' /\ \A d \in Campaigns : lamports'[d] >= lamports[d]
<1> DEFINE S == Wallets \cup Campaigns
<1>1. wallet \in S /\ c \in S /\ wallet # c /\ wallet \notin Campaigns /\ amount \in Nat
  BY AccountsAssumption, ConstantsAssumption
<1>2. lamports \in [S -> Nat] /\ lamports[wallet] >= amount
  BY DEF TypeOK, StrayTransfer
<1>3. /\ lamports' \in [S -> Nat]
      /\ lamports'[c] = lamports[c] + amount
      /\ \A a \in S \ {c, wallet} : lamports'[a] = lamports[a]
  <2>1. lamports' = Move(lamports, wallet, c, amount)
    BY DEF StrayTransfer
  <2> HIDE DEF S
  <2> QED
    BY <1>1, <1>2, <2>1, MoveType
<1>4. now' = now /\ config' = config /\ records' = records /\ campaigns' = campaigns
  BY DEF StrayTransfer
<1>5. \A d \in Campaigns : lamports'[d] >= lamports[d]
  BY <1>1, <1>2, <1>3
<1> QED
  BY <1>3, <1>4, <1>5 DEF TypeOK

\* The admin's instructions leave everything but the config account alone.
LEMMA AdminType ==
    ASSUME TypeOK, Administer \/ Pause
    PROVE  /\ TypeOK' /\ now' = now /\ campaigns' = campaigns
           /\ records' = records /\ lamports' = lamports
<1>1. CASE Administer
  <2>1. PICK finalizer \in Keys \cup {NoKey}, claimer \in Keys \cup {NoKey},
             treasury \in Wallets \cup {NoWallet} :
          \/ \E admin \in Keys : InitializeConfig(admin, finalizer, claimer, treasury)
          \/ \E signer \in Keys : UpdateConfig(signer, finalizer, claimer, treasury)
    BY <1>1, Zenon DEF Administer
  <2>2. ASSUME NEW admin \in Keys, InitializeConfig(admin, finalizer, claimer, treasury)
        PROVE  config' \in Config
    BY <2>2 DEF InitializeConfig, Config
  <2>3. ASSUME NEW signer \in Keys, UpdateConfig(signer, finalizer, claimer, treasury)
        PROVE  config' \in Config
    BY <2>3 DEF UpdateConfig, Config, TypeOK
  <2>4. config' \in Config
    BY <2>1, <2>2, <2>3
  <2>5. now' = now /\ campaigns' = campaigns /\ records' = records /\ lamports' = lamports
    BY <2>1 DEF InitializeConfig, UpdateConfig
  <2> QED
    BY <2>4, <2>5 DEF TypeOK
<1>2. CASE Pause
  BY <1>2 DEF Pause, SetPaused, TypeOK, Config
<1> QED
  BY <1>1, <1>2

\* A step of the specification, instruction by instruction, with its arguments.
LEMMA StepCases ==
    ASSUME TypeOK, Next
    PROVE  \/ Administer \/ Pause \/ Tick
           \/ \E c \in Campaigns :
                 \/ \E treasury \in Wallets, reward, deadline \in Nat :
                       CreateCampaignWithDeposit(c, treasury, reward, deadline)
                 \/ \E signer \in Keys, batch \in [Users -> Nat], has_more \in BOOLEAN :
                       FinalizeCampaignBatch(signer, c, batch, has_more)
                 \/ \E signer \in Keys : CloseUnfinalizableCampaign(signer, c)
                 \/ \E signer \in Keys, u \in Users, wallet \in Wallets :
                       Claim(signer, c, u, wallet)
                 \/ RefundUnclaimed(c)
                 \/ \E wallet \in Wallets, amount \in StrayAmounts :
                       StrayTransfer(wallet, c, amount)
<1>1. 0 .. MaxReward \subseteq Nat /\ 0 .. MaxTime \subseteq Nat
  BY ConstantsAssumption
<1>2. [Users -> 0 .. MaxReward] \subseteq [Users -> Nat]
  BY <1>1
<1>3. ASSUME NEW c \in Campaigns, Create(c)
      PROVE  \E treasury \in Wallets, reward, deadline \in Nat :
                 CreateCampaignWithDeposit(c, treasury, reward, deadline)
  BY <1>1, <1>3, Zenon DEF Create
<1>4. ASSUME NEW c \in Campaigns, Finalize(c)
      PROVE  \E signer \in Keys, batch \in [Users -> Nat], has_more \in BOOLEAN :
                 FinalizeCampaignBatch(signer, c, batch, has_more)
  BY <1>2, <1>4, Zenon DEF Finalize
<1> QED
  BY <1>3, <1>4, Zenon DEF Next

LEMMA TypeStep ==
    ASSUME TypeOK, [Next]_vars
    PROVE  TypeOK'
<1>1. CASE UNCHANGED vars
  BY <1>1 DEF vars, TypeOK
<1>2. CASE Administer \/ Pause
  BY <1>2, AdminType
<1>3. CASE Tick
  BY <1>3, ConstantsAssumption DEF Tick, TypeOK
<1>4. ASSUME NEW c \in Campaigns, NEW treasury \in Wallets, NEW reward \in Nat,
             NEW deadline \in Nat, CreateCampaignWithDeposit(c, treasury, reward, deadline)
      PROVE  TypeOK'
  BY <1>4, CreateType
<1>5. ASSUME NEW c \in Campaigns, NEW signer \in Keys, NEW batch \in [Users -> Nat],
             NEW has_more \in BOOLEAN, FinalizeCampaignBatch(signer, c, batch, has_more)
      PROVE  TypeOK'
  BY <1>5, FinalizeType
<1>6. ASSUME NEW c \in Campaigns, NEW signer \in Keys, CloseUnfinalizableCampaign(signer, c)
      PROVE  TypeOK'
  BY <1>6 DEF CloseUnfinalizableCampaign, TypeOK, Campaign, Statuses
<1>7. ASSUME NEW c \in Campaigns, NEW signer \in Keys, NEW u \in Users, NEW wallet \in Wallets,
             Claim(signer, c, u, wallet)
      PROVE  TypeOK'
  BY <1>7, ClaimType
<1>8. ASSUME NEW c \in Campaigns, RefundUnclaimed(c) PROVE TypeOK'
  BY <1>8, RefundType
<1>9. ASSUME NEW c \in Campaigns, NEW wallet \in Wallets, NEW amount \in StrayAmounts,
             StrayTransfer(wallet, c, amount)
      PROVE  TypeOK'
  BY <1>9, StrayType
<1>10. CASE Next
  BY <1>10, <1>2, <1>3, <1>4, <1>5, <1>6, <1>7, <1>8, <1>9, StepCases, Zenon
<1> QED
  BY <1>1, <1>10

\* Every reachable state of the ledger is well typed.
THEOREM TypeCorrect == Spec => []TypeOK
<1>1. Init => TypeOK
  BY TypeInit
<1>2. TypeOK /\ [Next]_vars => TypeOK'
  BY TypeStep
<1> QED
  BY <1>1, <1>2, PTL DEF Spec

-----------------------------------------------------------------------------
(* Sums over the records of one campaign.                                  *)

LEMMA RecordSums ==
    ASSUME NEW rs \in [Users -> ClaimRecord]
    PROVE  /\ Amounts(rs) \in [Users -> Nat] /\ Claimed(rs) \in [Users -> Nat]
           /\ Unclaimed(rs) \in [Users -> Nat]
           /\ Total(Amounts(rs)) \in Nat /\ Total(Claimed(rs)) \in Nat
           /\ Total(Unclaimed(rs)) \in Nat
           /\ Total(Amounts(rs)) = Total(Claimed(rs)) + Total(Unclaimed(rs))
<1>1. /\ Amounts(rs) \in [Users -> Nat] /\ Claimed(rs) \in [Users -> Nat]
      /\ Unclaimed(rs) \in [Users -> Nat]
  BY DEF Amounts, Claimed, Unclaimed, ClaimRecord
<1>2. /\ Total(Amounts(rs)) \in Nat /\ Total(Claimed(rs)) \in Nat /\ Total(Unclaimed(rs)) \in Nat
      /\ IsFiniteSet(Units(Claimed(rs))) /\ IsFiniteSet(Units(Unclaimed(rs)))
  BY <1>1, TotalType, AccountsAssumption
<1>3. \A u \in Users :
         \/ Claimed(rs)[u] = Amounts(rs)[u] /\ Unclaimed(rs)[u] = 0
         \/ Claimed(rs)[u] = 0 /\ Unclaimed(rs)[u] = Amounts(rs)[u]
  BY DEF Amounts, Claimed, Unclaimed
<1>4. Total(Amounts(rs)) = Total(Claimed(rs)) + Total(Unclaimed(rs))
  BY <1>1, <1>2, <1>3, TotalSplit
<1> QED
  BY <1>1, <1>2, <1>4

\* Each of the three conditions of ShouldCloseAfterClaim means: all are paid.
LEMMA AllClaimed ==
    ASSUME NEW rs \in [Users -> ClaimRecord],
           \/ Total(Claimed(rs)) = Total(Amounts(rs))
           \/ Cardinality(Support(Claimed(rs))) = Cardinality(Support(Amounts(rs)))
           \/ Total(Unclaimed(rs)) = 0
    PROVE  \A u \in Users : rs[u].claimed \/ ~(rs[u].amount > 0)
<1>1. CASE Total(Claimed(rs)) = Total(Amounts(rs)) \/ Total(Unclaimed(rs)) = 0
  <2>1. Total(Unclaimed(rs)) = 0
    BY <1>1, RecordSums
  <2>2. \A u \in Users : Unclaimed(rs)[u] = 0
    BY <2>1, RecordSums, TotalZero, AccountsAssumption
  <2>3. \A u \in Users : rs[u].claimed \/ rs[u].amount = 0
    BY <2>2, Zenon DEF Unclaimed
  <2> QED
    BY <2>3
<1>2. CASE Cardinality(Support(Claimed(rs))) = Cardinality(Support(Amounts(rs)))
  <2>1. /\ Support(Claimed(rs)) = {u \in Users : Claimed(rs)[u] > 0}
        /\ Support(Amounts(rs)) = {u \in Users : Amounts(rs)[u] > 0}
        /\ IsFiniteSet(Support(Amounts(rs)))
    BY RecordSums, SupportType, AccountsAssumption
  <2>2. Support(Claimed(rs)) \subseteq Support(Amounts(rs))
    BY <2>1 DEF Claimed, Amounts
  <2>3. Support(Claimed(rs)) = Support(Amounts(rs))
    BY <1>2, <2>1, <2>2, FS_Subset
  <2> SUFFICES ASSUME NEW u \in Users, rs[u].amount > 0 PROVE rs[u].claimed
    OBVIOUS
  <2>4. u \in Support(Amounts(rs))
    BY <2>1 DEF Amounts
  <2>5. Claimed(rs)[u] > 0
    BY <2>1, <2>3, <2>4
  <2> QED
    BY <2>5 DEF Claimed
<1> QED
  BY <1>1, <1>2

\* A batch adds its total to the shares and its size to their number.
LEMMA BatchSums ==
    ASSUME NEW rs \in [Users -> ClaimRecord], NEW batch \in [Users -> Nat],
           NEW after \in [Users -> ClaimRecord],
           \A u \in Support(batch) : rs[u].amount = 0,
           \A u \in Users : ~rs[u].claimed /\ ~after[u].claimed,
           \A u \in Users : after[u].amount =
               IF u \in Support(batch) THEN batch[u] ELSE rs[u].amount
    PROVE  /\ Total(Amounts(after)) = Total(Amounts(rs)) + Total(batch)
           /\ Cardinality(Support(Amounts(after))) =
                 Cardinality(Support(Amounts(rs))) + Cardinality(Support(batch))
           /\ Claimed(after) = Claimed(rs)
<1>1. Support(batch) = {u \in Users : batch[u] > 0}
  BY SupportType, AccountsAssumption
<1>2. \A u \in Users :
         \/ Amounts(rs)[u] = Amounts(after)[u] /\ batch[u] = 0
         \/ Amounts(rs)[u] = 0 /\ batch[u] = Amounts(after)[u]
  <2> SUFFICES ASSUME NEW u \in Users
               PROVE  \/ rs[u].amount = after[u].amount /\ batch[u] = 0
                      \/ rs[u].amount = 0 /\ batch[u] = after[u].amount
    BY DEF Amounts
  <2>1. batch[u] \in Nat
    OBVIOUS
  <2>2. CASE u \in Support(batch)
    BY <2>2
  <2>3. CASE u \notin Support(batch)
    BY <1>1, <2>1, <2>3
  <2> QED
    BY <2>2, <2>3
<1>3. /\ Amounts(rs) \in [Users -> Nat] /\ Amounts(after) \in [Users -> Nat]
      /\ batch \in [Users -> Nat]
  BY RecordSums
<1>4. IsFiniteSet(Units(Amounts(rs))) /\ IsFiniteSet(Units(batch))
  BY <1>3, TotalType, AccountsAssumption
<1> DEFINE all == Amounts(after)
           old == Amounts(rs)
<1>5. /\ all \in [Users -> Nat] /\ old \in [Users -> Nat]
      /\ \A u \in Users : \/ old[u] = all[u] /\ batch[u] = 0
                          \/ old[u] = 0 /\ batch[u] = all[u]
      /\ IsFiniteSet(Units(old)) /\ IsFiniteSet(Units(batch)) /\ IsFiniteSet(Users)
  BY <1>2, <1>3, <1>4, AccountsAssumption
<1> HIDE DEF all, old
<1>6. Total(all) = Total(old) + Total(batch)
  BY <1>5, TotalSplit
<1>8. Cardinality(Support(all)) = Cardinality(Support(old)) + Cardinality(Support(batch))
  BY <1>5, SupportSplit
<1>7. Claimed(after) = Claimed(rs)
  BY DEF Claimed
<1> QED
  BY <1>6, <1>7, <1>8 DEF all, old

\* A claim moves one amount from the unpaid to the paid.
LEMMA ClaimSums ==
    ASSUME NEW rs \in [Users -> ClaimRecord], NEW after \in [Users -> ClaimRecord],
           NEW a \in Users, ~rs[a].claimed, rs[a].amount > 0, after[a].claimed,
           after[a].amount = rs[a].amount, \A u \in Users \ {a} : after[u] = rs[u]
    PROVE  /\ Amounts(after) = Amounts(rs)
           /\ Total(Claimed(after)) = Total(Claimed(rs)) + rs[a].amount
           /\ Cardinality(Support(Claimed(after))) = Cardinality(Support(Claimed(rs))) + 1
<1> DEFINE one == [u \in Users |-> IF u = a THEN rs[a].amount ELSE 0]
<1>1. Amounts(after) = Amounts(rs)
  BY DEF Amounts
<1>2. rs[a].amount \in Nat /\ one \in [Users -> Nat]
  BY DEF ClaimRecord
<1>3. \A u \in Users :
         \/ Claimed(rs)[u] = Claimed(after)[u] /\ one[u] = 0
         \/ Claimed(rs)[u] = 0 /\ one[u] = Claimed(after)[u]
  BY DEF Claimed
<1>4. Total(one) = rs[a].amount /\ IsFiniteSet(Units(one))
  <2>1. \A u \in Users : u # a => one[u] = 0
    OBVIOUS
  <2>2. one[a] = rs[a].amount
    OBVIOUS
  <2> HIDE DEF one
  <2> QED
    BY <1>2, <2>1, <2>2, TotalOfOne
<1>5. Cardinality(Support(one)) = 1
  <2>1. Support(one) = {a}
    BY <1>2 DEF Support
  <2> QED
    BY <2>1, FS_Singleton
<1> HIDE DEF one
<1>6. Claimed(rs) \in [Users -> Nat] /\ Claimed(after) \in [Users -> Nat]
  BY RecordSums
<1>7. IsFiniteSet(Units(Claimed(rs)))
  BY <1>6, TotalType, AccountsAssumption
<1>8. Total(Claimed(after)) = Total(Claimed(rs)) + Total(one)
  BY <1>2, <1>3, <1>4, <1>6, <1>7, TotalSplit
<1>9. Cardinality(Support(Claimed(after))) =
          Cardinality(Support(Claimed(rs))) + Cardinality(Support(one))
  BY <1>2, <1>3, <1>6, SupportSplit, AccountsAssumption
<1> QED
  BY <1>1, <1>4, <1>5, <1>8, <1>9

-----------------------------------------------------------------------------
(* The inductive invariant.                                                *)

LEMMA InvInit == Init => IInv
<1> SUFFICES ASSUME Init PROVE IInv
  OBVIOUS
<1>1. TypeOK
  BY TypeInit
<1> SUFFICES ASSUME NEW c \in Campaigns PROVE CampaignInv(c)
  BY <1>1 DEF IInv
<1>2. campaigns[c] = NoCampaign /\ records[c] = [u \in Users |-> NoRecord]
  BY DEF Init
<1>3. \A u \in Users : Amounts(records[c])[u] = 0 /\ Claimed(records[c])[u] = 0
  BY <1>2 DEF Amounts, Claimed, NoRecord
<1>4. /\ Amounts(records[c]) \in [Users -> Nat] /\ Claimed(records[c]) \in [Users -> Nat]
      /\ IsFiniteSet(Users)
  BY <1>1, RecordSums, AccountsAssumption DEF TypeOK
<1>5. Total(Amounts(records[c])) = 0 /\ Total(Claimed(records[c])) = 0
  BY <1>3, <1>4, TotalZero
<1>6. Support(Amounts(records[c])) = {} /\ Support(Claimed(records[c])) = {}
  BY <1>3, <1>4, SupportType
<1>7. Counted(c)
  BY <1>2, <1>5, <1>6, FS_EmptySet DEF Counted, NoCampaign
<1>8. Funded(c) /\ Settled(c)
  BY <1>2 DEF Funded, Settled, NoCampaign, NoRecord
<1> QED
  BY <1>7, <1>8 DEF CampaignInv

\* A step that leaves a campaign's accounts alone, or only adds to its escrow.
LEMMA Frame ==
    ASSUME TypeOK, TypeOK', NEW c \in Campaigns, CampaignInv(c),
           campaigns'[c] = campaigns[c], records'[c] = records[c],
           lamports'[c] >= lamports[c], now' >= now
    PROVE  CampaignInv(c)'
<1>1. /\ now \in Nat /\ now' \in Nat /\ lamports[c] \in Nat /\ lamports'[c] \in Nat
      /\ campaigns[c] \in Campaign
  BY ConstantsAssumption DEF TypeOK
<1>2. /\ campaigns[c].total_reward_amount \in Nat /\ campaigns[c].claimed_amount \in Nat
      /\ campaigns[c].deadline_at \in Nat /\ campaigns[c].claim_deadline_at \in Nat
  BY <1>1 DEF Campaign
<1>3. Counted(c)'
  BY DEF CampaignInv, Counted
<1>4. Funded(c)'
  BY <1>1, <1>2 DEF CampaignInv, Funded
<1>5. Settled(c)'
  BY <1>1, <1>2 DEF CampaignInv, Settled, Claimable
<1> QED
  BY <1>3, <1>4, <1>5 DEF CampaignInv

LEMMA CreateInv ==
    ASSUME TypeOK, NEW c \in Campaigns, NEW treasury \in Wallets, NEW reward \in Nat,
           NEW deadline \in Nat, CreateCampaignWithDeposit(c, treasury, reward, deadline),
           CampaignInv(c)
    PROVE  CampaignInv(c)'
<1>1. campaigns[c] = NoCampaign /\ records[c] = [u \in Users |-> NoRecord]
  BY DEF CampaignInv, Funded, CreateCampaignWithDeposit
<1>2. /\ campaigns'[c] = [NoCampaign EXCEPT !.status = "active", !.deadline_at = deadline,
                             !.claim_deadline_at = deadline + ClaimWindow,
                             !.total_reward_amount = reward]
      /\ records' = records
  BY DEF CreateCampaignWithDeposit, TypeOK
<1>3. lamports'[c] >= reward
  <2>1. lamports'[c] = lamports[c] + reward /\ lamports[c] \in Nat
    BY CreateType DEF TypeOK
  <2> QED
    BY <2>1
<1>4. Counted(c)'
  BY <1>1, <1>2 DEF CampaignInv, Counted, NoCampaign
<1>5. Funded(c)'
  BY <1>1, <1>2, <1>3 DEF Funded, NoCampaign, NoRecord
<1>6. Settled(c)'
  BY <1>1, <1>2 DEF Settled, NoCampaign, NoRecord
<1> QED
  BY <1>4, <1>5, <1>6 DEF CampaignInv

LEMMA FinalizeInv ==
    ASSUME TypeOK, TypeOK', NEW signer \in Keys, NEW c \in Campaigns,
           NEW batch \in [Users -> Nat], NEW has_more \in BOOLEAN,
           FinalizeCampaignBatch(signer, c, batch, has_more), CampaignInv(c)
    PROVE  CampaignInv(c)'
<1> DEFINE rs == records[c]
           after == records'[c]
           total == campaigns[c].total_reward_amount
           allocated == campaigns[c].allocated_amount + Total(batch)
           count == campaigns[c].allocations_count + Cardinality(Support(batch))
<1>1. rs \in [Users -> ClaimRecord] /\ after \in [Users -> ClaimRecord]
  BY DEF TypeOK
<1>2. /\ campaigns[c] \in Campaign /\ campaigns[c].status = "active"
      /\ now >= campaigns[c].deadline_at
      /\ \A u \in Users : ~rs[u].claimed
      /\ lamports[c] >= total /\ lamports' = lamports /\ now' = now
  BY DEF TypeOK, FinalizeCampaignBatch, AcceptsBatch, DeadlineReached, CampaignInv, Funded
<1>3. \A u \in Users : after[u] = IF u \in Support(batch)
                                  THEN [NoRecord EXCEPT !.amount = batch[u]] ELSE rs[u]
  BY DEF FinalizeCampaignBatch, TypeOK
<1>4. \A u \in Users : /\ ~after[u].claimed
                       /\ after[u].amount = IF u \in Support(batch) THEN batch[u] ELSE rs[u].amount
  BY <1>2, <1>3 DEF NoRecord
<1>5. \A u \in Support(batch) : rs[u].amount = 0
  BY DEF FinalizeCampaignBatch, AcceptsBatch, RecordsAreFree
<1>6. /\ campaigns'[c].allocated_amount = allocated
      /\ campaigns'[c].allocations_count = count
      /\ campaigns'[c].claimed_amount = campaigns[c].claimed_amount
      /\ campaigns'[c].claimed_count = campaigns[c].claimed_count
      /\ campaigns'[c].total_reward_amount = total
      /\ campaigns'[c].deadline_at = campaigns[c].deadline_at
      /\ campaigns'[c].claim_deadline_at = campaigns[c].claim_deadline_at
      /\ campaigns'[c].status = IF has_more THEN "active" ELSE "finalized"
  BY <1>2 DEF FinalizeCampaignBatch, TypeOK, Campaign
<1>7. ~has_more => allocated = total
  BY DEF FinalizeCampaignBatch, AcceptsBatch, FitsReward
<1>8. /\ Total(Amounts(after)) = Total(Amounts(rs)) + Total(batch)
      /\ Cardinality(Support(Amounts(after))) =
            Cardinality(Support(Amounts(rs))) + Cardinality(Support(batch))
      /\ Claimed(after) = Claimed(rs)
  <2> HIDE DEF rs, after
  <2> QED
    BY <1>1, <1>2, <1>4, <1>5, BatchSums
<1>9. Counted(c)'
  BY <1>6, <1>8 DEF CampaignInv, Counted
<1>10. Funded(c)'
  <2>1. campaigns[c].claimed_amount \in Nat /\ total \in Nat /\ lamports[c] \in Nat
    BY <1>2 DEF Campaign, TypeOK
  <2> QED
    BY <1>2, <1>4, <1>6, <1>7, <2>1 DEF Funded
<1>11. Settled(c)'
  BY <1>2, <1>4, <1>6 DEF CampaignInv, Settled
<1> QED
  BY <1>9, <1>10, <1>11 DEF CampaignInv

LEMMA CloseInv ==
    ASSUME TypeOK, NEW signer \in Keys, NEW c \in Campaigns,
           CloseUnfinalizableCampaign(signer, c), CampaignInv(c)
    PROVE  CampaignInv(c)'
<1>1. /\ campaigns[c].status = "active" /\ campaigns[c].allocations_count = 0
      /\ records[c] \in [Users -> ClaimRecord] /\ campaigns[c] \in Campaign
      /\ records' = records /\ lamports' = lamports /\ now' = now
      /\ campaigns'[c] = [campaigns[c] EXCEPT !.status = "closed"]
  BY DEF CloseUnfinalizableCampaign, MayClose, TypeOK
<1>2. /\ Support(Amounts(records[c])) = {u \in Users : Amounts(records[c])[u] > 0}
      /\ IsFiniteSet(Support(Amounts(records[c])))
  BY <1>1, RecordSums, SupportType, AccountsAssumption
<1>3. Cardinality(Support(Amounts(records[c]))) = 0
  BY <1>1 DEF CampaignInv, Counted
<1>4. Support(Amounts(records[c])) = {}
  BY <1>2, <1>3, FS_EmptySet
<1>5. \A u \in Users : ~(records[c][u].amount > 0)
  BY <1>2, <1>4 DEF Amounts
<1>6. \A u \in Users : ~records[c][u].claimed
  BY <1>1 DEF CampaignInv, Funded
<1>7. Counted(c)'
  BY <1>1 DEF CampaignInv, Counted, Campaign
<1>8. Funded(c)' /\ Settled(c)'
  BY <1>1, <1>5, <1>6 DEF CampaignInv, Funded, Settled, Campaign, Claimable
<1> QED
  BY <1>7, <1>8 DEF CampaignInv

LEMMA RefundInv ==
    ASSUME TypeOK, NEW c \in Campaigns, RefundUnclaimed(c), CampaignInv(c)
    PROVE  CampaignInv(c)'
<1>1. /\ campaigns[c] \in Campaign /\ campaigns[c].status # "none"
      /\ now > campaigns[c].claim_deadline_at
      /\ records' = records /\ now' = now
      /\ campaigns'[c] = [campaigns[c] EXCEPT !.status = "closed"]
  BY DEF RefundUnclaimed, Refundable, TypeOK
<1>2. now \in Nat /\ campaigns[c].claim_deadline_at \in Nat
  BY <1>1, ConstantsAssumption DEF Campaign, TypeOK
<1>3. Counted(c)'
  BY <1>1 DEF CampaignInv, Counted, Campaign
<1>4. Funded(c)' /\ Settled(c)'
  BY <1>1, <1>2 DEF CampaignInv, Funded, Settled, Campaign
<1> QED
  BY <1>3, <1>4 DEF CampaignInv

LEMMA ClaimInv ==
    ASSUME TypeOK, TypeOK', NEW signer \in Keys, NEW c \in Campaigns, NEW u \in Users,
           NEW wallet \in Wallets, Claim(signer, c, u, wallet), CampaignInv(c)
    PROVE  CampaignInv(c)'
<1> DEFINE rs == records[c]
           after == records'[c]
           total == campaigns[c].total_reward_amount
           amount == rs[u].amount
           claimed == campaigns[c].claimed_amount + amount
           count == campaigns[c].claimed_count + 1
           closes == ShouldCloseAfterClaim(claimed, total, count,
                                           campaigns[c].allocations_count, lamports[c] - amount)
<1>1. /\ rs \in [Users -> ClaimRecord] /\ after \in [Users -> ClaimRecord]
      /\ campaigns[c] \in Campaign /\ lamports[c] \in Nat
  BY DEF TypeOK
<1>2. /\ amount \in Nat /\ total \in Nat /\ campaigns[c].claimed_amount \in Nat
      /\ campaigns[c].allocated_amount \in Nat
  BY <1>1 DEF ClaimRecord, Campaign
<1>3. /\ campaigns[c].status = "finalized" /\ ~rs[u].claimed /\ amount > 0
      /\ now <= campaigns[c].claim_deadline_at /\ lamports[c] >= amount /\ now' = now
  BY DEF Claim, Claimable, ClaimWindowOpen
<1>4. lamports'[c] = lamports[c] - amount
  BY ClaimType
<1>5. /\ after[u].claimed /\ after[u].amount = amount /\ after[u].claimed_at = now
      /\ \A v \in Users \ {u} : after[v] = rs[v]
  BY <1>1 DEF Claim, TypeOK, ClaimRecord
<1>6. /\ campaigns'[c].claimed_amount = claimed /\ campaigns'[c].claimed_count = count
      /\ campaigns'[c].status = IF closes THEN "closed" ELSE "finalized"
      /\ campaigns'[c].allocated_amount = campaigns[c].allocated_amount
      /\ campaigns'[c].allocations_count = campaigns[c].allocations_count
      /\ campaigns'[c].total_reward_amount = total
      /\ campaigns'[c].deadline_at = campaigns[c].deadline_at
      /\ campaigns'[c].claim_deadline_at = campaigns[c].claim_deadline_at
  BY <1>1, <1>3 DEF Claim, TypeOK, Campaign
<1>7. /\ Amounts(after) = Amounts(rs)
      /\ Total(Claimed(after)) = Total(Claimed(rs)) + amount
      /\ Cardinality(Support(Claimed(after))) = Cardinality(Support(Claimed(rs))) + 1
  <2> HIDE DEF rs, after
  <2> QED
    BY <1>1, <1>3, <1>5, ClaimSums
<1>8. Counted(c)'
  BY <1>6, <1>7 DEF CampaignInv, Counted
<1>9. /\ campaigns[c].allocated_amount = total
      /\ lamports[c] + campaigns[c].claimed_amount >= total
      /\ now >= campaigns[c].deadline_at
  BY <1>3 DEF CampaignInv, Funded, Settled
<1>10. lamports'[c] + claimed >= total
  BY <1>1, <1>2, <1>4, <1>9
<1>11. Funded(c)'
  BY <1>6, <1>9, <1>10 DEF Funded
<1>12. ASSUME closes PROVE \A v \in Users : after[v].claimed \/ ~(after[v].amount > 0)
  <2>1. /\ Total(Claimed(after)) = claimed /\ Total(Amounts(after)) = total
        /\ Cardinality(Support(Claimed(after))) = count
        /\ Cardinality(Support(Amounts(after))) = campaigns[c].allocations_count
    BY <1>6, <1>7, <1>8, <1>9 DEF Counted
  <2>2. /\ Total(Unclaimed(after)) \in Nat /\ total = claimed + Total(Unclaimed(after))
        /\ claimed \in Nat
    <3> HIDE DEF after, claimed, total
    <3> QED
      BY <1>1, <2>1, RecordSums
  <2>3. lamports[c] - amount = 0 => Total(Unclaimed(after)) = 0
    <3> HIDE DEF after, claimed, total
    <3> QED
      BY <1>4, <1>10, <2>2
  <2>4. \/ claimed = total \/ count = campaigns[c].allocations_count
        \/ lamports[c] - amount = 0
    BY <1>12 DEF ShouldCloseAfterClaim
  <2>5. \/ Total(Claimed(after)) = Total(Amounts(after))
        \/ Cardinality(Support(Claimed(after))) = Cardinality(Support(Amounts(after)))
        \/ Total(Unclaimed(after)) = 0
    BY <2>1, <2>3, <2>4
  <2> HIDE DEF after
  <2> QED
    BY <1>1, <2>5, AllClaimed
<1>13. \A v \in Users : after[v].claimed =>
          /\ after[v].claimed_at >= campaigns[c].deadline_at
          /\ after[v].claimed_at <= campaigns[c].claim_deadline_at
  <2>1. \A v \in Users : rs[v].claimed =>
           /\ rs[v].claimed_at >= campaigns[c].deadline_at
           /\ rs[v].claimed_at <= campaigns[c].claim_deadline_at
    BY DEF CampaignInv, Settled
  <2> HIDE DEF rs, after
  <2> QED
    BY <1>3, <1>5, <1>9, <2>1
<1>14. Settled(c)'
  <2> HIDE DEF closes
  <2> QED
    BY <1>3, <1>6, <1>9, <1>12, <1>13 DEF CampaignInv, Settled, Claimable
<1> QED
  BY <1>8, <1>11, <1>14 DEF CampaignInv

LEMMA InvStep ==
    ASSUME IInv, [Next]_vars
    PROVE  IInv'
<1>1. TypeOK /\ \A c \in Campaigns : CampaignInv(c)
  BY DEF IInv
<1>2. TypeOK'
  BY <1>1, TypeStep
<1>3. now \in Nat /\ \A d \in Campaigns : lamports[d] \in Nat
  BY <1>1, ConstantsAssumption DEF TypeOK
<1> SUFFICES ASSUME NEW d \in Campaigns PROVE CampaignInv(d)'
  BY <1>2 DEF IInv
<1>4. CampaignInv(d) /\ lamports[d] >= lamports[d] /\ now >= now
  BY <1>1, <1>3
<1>5. CASE UNCHANGED vars
  BY <1>1, <1>2, <1>4, <1>5, Frame DEF vars
<1>6. CASE Administer \/ Pause
  BY <1>1, <1>2, <1>4, <1>6, AdminType, Frame
<1>7. CASE Tick
  BY <1>1, <1>2, <1>3, <1>4, <1>7, Frame DEF Tick
<1>8. ASSUME NEW c \in Campaigns, NEW treasury \in Wallets, NEW reward \in Nat,
             NEW deadline \in Nat, CreateCampaignWithDeposit(c, treasury, reward, deadline)
      PROVE  CampaignInv(d)'
  <2>1. CASE d = c
    BY <1>1, <1>4, <1>8, <2>1, CreateInv
  <2>2. CASE d # c
    <3>1. campaigns'[d] = campaigns[d] /\ records' = records /\ now' = now
      BY <1>1, <1>8, <2>2 DEF CreateCampaignWithDeposit, TypeOK
    <3>2. lamports'[d] = lamports[d]
      BY <1>1, <1>8, <2>2, CreateType
    <3> QED
      BY <1>1, <1>2, <1>4, <3>1, <3>2, Frame
  <2> QED
    BY <2>1, <2>2
<1>9. ASSUME NEW c \in Campaigns, NEW signer \in Keys, NEW batch \in [Users -> Nat],
             NEW has_more \in BOOLEAN, FinalizeCampaignBatch(signer, c, batch, has_more)
      PROVE  CampaignInv(d)'
  <2>1. CASE d = c
    BY <1>1, <1>2, <1>4, <1>9, <2>1, FinalizeInv
  <2>2. CASE d # c
    <3>1. /\ campaigns'[d] = campaigns[d] /\ records'[d] = records[d] /\ now' = now
          /\ lamports'[d] = lamports[d]
      BY <1>1, <1>9, <2>2 DEF FinalizeCampaignBatch, TypeOK
    <3> QED
      BY <1>1, <1>2, <1>4, <3>1, Frame
  <2> QED
    BY <2>1, <2>2
<1>10. ASSUME NEW c \in Campaigns, NEW signer \in Keys, CloseUnfinalizableCampaign(signer, c)
       PROVE  CampaignInv(d)'
  <2>1. CASE d = c
    BY <1>1, <1>4, <1>10, <2>1, CloseInv
  <2>2. CASE d # c
    <3>1. /\ campaigns'[d] = campaigns[d] /\ records'[d] = records[d] /\ now' = now
          /\ lamports'[d] = lamports[d]
      BY <1>1, <1>10, <2>2 DEF CloseUnfinalizableCampaign, TypeOK
    <3> QED
      BY <1>1, <1>2, <1>4, <3>1, Frame
  <2> QED
    BY <2>1, <2>2
<1>11. ASSUME NEW c \in Campaigns, NEW signer \in Keys, NEW u \in Users, NEW wallet \in Wallets,
              Claim(signer, c, u, wallet)
       PROVE  CampaignInv(d)'
  <2>1. CASE d = c
    BY <1>1, <1>2, <1>4, <1>11, <2>1, ClaimInv
  <2>2. CASE d # c
    <3>1. campaigns'[d] = campaigns[d] /\ records'[d] = records[d] /\ now' = now
      BY <1>1, <1>11, <2>2 DEF Claim, TypeOK
    <3>2. lamports'[d] = lamports[d]
      BY <1>1, <1>11, <2>2, ClaimType
    <3> QED
      BY <1>1, <1>2, <1>4, <3>1, <3>2, Frame
  <2> QED
    BY <2>1, <2>2
<1>12. ASSUME NEW c \in Campaigns, RefundUnclaimed(c)
       PROVE  CampaignInv(d)'
  <2>1. CASE d = c
    BY <1>1, <1>4, <1>12, <2>1, RefundInv
  <2>2. CASE d # c
    <3>1. campaigns'[d] = campaigns[d] /\ records'[d] = records[d] /\ now' = now
      BY <1>1, <1>12, <2>2 DEF RefundUnclaimed, TypeOK
    <3>2. lamports'[d] = lamports[d]
      BY <1>1, <1>12, <2>2, RefundType
    <3> QED
      BY <1>1, <1>2, <1>4, <3>1, <3>2, Frame
  <2> QED
    BY <2>1, <2>2
<1>13. ASSUME NEW c \in Campaigns, NEW wallet \in Wallets, NEW amount \in StrayAmounts,
              StrayTransfer(wallet, c, amount)
       PROVE  CampaignInv(d)'
  <2>1. campaigns' = campaigns /\ records' = records /\ now' = now
    BY <1>13 DEF StrayTransfer
  <2>2. lamports'[d] >= lamports[d]
    BY <1>1, <1>13, StrayType
  <2> QED
    BY <1>1, <1>2, <1>4, <2>1, <2>2, Frame
<1>14. CASE Next
  BY <1>1, <1>14, <1>6, <1>7, <1>8, <1>9, <1>10, <1>11, <1>12, <1>13, StepCases, Zenon
<1> QED
  BY <1>5, <1>14

\* The accounting of every campaign is right in every reachable state.
THEOREM InvariantHolds == Spec => []IInv
<1>1. Init => IInv
  BY InvInit
<1>2. IInv /\ [Next]_vars => IInv'
  BY InvStep
<1> QED
  BY <1>1, <1>2, PTL DEF Spec

-----------------------------------------------------------------------------
(* What follows from the invariant.                                        *)

\* The counters of every Campaign account agree with its ClaimRecord accounts.
THEOREM CountersCorrect == Spec => []CountersMatchRecords
<1>1. IInv => CountersMatchRecords
  BY DEF IInv, CampaignInv, CountersMatchRecords
<1> QED
  BY <1>1, InvariantHolds, PTL

\* A finalized campaign can pay all its unpaid shares.
LEMMA InvSolvent == IInv => Solvent
<1> SUFFICES ASSUME IInv, NEW c \in Campaigns, campaigns[c].status = "finalized"
             PROVE  lamports[c] >= Total(Unclaimed(records[c]))
  BY DEF Solvent
<1>1. records[c] \in [Users -> ClaimRecord] /\ lamports[c] \in Nat
  BY DEF IInv, TypeOK
<1>2. /\ Total(Claimed(records[c])) \in Nat /\ Total(Unclaimed(records[c])) \in Nat
      /\ Total(Amounts(records[c])) = Total(Claimed(records[c])) + Total(Unclaimed(records[c]))
  BY <1>1, RecordSums
<1>3. lamports[c] + Total(Claimed(records[c])) >= Total(Amounts(records[c]))
  BY DEF IInv, CampaignInv, Counted, Funded
<1> QED
  BY <1>1, <1>2, <1>3

\* The escrow of a finalized campaign covers all its unpaid shares at once.
THEOREM SolventCorrect == Spec => []Solvent
  BY InvSolvent, InvariantHolds, PTL

\* A campaign closed inside its claim window owes nobody anything.
THEOREM EarlyClosureCorrect == Spec => []EarlyClosureOwesNothing
<1>1. IInv => EarlyClosureOwesNothing
  BY DEF IInv, CampaignInv, Settled, EarlyClosureOwesNothing
<1> QED
  BY <1>1, InvariantHolds, PTL

\* Shares are paid only out of a fully shared reward, between the two deadlines.
THEOREM PaidOnlyInFullCorrect == Spec => []PaidOnlyInFull
<1>1. IInv => PaidOnlyInFull
  BY DEF IInv, CampaignInv, Counted, Settled, PaidOnlyInFull
<1> QED
  BY <1>1, InvariantHolds, PTL

\* While the program is paused no step touches campaigns or records, or takes
\* from an escrow.
THEOREM PauseCorrect == Spec => PauseFreezesCampaigns
<1>1. ASSUME TypeOK, [Next]_vars, config.paused
      PROVE  /\ campaigns' = campaigns /\ records' = records
             /\ \A d \in Campaigns : lamports'[d] >= lamports[d]
  <2>1. \A d \in Campaigns : lamports[d] \in Nat
    BY <1>1 DEF TypeOK
  <2>2. CASE UNCHANGED vars
    BY <2>1, <2>2 DEF vars
  <2>3. CASE Administer \/ Pause
    BY <1>1, <2>1, <2>3, AdminType
  <2>4. CASE Tick
    BY <2>1, <2>4 DEF Tick
  <2>5. ASSUME NEW c \in Campaigns, NEW wallet \in Wallets, NEW amount \in StrayAmounts,
               StrayTransfer(wallet, c, amount)
        PROVE  /\ campaigns' = campaigns /\ records' = records
               /\ \A d \in Campaigns : lamports'[d] >= lamports[d]
    BY <1>1, <2>5, StrayType DEF StrayTransfer
  <2>6. ASSUME NEW c \in Campaigns
        PROVE  /\ ~ \E treasury \in Wallets, reward, deadline \in Nat :
                       CreateCampaignWithDeposit(c, treasury, reward, deadline)
               /\ ~ \E signer \in Keys, batch \in [Users -> Nat], has_more \in BOOLEAN :
                       FinalizeCampaignBatch(signer, c, batch, has_more)
               /\ ~ \E signer \in Keys : CloseUnfinalizableCampaign(signer, c)
               /\ ~ \E signer \in Keys, u \in Users, wallet \in Wallets :
                       Claim(signer, c, u, wallet)
               /\ ~ RefundUnclaimed(c)
    BY <1>1 DEF CreateCampaignWithDeposit, FinalizeCampaignBatch, AcceptsBatch,
                CloseUnfinalizableCampaign, Claim, RefundUnclaimed, Running
  <2>7. CASE Next
    BY <1>1, <2>3, <2>4, <2>5, <2>6, <2>7, StepCases, Zenon
  <2> QED
    BY <1>1, <2>2, <2>7
<1>2. TypeOK /\ [Next]_vars =>
          [config.paused =>
             /\ UNCHANGED <<campaigns, records>>
             /\ \A c \in Campaigns : lamports'[c] >= lamports[c]]_vars
  BY <1>1
<1> QED
  BY <1>2, TypeCorrect, PTL DEF Spec, PauseFreezesCampaigns

LEMMA SharesPersistStep ==
    ASSUME IInv, [Next]_vars, NEW c \in Campaigns, NEW u \in Users,
           campaigns[c].status = "finalized", Claimable(c, u)
    PROVE  /\ records'[c][u].amount = records[c][u].amount
           /\ \/ records'[c][u].claimed
              \/ campaigns'[c].status = "finalized"
              \/ now > campaigns[c].claim_deadline_at
<1> DEFINE Goal == /\ records'[c][u].amount = records[c][u].amount
                   /\ \/ records'[c][u].claimed
                      \/ campaigns'[c].status = "finalized"
                      \/ now > campaigns[c].claim_deadline_at
<1> SUFFICES Goal
  OBVIOUS
<1>1. TypeOK /\ records[c] \in [Users -> ClaimRecord] /\ campaigns[c] \in Campaign
  BY DEF IInv, TypeOK
<1>2. campaigns'[c] = campaigns[c] /\ records'[c] = records[c] => Goal
  OBVIOUS
<1>3. CASE UNCHANGED vars
  BY <1>2, <1>3 DEF vars
<1>4. CASE Administer \/ Pause
  BY <1>1, <1>2, <1>4, AdminType
<1>5. CASE Tick
  BY <1>2, <1>5 DEF Tick
<1>6. ASSUME NEW d \in Campaigns, NEW treasury \in Wallets, NEW reward \in Nat,
             NEW deadline \in Nat, CreateCampaignWithDeposit(d, treasury, reward, deadline)
      PROVE  Goal
  <2>1. c # d
    BY <1>6 DEF CreateCampaignWithDeposit
  <2> QED
    BY <1>1, <1>2, <1>6, <2>1 DEF CreateCampaignWithDeposit, TypeOK
<1>7. ASSUME NEW d \in Campaigns, NEW signer \in Keys, NEW batch \in [Users -> Nat],
             NEW has_more \in BOOLEAN, FinalizeCampaignBatch(signer, d, batch, has_more)
      PROVE  Goal
  <2>1. c # d
    BY <1>7 DEF FinalizeCampaignBatch, AcceptsBatch
  <2> QED
    BY <1>1, <1>2, <1>7, <2>1 DEF FinalizeCampaignBatch, AcceptsBatch, TypeOK
<1>8. ASSUME NEW d \in Campaigns, NEW signer \in Keys, CloseUnfinalizableCampaign(signer, d)
      PROVE  Goal
  <2>1. c # d
    BY <1>8 DEF CloseUnfinalizableCampaign, MayClose
  <2> QED
    BY <1>1, <1>2, <1>8, <2>1 DEF CloseUnfinalizableCampaign, TypeOK
<1>9. ASSUME NEW d \in Campaigns, NEW signer \in Keys, NEW v \in Users, NEW wallet \in Wallets,
             Claim(signer, d, v, wallet)
      PROVE  Goal
  <2>1. CASE c # d
    BY <1>1, <1>2, <1>9, <2>1 DEF Claim, TypeOK
  <2>2. CASE c = d
    <3>1. records'[c][u].amount = records[c][u].amount
      BY <1>1, <1>9, <2>2 DEF Claim, TypeOK, ClaimRecord
    <3>2. /\ campaigns'[c].status \in {"finalized", "closed"}
          /\ campaigns'[c].claim_deadline_at = campaigns[c].claim_deadline_at
          /\ now <= campaigns[c].claim_deadline_at /\ now' = now
      BY <1>1, <1>9, <2>2 DEF Claim, ClaimWindowOpen, TypeOK, Campaign
    <3>3. campaigns'[c].status = "closed" => ~Claimable(c, u)'
      BY <3>2, InvStep DEF IInv, CampaignInv, Settled
    <3> QED
      BY <3>1, <3>2, <3>3 DEF Claimable
  <2> QED
    BY <2>1, <2>2
<1>10. ASSUME NEW d \in Campaigns, RefundUnclaimed(d) PROVE Goal
  <2>1. CASE c # d
    BY <1>1, <1>2, <1>10, <2>1 DEF RefundUnclaimed, TypeOK
  <2>2. CASE c = d
    BY <1>10, <2>2 DEF RefundUnclaimed, Refundable
  <2> QED
    BY <2>1, <2>2
<1>11. ASSUME NEW d \in Campaigns, NEW wallet \in Wallets, NEW amount \in StrayAmounts,
              StrayTransfer(wallet, d, amount)
       PROVE  Goal
  BY <1>2, <1>11 DEF StrayTransfer
<1> HIDE DEF Goal
<1>12. CASE Next
  BY <1>1, <1>12, <1>4, <1>5, <1>6, <1>7, <1>8, <1>9, <1>10, <1>11, StepCases, Zenon
<1> QED
  BY <1>3, <1>12

\* A share stays claimable, at its amount, until it is paid or may be refunded.
THEOREM SharesPersistCorrect == Spec => SharesPersist
<1>1. IInv /\ [Next]_vars =>
          [\A c \in Campaigns, u \in Users :
              campaigns[c].status = "finalized" /\ Claimable(c, u) =>
                  /\ records'[c][u].amount = records[c][u].amount
                  /\ \/ records'[c][u].claimed
                     \/ campaigns'[c].status = "finalized"
                     \/ now > campaigns[c].claim_deadline_at]_vars
  BY SharesPersistStep
<1> QED
  BY <1>1, InvariantHolds, PTL DEF Spec, SharesPersist

-----------------------------------------------------------------------------
(* Where the money goes.                                                   *)

LEMMA MoveExact ==
    ASSUME NEW S, NEW balances \in [S -> Nat], NEW from \in S, NEW to \in S,
           NEW amount \in Nat, from # to
    PROVE  Move(balances, from, to, amount) =
               [balances EXCEPT ![from] = balances[from] - amount,
                                ![to] = balances[to] + amount]
  BY DEF Move

\* A transfer takes from one what it gives to the other.
LEMMA MoveTotal ==
    ASSUME NEW S, IsFiniteSet(S), NEW balances \in [S -> Nat], NEW from \in S, NEW to \in S,
           NEW amount \in Nat, balances[from] >= amount
    PROVE  Total(Move(balances, from, to, amount)) = Total(balances)
<1> DEFINE moved == Move(balances, from, to, amount)
           kept == [x \in S |-> IF x = from THEN balances[from] - amount ELSE balances[x]]
           sent == [x \in S |-> IF x = from THEN amount ELSE 0]
           got == [x \in S |-> IF x = to THEN amount ELSE 0]
<1>1. CASE from = to
  BY <1>1, MoveType
<1>2. CASE from # to
  <2>1. /\ kept \in [S -> Nat] /\ sent \in [S -> Nat] /\ got \in [S -> Nat]
        /\ moved \in [S -> Nat]
    BY MoveType
  <2>2. Total(sent) = amount /\ Total(got) = amount
    BY TotalOfOne
  <2>3. \A x \in S : balances[x] = kept[x] + sent[x]
    OBVIOUS
  <2>4. \A x \in S : moved[x] = kept[x] + got[x]
    <3>1. /\ moved[from] = balances[from] - amount /\ moved[to] = balances[to] + amount
          /\ \A x \in S \ {from, to} : moved[x] = balances[x]
      BY <1>2, MoveType
    <3> HIDE DEF moved
    <3> QED
      BY <1>2, <3>1
  <2> HIDE DEF moved, kept, sent, got
  <2>5. Total(balances) = Total(kept) + Total(sent)
    BY ONLY <2>1, <2>3, TotalSum, IsFiniteSet(S), balances \in [S -> Nat]
  <2>6. Total(moved) = Total(kept) + Total(got)
    BY ONLY <2>1, <2>4, TotalSum, IsFiniteSet(S)
  <2> QED
    BY <2>2, <2>5, <2>6 DEF moved
<1> QED
  BY <1>1, <1>2

\* No instruction makes lamports or loses any.
LamportsConserved == Total(lamports) = Total(InitialLamports)

LEMMA ConservedInit == Init => LamportsConserved
<1> SUFFICES ASSUME Init PROVE LamportsConserved
  OBVIOUS
<1> DEFINE S == Wallets \cup Campaigns
<1>1. lamports \in [S -> Nat] /\ InitialLamports \in [Wallets -> Nat]
  BY TypeInit, AccountsAssumption DEF TypeOK
<1>2. \A a \in Wallets : lamports[a] = InitialLamports[a]
  BY DEF Init
<1>3. \A a \in Campaigns : lamports[a] = 0
  BY AccountsAssumption DEF Init
<1>4. \A p : p \in Units(lamports) <=>
            \E x \in S, i \in Nat : p = <<x, i>> /\ 1 <= i /\ i <= lamports[x]
  BY <1>1, UnitsMembership
<1>5. \A p : p \in Units(InitialLamports) <=>
            \E x \in Wallets, i \in Nat : p = <<x, i>> /\ 1 <= i /\ i <= InitialLamports[x]
  BY <1>1, UnitsMembership
<1>6. \A i \in Nat : ~(1 <= i /\ i <= 0)
  OBVIOUS
<1>7. Units(lamports) = Units(InitialLamports)
  BY <1>2, <1>3, <1>4, <1>5, <1>6
<1> QED
  BY <1>7 DEF LamportsConserved, Total

LEMMA CreateConserves ==
    ASSUME TypeOK, NEW c \in Campaigns, NEW treasury \in Wallets, NEW reward \in Nat,
           NEW deadline \in Nat, CreateCampaignWithDeposit(c, treasury, reward, deadline)
    PROVE  Total(lamports') = Total(lamports)
<1> DEFINE S == Wallets \cup Campaigns
           fee == ServiceFee(reward)
           deposited == Move(lamports, SponsorOf[c], c, reward)
<1>1. SponsorOf[c] \in S /\ c \in S /\ treasury \in S /\ SponsorOf[c] # c /\ IsFiniteSet(S)
  BY AccountsAssumption, FS_Union
<1>2. lamports \in [S -> Nat] /\ fee \in Nat /\ lamports[SponsorOf[c]] >= reward + fee
  BY ServiceFeeType DEF TypeOK, CreateCampaignWithDeposit
<1>3. lamports[SponsorOf[c]] \in Nat /\ lamports[SponsorOf[c]] >= reward
  BY <1>1, <1>2
<1>4. /\ deposited \in [S -> Nat]
      /\ deposited[SponsorOf[c]] = lamports[SponsorOf[c]] - reward
  <2> HIDE DEF fee, S
  <2> QED
    BY <1>1, <1>2, <1>3, MoveType
<1>5. deposited[SponsorOf[c]] >= fee
  BY <1>1, <1>2, <1>4
<1>6. Total(deposited) = Total(lamports)
  BY <1>1, <1>2, <1>3, MoveTotal
<1>7. lamports' = Move(deposited, SponsorOf[c], treasury, fee)
  BY DEF CreateCampaignWithDeposit
<1>8. Total(Move(deposited, SponsorOf[c], treasury, fee)) = Total(deposited)
  <2> HIDE DEF deposited, fee, S
  <2> QED
    BY <1>1, <1>2, <1>4, <1>5, MoveTotal
<1> QED
  BY <1>6, <1>7, <1>8

LEMMA ConservedStep ==
    ASSUME TypeOK, [Next]_vars
    PROVE  Total(lamports') = Total(lamports)
<1> DEFINE S == Wallets \cup Campaigns
           Goal == Total(lamports') = Total(lamports)
<1> SUFFICES Goal
  OBVIOUS
<1>1. IsFiniteSet(S) /\ lamports \in [S -> Nat] /\ Wallets \subseteq S /\ Campaigns \subseteq S
  BY AccountsAssumption, FS_Union DEF TypeOK
<1>2. lamports' = lamports => Goal
  OBVIOUS
<1>3. CASE UNCHANGED vars
  BY <1>2, <1>3 DEF vars
<1>4. CASE Administer \/ Pause
  BY <1>2, <1>4, AdminType
<1>5. CASE Tick
  BY <1>2, <1>5 DEF Tick
<1>6. ASSUME NEW c \in Campaigns, NEW treasury \in Wallets, NEW reward \in Nat,
             NEW deadline \in Nat, CreateCampaignWithDeposit(c, treasury, reward, deadline)
      PROVE  Goal
  BY <1>6, CreateConserves
<1>7. ASSUME NEW c \in Campaigns, NEW signer \in Keys, NEW batch \in [Users -> Nat],
             NEW has_more \in BOOLEAN, FinalizeCampaignBatch(signer, c, batch, has_more)
      PROVE  Goal
  BY <1>2, <1>7 DEF FinalizeCampaignBatch
<1>8. ASSUME NEW c \in Campaigns, NEW signer \in Keys, CloseUnfinalizableCampaign(signer, c)
      PROVE  Goal
  BY <1>2, <1>8 DEF CloseUnfinalizableCampaign
<1>9. ASSUME NEW c \in Campaigns, NEW signer \in Keys, NEW u \in Users, NEW wallet \in Wallets,
             Claim(signer, c, u, wallet)
      PROVE  Goal
  <2>1. /\ records[c][u].amount \in Nat /\ lamports[c] >= records[c][u].amount
        /\ lamports' = Move(lamports, c, wallet, records[c][u].amount)
    BY <1>9 DEF Claim, TypeOK, ClaimRecord
  <2> QED
    BY <1>1, <2>1, MoveTotal
<1>10. ASSUME NEW c \in Campaigns, RefundUnclaimed(c) PROVE Goal
  <2>1. /\ lamports[c] \in Nat /\ SponsorOf[c] \in S /\ lamports[c] >= lamports[c]
        /\ lamports' = Move(lamports, c, SponsorOf[c], lamports[c])
    BY <1>1, <1>10, AccountsAssumption DEF RefundUnclaimed
  <2> QED
    BY <1>1, <2>1, MoveTotal
<1>11. ASSUME NEW c \in Campaigns, NEW wallet \in Wallets, NEW amount \in StrayAmounts,
             StrayTransfer(wallet, c, amount)
      PROVE  Goal
  <2>1. /\ amount \in Nat /\ lamports[wallet] >= amount
        /\ lamports' = Move(lamports, wallet, c, amount)
    BY <1>11, ConstantsAssumption DEF StrayTransfer
  <2> QED
    BY <1>1, <2>1, MoveTotal
<1> HIDE DEF Goal
<1>12. CASE Next
  BY <1>4, <1>5, <1>6, <1>7, <1>8, <1>9, <1>10, <1>11, <1>12, StepCases, Zenon
<1> QED
  BY <1>3, <1>12

\* Deposits, fees, claims, refunds and stray transfers, in any order and number, only
\* move lamports: none is made and none is lost in an escrow's balance.
THEOREM LamportsConservedCorrect == Spec => []LamportsConserved
<1>1. Init => LamportsConserved
  BY ConservedInit
<1>2. TypeOK /\ LamportsConserved /\ [Next]_vars => LamportsConserved'
  BY ConservedStep DEF LamportsConserved
<1> QED
  BY <1>1, <1>2, TypeCorrect, PTL DEF Spec

\* What leaves the escrow of c.
LeavesAsRecorded(c) ==
    lamports'[c] < lamports[c] =>
        \/ \E u \in Users :
              LET amount == records[c][u].amount
                  wallet == records'[c][u].claimed_to_wallet
              IN  /\ ~records[c][u].claimed /\ records'[c][u].claimed
                  /\ wallet \in Wallets
                  /\ lamports' = [lamports EXCEPT ![c] = lamports[c] - amount,
                                                  ![wallet] = lamports[wallet] + amount]
        \/ /\ now > campaigns[c].claim_deadline_at
           /\ lamports' = [lamports EXCEPT
                             ![c] = 0,
                             ![SponsorOf[c]] = lamports[SponsorOf[c]] + lamports[c]]

\* Nothing leaves an escrow but a share, to the wallet its record then names and to no
\* other, or after the claim deadline everything that is left, to the sponsor.
EscrowsLeakNothing == [][\A c \in Campaigns : LeavesAsRecorded(c)]_vars

LEMMA LeavesStep ==
    ASSUME TypeOK, [Next]_vars, NEW c \in Campaigns
    PROVE  LeavesAsRecorded(c)
<1> DEFINE S == Wallets \cup Campaigns
<1>1. lamports \in [S -> Nat] /\ lamports[c] \in Nat /\ c \in S /\ c \notin Wallets
  BY AccountsAssumption DEF TypeOK
<1>2. ~(lamports'[c] < lamports[c]) => LeavesAsRecorded(c)
  BY DEF LeavesAsRecorded
<1>3. lamports'[c] = lamports[c] => LeavesAsRecorded(c)
  BY <1>1, <1>2
<1>4. CASE UNCHANGED vars
  BY <1>3, <1>4 DEF vars
<1>5. CASE Administer \/ Pause
  BY <1>3, <1>5, AdminType
<1>6. CASE Tick
  BY <1>3, <1>6 DEF Tick
<1>7. ASSUME NEW d \in Campaigns, NEW treasury \in Wallets, NEW reward \in Nat,
             NEW deadline \in Nat, CreateCampaignWithDeposit(d, treasury, reward, deadline)
      PROVE  LeavesAsRecorded(c)
  <2>1. lamports'[c] = lamports[c] \/ lamports'[c] = lamports[c] + reward
    BY <1>7, CreateType
  <2> QED
    BY <1>1, <1>2, <2>1
<1>8. ASSUME NEW d \in Campaigns, NEW signer \in Keys, NEW batch \in [Users -> Nat],
             NEW has_more \in BOOLEAN, FinalizeCampaignBatch(signer, d, batch, has_more)
      PROVE  LeavesAsRecorded(c)
  BY <1>3, <1>8 DEF FinalizeCampaignBatch
<1>9. ASSUME NEW d \in Campaigns, NEW signer \in Keys, CloseUnfinalizableCampaign(signer, d)
      PROVE  LeavesAsRecorded(c)
  BY <1>3, <1>9 DEF CloseUnfinalizableCampaign
<1>10. ASSUME NEW d \in Campaigns, NEW signer \in Keys, NEW u \in Users, NEW wallet \in Wallets,
              Claim(signer, d, u, wallet)
       PROVE  LeavesAsRecorded(c)
  <2>1. CASE d # c
    BY <1>3, <1>10, <2>1, ClaimType
  <2>2. CASE d = c
    <3> DEFINE amount == records[c][u].amount
    <3>1. /\ records \in [Campaigns -> [Users -> ClaimRecord]] /\ records[c][u] \in ClaimRecord
          /\ amount \in Nat /\ lamports' = Move(lamports, c, wallet, amount)
          /\ ~records[c][u].claimed
      BY <1>10, <2>2 DEF TypeOK, ClaimRecord, Claim, Claimable
    <3>2. lamports' = [lamports EXCEPT ![c] = lamports[c] - amount,
                                       ![wallet] = lamports[wallet] + amount]
      <4>1. wallet \in S /\ wallet # c
        BY <1>1
      <4> HIDE DEF amount, S
      <4> QED
        BY <1>1, <3>1, <4>1, MoveExact
    <3>3. records'[c][u].claimed /\ records'[c][u].claimed_to_wallet = wallet
      BY <1>10, <2>2, <3>1 DEF Claim, ClaimRecord
    <3> QED
      BY <3>1, <3>2, <3>3 DEF LeavesAsRecorded
  <2> QED
    BY <2>1, <2>2
<1>11. ASSUME NEW d \in Campaigns, RefundUnclaimed(d) PROVE LeavesAsRecorded(c)
  <2>1. CASE d # c
    BY <1>3, <1>11, <2>1, RefundType
  <2>2. CASE d = c
    <3>1. /\ SponsorOf[c] \in S /\ SponsorOf[c] # c /\ now > campaigns[c].claim_deadline_at
          /\ lamports' = Move(lamports, c, SponsorOf[c], lamports[c])
      BY <1>1, <1>11, <2>2, AccountsAssumption DEF RefundUnclaimed, Refundable
    <3>2. lamports' = [lamports EXCEPT ![c] = lamports[c] - lamports[c],
                                       ![SponsorOf[c]] = lamports[SponsorOf[c]] + lamports[c]]
      <4>1. \A w \in S, a \in Nat : w # c =>
                Move(lamports, c, w, a) =
                    [lamports EXCEPT ![c] = lamports[c] - a, ![w] = lamports[w] + a]
        <5> HIDE DEF S
        <5> QED
          BY <1>1, MoveExact
      <4> QED
        BY <1>1, <3>1, <4>1, Zenon
    <3>3. lamports[c] - lamports[c] = 0
      BY <1>1
    <3> QED
      BY <3>1, <3>2, <3>3 DEF LeavesAsRecorded
  <2> QED
    BY <2>1, <2>2
<1>12. ASSUME NEW d \in Campaigns, NEW wallet \in Wallets, NEW amount \in StrayAmounts,
             StrayTransfer(wallet, d, amount)
      PROVE  LeavesAsRecorded(c)
  <2>1. lamports'[c] >= lamports[c] /\ lamports'[c] \in Nat
    BY <1>12, StrayType DEF TypeOK
  <2> QED
    BY <1>1, <1>2, <2>1
<1>13. CASE Next
  BY <1>5, <1>6, <1>7, <1>8, <1>9, <1>10, <1>11, <1>12, <1>13, StepCases, Zenon
<1> QED
  BY <1>4, <1>13

\* An escrow pays the wallet the claim record names, exactly the record's amount and
\* once, or the sponsor after the claim deadline, and nobody's balance changes besides.
THEOREM EscrowsLeakNothingCorrect == Spec => EscrowsLeakNothing
<1>1. TypeOK /\ [Next]_vars => [\A c \in Campaigns : LeavesAsRecorded(c)]_vars
  BY LeavesStep
<1> QED
  BY <1>1, TypeCorrect, PTL DEF Spec, EscrowsLeakNothing
=============================================================================
