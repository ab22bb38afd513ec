------------------------ MODULE RepoBountyRefinement ------------------------
(* The program implements BountyEscrow: each instruction is one abstract   *)
(* step, or none.  A batch with has_more, the admin's instructions and a   *)
(* batch's records before the last are steps the abstraction does not see. *)
(* Then CampaignLife, ShareLife and StatusLife, what the backend's models  *)
(* take of the chain, and the checks of a payout on either side.           *)
EXTENDS RepoBountyProofs

LEMMA RefineInit == Init => Promise!Init
<1> SUFFICES ASSUME Init PROVE Promise!Init
  OBVIOUS
<1>1. now = 0 /\ \A c \in Campaigns : campaigns[c] = NoCampaign
  BY DEF Init
<1>2. \A c \in Campaigns : campaigns[c].status = "none"
  BY <1>1 DEF NoCampaign
<1>3. stageNow = [c \in Campaigns |-> "none"]
  BY <1>2 DEF stageNow, StageOf
<1>4. poolNow = [c \in Campaigns |-> 0] /\ expiryNow = [c \in Campaigns |-> 0]
  BY <1>1 DEF poolNow, expiryNow, NoCampaign
<1>5. potNow = [c \in Campaigns |-> 0]
  <2>1. \A c \in Campaigns : lamports[c] = 0
    BY AccountsAssumption DEF Init
  <2> QED
    BY <2>1 DEF potNow
<1>6. owedNow = [c \in Campaigns |-> Zeros]
  BY <1>2 DEF owedNow, OwedOf
<1> QED
  BY <1>1, <1>3, <1>4, <1>5, <1>6 DEF Promise!Init, Promise!Nothing, Zeros

\* What a step changes of one campaign, it changes of that campaign's image.
LEMMA ImageFrame ==
    ASSUME NEW c \in Campaigns,
           \A d \in Campaigns \ {c} : /\ campaigns'[d] = campaigns[d]
                                      /\ records'[d] = records[d]
                                      /\ lamports'[d] = lamports[d]
    PROVE  /\ stageNow' = [stageNow EXCEPT ![c] = StageOf(c)']
           /\ poolNow' = [poolNow EXCEPT ![c] = campaigns'[c].total_reward_amount]
           /\ expiryNow' = [expiryNow EXCEPT ![c] = campaigns'[c].claim_deadline_at]
           /\ potNow' = [potNow EXCEPT ![c] = lamports'[c]]
           /\ owedNow' = [owedNow EXCEPT ![c] = OwedOf(c)']
<1>1. \A d \in Campaigns \ {c} : StageOf(d)' = StageOf(d) /\ OwedOf(d)' = OwedOf(d)
  BY DEF StageOf, OwedOf
<1> QED
  BY <1>1 DEF stageNow, poolNow, expiryNow, potNow, owedNow

LEMMA RefineCreate ==
    ASSUME IInv, NEW c \in Campaigns, NEW treasury \in Wallets, NEW reward \in Nat,
           NEW deadline \in Nat, CreateCampaignWithDeposit(c, treasury, reward, deadline)
    PROVE  Promise!Open(c)
<1>1. TypeOK /\ campaigns[c] \in Campaign
  BY DEF IInv, TypeOK
<1>2. \A d \in Campaigns \ {c} : /\ campaigns'[d] = campaigns[d]
                                 /\ records'[d] = records[d]
                                 /\ lamports'[d] = lamports[d]
  BY <1>1, CreateType DEF CreateCampaignWithDeposit, TypeOK
<1>3. /\ campaigns[c].status = "none" /\ campaigns'[c].status = "active"
      /\ campaigns'[c].total_reward_amount = reward
      /\ campaigns'[c].claim_deadline_at = deadline + ClaimWindow
      /\ reward > 0 /\ deadline > now /\ now' = now
  <2>1. now \in Nat /\ reward >= MinCampaignAmount /\ deadline >= now + MinDeadline
    BY <1>1, ConstantsAssumption DEF CreateCampaignWithDeposit, TypeOK
  <2>2. MinCampaignAmount > 0 /\ MinDeadline > 0
    BY ConstantsAssumption
  <2>3. reward > 0 /\ deadline > now
    BY <2>1, <2>2, ConstantsAssumption
  <2> QED
    BY <1>1, <2>3 DEF CreateCampaignWithDeposit, NoCampaign, TypeOK
<1>4. lamports'[c] = lamports[c] + reward
  BY <1>1, CreateType
<1>5. /\ stageNow[c] = "none" /\ StageOf(c)' = "open"
      /\ OwedOf(c) = Zeros /\ OwedOf(c)' = Zeros /\ owedNow[c] = OwedOf(c)
  BY <1>3 DEF stageNow, StageOf, OwedOf, owedNow, Zeros
<1>6. owedNow' = owedNow
  <2>1. owedNow' = [owedNow EXCEPT ![c] = OwedOf(c)']
    BY <1>2, ImageFrame
  <2> QED
    BY <1>5, <2>1 DEF owedNow
<1>7. poolNow'[c] = reward /\ expiryNow'[c] = deadline + ClaimWindow /\ potNow[c] = lamports[c]
  BY <1>3 DEF poolNow, expiryNow, potNow
<1>8. expiryNow'[c] > now + ClaimWindow
  BY <1>1, <1>3, <1>7, ConstantsAssumption DEF TypeOK
<1>9. /\ stageNow' = [stageNow EXCEPT ![c] = "open"]
      /\ poolNow' = [poolNow EXCEPT ![c] = poolNow'[c]]
      /\ expiryNow' = [expiryNow EXCEPT ![c] = expiryNow'[c]]
      /\ potNow' = [potNow EXCEPT ![c] = potNow[c] + poolNow'[c]]
  BY <1>2, <1>3, <1>4, <1>5, <1>7, ImageFrame
<1> QED
  BY <1>3, <1>5, <1>6, <1>7, <1>8, <1>9 DEF Promise!Open

LEMMA RefineFinalize ==
    ASSUME IInv, IInv', NEW signer \in Keys, NEW c \in Campaigns,
           NEW batch \in [Users -> Nat], NEW has_more \in BOOLEAN,
           FinalizeCampaignBatch(signer, c, batch, has_more)
    PROVE  Promise!Share(c) \/ UNCHANGED Promise!vars
<1>1. TypeOK /\ campaigns[c] \in Campaign /\ campaigns'[c] \in Campaign /\ lamports' = lamports
  BY DEF IInv, TypeOK, FinalizeCampaignBatch
<1>2. \A d \in Campaigns \ {c} : /\ campaigns'[d] = campaigns[d]
                                 /\ records'[d] = records[d]
                                 /\ lamports'[d] = lamports[d]
  BY <1>1 DEF FinalizeCampaignBatch, TypeOK
<1>3. /\ campaigns[c].status = "active" /\ now' = now
      /\ campaigns'[c].status = IF has_more THEN "active" ELSE "finalized"
      /\ campaigns'[c].total_reward_amount = campaigns[c].total_reward_amount
      /\ campaigns'[c].claim_deadline_at = campaigns[c].claim_deadline_at
      /\ now >= campaigns[c].deadline_at
  BY <1>1 DEF FinalizeCampaignBatch, AcceptsBatch, DeadlineReached, TypeOK, Campaign
<1>4. poolNow' = poolNow /\ expiryNow' = expiryNow /\ potNow' = potNow
  <2>1. /\ poolNow' = [poolNow EXCEPT ![c] = campaigns'[c].total_reward_amount]
        /\ expiryNow' = [expiryNow EXCEPT ![c] = campaigns'[c].claim_deadline_at]
        /\ potNow' = [potNow EXCEPT ![c] = lamports'[c]]
    BY <1>2, ImageFrame
  <2> QED
    BY <1>1, <1>3, <2>1 DEF poolNow, expiryNow, potNow
<1>5. /\ stageNow' = [stageNow EXCEPT ![c] = StageOf(c)']
      /\ owedNow' = [owedNow EXCEPT ![c] = OwedOf(c)']
  BY <1>2, ImageFrame
<1>6. stageNow[c] = "open" /\ owedNow[c] = Zeros
  BY <1>3 DEF stageNow, StageOf, owedNow, OwedOf
<1>7. CASE has_more
  <2>1. StageOf(c)' = "open" /\ OwedOf(c)' = Zeros
    BY <1>3, <1>7 DEF StageOf, OwedOf, Zeros
  <2>2. stageNow' = stageNow /\ owedNow' = owedNow
    BY <1>5, <1>6, <2>1 DEF stageNow, owedNow
  <2> QED
    BY <1>3, <1>4, <2>2 DEF Promise!vars
<1>8. CASE ~has_more
  <2> DEFINE after == records'[c]
  <2>1. StageOf(c)' = "shared" /\ OwedOf(c)' = Unclaimed(after)
    BY <1>3, <1>8 DEF StageOf, OwedOf, Unclaimed
  <2>2. after \in [Users -> ClaimRecord]
    BY DEF IInv, TypeOK
  <2>3. \A u \in Users : ~after[u].claimed
    <3>1. \A u \in Users : ~records[c][u].claimed
      BY <1>3 DEF IInv, CampaignInv, Funded
    <3> QED
      BY <1>1, <3>1 DEF FinalizeCampaignBatch, NoRecord, TypeOK
  <2>4. Unclaimed(after) = Amounts(after)
    BY <2>3 DEF Unclaimed, Amounts
  <2>5. Total(Unclaimed(after)) = campaigns[c].total_reward_amount
    <3>1. /\ campaigns'[c].allocated_amount = Total(Amounts(after))
          /\ campaigns'[c].allocated_amount = campaigns'[c].total_reward_amount
      BY <1>3, <1>8 DEF IInv, CampaignInv, Counted, Funded
    <3> QED
      BY <1>3, <2>4, <3>1
  <2>6. now + ClaimWindow >= expiryNow[c]
    <3>1. campaigns[c].claim_deadline_at = campaigns[c].deadline_at + ClaimWindow
      BY <1>3 DEF IInv, CampaignInv, Settled
    <3>2. now \in Nat /\ campaigns[c].deadline_at \in Nat /\ ClaimWindow \in Nat
      BY <1>1, ConstantsAssumption DEF TypeOK, Campaign
    <3> QED
      BY <1>3, <3>1, <3>2 DEF expiryNow
  <2>7. poolNow[c] = campaigns[c].total_reward_amount
    BY DEF poolNow
  <2>8. owedNow'[c] = Unclaimed(after)
    BY <2>1 DEF owedNow
  <2>9. Unclaimed(after) \in [Users -> Nat]
    BY <2>2, RecordSums
  <2>10. /\ stageNow' = [stageNow EXCEPT ![c] = "shared"]
         /\ owedNow' = [owedNow EXCEPT ![c] = owedNow'[c]]
    BY <1>5, <2>1, <2>8
  <2>11. Promise!Total(Unclaimed(after)) = Total(Unclaimed(after))
    BY DEF Promise!Total, Promise!Units, Promise!Cardinality, Total, Units, Cardinality
  <2> HIDE DEF after
  <2> QED
    BY <1>3, <1>4, <1>6, <2>5, <2>6, <2>7, <2>8, <2>9, <2>10, <2>11 DEF Promise!Share
<1> QED
  BY <1>7, <1>8

LEMMA RefineClose ==
    ASSUME IInv, NEW signer \in Keys, NEW c \in Campaigns,
           CloseUnfinalizableCampaign(signer, c)
    PROVE  Promise!Abandon(c)
<1>1. TypeOK /\ campaigns[c] \in Campaign
  BY DEF IInv, TypeOK
<1>2. /\ campaigns[c].status = "active" /\ now' = now /\ records' = records
      /\ lamports' = lamports /\ now >= campaigns[c].deadline_at
      /\ campaigns'[c] = [campaigns[c] EXCEPT !.status = "closed"]
      /\ \A d \in Campaigns \ {c} : campaigns'[d] = campaigns[d]
  BY <1>1 DEF CloseUnfinalizableCampaign, MayClose, DeadlineReached, TypeOK
<1>3. /\ campaigns'[c].status = "closed"
      /\ campaigns'[c].total_reward_amount = campaigns[c].total_reward_amount
      /\ campaigns'[c].claim_deadline_at = campaigns[c].claim_deadline_at
  BY <1>1, <1>2 DEF Campaign
<1>4. /\ stageNow' = [stageNow EXCEPT ![c] = StageOf(c)']
      /\ poolNow' = [poolNow EXCEPT ![c] = campaigns'[c].total_reward_amount]
      /\ expiryNow' = [expiryNow EXCEPT ![c] = campaigns'[c].claim_deadline_at]
      /\ potNow' = [potNow EXCEPT ![c] = lamports'[c]]
      /\ owedNow' = [owedNow EXCEPT ![c] = OwedOf(c)']
  BY <1>2, ImageFrame
<1>5. poolNow' = poolNow /\ expiryNow' = expiryNow /\ potNow' = potNow
  BY <1>2, <1>3, <1>4 DEF poolNow, expiryNow, potNow
<1>6. /\ stageNow[c] = "open" /\ StageOf(c)' = "done"
      /\ owedNow[c] = Zeros /\ OwedOf(c)' = Zeros
  BY <1>2, <1>3 DEF stageNow, StageOf, owedNow, OwedOf, Zeros
<1>7. owedNow' = owedNow /\ stageNow' = [stageNow EXCEPT ![c] = "done"]
  BY <1>4, <1>6 DEF owedNow
<1>8. now + ClaimWindow >= expiryNow[c]
  <2>1. campaigns[c].claim_deadline_at = campaigns[c].deadline_at + ClaimWindow
    BY <1>2 DEF IInv, CampaignInv, Settled
  <2>2. now \in Nat /\ campaigns[c].deadline_at \in Nat /\ ClaimWindow \in Nat
    BY <1>1, ConstantsAssumption DEF TypeOK, Campaign
  <2> QED
    BY <1>2, <2>1, <2>2 DEF expiryNow
<1> QED
  BY <1>2, <1>5, <1>6, <1>7, <1>8 DEF Promise!Abandon

LEMMA RefineClaim ==
    ASSUME IInv, IInv', NEW signer \in Keys, NEW c \in Campaigns, NEW u \in Users,
           NEW wallet \in Wallets, Claim(signer, c, u, wallet)
    PROVE  Promise!Pay(c, u)
<1> DEFINE rs == records[c]
           after == records'[c]
           amount == rs[u].amount
           total == campaigns[c].total_reward_amount
<1>1. /\ TypeOK /\ campaigns[c] \in Campaign /\ lamports[c] \in Nat
      /\ rs \in [Users -> ClaimRecord] /\ after \in [Users -> ClaimRecord]
  BY DEF IInv, TypeOK
<1>2. \A d \in Campaigns \ {c} : /\ campaigns'[d] = campaigns[d]
                                 /\ records'[d] = records[d]
                                 /\ lamports'[d] = lamports[d]
  BY <1>1, ClaimType DEF Claim, TypeOK
<1>3. /\ campaigns[c].status = "finalized" /\ now' = now
      /\ campaigns'[c].status \in {"finalized", "closed"}
      /\ campaigns'[c].total_reward_amount = total
      /\ campaigns'[c].claim_deadline_at = campaigns[c].claim_deadline_at
      /\ campaigns'[c].claimed_amount = campaigns[c].claimed_amount + amount
      /\ campaigns'[c].allocated_amount = campaigns[c].allocated_amount
      /\ ~rs[u].claimed /\ amount > 0 /\ now <= campaigns[c].claim_deadline_at
      /\ campaigns'[c].claimed_amount = total => campaigns'[c].status = "closed"
  BY <1>1 DEF Claim, Claimable, ClaimWindowOpen, ShouldCloseAfterClaim, TypeOK, Campaign
<1>4. lamports'[c] = lamports[c] - amount
  BY <1>1, ClaimType
<1>5. /\ after[u].claimed /\ after[u].amount = amount
      /\ \A v \in Users \ {u} : after[v] = rs[v]
  BY <1>1 DEF Claim, TypeOK, ClaimRecord
<1>6. /\ stageNow' = [stageNow EXCEPT ![c] = StageOf(c)']
      /\ poolNow' = [poolNow EXCEPT ![c] = campaigns'[c].total_reward_amount]
      /\ expiryNow' = [expiryNow EXCEPT ![c] = campaigns'[c].claim_deadline_at]
      /\ potNow' = [potNow EXCEPT ![c] = lamports'[c]]
      /\ owedNow' = [owedNow EXCEPT ![c] = OwedOf(c)']
  BY <1>2, ImageFrame
<1>7. poolNow' = poolNow /\ expiryNow' = expiryNow
  BY <1>3, <1>6 DEF poolNow, expiryNow
<1>8. /\ potNow[c] = lamports[c] /\ owedNow[c] = Unclaimed(rs) /\ expiryNow[c] = campaigns[c].claim_deadline_at
      /\ stageNow[c] = "shared"
  BY <1>3 DEF potNow, owedNow, OwedOf, expiryNow, stageNow, StageOf, Unclaimed
<1>9. Unclaimed(rs)[u] = amount
  BY <1>3 DEF Unclaimed
<1>10. Unclaimed(after) = [Unclaimed(rs) EXCEPT ![u] = 0]
  <2>1. \A v \in Users : Unclaimed(after)[v] = IF v = u THEN 0 ELSE Unclaimed(rs)[v]
    BY <1>5 DEF Unclaimed
  <2> QED
    BY <2>1 DEF Unclaimed
<1>11. campaigns'[c].status = "closed" <=> Unclaimed(after) = Zeros
  <2>1. /\ Unclaimed(after) \in [Users -> Nat] /\ IsFiniteSet(Users)
        /\ Total(Unclaimed(after)) \in Nat /\ Total(Claimed(after)) \in Nat
        /\ Total(Amounts(after)) = Total(Claimed(after)) + Total(Unclaimed(after))
    BY <1>1, RecordSums, AccountsAssumption
  <2>2. ASSUME Unclaimed(after) = Zeros PROVE campaigns'[c].status = "closed"
    <3>1. \A v \in Users : Unclaimed(after)[v] = 0
      BY <2>2 DEF Zeros
    <3>2. Total(Unclaimed(after)) = 0
      BY <2>1, <3>1, TotalZero
    <3>3. /\ campaigns'[c].claimed_amount = Total(Claimed(after))
          /\ campaigns'[c].allocated_amount = Total(Amounts(after))
      BY DEF IInv, CampaignInv, Counted
    <3>4. campaigns[c].allocated_amount = total
      BY <1>3 DEF IInv, CampaignInv, Funded
    <3>5. campaigns'[c].allocated_amount = total
      BY <1>3, <3>4
    <3>6. campaigns'[c].claimed_amount = total
      <4> HIDE DEF after
      <4> QED
        BY <2>1, <3>2, <3>3, <3>5
    <3> QED
      BY <1>3, <3>6
  <2>3. ASSUME campaigns'[c].status = "closed" PROVE Unclaimed(after) = Zeros
    <3>1. \A v \in Users : after[v].claimed \/ ~(after[v].amount > 0)
      BY <1>3, <2>3 DEF IInv, CampaignInv, Settled, Claimable
    <3>2. \A v \in Users : after[v].amount \in Nat
      BY <1>1 DEF ClaimRecord
    <3>3. \A v \in Users : Unclaimed(after)[v] = 0
      BY <3>1, <3>2 DEF Unclaimed
    <3> QED
      BY <3>3 DEF Unclaimed, Zeros
  <2> QED
    BY <2>2, <2>3
<1>12. OwedOf(c)' = [Unclaimed(rs) EXCEPT ![u] = 0]
  BY <1>3, <1>10, <1>11 DEF OwedOf, Zeros, Unclaimed
<1>13. StageOf(c)' = IF Unclaimed(after) = Zeros THEN "done" ELSE "shared"
  BY <1>3, <1>11 DEF StageOf
<1>14. owedNow'[c] = Unclaimed(after) /\ Zeros = Promise!Nothing
  <2>1. owedNow'[c] = OwedOf(c)'
    BY <1>6 DEF owedNow
  <2> QED
    BY <2>1, <1>10, <1>12 DEF Zeros, Promise!Nothing
<1>15. /\ potNow' = [potNow EXCEPT ![c] = potNow[c] - owedNow[c][u]]
       /\ owedNow' = [owedNow EXCEPT ![c] = [owedNow[c] EXCEPT ![u] = 0]]
       /\ stageNow' = [stageNow EXCEPT ![c] =
                         IF owedNow'[c] = Promise!Nothing THEN "done" ELSE stageNow[c]]
  <2> HIDE DEF rs, after, amount
  <2> QED
    BY <1>4, <1>6, <1>8, <1>9, <1>12, <1>13, <1>14
<1>16. owedNow[c][u] > 0 /\ now <= expiryNow[c]
  BY <1>3, <1>8, <1>9
<1> QED
  BY <1>3, <1>7, <1>8, <1>15, <1>16 DEF Promise!Pay

LEMMA RefundEmpties ==
    ASSUME TypeOK, NEW c \in Campaigns, RefundUnclaimed(c)
    PROVE  lamports'[c] = 0
<1> DEFINE S == Wallets \cup Campaigns
<1>1. lamports[c] \in Nat
  BY DEF TypeOK
<1>2. /\ SponsorOf[c] \in S /\ SponsorOf[c] # c /\ c \in S /\ lamports \in [S -> Nat]
      /\ lamports[c] >= lamports[c] /\ lamports' = Move(lamports, c, SponsorOf[c], lamports[c])
  <2>1. lamports' = Move(lamports, c, SponsorOf[c], lamports[c])
    BY DEF RefundUnclaimed
  <2>2. lamports \in [S -> Nat] /\ lamports[c] >= lamports[c]
    BY <1>1 DEF TypeOK
  <2>3. SponsorOf[c] \in S /\ SponsorOf[c] # c /\ c \in S
    BY AccountsAssumption
  <2> QED
    BY <2>1, <2>2, <2>3
<1>3. lamports'[c] = lamports[c] - lamports[c]
  <2> HIDE DEF S
  <2> QED
    BY <1>1, <1>2, MoveType
<1> QED
  BY <1>1, <1>3

LEMMA RefineRefund ==
    ASSUME IInv, NEW c \in Campaigns, RefundUnclaimed(c)
    PROVE  Promise!Return(c)
<1>1. TypeOK /\ campaigns[c] \in Campaign /\ lamports[c] \in Nat
  BY DEF IInv, TypeOK
<1>2. \A d \in Campaigns \ {c} : /\ campaigns'[d] = campaigns[d]
                                 /\ records'[d] = records[d]
                                 /\ lamports'[d] = lamports[d]
  BY <1>1, RefundType DEF RefundUnclaimed, TypeOK
<1>3. /\ campaigns[c].status # "none" /\ campaigns'[c].status = "closed" /\ now' = now
      /\ campaigns'[c].total_reward_amount = campaigns[c].total_reward_amount
      /\ campaigns'[c].claim_deadline_at = campaigns[c].claim_deadline_at
      /\ now > campaigns[c].claim_deadline_at /\ lamports[c] > 0
  BY <1>1 DEF RefundUnclaimed, Refundable, TypeOK, Campaign
<1>4. lamports'[c] = 0
  BY <1>1, RefundEmpties
<1>5. /\ stageNow' = [stageNow EXCEPT ![c] = StageOf(c)']
      /\ poolNow' = [poolNow EXCEPT ![c] = campaigns'[c].total_reward_amount]
      /\ expiryNow' = [expiryNow EXCEPT ![c] = campaigns'[c].claim_deadline_at]
      /\ potNow' = [potNow EXCEPT ![c] = lamports'[c]]
      /\ owedNow' = [owedNow EXCEPT ![c] = OwedOf(c)']
  BY <1>2, ImageFrame
<1>6. poolNow' = poolNow /\ expiryNow' = expiryNow
  BY <1>3, <1>5 DEF poolNow, expiryNow
<1>7. /\ StageOf(c)' = "done" /\ OwedOf(c)' = Promise!Nothing
      /\ stageNow[c] # "none" /\ potNow[c] = lamports[c]
      /\ expiryNow[c] = campaigns[c].claim_deadline_at
  <2>1. campaigns[c].status \in Statuses
    BY <1>1 DEF Campaign
  <2> QED
    BY <1>3, <2>1
    DEF StageOf, OwedOf, stageNow, potNow, expiryNow, Statuses, Zeros, Promise!Nothing
<1> QED
  BY <1>3, <1>4, <1>5, <1>6, <1>7 DEF Promise!Return

LEMMA RefineStep ==
    ASSUME IInv, [Next]_vars
    PROVE  [Promise!Next]_(Promise!vars)
<1>1. TypeOK /\ IInv'
  BY InvStep DEF IInv
<1> DEFINE Same == UNCHANGED Promise!vars
           Goal == Promise!Next \/ Same
<1>2. campaigns' = campaigns /\ records' = records /\ lamports' = lamports =>
          /\ stageNow' = stageNow /\ poolNow' = poolNow /\ expiryNow' = expiryNow
          /\ potNow' = potNow /\ owedNow' = owedNow
  BY DEF stageNow, StageOf, poolNow, expiryNow, potNow, owedNow, OwedOf
<1>3. now' = now /\ campaigns' = campaigns /\ records' = records /\ lamports' = lamports => Same
  BY <1>2 DEF Promise!vars
<1>4. CASE UNCHANGED vars
  BY <1>3, <1>4 DEF vars
<1>5. CASE Administer \/ Pause
  BY <1>1, <1>3, <1>5, AdminType
<1>6. CASE Tick
  <2>1. Promise!Tick
    BY <1>2, <1>6 DEF Tick, Promise!Tick
  <2> QED
    BY <2>1 DEF Promise!Next
<1>7. ASSUME NEW c \in Campaigns, NEW treasury \in Wallets, NEW reward \in Nat,
             NEW deadline \in Nat, CreateCampaignWithDeposit(c, treasury, reward, deadline)
      PROVE  Goal
  BY <1>7, RefineCreate DEF Promise!Next
<1>8. ASSUME NEW c \in Campaigns, NEW signer \in Keys, NEW batch \in [Users -> Nat],
             NEW has_more \in BOOLEAN, FinalizeCampaignBatch(signer, c, batch, has_more)
      PROVE  Goal
  BY <1>1, <1>8, RefineFinalize DEF Promise!Next
<1>9. ASSUME NEW c \in Campaigns, NEW signer \in Keys, CloseUnfinalizableCampaign(signer, c)
      PROVE  Goal
  BY <1>9, RefineClose DEF Promise!Next
<1>10. ASSUME NEW c \in Campaigns, NEW signer \in Keys, NEW u \in Users, NEW wallet \in Wallets,
              Claim(signer, c, u, wallet)
       PROVE  Goal
  BY <1>1, <1>10, RefineClaim DEF Promise!Next
<1>11. ASSUME NEW c \in Campaigns, RefundUnclaimed(c) PROVE Goal
  BY <1>11, RefineRefund DEF Promise!Next
<1>12. ASSUME NEW c \in Campaigns, NEW wallet \in Wallets, NEW amount \in StrayAmounts,
              StrayTransfer(wallet, c, amount)
       PROVE  Goal
  <2>1. /\ campaigns' = campaigns /\ records' = records /\ now' = now
        /\ lamports' = Move(lamports, wallet, c, amount) /\ lamports[wallet] >= amount
    BY <1>12 DEF StrayTransfer
  <2>2. amount \in Nat /\ amount > 0
    BY ConstantsAssumption
  <2> DEFINE S == Wallets \cup Campaigns
  <2>3. /\ wallet \in S /\ c \in S /\ wallet # c /\ wallet \notin Campaigns
        /\ lamports \in [S -> Nat] /\ lamports[c] \in Nat
    BY <1>1, AccountsAssumption DEF TypeOK
  <2>4. /\ lamports'[c] = lamports[c] + amount
        /\ \A d \in Campaigns \ {c} : lamports'[d] = lamports[d]
    <3>1. \A d \in Campaigns \ {c} : d \in S \ {wallet, c}
      BY <2>3
    <3> HIDE DEF S
    <3> QED
      BY <2>1, <2>2, <2>3, <3>1, MoveType
  <2>5. /\ potNow' = [potNow EXCEPT ![c] = potNow'[c]]
        /\ potNow'[c] > potNow[c]
    <3>1. potNow' = [potNow EXCEPT ![c] = lamports'[c]]
      BY <2>1, <2>4, ImageFrame
    <3>2. potNow[c] = lamports[c] /\ potNow'[c] = lamports'[c]
      BY DEF potNow
    <3>3. lamports'[c] > lamports[c]
      <4>1. \A n, a \in Nat : a > 0 => n + a > n
        OBVIOUS
      <4> QED
        BY <2>2, <2>3, <2>4, <4>1
    <3>4. potNow' = [potNow EXCEPT ![c] = potNow'[c]]
      BY <3>1, <3>2
    <3> QED
      BY <3>2, <3>3, <3>4
  <2>6. stageNow' = stageNow /\ poolNow' = poolNow /\ expiryNow' = expiryNow /\ owedNow' = owedNow
    BY <2>1 DEF stageNow, StageOf, poolNow, expiryNow, owedNow, OwedOf
  <2>7. Promise!TopUp(c)
    BY <2>1, <2>5, <2>6 DEF Promise!TopUp
  <2> QED
    BY <2>7 DEF Promise!Next
<1> SUFFICES Goal
  OBVIOUS
<1> HIDE DEF Goal
<1>13. CASE Next
  BY <1>1, <1>13, <1>5, <1>6, <1>7, <1>8, <1>9, <1>10, <1>11, <1>12, StepCases, Zenon DEF Goal
<1> QED
  BY <1>4, <1>13 DEF Goal

\* Whatever the program does, sponsors and contributors see what BountyEscrow
\* allows: one deposit, the whole pool shared at once, each share paid once, in
\* full and in time, and the rest returned only after the claim deadline.
THEOREM KeepsPromiseCorrect == Spec => KeepsPromise
<1>1. Init => Promise!Init
  BY RefineInit
<1>2. IInv /\ [Next]_vars => [Promise!Next]_(Promise!vars)
  BY RefineStep
<1> QED
  BY <1>1, <1>2, InvariantHolds, PTL DEF Spec, KeepsPromise, Promise!Spec
-----------------------------------------------------------------------------
(* And it implements CampaignLife.  The abstraction has no amounts: what   *)
(* must be shown is which steps empty an escrow.                           *)

LEMMA LifeInitial == Init => Life!LifeInit
<1> SUFFICES ASSUME Init PROVE Life!LifeInit
  OBVIOUS
<1>1. now = 0 /\ \A c \in Campaigns : campaigns[c] = NoCampaign
  BY DEF Init
<1>2. \A c \in Campaigns : campaigns[c].status = "none" /\ campaigns[c].deadline_at = 0
  BY <1>1 DEF NoCampaign
<1>3. \A c \in Campaigns : lamports[c] = 0
  BY AccountsAssumption DEF Init
<1>4. \A c \in Campaigns : (lamports[c] > 0) = FALSE
  BY <1>3
<1>5. statusNow = [c \in Campaigns |-> "none"] /\ deadlineNow = [c \in Campaigns |-> 0]
  BY <1>2 DEF statusNow, deadlineNow
<1>6. fundedNow = [c \in Campaigns |-> FALSE]
  BY <1>4, Zenon DEF fundedNow
<1> QED
  BY <1>1, <1>5, <1>6 DEF Life!LifeInit

\* What a step changes of one campaign, it changes of that campaign's life.
LEMMA LifeFrame ==
    ASSUME NEW c \in Campaigns,
           \A d \in Campaigns \ {c} : campaigns'[d] = campaigns[d] /\ lamports'[d] = lamports[d]
    PROVE  /\ statusNow' = [statusNow EXCEPT ![c] = campaigns'[c].status]
           /\ deadlineNow' = [deadlineNow EXCEPT ![c] = campaigns'[c].deadline_at]
           /\ fundedNow' = [fundedNow EXCEPT ![c] = lamports'[c] > 0]
<1>1. /\ statusNow' = [statusNow EXCEPT ![c] = campaigns'[c].status]
      /\ deadlineNow' = [deadlineNow EXCEPT ![c] = campaigns'[c].deadline_at]
  BY DEF statusNow, deadlineNow
<1>2. \A d \in Campaigns : fundedNow'[d] = (lamports'[d] > 0) /\ fundedNow[d] = (lamports[d] > 0)
  BY Zenon DEF fundedNow
<1>3. fundedNow' = [d \in Campaigns |-> IF d = c THEN lamports'[c] > 0 ELSE fundedNow[d]]
  BY <1>2, Zenon DEF fundedNow
<1>4. fundedNow = [d \in Campaigns |-> fundedNow[d]]
  BY <1>2, Zenon DEF fundedNow
<1> QED
  BY <1>1, <1>3, <1>4

LEMMA LifeCreate ==
    ASSUME IInv, NEW c \in Campaigns, NEW treasury \in Wallets, NEW reward \in Nat,
           NEW deadline \in Nat, CreateCampaignWithDeposit(c, treasury, reward, deadline)
    PROVE  Life!Open(c)
<1>1. TypeOK /\ campaigns[c] \in Campaign /\ lamports[c] \in Nat
  BY DEF IInv, TypeOK
<1>2. \A d \in Campaigns \ {c} : campaigns'[d] = campaigns[d] /\ lamports'[d] = lamports[d]
  BY <1>1, CreateType DEF CreateCampaignWithDeposit, TypeOK
<1>3. /\ campaigns[c].status = "none" /\ campaigns'[c].status = "active" /\ now' = now
      /\ campaigns'[c].deadline_at = deadline /\ deadline >= now + MinDeadline
      /\ reward >= MinCampaignAmount
  BY <1>1 DEF CreateCampaignWithDeposit, NoCampaign, TypeOK
<1>4. lamports'[c] > 0
  <2>1. lamports'[c] = lamports[c] + reward
    BY <1>1, CreateType
  <2> QED
    BY <1>1, <1>3, <2>1, ConstantsAssumption
<1>5. /\ statusNow' = [statusNow EXCEPT ![c] = "active"] /\ statusNow[c] = "none"
      /\ deadlineNow'[c] = deadline /\ deadlineNow' = [deadlineNow EXCEPT ![c] = deadlineNow'[c]]
  BY <1>2, <1>3, LifeFrame DEF statusNow, deadlineNow
<1>6. fundedNow' = [fundedNow EXCEPT ![c] = TRUE]
  BY <1>2, <1>4, LifeFrame
<1> QED
  BY <1>3, <1>5, <1>6 DEF Life!Open

LEMMA LifeFinalize ==
    ASSUME IInv, NEW signer \in Keys, NEW c \in Campaigns,
           NEW batch \in [Users -> Nat], NEW has_more \in BOOLEAN,
           FinalizeCampaignBatch(signer, c, batch, has_more)
    PROVE  Life!Share(c) \/ UNCHANGED Life!lifeVars
<1>1. TypeOK /\ campaigns[c] \in Campaign /\ lamports' = lamports
  BY DEF IInv, TypeOK, FinalizeCampaignBatch
<1>2. \A d \in Campaigns \ {c} : campaigns'[d] = campaigns[d] /\ lamports'[d] = lamports[d]
  BY <1>1 DEF FinalizeCampaignBatch, TypeOK
<1>3. /\ campaigns[c].status = "active" /\ now' = now
      /\ campaigns'[c].status = IF has_more THEN "active" ELSE "finalized"
      /\ campaigns'[c].deadline_at = campaigns[c].deadline_at
      /\ now >= campaigns[c].deadline_at
  BY <1>1 DEF FinalizeCampaignBatch, AcceptsBatch, DeadlineReached, TypeOK, Campaign
<1>4. /\ statusNow' = [statusNow EXCEPT ![c] = campaigns'[c].status]
      /\ deadlineNow' = [deadlineNow EXCEPT ![c] = campaigns'[c].deadline_at]
  BY <1>2, LifeFrame
<1>5. /\ statusNow[c] = "active" /\ deadlineNow[c] = campaigns[c].deadline_at
      /\ deadlineNow' = deadlineNow
  BY <1>3, <1>4 DEF statusNow, deadlineNow
<1>6. fundedNow' = fundedNow
  BY <1>1 DEF fundedNow
<1>7. CASE has_more
  <2>1. statusNow' = statusNow
    BY <1>3, <1>4, <1>5, <1>7 DEF statusNow
  <2> QED
    BY <1>3, <1>5, <1>6, <2>1 DEF Life!lifeVars
<1>8. CASE ~has_more
  BY <1>3, <1>4, <1>5, <1>6, <1>8 DEF Life!Share, Life!Due
<1> QED
  BY <1>7, <1>8

LEMMA LifeClose ==
    ASSUME IInv, NEW signer \in Keys, NEW c \in Campaigns,
           CloseUnfinalizableCampaign(signer, c)
    PROVE  Life!Abandon(c)
<1>1. TypeOK /\ campaigns[c] \in Campaign /\ lamports' = lamports
  BY DEF IInv, TypeOK, CloseUnfinalizableCampaign
<1>2. \A d \in Campaigns \ {c} : campaigns'[d] = campaigns[d] /\ lamports'[d] = lamports[d]
  BY <1>1 DEF CloseUnfinalizableCampaign, TypeOK
<1>3. /\ campaigns[c].status = "active" /\ now' = now
      /\ campaigns'[c].status = "closed"
      /\ campaigns'[c].deadline_at = campaigns[c].deadline_at
      /\ now >= campaigns[c].deadline_at
  BY <1>1 DEF CloseUnfinalizableCampaign, MayClose, DeadlineReached, TypeOK, Campaign
<1>4. /\ statusNow' = [statusNow EXCEPT ![c] = "closed"]
      /\ deadlineNow' = [deadlineNow EXCEPT ![c] = campaigns'[c].deadline_at]
  BY <1>2, <1>3, LifeFrame
<1>5. /\ statusNow[c] = "active" /\ deadlineNow[c] = campaigns[c].deadline_at
      /\ deadlineNow' = deadlineNow
  BY <1>3, <1>4 DEF statusNow, deadlineNow
<1>6. fundedNow' = fundedNow
  BY <1>1 DEF fundedNow
<1> QED
  BY <1>3, <1>4, <1>5, <1>6 DEF Life!Abandon, Life!Due

\* A claim that leaves the campaign finalized leaves money in the escrow: an empty
\* escrow is one of the three reasons to close.
LEMMA LifeClaim ==
    ASSUME IInv, NEW signer \in Keys, NEW c \in Campaigns, NEW u \in Users,
           NEW wallet \in Wallets, Claim(signer, c, u, wallet)
    PROVE  Life!PayLast(c) \/ UNCHANGED Life!lifeVars
<1> DEFINE left == lamports[c] - records[c][u].amount
<1>1. /\ TypeOK /\ campaigns[c] \in Campaign
      /\ records[c][u].amount \in Nat /\ lamports[c] \in Nat
  BY DEF IInv, TypeOK, ClaimRecord
<1>2. /\ \A d \in Campaigns \ {c} : campaigns'[d] = campaigns[d] /\ lamports'[d] = lamports[d]
      /\ lamports'[c] = left
  <2>1. \A d \in Campaigns \ {c} : campaigns'[d] = campaigns[d]
    BY <1>1 DEF Claim, TypeOK
  <2>2. lamports'[c] = left /\ \A d \in Campaigns \ {c} : lamports'[d] = lamports[d]
    BY <1>1, ClaimType
  <2> QED
    BY <2>1, <2>2
<1>3. /\ campaigns[c].status = "finalized" /\ now' = now
      /\ campaigns'[c].deadline_at = campaigns[c].deadline_at
      /\ campaigns'[c].status \in {"finalized", "closed"}
      /\ left = 0 => campaigns'[c].status = "closed"
      /\ now <= campaigns[c].claim_deadline_at
      /\ records[c][u].amount > 0 /\ lamports[c] >= records[c][u].amount
  BY <1>1 DEF Claim, Claimable, ClaimWindowOpen, ShouldCloseAfterClaim, TypeOK, Campaign
<1>4. /\ statusNow' = [statusNow EXCEPT ![c] = campaigns'[c].status]
      /\ deadlineNow' = [deadlineNow EXCEPT ![c] = campaigns'[c].deadline_at]
      /\ fundedNow' = [fundedNow EXCEPT ![c] = left > 0]
  BY <1>2, LifeFrame
<1>5. /\ statusNow[c] = "finalized" /\ deadlineNow[c] = campaigns[c].deadline_at
      /\ deadlineNow' = deadlineNow
  BY <1>3, <1>4 DEF statusNow, deadlineNow
<1>6. fundedNow[c] = TRUE
  <2>1. lamports[c] > 0
    BY <1>1, <1>3
  <2> QED
    BY <2>1 DEF fundedNow
<1>7. fundedNow = [fundedNow EXCEPT ![c] = TRUE]
  BY <1>6 DEF fundedNow
<1>8. ~(now > deadlineNow[c] + ClaimWindow)
  <2>1. campaigns[c].claim_deadline_at = campaigns[c].deadline_at + ClaimWindow
    BY <1>3 DEF IInv, CampaignInv, Settled
  <2>2. now \in Nat /\ campaigns[c].deadline_at \in Nat /\ ClaimWindow \in Nat
    BY <1>1, ConstantsAssumption DEF TypeOK, Campaign
  <2> QED
    BY <1>3, <1>5, <2>1, <2>2
<1>9. left > 0 \/ left = 0
  <2> DEFINE a == records[c][u].amount
             l == lamports[c]
  <2>1. a \in Nat /\ l \in Nat /\ l >= a
    BY <1>1, <1>3
  <2>2. l - a > 0 \/ l - a = 0
    <3> HIDE DEF a, l
    <3> QED
      BY <2>1
  <2> QED
    BY <2>2
<1> HIDE DEF left
<1>10. fundedNow' = fundedNow \/ fundedNow' = [fundedNow EXCEPT ![c] = FALSE]
  <2>1. CASE left > 0
    BY <1>4, <1>7, <2>1
  <2>2. CASE ~(left > 0)
    <3>1. (left > 0) = FALSE
      BY <2>2
    <3> QED
      BY <1>4, <3>1
  <2> QED
    BY <2>1, <2>2
<1>11. CASE campaigns'[c].status = "closed"
  <2>1. statusNow' = [statusNow EXCEPT ![c] = "closed"]
    BY <1>4, <1>11
  <2> QED
    BY <1>3, <1>5, <1>8, <1>10, <2>1 DEF Life!PayLast, Life!Expired
<1>12. CASE campaigns'[c].status = "finalized"
  <2>1. left > 0
    BY <1>3, <1>9, <1>12
  <2>2. fundedNow' = fundedNow
    BY <1>4, <1>7, <2>1
  <2>3. statusNow' = statusNow
    BY <1>4, <1>5, <1>12 DEF statusNow
  <2> QED
    BY <1>3, <1>5, <2>2, <2>3 DEF Life!lifeVars
<1> QED
  BY <1>3, <1>11, <1>12

LEMMA LifeRefund ==
    ASSUME IInv, NEW c \in Campaigns, RefundUnclaimed(c)
    PROVE  Life!Return(c)
<1>1. TypeOK /\ campaigns[c] \in Campaign /\ lamports[c] \in Nat
  BY DEF IInv, TypeOK
<1>2. \A d \in Campaigns \ {c} : campaigns'[d] = campaigns[d] /\ lamports'[d] = lamports[d]
  BY <1>1, RefundType DEF RefundUnclaimed, TypeOK
<1>3. /\ campaigns[c].status # "none" /\ campaigns'[c].status = "closed" /\ now' = now
      /\ campaigns'[c].deadline_at = campaigns[c].deadline_at
      /\ now > campaigns[c].claim_deadline_at /\ lamports[c] > 0
  BY <1>1 DEF RefundUnclaimed, Refundable, TypeOK, Campaign
<1>4. ~(lamports'[c] > 0)
  BY <1>1, RefundEmpties
<1>5. /\ statusNow' = [statusNow EXCEPT ![c] = "closed"]
      /\ deadlineNow' = [deadlineNow EXCEPT ![c] = campaigns'[c].deadline_at]
      /\ fundedNow' = [fundedNow EXCEPT ![c] = lamports'[c] > 0]
  BY <1>2, <1>3, LifeFrame
<1>6. fundedNow' = [fundedNow EXCEPT ![c] = FALSE]
  <2>1. (lamports'[c] > 0) = FALSE
    BY <1>4
  <2> QED
    BY <1>5, <2>1
<1>7. /\ statusNow[c] # "none" /\ deadlineNow[c] = campaigns[c].deadline_at
      /\ deadlineNow' = deadlineNow
  BY <1>3, <1>5 DEF statusNow, deadlineNow
<1>8. fundedNow[c]
  BY <1>3 DEF fundedNow
<1>9. now > deadlineNow[c] + ClaimWindow
  <2>1. campaigns[c].claim_deadline_at = campaigns[c].deadline_at + ClaimWindow
    BY <1>3 DEF IInv, CampaignInv, Settled
  <2> QED
    BY <1>3, <1>7, <2>1
<1> QED
  BY <1>3, <1>5, <1>6, <1>7, <1>8, <1>9 DEF Life!Return, Life!Expired

LEMMA LifeStray ==
    ASSUME IInv, NEW c \in Campaigns, NEW wallet \in Wallets, NEW amount \in StrayAmounts,
           StrayTransfer(wallet, c, amount)
    PROVE  Life!TopUp(c)
<1>1. TypeOK /\ lamports[c] \in Nat
  BY DEF IInv, TypeOK
<1>2. /\ campaigns' = campaigns /\ now' = now /\ lamports[wallet] >= amount
      /\ lamports' = Move(lamports, wallet, c, amount) /\ amount \in Nat /\ amount > 0
  BY ConstantsAssumption DEF StrayTransfer
<1>3. /\ lamports'[c] = lamports[c] + amount
      /\ \A d \in Campaigns \ {c} : lamports'[d] = lamports[d]
  <2> DEFINE S == Wallets \cup Campaigns
  <2>1. /\ wallet \in S /\ c \in S /\ wallet # c /\ lamports \in [S -> Nat]
        /\ \A d \in Campaigns \ {c} : d \in S \ {wallet, c}
    BY <1>1, AccountsAssumption DEF TypeOK
  <2> HIDE DEF S
  <2> QED
    BY <1>2, <2>1, MoveType
<1>4. lamports'[c] > 0
  BY <1>1, <1>2, <1>3
<1>5. fundedNow' = [fundedNow EXCEPT ![c] = TRUE]
  BY <1>2, <1>3, <1>4, LifeFrame
<1> QED
  BY <1>2, <1>5 DEF Life!TopUp, statusNow, deadlineNow

LEMMA LifeStep ==
    ASSUME IInv, [Next]_vars
    PROVE  [Life!LifeNext]_(Life!lifeVars)
<1>1. TypeOK
  BY DEF IInv
<1> DEFINE Same == UNCHANGED Life!lifeVars
           Goal == Life!LifeNext \/ Same
<1>2. campaigns' = campaigns /\ lamports' = lamports =>
          statusNow' = statusNow /\ deadlineNow' = deadlineNow /\ fundedNow' = fundedNow
  BY DEF statusNow, deadlineNow, fundedNow
<1>3. now' = now /\ campaigns' = campaigns /\ lamports' = lamports => Same
  BY <1>2 DEF Life!lifeVars
<1>4. CASE UNCHANGED vars
  BY <1>3, <1>4 DEF vars
<1>5. CASE Administer \/ Pause
  BY <1>1, <1>3, <1>5, AdminType
<1>6. CASE Tick
  <2>1. Life!TimePasses
    BY <1>2, <1>6 DEF Tick, Life!TimePasses
  <2> QED
    BY <2>1 DEF Life!LifeNext
<1>7. ASSUME NEW c \in Campaigns, NEW treasury \in Wallets, NEW reward \in Nat,
             NEW deadline \in Nat, CreateCampaignWithDeposit(c, treasury, reward, deadline)
      PROVE  Goal
  BY <1>7, LifeCreate DEF Life!LifeNext
<1>8. ASSUME NEW c \in Campaigns, NEW signer \in Keys, NEW batch \in [Users -> Nat],
             NEW has_more \in BOOLEAN, FinalizeCampaignBatch(signer, c, batch, has_more)
      PROVE  Goal
  BY <1>8, LifeFinalize DEF Life!LifeNext
<1>9. ASSUME NEW c \in Campaigns, NEW signer \in Keys, CloseUnfinalizableCampaign(signer, c)
      PROVE  Goal
  BY <1>9, LifeClose DEF Life!LifeNext
<1>10. ASSUME NEW c \in Campaigns, NEW signer \in Keys, NEW u \in Users, NEW wallet \in Wallets,
              Claim(signer, c, u, wallet)
       PROVE  Goal
  BY <1>10, LifeClaim DEF Life!LifeNext
<1>11. ASSUME NEW c \in Campaigns, RefundUnclaimed(c) PROVE Goal
  BY <1>11, LifeRefund DEF Life!LifeNext
<1>12. ASSUME NEW c \in Campaigns, NEW wallet \in Wallets, NEW amount \in StrayAmounts,
              StrayTransfer(wallet, c, amount)
       PROVE  Goal
  BY <1>12, LifeStray DEF Life!LifeNext
<1> SUFFICES Goal
  OBVIOUS
<1> HIDE DEF Goal
<1>13. CASE Next
  BY <1>1, <1>13, <1>5, <1>6, <1>7, <1>8, <1>9, <1>10, <1>11, <1>12, StepCases, Zenon DEF Goal
<1> QED
  BY <1>4, <1>13 DEF Goal

\* What the backend relies on holds of the program: an escrow is emptied by the last
\* claim or by a refund and by nothing else, and a campaign is shared or abandoned
\* no earlier than its deadline.
THEOREM KeepsLifeCorrect == Spec => KeepsLife
<1>1. Init => Life!LifeInit
  BY LifeInitial
<1>2. IInv /\ [Next]_vars => [Life!LifeNext]_(Life!lifeVars)
  BY LifeStep
<1> QED
  BY <1>1, <1>2, InvariantHolds, PTL DEF Spec, KeepsLife, Life!LifeSpec

LEMMA LifeFunded ==
    ASSUME Life!OpenIsFunded, [Life!LifeNext]_(Life!lifeVars)
    PROVE  Life!OpenIsFunded'
<1> USE DEF Life!OpenIsFunded
<1>1. /\ DOMAIN statusNow = Campaigns /\ DOMAIN fundedNow = Campaigns
      /\ DOMAIN statusNow' = Campaigns /\ DOMAIN fundedNow' = Campaigns
  BY DEF statusNow, fundedNow
<1>2. CASE UNCHANGED Life!lifeVars
  BY <1>2 DEF Life!lifeVars
<1>3. CASE Life!TimePasses
  BY <1>3 DEF Life!TimePasses
<1>4. ASSUME NEW c \in Campaigns, Life!Open(c) \/ Life!TopUp(c) PROVE Life!OpenIsFunded'
  BY <1>1, <1>4 DEF Life!Open, Life!TopUp
<1>5. ASSUME NEW c \in Campaigns, Life!Share(c) PROVE Life!OpenIsFunded'
  BY <1>1, <1>5 DEF Life!Share
<1>6. ASSUME NEW c \in Campaigns, Life!PayLast(c) \/ Life!Abandon(c) \/ Life!Return(c)
      PROVE  Life!OpenIsFunded'
  BY <1>1, <1>6 DEF Life!PayLast, Life!Abandon, Life!Return
<1> QED
  BY <1>2, <1>3, <1>4, <1>5, <1>6, Zenon DEF Life!LifeNext

\* Until it is closed, a campaign has money in its escrow: the sponsor's refund of an
\* open campaign never fails for want of anything to send.  It follows from the life of
\* a campaign alone.
THEOREM OpenIsFundedCorrect == Spec => []Life!OpenIsFunded
<1>1. Life!LifeInit => Life!OpenIsFunded
  BY DEF Life!LifeInit, Life!OpenIsFunded
<1>2. Life!OpenIsFunded /\ [Life!LifeNext]_(Life!lifeVars) => Life!OpenIsFunded'
  BY LifeFunded
<1> QED
  BY <1>1, <1>2, KeepsLifeCorrect, PTL DEF KeepsLife, Life!LifeSpec

-----------------------------------------------------------------------------
(* The backend's payouts and the program's checks.                         *)

\* The backend's checks of a payout (Allocation), with the backend's constants; the
\* minimum is 50_000_000 lamports on either side (models.go and constants.rs).
Payout(pool) == INSTANCE Allocation WITH
    Full <- 10000, Word <- 2^32, Narrow <- 2^16, MaxRecipients <- 10,
    MinShare <- MinAllocationAmount, Pool <- pool

\* FinalizeCampaign sends a payout as one batch.
BatchOf(payout) == [u \in Users |-> IF u \in DOMAIN payout THEN payout[u] ELSE 0]

\* The campaign is due, nothing was shared out yet and the signer may do it.
Awaits(c, signer) ==
    /\ Running /\ signer = config.finalize_authority
    /\ campaigns[c].status = "active" /\ DeadlineReached(c)
    /\ campaigns[c].allocations_count = 0

\* The backend and the program agree on which payouts are good.
SameVerdict ==
    \A c \in Campaigns, signer \in Keys, known \in SUBSET Users :
        \A payout \in [known -> Nat \ {0}] :
            Awaits(c, signer) =>
                (AcceptsBatch(signer, c, BatchOf(payout), FALSE)
                    <=> Payout(campaigns[c].total_reward_amount)!Valid(payout, Users))

LEMMA PayoutTotal ==
    ASSUME NEW pool, NEW f
    PROVE  Payout(pool)!Total(f) = Total(f)
  BY Zenon DEF Payout!Total, Total, Payout!Units, Units, Payout!Cardinality, Cardinality

\* A batch has the payout's users and its total.
LEMMA BatchIsPayout ==
    ASSUME NEW known \in SUBSET Users, NEW payout \in [known -> Nat \ {0}]
    PROVE  /\ BatchOf(payout) \in [Users -> Nat]
           /\ \A u \in known : BatchOf(payout)[u] = payout[u]
           /\ Support(BatchOf(payout)) = known
           /\ Total(BatchOf(payout)) = Total(payout) /\ Total(payout) \in Nat
<1> DEFINE batch == BatchOf(payout)
<1>1. batch \in [Users -> Nat] /\ payout \in [known -> Nat] /\ known \subseteq Users
  BY DEF BatchOf
<1>2. /\ \A u \in known : batch[u] = payout[u] /\ batch[u] > 0
      /\ \A u \in Users \ known : batch[u] = 0
  BY DEF BatchOf
<1> HIDE DEF batch
<1>3. Support(batch) = known
  BY <1>1, <1>2 DEF Support
<1>4. \A p : p \in Units(batch) <=>
            \E x \in Users, i \in Nat : p = <<x, i>> /\ 1 <= i /\ i <= batch[x]
  BY <1>1, UnitsMembership
<1>5. \A p : p \in Units(payout) <=>
            \E x \in known, i \in Nat : p = <<x, i>> /\ 1 <= i /\ i <= payout[x]
  BY <1>1, UnitsMembership
<1>6. \A i \in Nat : ~(1 <= i /\ i <= 0)
  OBVIOUS
<1>7. Units(batch) = Units(payout)
  BY <1>1, <1>2, <1>4, <1>5, <1>6
<1>8. Total(payout) \in Nat
  BY <1>1, TotalType, AccountsAssumption, FS_Subset
<1> QED
  BY <1>1, <1>2, <1>3, <1>7, <1>8 DEF Total, batch

\* A campaign whose counter of shares is 0 has no record and has shared out nothing.
LEMMA NothingShared ==
    ASSUME IInv, NEW c \in Campaigns, campaigns[c].allocations_count = 0
    PROVE  /\ campaigns[c].allocated_amount = 0
           /\ \A u \in Users : records[c][u].amount = 0
<1> DEFINE shared == Amounts(records[c])
<1>1. shared \in [Users -> Nat] /\ \A u \in Users : shared[u] = records[c][u].amount
  BY RecordSums DEF IInv, TypeOK, Amounts
<1>2. /\ campaigns[c].allocated_amount = Total(shared)
      /\ Cardinality(Support(shared)) = 0
  BY DEF IInv, CampaignInv, Counted
<1> HIDE DEF shared
<1>3. Support(shared) = {u \in Users : shared[u] > 0} /\ IsFiniteSet(Support(shared))
  BY <1>1, SupportType, AccountsAssumption
<1>4. Support(shared) = {}
  BY <1>2, <1>3, FS_EmptySet
<1>5. \A u \in Users : shared[u] = 0
  BY <1>1, <1>3, <1>4
<1>6. Total(shared) = 0
  BY <1>1, <1>5, TotalZero, AccountsAssumption
<1> QED
  BY <1>1, <1>2, <1>5, <1>6

LEMMA VerdictsAgree ==
    ASSUME IInv, NEW c \in Campaigns, NEW signer \in Keys, NEW known \in SUBSET Users,
           NEW payout \in [known -> Nat \ {0}], Awaits(c, signer)
    PROVE  AcceptsBatch(signer, c, BatchOf(payout), FALSE)
              <=> Payout(campaigns[c].total_reward_amount)!Valid(payout, Users)
<1> DEFINE batch == BatchOf(payout)
           pool == campaigns[c].total_reward_amount
<1>1. pool \in Nat
  BY DEF IInv, TypeOK, Campaign
<1>2. campaigns[c].allocated_amount = 0 /\ \A u \in Users : records[c][u].amount = 0
  BY NothingShared DEF Awaits
<1>3. /\ \A u \in known : batch[u] = payout[u]
      /\ Support(batch) = known /\ Total(batch) = Total(payout) /\ Total(payout) \in Nat
  BY BatchIsPayout
<1>4. Payout(pool)!Valid(payout, Users) <=>
          /\ known # {} /\ \A u \in known : payout[u] >= MinAllocationAmount
          /\ Total(payout) = pool
  BY PayoutTotal DEF Payout!Valid
<1> HIDE DEF batch, pool
<1>5. RecordsAreFree(c, batch)
  BY <1>2, <1>3 DEF RecordsAreFree
<1>6. ValidBatch(batch) <=> known # {} /\ \A u \in known : payout[u] >= MinAllocationAmount
  BY <1>3 DEF ValidBatch
<1>7. FitsReward(c, campaigns[c].allocated_amount + Total(batch), FALSE)
          <=> Total(payout) = pool
  <2>1. campaigns[c].allocated_amount + Total(batch) = Total(payout)
    BY <1>2, <1>3
  <2> QED
    BY <1>1, <1>3, <2>1 DEF FitsReward, pool
<1>8. AcceptsBatch(signer, c, batch, FALSE) <=>
          /\ ValidBatch(batch)
          /\ FitsReward(c, campaigns[c].allocated_amount + Total(batch), FALSE)
  BY <1>5 DEF AcceptsBatch, Awaits
<1>9. AcceptsBatch(signer, c, batch, FALSE) <=> Payout(pool)!Valid(payout, Users)
  BY <1>4, <1>6, <1>7, <1>8
<1> QED
  BY <1>9 DEF batch, pool

\* A payout the backend finds good is never turned down by the program once its campaign
\* is due, and the program would take no other: the shares the worker and the handlers
\* compute, check and keep can all be committed, in the one batch they are sent in.
THEOREM SameVerdictCorrect == Spec => []SameVerdict
<1>1. IInv => SameVerdict
  BY VerdictsAgree DEF SameVerdict
<1> QED
  BY <1>1, InvariantHolds, PTL

-----------------------------------------------------------------------------
(* The shares of one campaign.                                             *)

LEMMA SharesInitial == ASSUME NEW c \in Campaigns, Init PROVE Shares(c)!ShareInit
<1>1. campaigns[c].status = "none" /\ \A u \in Users : ~records[c][u].claimed
  BY DEF Init, NoCampaign, NoRecord
<1> QED
  BY <1>1 DEF Shares!ShareInit, Shares!Nobody, PaidOf, UnpaidOf

\* A step that leaves a campaign's accounts and the clock alone leaves its shares alone.
LEMMA SharesFrame ==
    ASSUME NEW c \in Campaigns, now' = now,
           campaigns'[c] = campaigns[c], records'[c] = records[c]
    PROVE  UNCHANGED Shares(c)!shareVars
  BY DEF Shares!shareVars, PaidOf, UnpaidOf, ClaimWindowOpen, Claimable

\* Nothing may be claimed of a campaign that is not finalized.
LEMMA SharesClosed ==
    ASSUME NEW c \in Campaigns, now' = now, records'[c] = records[c],
           UnpaidOf(c) = {}, campaigns'[c].status # "finalized"
    PROVE  UNCHANGED Shares(c)!shareVars
  BY DEF Shares!shareVars, PaidOf, UnpaidOf

LEMMA SharesFinalize ==
    ASSUME IInv, IInv', NEW signer \in Keys, NEW c \in Campaigns,
           NEW batch \in [Users -> Nat], NEW has_more \in BOOLEAN,
           FinalizeCampaignBatch(signer, c, batch, has_more)
    PROVE  Shares(c)!ShareNext \/ UNCHANGED Shares(c)!shareVars
<1> DEFINE open == {u \in Users : Claimable(c, u)'}
<1>1. /\ TypeOK /\ campaigns[c] \in Campaign /\ campaigns[c].status = "active"
      /\ now' = now /\ ValidBatch(batch)
      /\ campaigns'[c].status = IF has_more THEN "active" ELSE "finalized"
      /\ records'[c] = [u \in Users |-> IF u \in Support(batch)
                                        THEN [NoRecord EXCEPT !.amount = batch[u]]
                                        ELSE records[c][u]]
  BY DEF IInv, TypeOK, FinalizeCampaignBatch, AcceptsBatch, Campaign
<1>2. \A u \in Users : ~records[c][u].claimed
  BY <1>1 DEF IInv, CampaignInv, Funded
<1>3. \A u \in Users : ~records'[c][u].claimed
  BY <1>1, <1>2 DEF NoRecord
<1>4. PaidOf(c) = Shares(c)!Nobody /\ PaidOf(c)' = Shares(c)!Nobody
  BY <1>2, <1>3 DEF PaidOf, Shares!Nobody
<1>5. UnpaidOf(c) = {}
  BY <1>1 DEF UnpaidOf
<1>6. UnpaidOf(c)' = {} => UNCHANGED Shares(c)!shareVars
  BY <1>4, <1>5 DEF Shares!shareVars
<1>7. CASE ~has_more /\ ClaimWindowOpen(c)'
  <2>1. UnpaidOf(c)' = open
    BY <1>1, <1>7 DEF UnpaidOf
  <2>2. open # {} /\ open \in SUBSET Users
    <3>1. PICK u \in Users : u \in Support(batch)
      BY <1>1 DEF ValidBatch, Support
    <3>2. batch[u] > 0
      BY <3>1 DEF Support
    <3>3. records'[c][u].amount = batch[u] /\ ~records'[c][u].claimed
      BY <1>1, <3>1 DEF NoRecord
    <3> QED
      BY <3>2, <3>3 DEF Claimable
  <2> HIDE DEF open
  <2>3. Shares(c)!Fix(open)
    BY <1>4, <1>5, <2>1, <2>2 DEF Shares!Fix
  <2> QED
    BY <2>2, <2>3 DEF Shares!ShareNext
<1>8. CASE has_more \/ ~ClaimWindowOpen(c)'
  BY <1>1, <1>6, <1>8 DEF UnpaidOf
<1> QED
  BY <1>7, <1>8

LEMMA SharesClaim ==
    ASSUME IInv, IInv', NEW signer \in Keys, NEW c \in Campaigns, NEW u \in Users,
           NEW wallet \in Wallets, Claim(signer, c, u, wallet)
    PROVE  Shares(c)!ShareNext
<1> DEFINE after == records'[c]
<1>1. /\ TypeOK /\ campaigns[c] \in Campaign /\ campaigns[c].status = "finalized"
      /\ now' = now /\ ClaimWindowOpen(c) /\ Claimable(c, u)
      /\ campaigns'[c].status \in {"finalized", "closed"}
      /\ campaigns'[c].claim_deadline_at = campaigns[c].claim_deadline_at
      /\ records[c] \in [Users -> ClaimRecord] /\ after \in [Users -> ClaimRecord]
  BY DEF IInv, TypeOK, Claim, Campaign
<1>2. /\ after[u].claimed /\ after[u].claimed_to_wallet = wallet
      /\ \A v \in Users \ {u} : after[v] = records[c][v]
  BY <1>1 DEF Claim, TypeOK, ClaimRecord
<1>3. ClaimWindowOpen(c)'
  BY <1>1 DEF ClaimWindowOpen
<1>4. UnpaidOf(c) = {v \in Users : Claimable(c, v)}
  BY <1>1 DEF UnpaidOf
<1>5. {v \in Users : Claimable(c, v)'} = UnpaidOf(c) \ {u}
  BY <1>2, <1>4 DEF Claimable
<1>6. UnpaidOf(c)' = UnpaidOf(c) \ {u}
  <2>1. CASE campaigns'[c].status = "finalized"
    BY <1>3, <1>5, <2>1 DEF UnpaidOf
  <2>2. CASE campaigns'[c].status = "closed"
    <3>1. \A v \in Users : ~Claimable(c, v)'
      BY <1>3, <2>2 DEF IInv, CampaignInv, Settled, ClaimWindowOpen
    <3>2. UnpaidOf(c)' = {}
      BY <2>2 DEF UnpaidOf
    <3> QED
      BY <1>5, <3>1, <3>2
  <2> QED
    BY <1>1, <2>1, <2>2
<1>7. PaidOf(c)' = [PaidOf(c) EXCEPT ![u] = wallet]
  BY <1>2 DEF PaidOf
<1>8. u \in UnpaidOf(c)
  BY <1>1, <1>4
<1>9. Shares(c)!Pay(u, wallet)
  BY <1>6, <1>7, <1>8 DEF Shares!Pay
<1> QED
  BY <1>9 DEF Shares!ShareNext

LEMMA SharesRefund ==
    ASSUME IInv, NEW c \in Campaigns, RefundUnclaimed(c)
    PROVE  UNCHANGED Shares(c)!shareVars
<1>1. /\ TypeOK /\ campaigns'[c].status = "closed" /\ now' = now /\ records' = records
      /\ now > campaigns[c].claim_deadline_at
      /\ now \in Nat /\ campaigns[c].claim_deadline_at \in Nat
  BY DEF IInv, TypeOK, RefundUnclaimed, Refundable, Campaign
<1>2. UnpaidOf(c) = {}
  BY <1>1 DEF UnpaidOf, ClaimWindowOpen
<1> QED
  BY <1>1, <1>2, SharesClosed

LEMMA SharesTick ==
    ASSUME IInv, NEW c \in Campaigns, Tick
    PROVE  Shares(c)!ShareNext \/ UNCHANGED Shares(c)!shareVars
<1>1. /\ now' = now + 1 /\ campaigns' = campaigns /\ records' = records
      /\ now \in Nat /\ campaigns[c].claim_deadline_at \in Nat
  BY DEF IInv, TypeOK, Tick, Campaign
<1>2. PaidOf(c)' = PaidOf(c)
  BY <1>1 DEF PaidOf
<1>3. CASE ClaimWindowOpen(c)'
  <2>1. ClaimWindowOpen(c)
    BY <1>1, <1>3 DEF ClaimWindowOpen
  <2>2. UnpaidOf(c)' = UnpaidOf(c)
    BY <1>1, <1>3, <2>1 DEF UnpaidOf, Claimable
  <2> QED
    BY <1>2, <2>2 DEF Shares!shareVars
<1>4. CASE ~ClaimWindowOpen(c)'
  <2>1. UnpaidOf(c)' = {}
    BY <1>4 DEF UnpaidOf
  <2>2. CASE UnpaidOf(c) = {}
    BY <1>2, <2>1, <2>2 DEF Shares!shareVars
  <2>3. CASE UnpaidOf(c) # {}
    BY <1>2, <2>1, <2>3 DEF Shares!End, Shares!ShareNext
  <2> QED
    BY <2>2, <2>3
<1> QED
  BY <1>3, <1>4

LEMMA SharesStep ==
    ASSUME IInv, IInv', [Next]_vars, NEW c \in Campaigns
    PROVE  [Shares(c)!ShareNext]_(Shares(c)!shareVars)
<1>1. TypeOK
  BY DEF IInv
<1> DEFINE Same == UNCHANGED Shares(c)!shareVars
           Goal == Shares(c)!ShareNext \/ Same
<1>2. now' = now /\ campaigns'[c] = campaigns[c] /\ records'[c] = records[c] => Same
  BY SharesFrame
<1>3. CASE UNCHANGED vars
  BY <1>2, <1>3 DEF vars
<1>4. CASE Administer \/ Pause
  BY <1>1, <1>2, <1>4, AdminType
<1>5. CASE Tick
  BY <1>5, SharesTick
<1>6. ASSUME NEW d \in Campaigns, NEW treasury \in Wallets, NEW reward \in Nat,
             NEW deadline \in Nat, CreateCampaignWithDeposit(d, treasury, reward, deadline)
      PROVE  Goal
  <2>1. CASE d # c
    BY <1>1, <1>2, <1>6, <2>1 DEF CreateCampaignWithDeposit, TypeOK
  <2>2. CASE d = c
    <3>1. campaigns[c].status = "none" /\ campaigns'[c].status = "active"
      BY <1>1, <1>6, <2>2 DEF CreateCampaignWithDeposit, NoCampaign, TypeOK
    <3>2. UnpaidOf(c) = {}
      BY <3>1 DEF UnpaidOf
    <3> QED
      BY <1>6, <3>1, <3>2, SharesClosed DEF CreateCampaignWithDeposit
  <2> QED
    BY <2>1, <2>2
<1>7. ASSUME NEW d \in Campaigns, NEW signer \in Keys, NEW batch \in [Users -> Nat],
             NEW has_more \in BOOLEAN, FinalizeCampaignBatch(signer, d, batch, has_more)
      PROVE  Goal
  <2>1. CASE d # c
    BY <1>1, <1>2, <1>7, <2>1 DEF FinalizeCampaignBatch, TypeOK
  <2>2. CASE d = c
    BY <1>7, <2>2, SharesFinalize
  <2> QED
    BY <2>1, <2>2
<1>8. ASSUME NEW d \in Campaigns, NEW signer \in Keys, CloseUnfinalizableCampaign(signer, d)
      PROVE  Goal
  <2>1. CASE d # c
    BY <1>1, <1>2, <1>8, <2>1 DEF CloseUnfinalizableCampaign, TypeOK
  <2>2. CASE d = c
    <3>1. campaigns[c].status = "active" /\ campaigns'[c].status = "closed"
      BY <1>1, <1>8, <2>2 DEF CloseUnfinalizableCampaign, MayClose, TypeOK, Campaign
    <3>2. UnpaidOf(c) = {}
      BY <3>1 DEF UnpaidOf
    <3> QED
      BY <1>8, <3>1, <3>2, SharesClosed DEF CloseUnfinalizableCampaign
  <2> QED
    BY <2>1, <2>2
<1>9. ASSUME NEW d \in Campaigns, NEW signer \in Keys, NEW u \in Users, NEW wallet \in Wallets,
             Claim(signer, d, u, wallet)
      PROVE  Goal
  <2>1. CASE d # c
    <3>1. now' = now /\ campaigns'[c] = campaigns[c] /\ records'[c] = records[c]
      BY <1>1, <1>9, <2>1 DEF Claim, TypeOK
    <3> QED
      BY <1>2, <3>1
  <2>2. CASE d = c
    BY <1>9, <2>2, SharesClaim
  <2> QED
    BY <2>1, <2>2
<1>10. ASSUME NEW d \in Campaigns, RefundUnclaimed(d) PROVE Goal
  <2>1. CASE d # c
    BY <1>1, <1>2, <1>10, <2>1 DEF RefundUnclaimed, TypeOK
  <2>2. CASE d = c
    BY <1>10, <2>2, SharesRefund
  <2> QED
    BY <2>1, <2>2
<1>11. ASSUME NEW d \in Campaigns, NEW wallet \in Wallets, NEW amount \in StrayAmounts,
              StrayTransfer(wallet, d, amount)
       PROVE  Goal
  BY <1>2, <1>11 DEF StrayTransfer
<1> SUFFICES Goal
  OBVIOUS
<1> HIDE DEF Goal
<1>12. CASE Next
  BY <1>1, <1>12, <1>4, <1>5, <1>6, <1>7, <1>8, <1>9, <1>10, <1>11, StepCases, Zenon DEF Goal
<1> QED
  BY <1>3, <1>12 DEF Goal

\* What the backend's claims rely on holds of the program: of every campaign the shares
\* are fixed by one instruction, before anybody is paid; each is paid at most once, to one
\* wallet; no instruction takes a share back, and only the end of the claim window ends
\* the unpaid ones, all of them at once.
THEOREM KeepsSharesCorrect == Spec => KeepsShares
<1>1. Init => \A c \in Campaigns : Shares(c)!ShareInit
  BY SharesInitial
<1>2. IInv /\ IInv' /\ [Next]_vars =>
          [\A c \in Campaigns : [Shares(c)!ShareNext]_(Shares(c)!shareVars)]_vars
  BY SharesStep
<1> QED
  BY <1>1, <1>2, InvariantHolds, PTL DEF Spec, KeepsShares

-----------------------------------------------------------------------------
(* The standing of one campaign, a closer look at its life.                *)

LEMMA StandingInitial == ASSUME NEW c \in Campaigns, Init PROVE Standing(c)!StatusInit
<1>1. campaigns[c].status = "none"
  BY DEF Init, NoCampaign
<1> QED
  BY <1>1 DEF Standing!StatusInit, DueOf, StatusOf

LEMMA StandingStep ==
    ASSUME IInv, IInv', [Life!LifeNext]_(Life!lifeVars), NEW c \in Campaigns
    PROVE  [Standing(c)!StatusNext]_(Standing(c)!statusVars)
<1> DEFINE was == campaigns[c].status
           is == campaigns'[c].status
           deadline == campaigns[c].deadline_at
           deadlineAfter == campaigns'[c].deadline_at
           Same == UNCHANGED Standing(c)!statusVars
           Goal == Standing(c)!StatusNext \/ Same
<1>1. /\ statusNow[c] = was /\ statusNow'[c] = is
      /\ deadlineNow[c] = deadline /\ deadlineNow'[c] = deadlineAfter
      /\ DOMAIN statusNow = Campaigns /\ DOMAIN deadlineNow = Campaigns
  BY DEF statusNow, deadlineNow
<1>2. /\ now \in Nat /\ now' \in Nat /\ deadline \in Nat /\ deadlineAfter \in Nat
      /\ was \in Statuses /\ is \in Statuses /\ ClaimWindow \in Nat
      /\ MinDeadline \in Nat \ {0}
  BY ConstantsAssumption DEF IInv, TypeOK, Campaign
<1>3. /\ DueOf(c) <=> was # "none" /\ now >= deadline
      /\ DueOf(c)' <=> is # "none" /\ now' >= deadlineAfter
      /\ DueOf(c) \in BOOLEAN /\ DueOf(c)' \in BOOLEAN
      /\ StatusOf(c) = IF was = "none" THEN "active" ELSE was
      /\ StatusOf(c)' = IF is = "none" THEN "active" ELSE is
  BY DEF DueOf, StatusOf, DeadlineReached
<1>a. was = "finalized" => now >= deadline
  BY DEF IInv, CampaignInv, Settled
<1> HIDE DEF was, is, deadline, deadlineAfter
<1>4. is = was /\ deadlineAfter = deadline /\ now' = now => Same
  BY <1>3, Zenon DEF Standing!statusVars
<1>5. ASSUME was = "active", is = "finalized", deadlineAfter = deadline, now' = now,
             now >= deadline
      PROVE  Goal
  BY <1>3, <1>5 DEF Standing!Settle, Standing!StatusNext
<1>6. ASSUME was # "none", is = "closed", deadlineAfter = deadline, now' = now, now >= deadline
      PROVE  Goal
  <2>1. CASE was = "closed"
    BY <1>4, <1>6, <2>1
  <2>2. CASE was # "closed"
    BY <1>3, <1>6, <2>2 DEF Standing!Finish, Standing!StatusNext
  <2> QED
    BY <2>1, <2>2
<1>7. CASE UNCHANGED Life!lifeVars
  BY <1>1, <1>4, <1>7 DEF Life!lifeVars
<1>8. CASE Life!TimePasses
  <2>1. is = was /\ deadlineAfter = deadline /\ now' = now + 1
    BY <1>1, <1>8 DEF Life!TimePasses
  <2>2. StatusOf(c)' = StatusOf(c) /\ (DueOf(c) => DueOf(c)')
    BY <1>2, <1>3, <2>1
  <2>3. CASE DueOf(c)' = DueOf(c)
    BY <2>2, <2>3 DEF Standing!statusVars
  <2>4. CASE DueOf(c)' # DueOf(c)
    BY <1>3, <2>2, <2>4 DEF Standing!Lapse, Standing!StatusNext
  <2> QED
    BY <2>3, <2>4
<1>9. ASSUME NEW d \in Campaigns,
             Life!Open(d) \/ Life!Share(d) \/ Life!PayLast(d) \/ Life!Abandon(d) \/ Life!Return(d)
                 \/ Life!TopUp(d)
      PROVE  Goal
  <2>1. CASE d # c
    <3>1. statusNow'[c] = statusNow[c] /\ deadlineNow'[c] = deadlineNow[c] /\ now' = now
      BY <1>1, <1>9, <2>1
         DEF Life!Open, Life!Share, Life!PayLast, Life!Abandon, Life!Return, Life!TopUp
    <3> QED
      BY <1>1, <1>4, <3>1
  <2>2. CASE d = c /\ Life!Open(d)
    <3>1. was = "none" /\ is = "active" /\ now' = now /\ deadlineAfter >= now + MinDeadline
      BY <1>1, <2>2 DEF Life!Open
    <3>2. ~(now >= deadlineAfter)
      BY <1>2, <3>1
    <3> QED
      BY <1>3, <3>1, <3>2 DEF Standing!statusVars
  <2>3. CASE d = c /\ Life!Share(d)
    BY <1>1, <1>5, <2>3 DEF Life!Share, Life!Due
  <2>4. CASE d = c /\ Life!Abandon(d)
    BY <1>1, <1>6, <2>4 DEF Life!Abandon, Life!Due
  <2>5. CASE d = c /\ Life!PayLast(d)
    <3>1. was = "finalized" /\ is = "closed" /\ deadlineAfter = deadline /\ now' = now
      BY <1>1, <2>5 DEF Life!PayLast
    <3> QED
      BY <1>6, <1>a, <3>1
  <2>6. CASE d = c /\ Life!Return(d)
    <3>1. /\ was # "none" /\ is = "closed" /\ deadlineAfter = deadline /\ now' = now
          /\ now > deadline + ClaimWindow
      BY <1>1, <2>6 DEF Life!Return, Life!Expired
    <3>2. now >= deadline
      BY <1>2, <3>1
    <3> QED
      BY <1>6, <3>1, <3>2
  <2>7. CASE d = c /\ Life!TopUp(d)
    BY <1>1, <1>4, <2>7 DEF Life!TopUp
  <2> QED
    BY <1>9, <2>1, <2>2, <2>3, <2>4, <2>5, <2>6, <2>7
<1> SUFFICES Goal
  OBVIOUS
<1> HIDE DEF Goal
<1> QED
  BY <1>7, <1>8, <1>9, Zenon DEF Life!LifeNext, Goal

\* What the backend's finalization relies on holds of the program: a campaign is neither
\* shared out nor closed before its deadline, it is shared out at most once, and it is
\* never reopened.
THEOREM KeepsStatusCorrect == Spec => KeepsStatus
<1>1. Init => \A c \in Campaigns : Standing(c)!StatusInit
  BY StandingInitial
<1>2. IInv /\ IInv' /\ [Next]_vars =>
          [\A c \in Campaigns : [Standing(c)!StatusNext]_(Standing(c)!statusVars)]_vars
  BY LifeStep, StandingStep
<1> QED
  BY <1>1, <1>2, InvariantHolds, PTL DEF Spec, KeepsStatus
=============================================================================
