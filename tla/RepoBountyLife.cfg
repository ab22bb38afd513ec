SPECIFICATION FairSpec
CONSTANTS
    sponsor = sponsor
    NoWallet = NoWallet
    NoKey = NoKey
    Campaigns = {c1}
    Users = {u1, u2}
    Wallets = {sponsor, dev}
    Keys = {key}
    SponsorOf <- OneSponsor
    InitialLamports <- Balances
    MinCampaignAmount = 4
    MinAllocationAmount = 2
    MinDeadline = 1
    MaxDeadline = 2
    ClaimWindow = 2
    FeeNumerator = 2
    FeeDenominator = 5
    MinServiceFee = 1
    MaxReward = 5
    MaxTime = 6
    StrayAmounts = {1}
    MaxStray = 3
INVARIANTS TypeOK CountersMatchRecords Solvent EarlyClosureOwesNothing
PROPERTIES SharesPersist PauseFreezesCampaigns KeepsLife KeepsShares EscrowsDrain
CHECK_DEADLOCK FALSE
