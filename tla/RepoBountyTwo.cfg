SPECIFICATION Spec
CONSTANTS
    sponsor = sponsor
    NoWallet = NoWallet
    NoKey = NoKey
    Campaigns = {c1, c2}
    Users = {u1, u2}
    Wallets = {sponsor}
    Keys = {k1, k2}
    SponsorOf <- OneSponsor
    InitialLamports <- TwoBalances
    MinCampaignAmount = 4
    MinAllocationAmount = 2
    MinDeadline = 1
    MaxDeadline = 2
    ClaimWindow = 1
    FeeNumerator = 2
    FeeDenominator = 5
    MinServiceFee = 1
    MaxReward = 4
    MaxTime = 5
    StrayAmounts = {}
    MaxStray = 3
PROPERTIES KeepsPromise
CHECK_DEADLOCK FALSE
SYMMETRY UserKeySymmetry
