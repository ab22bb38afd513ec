SPECIFICATION FairSpec
CONSTANTS
    Campaigns = {c}
    Handlers = {h1, h2}
    Repos = {r1, r2}
    Deadlines = {3, 4}
    IdOf <- MCIdOf
    NoCampaign = NoCampaign
    NoRepo = NoRepo
    NoTerms = NoTerms
    OtherRefund = other
    MinDeadline = 2
    ClaimWindow = 1
    Lead = 2
    Timeout = 1
    MaxTime = 6
    MaxRestarts = 1
INVARIANTS TypeOK RowIsTrue ConfirmErasesNothing BuiltRefundPays
PROPERTIES ClosedIsShown
CHECK_DEADLOCK FALSE
