SPECIFICATION Spec
CONSTANTS
    Users = {1, 2, 5}
    PRs = {1, 3}
    AuthorOf <- AuthorOfPR2
    Ghost = 0
    Committers = {1, 2}
    PageSize = 2
    MaxAttempts = 1
    MaxParallel = 2
    MaxChanges = 0
    Full = 20
    Word = 2048
    Narrow = 32
    MaxRecipients = 3
    MinShare = 3
    Pool = 31
    CommitsOf <- CommitsOfUser2
    DiffWeight <- WeightOfPR2
    Answers = {}
INVARIANTS FallsBackToMetrics
CHECK_DEADLOCK FALSE
