SPECIFICATION FairSpec
CONSTANTS
    Users = {1, 2, 3, 4, 5}
    PRs = {1, 2, 3, 4}
    AuthorOf <- AuthorOfPR
    Ghost = 0
    Committers = {1, 2, 3, 4}
    PageSize = 2
    MaxAttempts = 2
    MaxParallel = 2
    MaxChanges = 2
    Full = 20
    Word = 2048
    Narrow = 32
    MaxRecipients = 3
    MinShare = 3
    Pool = 31
    CommitsOf <- CommitsOfUser
    DiffWeight <- WeightOfPR
    Answers <- SomeAnswers
INVARIANTS TypeOK EachContributorOnce NoneOverlooked NoDiffMixedUp NeverSentToReview NobodyLoses SharesFollowWeights OnlyStrangersRefused
PROPERTIES FetchEnds
CHECK_DEADLOCK FALSE
