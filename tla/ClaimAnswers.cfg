SPECIFICATION FairSpec
CONSTANTS
    NoWallet = NoWallet
    NoProcess = NoProcess
    NoRequest = NoRequest
    Handlers = {h1, h2}
    Readers = {reader}
    Users = {u}
    Wallets = {w1, w2}
    Challenges = {c1}
    Kinds = {"challenge", "claim", "confirm"}
    MaxRestarts = 1
    MayFail = {TRUE}
PROPERTIES EveryRequestIsAnswered
