SPECIFICATION Spec
CONSTANTS
    NoWallet = NoWallet
    NoProcess = NoProcess
    NoRequest = NoRequest
    Handlers = {h1, h2}
    Readers = {}
    Users = {u1, u2}
    Wallets = {w1, w2}
    Challenges = {c1, c2}
    Kinds = {"challenge", "claim", "confirm"}
    MaxRestarts = 1
    MayFail = {TRUE}
INVARIANTS TypeOK OneTxPerChallenge PaidToProvenWallet ShownIsPaid
SYMMETRY ClaimSymmetry
