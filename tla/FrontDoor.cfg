SPECIFICATION FairSpec
CONSTANTS
    Requests = {r1, r2}
    Clients = {c1, c2}
    NoClient = NoClient
    Buckets = {b1, b2, b3}
    NoBucket = NoBucket
    Burst = 2
    Rate = 2
    Idle = 1
    Pause = 1
    States = {s1, s2}
    StateLife = 0
    Accounts = {a}
    NoAccount = NoAccount
    NoAge = NoAge
    TokenLife = 0
    MaxRestarts = 1
INVARIANTS TypeOK TokensAreHonoured
PROPERTIES KeepsLimit IdleClientsForgotten OneSignInPerState
