SPECIFICATION FairSpec
CONSTANTS
    Worker = worker
    NoAlloc = NoAlloc
    Requests = {}
    Readers = {reader}
    Valid = {a, b}
    Invalid = {x}
    MaxRetries = 3
    MaxRestarts = 1
    Faults = {"github", "compute", "rpc", "unheard", "drop"}
    Listed = {TRUE, FALSE}
INVARIANTS ShownIsOnChain
PROPERTIES Settles StoreCatchesUp
