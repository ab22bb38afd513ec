SPECIFICATION Spec
CONSTANTS
    Worker = worker
    NoAlloc = NoAlloc
    Requests = {request}
    Readers = {reader}
    Valid = {a}
    Invalid = {x}
    MaxRetries = 1
    MaxRestarts = 0
    Faults = {"github", "compute", "rpc", "unheard", "drop"}
    Listed = {TRUE}
INVARIANTS TypeOK RowIsHonest OnlyValidOnChain
