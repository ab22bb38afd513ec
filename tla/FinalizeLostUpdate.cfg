SPECIFICATION Spec
CONSTANTS
    Worker = worker
    NoAlloc = NoAlloc
    Requests = {}
    Readers = {reader}
    Valid = {a}
    Invalid = {}
    MaxRetries = 3
    MaxRestarts = 0
    Faults = {}
    Listed = {TRUE}
INVARIANTS ResultIsStored
