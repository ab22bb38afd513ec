SPECIFICATION FairSpec
CONSTANTS
    Worker = worker
    NoAlloc = NoAlloc
    Requests = {}
    Readers = {}
    Valid = {a}
    Invalid = {}
    MaxRetries = 1
    MaxRestarts = 0
    Faults = {"drop"}
    Listed = {TRUE}
PROPERTIES EndsFinalizedOrInReview
