SPECIFICATION Spec
CONSTANTS
    Shards = {s1, s2}
    Clients = 1
    MaxSims = 2
    MaxTransfers = 1
    MaxChanges = 1
PROPERTY TransferUpToDate
CHECK_DEADLOCK FALSE
