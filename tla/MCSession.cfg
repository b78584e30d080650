SPECIFICATION Spec
CONSTANTS
    Shards = {s1, s2}
    Clients = 2
    MaxSims = 2
    MaxTransfers = 1
    MaxChanges = 1
INVARIANTS TypeOK SessionsMatch AtMostOnePlaying
PROPERTY SessionReturned
CHECK_DEADLOCK FALSE
