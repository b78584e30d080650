SPECIFICATION Spec
CONSTANTS
    Requests <- AllRequests
    Minute = 2
    Grace = 1
    MaxTime = 30
INVARIANTS TypeOK RestartsWhenAnnounced CountdownCancellable
CHECK_DEADLOCK FALSE
