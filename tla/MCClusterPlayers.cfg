SPECIFICATION Spec
CONSTANTS
    c1 = c1
    Shards = {1, 2}
    Chars = {c1}
    MaxClock = 3
    MaxSuspicions = 1
    MaxTasks = 0
    MaxJoins = 2
INVARIANTS TypeOK OwnShardActive MasterIsActive
CHECK_DEADLOCK FALSE
