SPECIFICATION FairSpec
CONSTANTS
    c1 = c1
    Shards = {1, 2}
    Chars = {}
    MaxClock = 5
    MaxSuspicions = 1
    MaxTasks = 1
    MaxJoins = 0
PROPERTIES ElectionSettles
CHECK_DEADLOCK FALSE
