SPECIFICATION FairSpec
CONSTANTS
    Jobs = {j}
    WebThreads = {w}
    MainSleep = 1
    MaxTasksPerCycle = 1
    MaxTime = 5
    MaxTasks = 3
    MaxPosts = 1
INVARIANTS
    TypeOK
    NoOversleep
PROPERTIES
    CancelIsExact
    EveryTimerLeaves
CHECK_DEADLOCK FALSE
