SPECIFICATION FairSpec
CONSTANTS
    NTask = 3
    NBoot = 1
    Secs <- ForeverAndTick
    JoinSecs <- ForeverAndTick
    MaxNow = 1
    Killers = {1, 2}
    Reapers = {1}
    Joiners = {1}
    Obj = {}
INVARIANTS TypeOK ListsMatch OnePlace SignalsPending StartOrder PollOnlyWhenIdle
PROPERTIES ReadyTasksRun SignalsHandled
