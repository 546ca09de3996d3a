SPECIFICATION FairSpec
CONSTANTS
    NTask = 3
    NBoot = 1
    Secs <- Ticks
    JoinSecs <- ForeverAndTick
    MaxNow = 2
    Killers = {}
    Reapers = {2}
    Joiners = {1, 2}
    Obj = {}
INVARIANTS JoinNotStranded JoinExact
PROPERTIES JoinsReturn TimedWaitsEnd
