SPECIFICATION ChFairSpec
CONSTANTS
    NTask = 3
    NBoot = 2
    Secs = {}
    JoinSecs = {}
    MaxNow = 1
    Killers = {}
    Reapers = {}
    Joiners = {}
    Obj = {"channel"}
    Caps = {0, 2}
    ChSecs <- NeverOrTick
    MaxMsg = 3
INVARIANTS NoStranded UnlinkOnlyQueued OnTheWay
PROPERTIES IsFifo CloseEndsAll
