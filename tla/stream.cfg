SPECIFICATION StrFairSpec
CONSTANTS
    NTask = 2
    NBoot = 1
    Secs = {}
    JoinSecs = {}
    MaxNow = 1
    Killers = {}
    Reapers = {}
    Joiners = {}
    Obj = {"channel"}
    RBufSiz = 2
    Reqs <- LineOrTwo
    WriteSizes = {2}
    RdSecs <- NeverOrTick
    WrSecs <- ZeroOrTick
    Newlines = {2}
    MaxByte = 3
    Room = 1
    Pipe = FALSE
INVARIANTS StateTrue NoStall
PROPERTIES IsStream WaitsEnd
