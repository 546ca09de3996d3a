SPECIFICATION SslSpec
CONSTANTS
    NTask = 2
    NBoot = 1
    Secs = {}
    JoinSecs = {}
    MaxNow = 1
    Killers = {}
    Reapers = {}
    Joiners = {}
    Obj = {"channel"}
    RBUFSIZ = 2
    Room = 1
    ch_rbufsiz = 1
    Reqs <- LineOrOne
    WriteSizes = {1}
    ReadSecs <- Never
    WriteSecs <- Never
    SetupSecs <- NeverOrTick
    CloseSecs <- Never
    Newlines = {2}
    MaxByte = 2
INVARIANTS NoTlsStall SessionWithSocket
PROPERTIES IsTlsStream
