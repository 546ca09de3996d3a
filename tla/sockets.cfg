SPECIFICATION SockSpec
CONSTANTS
    NTask = 2
    NBoot = 2
    Secs = {}
    JoinSecs = {}
    MaxNow = 1
    Killers = {2}
    Reapers = {}
    Joiners = {}
    Obj = {"server", "dgram"}
    Backlog = 2
    AcceptSecs = {0, 1}
    RecvSecs <- Never
    MaxConn = 2
    MaxDgram = 2
INVARIANTS NoSocketStall WokenForSomething
