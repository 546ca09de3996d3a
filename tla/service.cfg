SPECIFICATION SvcFairSpec
CONSTANTS
    NTask = 3
    NBoot = 2
    Secs = {1}
    JoinSecs = {}
    MaxNow = 2
    Killers = {}
    Reapers = {}
    Joiners = {}
    Obj = {"a"}
    Svc = {"a"}
    svc_owner <- OneOwner
    ReqSecs <- NeverOrTick
    MaxReq = 4
    MaxOwn = 2
    Retry = FALSE
    Failing = {1}
INVARIANTS RightAnswer NoLostRequest OwnerWillWake
PROPERTY RequestsEnd
