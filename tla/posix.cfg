SPECIFICATION Spec
CONSTANTS
    Sig = {chld, prof}
    Chld = chld
    QueueMax = 2
    Pid = {p1, p2}
    MaxSent = 2
    Chunk = 2
    Nreqs <- AllOrOne
    Lengths = {2}
    MaxByte = 2
    Room = 1
INVARIANTS IoExact QueueHooked NoZombies
SYMMETRY Children
CHECK_DEADLOCK FALSE
