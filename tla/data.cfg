SPECIFICATION DataSpec
CONSTANTS
    minsiz = 3
    AbsSmall = 1
    MaxMem = 6
    Junk = 127
    Orders = {TRUE}
    Views = 1
    Str <- MCStr
    Val = {16843009}
    Num = {4}
    Off = {1}
    Types <- MCTypes
    Widths = {2}
    Chunk = 4
    NBITS = 4
    LBITS = 6
    Loop = {l1, l2}
    Delim = {44}
    DefaultSize = 15
    FmtRoom = 9
    MaxStack = 3
    TokStr <- MCTokStr
    Remains <- MCRemains
    EncStr <- MCEncStr
    UrlParts <- MCUrlParts
    Numbers <- MCNumbers
    Shifts <- MCShifts
    Messages <- MCMessages
    JsonValues <- MCJsonValues
    JsonTexts <- MCJsonTexts
    Behind <- MCBehind
    Configs <- MCConfigs
INVARIANTS BufTypeOK StringsRight NumbersRight JsonRight StrbufFits
PROPERTY IsByteQueue
