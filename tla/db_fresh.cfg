\* Freshness of the subscribers' copies and the subscription counter.
CONSTANTS
    Tables = {"T"}
    Fields = {1}
    Entries = {1, 2}
    sysm = sysm
    lp = lp
    syncd = syncd
    syd = syd
    Clients = {sysm, lp}
    Callers = {}
    Blk <- NoBlk
    Patient = {}
    Special = {}
    SpecialFields = {}
    Values = {0, 1}
    Zero = 0
    Unknown = Unknown
    NoName = NoName
    Requests <- FreshRequests
    MaxSends = 3
    DbqLen = 2
    Cap <- FreshCap
    MaxSub = 8
SPECIFICATION Spec
INVARIANTS TypeOK Fresh SubsCounted
CHECK_DEADLOCK FALSE
