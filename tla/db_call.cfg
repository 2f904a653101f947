\* Calls through the second queue, with queues small enough to fill up.
CONSTANTS
    Tables = {"T"}
    Fields = {1}
    Entries = {1}
    sysm = sysm
    lp = lp
    syncd = syncd
    syd = syd
    Clients = {sysm, lp, syncd}
    Callers = {sysm}
    Blk <- CallBlk
    Patient = {}
    Special = {syncd}
    SpecialFields <- CallSpecialFields
    Values = {0, 1}
    Zero = 0
    Unknown = Unknown
    NoName = NoName
    Requests <- CallRequests
    MaxSends = 2
    DbqLen = 2
    Cap <- CallCap
    MaxSub = 8
SPECIFICATION FairSpec
INVARIANTS BlkQueueClean SafeCall
PROPERTIES SafeCallReturns IsAtomic
CHECK_DEADLOCK FALSE
