CONSTANTS
    sA = sA
    sB = sB
    Sessions = {sA, sB}
    First = sA
    MaxEntries = 6
    MaxLoggers = 3
SPECIFICATION Spec
INVARIANTS AuditInv ChainVerifies
PROPERTY OnlyOldestIsLost
CHECK_DEADLOCK FALSE
