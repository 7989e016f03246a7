CONSTANTS
    o1 = o1
    o2 = o2
    o3 = o3
    t1 = t1
    t2 = t2
    NoHandle = NoHandle
    NULL = NULL
    Objs <- MCObjs
    Threads <- MCThreadsOne
    MaxRounds <- MCMaxRounds
    MaxToken <- MCMaxToken
    MaxLoads <- MCMaxLoads
SPECIFICATION JniSpec
INVARIANT ClientLiveWhenUsed
CHECK_DEADLOCK FALSE
SYMMETRY MCObjSym
