CONSTANTS
    o1 = o1
    o2 = o2
    NoHandle = NoHandle
    Objs <- MCObjsTwo
    MaxRounds <- MCMaxRoundsTwo
    MaxToken <- MCMaxToken
SPECIFICATION Spec
INVARIANT ContextInUseIsLive
CHECK_DEADLOCK FALSE
