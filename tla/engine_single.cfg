CONSTANTS
    o1 = o1
    o2 = o2
    NoHandle = NoHandle
    Objs <- MCObjsOne
    MaxRounds <- MCMaxRounds
    MaxToken <- MCMaxToken
SPECIFICATION Spec
INVARIANT NoContextLeak
INVARIANT ContextInUseIsLive
CHECK_DEADLOCK FALSE
PROPERTY NegotiationRefined
