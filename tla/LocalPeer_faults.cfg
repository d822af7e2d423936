\* One goroutine makes every call in turn while stream transports may break.
CONSTANTS
    t1 = t1
    t2 = t2
    t3 = t3
    n1 = n1
    n2 = n2
    c1 = c1
    c2 = c2
    Threads = {t1}
    Ids = {n1, n2}
    Names <- MC_Names
    Clients = {c1, c2}
    Keys = {"k1"}
    WeightVars <- MC_WeightVars
    VarMaps <- MC_VarMaps
    InitVars <- MC_InitVars
    Atoi <- MC_Atoi
    SyncInputs <- MC_SyncInputs
    Ops <- MC_AllOps
    NetFaults = TRUE
    CallerCancels = TRUE
    CallerWrites = FALSE
    PoolCap = 0
    Reuse = TRUE
    MaxOps = 4
SPECIFICATION Spec
INVARIANT StreamSingleton
PROPERTY PeerRemovalEndsStreams
\* the bounded run ends once MaxOps calls have returned
CHECK_DEADLOCK FALSE
