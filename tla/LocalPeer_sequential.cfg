\* One goroutine makes every call in turn and writes to the Metas it reads;
\* the receive goroutines of its streams run concurrently with it.
CONSTANTS
    t1 = t1
    t2 = t2
    t3 = t3
    n1 = n1
    n2 = n2
    c1 = c1
    c2 = c2
    Threads = {t1}
    Ids = {n1, n2}
    Names <- MC_Names
    Clients = {c1, c2}
    Keys = {"k1"}
    WeightVars <- MC_WeightVars
    VarMaps <- MC_VarMaps
    InitVars <- MC_InitVars
    Atoi <- MC_Atoi
    SyncInputs <- MC_SyncInputs
    Ops <- MC_AllOps
    NetFaults = FALSE
    CallerCancels = FALSE
    CallerWrites = TRUE
    PoolCap = 0
    Reuse = TRUE
    MaxOps = 5
SPECIFICATION Spec
INVARIANT TransportOnlyForRegistered
INVARIANT NoOrphanOpenPool
INVARIANT StreamSingleton
PROPERTY PeerRemovalEndsStreams
\* the bounded run ends once MaxOps calls have returned
CHECK_DEADLOCK FALSE
