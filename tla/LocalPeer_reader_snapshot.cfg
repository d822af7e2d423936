\* Readers (AllToMap, GetByName) and writers (Sync, Reset, which replace
\* peer.nodes) in three goroutines: two readers can overlap one writer, or
\* one reader two writers.
CONSTANTS
    t1 = t1
    t2 = t2
    t3 = t3
    n1 = n1
    n2 = n2
    c1 = c1
    c2 = c2
    Threads = {t1, t2, t3}
    Ids = {n1, n2}
    Names <- MC_Names
    Clients = {c1}
    Keys = {"k1"}
    WeightVars <- MC_WeightVars
    VarMaps <- MC_VarMaps
    InitVars <- MC_InitVars
    Atoi <- MC_Atoi
    SyncInputs <- MC_SyncInputs
    Ops <- MC_SnapshotOps
    NetFaults = FALSE
    CallerCancels = FALSE
    CallerWrites = FALSE
    PoolCap = 0
    Reuse = TRUE
    MaxOps = 6
SPECIFICATION Spec
PROPERTY ReaderSeesSnapshot
\* the bounded run ends once MaxOps calls have returned
CHECK_DEADLOCK FALSE
