\* Three goroutines call Sync, Delete, Update and Reset concurrently, so a
\* Sync's unlocked loop can overlap two other writers.
CONSTANTS
    t1 = t1
    t2 = t2
    t3 = t3
    n1 = n1
    n2 = n2
    c1 = c1
    c2 = c2
    Threads = {t1, t2, t3}
    Ids = {n1, n2}
    Names <- MC_Names
    Clients = {c1}
    Keys = {"k1"}
    WeightVars <- MC_WeightVars
    VarMaps <- MC_VarMaps
    InitVars <- MC_InitVars
    Atoi <- MC_Atoi
    SyncInputs <- MC_SyncInputs
    Ops <- MC_RegistryOps
    NetFaults = FALSE
    CallerCancels = FALSE
    CallerWrites = FALSE
    PoolCap = 0
    Reuse = TRUE
    MaxOps = 5
SPECIFICATION Spec
INVARIANT TypeOK
INVARIANT IndexesMatchNodes
PROPERTY RefinesPeerRegistry
\* the bounded run ends once MaxOps calls have returned
CHECK_DEADLOCK FALSE
