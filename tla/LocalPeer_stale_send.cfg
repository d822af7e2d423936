\* A Send with a Meta looked up before a concurrent Delete or Sync removed the node.
CONSTANTS
    t1 = t1
    t2 = t2
    t3 = t3
    n1 = n1
    n2 = n2
    c1 = c1
    c2 = c2
    Threads = {t1, t2}
    Ids = {n1, n2}
    Names <- MC_Names
    Clients = {c1}
    Keys = {"k1"}
    WeightVars <- MC_WeightVars
    VarMaps <- MC_VarMaps
    InitVars <- MC_InitVars
    Atoi <- MC_Atoi
    SyncInputs <- MC_SyncInputs
    Ops <- MC_SendOps
    NetFaults = FALSE
    CallerCancels = FALSE
    CallerWrites = FALSE
    PoolCap = 0
    Reuse = TRUE
    MaxOps = 4
SPECIFICATION Spec
INVARIANT TransportOnlyForRegistered
\* the bounded run ends once MaxOps calls have returned
CHECK_DEADLOCK FALSE
