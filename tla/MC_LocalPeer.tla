---------------------------- MODULE MC_LocalPeer ----------------------------
(* Constants of LocalPeer for TLC.  Two nodes that can share a service,   *)
(* weights that exercise the clamp of lines 326-329, and Sync argument    *)
(* lists that add, move and drop nodes.                                   *)
EXTENDS LocalPeer

CONSTANTS t1, t2, t3, n1, n2, c1, c2

MC_Names == {"svcA", "svcB"}
MC_WeightVars == {Absent, "0", "3"}
\* strconv.Atoi("0") = 0, strconv.Atoi("3") = 3
MC_Atoi == ("0" :> 0) @@ ("3" :> 3)

\* Each Meta the delegate builds has a Vars map of its own
MC_VarMaps == 1..3
\* Vars["weight"] of the maps used by MC_SyncInputs
MC_InitVars == [v \in MC_VarMaps |-> CASE v = 1 -> "0" [] v = 2 -> "3" [] OTHER -> Absent]

M(n, v) == [name |-> n, vars |-> v, status |-> 1]

\* Discovery snapshots: one record per id, as the delegate builds them
MC_SyncInputs ==
    { << <<n1, M("svcA", 1)>>, <<n2, M("svcA", 2)>> >>,
      << <<n2, M("svcB", 3)>> >> }

MC_AllOps == {"Sync", "Delete", "Update", "Reset", "Send", "SendStream",
             "All", "AllToMap", "GetByName", "Get"}
MC_RegistryOps == {"Sync", "Delete", "Update", "Reset"}
MC_SendOps == {"Sync", "Delete", "Send"}
MC_StreamOps == {"Sync", "Delete", "SendStream"}
MC_SnapshotOps == {"Sync", "Reset", "AllToMap", "GetByName"}
MC_AllReadOps == {"Sync", "All"}
=============================================================================
