----------------------------- MODULE MC_NodeMeta -----------------------------
EXTENDS NodeMeta

MC_Addrs == {"", "0.0.0.0", "10.0.0.7", "cluster-host"}
MC_Unresolvable == {"cluster-host"}
=============================================================================
