\* Config.Addr empty, the wildcard, an IP literal or an unknown host name.
CONSTANTS
    Addrs <- MC_Addrs
    Wildcard = "0.0.0.0"
    Empty = ""
    Unresolvable <- MC_Unresolvable
    PrivateIP = "192.168.1.20"
SPECIFICATION Spec
INVARIANT WildcardAdvertisesPrivateIP
\* the Meta is built once; nothing follows
CHECK_DEADLOCK FALSE
