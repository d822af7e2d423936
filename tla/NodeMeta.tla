------------------------------ MODULE NodeMeta ------------------------------
(***************************************************************************)
(* NewNodeMetaFromConfig (src/meta.go lines 50-77): the address a node     *)
(* advertises in its Meta.  The configured Config.Addr is one of a few     *)
(* classes, and net.ResolveIPAddr("ip", addr) is modelled by what it       *)
(* returns for each: "" resolves to an IPAddr with no IP, the wildcard and *)
(* an IP literal resolve to themselves, an unknown host fails with a nil   *)
(* *IPAddr.  The advertised host is what ip.String() prints for that.      *)
(***************************************************************************)
EXTENDS Naturals

CONSTANTS
    Addrs,        \* configured Config.Addr values
    Wildcard,     \* "0.0.0.0"
    Empty,        \* ""
    Unresolvable, \* host names ResolveIPAddr fails on
    PrivateIP     \* what sockaddr.GetPrivateIP() returns

ASSUME {Wildcard, Empty} \subseteq Addrs /\ Unresolvable \subseteq Addrs

NilPtr == "<nil>"     \* (*IPAddr)(nil).String()
NoIP == ""            \* IPAddr{}.String(): an empty IP prints as ""

VARIABLES cfgAddr, self

\* net.ResolveIPAddr("ip", addr): error flag and the *IPAddr's printed form
ResolveIPAddr(a) ==
    CASE a = Empty            -> [err |-> FALSE, str |-> NoIP]
      [] a \in Unresolvable   -> [err |-> TRUE,  str |-> NilPtr]
      [] OTHER                -> [err |-> FALSE, str |-> a]

\* if err == nil && c.Addr != "" || c.Addr != "0.0.0.0" { addr = ip.String() }
\* else { addr, err = sockaddr.GetPrivateIP() }          (lines 64-73)
SelectHost(a) ==
    LET r == ResolveIPAddr(a) IN
    IF (~r.err /\ a # Empty) \/ a # Wildcard THEN r.str ELSE PrivateIP

Init ==
    /\ cfgAddr \in Addrs
    /\ self = "none"

\* NewNodeMetaFromConfig builds the Meta with Addr = host:port (line 76);
\* the port and the other fields are carried unchanged and left out.
NewNodeMetaFromConfig ==
    /\ self = "none"
    /\ self' = SelectHost(cfgAddr)
    /\ UNCHANGED cfgAddr

Next == NewNodeMetaFromConfig

Spec == Init /\ [][Next]_<<cfgAddr, self>>

\* With Addr empty or 0.0.0.0 the node advertises its first private IP
\* (spec section 6, configuration surface).
WildcardAdvertisesPrivateIP ==
    (self # "none" /\ cfgAddr \in {Empty, Wildcard}) => self = PrivateIP

=============================================================================
