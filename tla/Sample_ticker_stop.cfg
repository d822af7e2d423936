\* The demo with reliable etcd and metrics port: a signal arrives while the
\* ticker runs.
SPECIFICATION Spec
CONSTANTS
    MaxTicks = 2
    EtcdFails = FALSE
    PortInUse = FALSE
INVARIANT TickerUsesRunningClient
\* The process ends when main returns: no goroutine takes a step after that.
CHECK_DEADLOCK FALSE
