------------------------------- MODULE Sample -------------------------------
(***************************************************************************)
(* The demo program src/samples/main.go: the main goroutine that builds a  *)
(* client runtime s and a server runtime ss, the ticker goroutine that     *)
(* uses both every ten seconds, the metrics goroutine, and the shutdown    *)
(* on a signal.  The runtimes' code is not under src/: NewClient, NewServer*)
(* and Client.Stop are taken from spec sections 4.5 and 4.6 as lifecycle   *)
(* steps (none -> running -> stopped).  Data (ports, ids, envelopes, log   *)
(* output) is left out: no property tells it apart.                       *)
(***************************************************************************)
EXTENDS Naturals, FiniteSets

CONSTANTS
    MaxTicks,      \* bound on the ticker's firings
    EtcdFails,     \* sd.NewEtcdV3Client may return an error
    PortInUse      \* hs.ListenAndServe may fail (the random port is taken)

ASSUME MaxTicks \in Nat /\ EtcdFails \in BOOLEAN /\ PortInUse \in BOOLEAN

Runtimes == {"client", "server"}
RtState == {"none", "running", "stopped"}

\* Where the main goroutine is; "exited" is a return from main, "fatal" an
\* os.Exit(1) by log.Fatal, "killed" the default action of a signal that
\* arrives before signal.Notify.
MainPcs == {"etcd1", "client", "etcd2", "server", "spawnTicker",
            "spawnMetrics", "notify", "wait", "stop", "close", "return",
            "exited", "fatal", "killed"}

VARIABLES
    pc,        \* the main goroutine
    rt,        \* lifecycle of the runtimes s and ss
    ctxDone,   \* the root context has been cancelled (line 199)
    sig,       \* the signal: none, buffered in sign, or taken by main
    ticker,    \* the ticker goroutine: off, in its select, or in a tick body
    ticks,     \* firings of the ticker so far
    metrics,   \* the metrics goroutine: off or serving
    tickSeen   \* history: the runtimes' states at each firing of the ticker

vars == <<pc, rt, ctxDone, sig, ticker, ticks, metrics, tickSeen>>

Alive == pc \notin {"exited", "fatal", "killed"}

\* signal.Notify has run (line 189): a signal is buffered in sign instead of
\* ending the process.
Notified == pc \in {"wait", "stop", "close", "return"}

Init ==
    /\ pc = "etcd1"
    /\ rt = [r \in Runtimes |-> "none"]
    /\ ctxDone = FALSE
    /\ sig = "none"
    /\ ticker = "off"
    /\ ticks = 0
    /\ metrics = "off"
    /\ tickSeen = {}

Goto(p) == pc' = p

-----------------------------------------------------------------------------
(* The main goroutine.                                                      *)

\* sd.NewEtcdV3Client for the client; log.Fatal on error (lines 102-106)
EtcdDial1 ==
    /\ pc = "etcd1"
    /\ \/ Goto("client")
       \/ EtcdFails /\ Goto("fatal")
    /\ UNCHANGED <<rt, ctxDone, sig, ticker, ticks, metrics, tickSeen>>

\* NewClient joins the cluster and OnDelegate installs its delegate
\* (spec 4.5; lines 131-132)
NewClient ==
    /\ pc = "client"
    /\ rt' = [rt EXCEPT !["client"] = "running"]
    /\ Goto("etcd2")
    /\ UNCHANGED <<ctxDone, sig, ticker, ticks, metrics, tickSeen>>

\* The second sd.NewEtcdV3Client, for the server; log.Fatal on error while
\* s already runs (lines 134-142)
EtcdDial2 ==
    /\ pc = "etcd2"
    /\ \/ Goto("server")
       \/ EtcdFails /\ Goto("fatal")
    /\ UNCHANGED <<rt, ctxDone, sig, ticker, ticks, metrics, tickSeen>>

\* NewServer and its OnDelegate (spec 4.6; lines 143-145)
NewServer ==
    /\ pc = "server"
    /\ rt' = [rt EXCEPT !["server"] = "running"]
    /\ Goto("spawnTicker")
    /\ UNCHANGED <<ctxDone, sig, ticker, ticks, metrics, tickSeen>>

\* go func() { ticker loop } (lines 146-169)
SpawnTicker ==
    /\ pc = "spawnTicker"
    /\ ticker' = "select"
    /\ Goto("spawnMetrics")
    /\ UNCHANGED <<rt, ctxDone, sig, ticks, metrics, tickSeen>>

\* the http.Server and go hs.ListenAndServe() (lines 171-184)
SpawnMetrics ==
    /\ pc = "spawnMetrics"
    /\ metrics' = "serving"
    /\ Goto("notify")
    /\ UNCHANGED <<rt, ctxDone, sig, ticker, ticks, tickSeen>>

\* sign := make(chan os.Signal, 1); signal.Notify(sign, ...) (lines 188-189)
Notify ==
    /\ pc = "notify"
    /\ Goto("wait")
    /\ UNCHANGED <<rt, ctxDone, sig, ticker, ticks, metrics, tickSeen>>

\* select { case <-sign: s.Stop()  case <-ctx.Done(): } (lines 190-195).
\* The ctx.Done() case is never ready here: the only cancel of ctx is main's
\* own, after this select (line 199), and the runtimes and the etcd clients
\* only derive contexts from it.
MainWait ==
    /\ pc = "wait"
    /\ sig = "pending"
    /\ sig' = "taken"
    /\ Goto("stop")
    /\ UNCHANGED <<rt, ctxDone, ticker, ticks, metrics, tickSeen>>

\* s.Stop(): stop gossip, Reset the registry, cancel the client's own root
\* context (spec 4.5); ss is never stopped (line 192)
ClientStop ==
    /\ pc = "stop"
    /\ rt' = [rt EXCEPT !["client"] = "stopped"]
    /\ Goto("close")
    /\ UNCHANGED <<ctxDone, sig, ticker, ticks, metrics, tickSeen>>

\* scopeCloser.Close(); cancel() (lines 197-199)
Cancel ==
    /\ pc = "close"
    /\ ctxDone' = TRUE
    /\ Goto("return")
    /\ UNCHANGED <<rt, sig, ticker, ticks, metrics, tickSeen>>

\* main returns, and the process ends with every goroutine (line 200)
Return ==
    /\ pc = "return"
    /\ Goto("exited")
    /\ UNCHANGED <<rt, ctxDone, sig, ticker, ticks, metrics, tickSeen>>

-----------------------------------------------------------------------------
(* The environment and the other goroutines.                                *)

\* SIGINT, SIGTERM or SIGHUP: buffered in sign once Notify has run, the
\* process's end before that (Go's default action)
Signal ==
    /\ Alive
    /\ sig = "none"
    /\ IF Notified
       THEN sig' = "pending" /\ UNCHANGED pc
       ELSE Goto("killed") /\ UNCHANGED sig
    /\ UNCHANGED <<rt, ctxDone, ticker, ticks, metrics, tickSeen>>

\* ListenAndServe fails with another error than ErrServerClosed and
\* log.Fatal ends the process (lines 181-183)
MetricsFail ==
    /\ Alive
    /\ PortInUse
    /\ metrics = "serving"
    /\ Goto("fatal")
    /\ UNCHANGED <<rt, ctxDone, sig, ticker, ticks, metrics, tickSeen>>

\* case <-t.C: s.Send(NewMessage(...)) through the client, then the calls
\* on ss.GetPeers() (lines 151-160).  The case <-ctx.Done() has an empty
\* body and the loop goes round again: once ctx is cancelled the goroutine
\* spins, changing no state, until the process ends (line 166).
Tick ==
    /\ Alive
    /\ ticker = "select"
    /\ ticks < MaxTicks
    /\ ticker' = "call"
    /\ ticks' = ticks + 1
    /\ tickSeen' = tickSeen \cup {rt}
    /\ UNCHANGED <<pc, rt, ctxDone, sig, metrics>>

\* peer.Send(context.Background(), ss.GetMeta(), ...) returns, then
\* GetByName and GetWithHashRing (lines 161-164).  The call has no
\* deadline: it may never return, so this step has no fairness.
PeerCall ==
    /\ Alive
    /\ ticker = "call"
    /\ ticker' = "select"
    /\ UNCHANGED <<pc, rt, ctxDone, sig, ticks, metrics, tickSeen>>

MainStep ==
    \/ EtcdDial1 \/ NewClient \/ EtcdDial2 \/ NewServer \/ SpawnTicker
    \/ SpawnMetrics \/ Notify \/ MainWait \/ ClientStop \/ Cancel \/ Return

Next ==
    \/ MainStep
    \/ Signal
    \/ MetricsFail
    \/ Tick
    \/ PeerCall

\* The Go scheduler runs a runnable goroutine: main's steps are weakly fair.
\* Signals, the metrics failure and the network are the environment's.
Spec == Init /\ [][Next]_vars /\ WF_vars(MainStep)

-----------------------------------------------------------------------------
(* Properties.                                                              *)

\* Every firing of the ticker sends through a running client: s.Stop() is
\* the client's orderly shutdown (spec 4.5), so nothing should call s.Send
\* during or after it.  The ticker goroutine (lines 146-169) is stopped by
\* nothing before main runs s.Stop() (line 192).
TickerUsesRunningClient == \A seen \in tickSeen : seen["client"] = "running"

=============================================================================
