# TLA+ models of nakama-cluster's peer registry and transport

This directory holds TLA+ models of the Go code in `src/meta.go`, the node
metadata plus `LocalPeer` (the peer registry and its gRPC transport pool), of
the process control of the demo program `src/samples/main.go`, and the TLC
configurations that check them.

## The system

`spec.md` names seven components. Here is where their code is and how they interact:

| Component | Code | Role |
|---|---|---|
| C1 Node Metadata | `src/meta.go` 1-77 | `Meta` (Id, Name, Addr, Type, Status, Vars), `Clone`, JSON encoding, `NewNodeMetaFromConfig` (chooses the advertised address) |
| C2 Hash Ring Set | `peer.rings` in `src/meta.go` and the external library `serialx/hashring` | one weighted consistent-hash ring per service name |
| C3 Peer Registry | `LocalPeer` in `src/meta.go` 78-421 | `nodes`, `nodesByName` and `rings` under one RWMutex. `Sync`, `Delete`, `Update`, `Reset`, `Get`, `GetByName`, `All`, `AllToMap`, `Size`, `SizeByName`, `GetWithHashRing` |
| C4 Transport Pool | `LocalPeer` in `src/meta.go` 216-293, 423-443 | `grpcPool`, `grpcStreamCancelFn` and `grpcStreams` (three `sync.Map`s). `Send`, `SendStream` and its receive goroutine, `makeGrpcPool`. Delete, Sync and Reset purge them |
| C5 Membership Delegate, C6 Client, C7 Server | not under `src/` | gossip events drive `Sync`, `Delete` and `Update`. Client `Stop()` calls `Reset` |
| RPC envelope | `src/api/cluster.pb.go` | generated protobuf types |
| Sample | `src/samples/main.go` | demo program: builds a client runtime `s` and a server runtime `ss`, runs a ticker goroutine that uses both, and stops `s` on a signal |

The registry and the transport interact only through ids. Purging a removed id
closes its pool and cancels its stream context. Send and SendStream take a
`*Meta` the caller looked up *earlier* and never look at the registry again.

## Modules

| Module | Models |
|---|---|
| `LocalPeer.tla` | C3 and C4: every state-changing operation of `LocalPeer` plus the receive goroutine |
| `PeerRegistry.tla` | the abstract promise of C3: a linearizable map with atomic `Sync`, `Delete`, `Update` and `Reset` |
| `MC_LocalPeer.tla` | the constants for TLC: up to three goroutines, two ids, two services, two client ids, and the `Sync` argument lists |
| `NodeMeta.tla`, `MC_NodeMeta.tla` | C1's address selection in `NewNodeMetaFromConfig` |
| `Sample.tla` | the demo's main, ticker and metrics goroutines, with the lifecycle of C6 and C7 taken from the spec |

### LocalPeer: state and actions

Variables follow the struct fields:
- `nodes`, `nodesByName` and `rings` are the maps of the same names. A ring is a function from id to weight.
- `grpcPool` maps an id to a numbered pool object. `poolOpen` is the set of pool objects not yet closed.
- `grpcStreamCancelFn` maps an id to a numbered context object. `ctxCancelled` is the set of contexts whose cancel func has run.
- `grpcStreams` maps a clientId to a stream object. `streams[s]` records the stream's peer, context, and the state of its receive goroutine.
- `varsWeight` maps each `Vars` map object to its `"weight"` entry. A `Meta` holds a reference to its `Vars` map, as in Go, where a map is a reference.
- `th[t]` is goroutine `t`'s program counter and locals. For AllToMap and GetByName it also holds the result built so far and a history field `seen`. `seen` holds every value `peer.nodes` has taken since the call began. The writers add to it (`Record`); no code corresponds to it.

Each public call is split at every point where another goroutine can run:
- one step per critical section of the RWMutex;
- one step per `sync.Map` `Load`, `Store` or `Delete`.

The loops that release the lock inside `for range peer.nodes` work as follows. Sync's purge, GetByName, All and AllToMap all use them:
- A loop keeps the set of keys it has not yet visited.
- It keeps a flag saying whether `peer.nodes` is still the map it started on.
- This follows Go's rules: a key deleted before it is reached is not produced (`DropFromIterators`). Assigning a new map to `peer.nodes` does not affect a running range (`DetachIterators`), which then reads the old map as it was when it was replaced.

| Code | Actions |
|---|---|
| `Sync` 315-360 | `SyncBegin` builds the new maps under no lock. Weight clamp: `Weight`. Last entry wins: `SyncNodes`. Counts and rings per entry: `SyncByName`, `SyncRings`. Then `SyncLock`, `SyncIterate`, the purge (`PurgePoolLoad`, `PurgePoolDelete`, `PurgeCtxLoad`, `PurgeCtxDelete`), `SyncHead`, and finally the assignment in `SyncIterate` |
| `Delete` 383-408 | `DeleteBegin` does the locked removal (`RegistryDelete`), then the same four purge steps |
| `Update` 410-421 | `Update` (one critical section) |
| `Reset` 362-381 | `ResetBegin` clears the maps. Then two `Range`s: `ResetPoolsStart`/`ResetPool` and `ResetCtxStart`/`ResetCtx` |
| `Send` 216-230 | `SendBegin` takes a `Meta` read by `Get` (`Lookup`). Then `makeGrpcPool` is `MkLoad` and `MkNew` (dial success or failure), then `SendGet` |
| `SendStream` 232-293 | `SendStreamBegin`, `SSLoad` (an existing stream: `SendOn`), `MkLoad`/`MkNew`, `SSGet` (p.Get: a pooled or, at the limit with `Reuse` false, a one-time connection: `Held`, `Full`, `GetConn`), `SSCtxLoad`, `SSCtxStore`, `SSOpen` (opens the stream and starts the goroutine, or fails), `SSStore` (Store, Send, then the deferred `conn.Close()`, which closes a one-time connection) |
| receive goroutine 270-288 | `RecvMessage`, `RecvCancelled`, `RecvFault` (with `NetFaults`, or once the stream's connection is closed), then `RecvExit` (deletes `grpcStreams[clientId]`) |
| `GetByName`, `All`, `AllToMap` 156-202 | `GetByNameBegin`, `AllBegin`, `AllToMapBegin`, then `RangeStart`, `RangeIterate`, `RangeHead` |
| `Get`, `Size`, `SizeByName`, `GetWithHashRing` | operators `Lookup`, `Size`, `SizeByName`, `GetWithHashRing`/`RingOwner` |
| `Get` + `Clone` 36-39, 146-154 | `MutateReadResult`: a caller reads a node and writes `Vars["weight"]` of the clone, which is the registry's own map (only with `CallerWrites`) |
| `context.WithCancel(ctx)` 257 | `CallerContextDone`: the ctx of the SendStream that created a peer context ends, and the derived peer context is cancelled with it (only with `CallerCancels`) |

What the model abstracts:
- A `Meta` keeps only the fields the registry reads: name, the `Vars` reference (with its `"weight"` entry) and status. Sync computes the ring weights from the argument's `Vars` when it is called, as the code does before taking the lock.
- Pools are abstracted to open or closed. A connection is what `SSGet` hands a SendStream call: pooled, or one-time when the pool is at `PoolCap` connections held by SendStream calls and `Reuse` is false (the PeerOptions comment, lines 118-121). `PoolCap` stands for `MaxActive * MaxConcurrentStreams`, with 0 for no limit. Send holds its connection inside one atomic step, so it never counts towards the limit; every run but conn_once has `PoolCap` 0.
- The hash library's `GetNode` is replaced by its contract: some member of the ring, and none when the ring is empty.
- Messages and the caller's `ch` are omitted.

### PeerRegistry

The abstract specification (spec §4.1, §5, §8.3) has two variables:
- `registry`: the map from id to Meta;
- `pending[t]`: the argument list of a Sync that caller `t` has called and that has not yet taken effect.

`ApplySync(t)` replaces the registry with `SyncResult(S)` in one step. `LocalPeer` maps onto it as follows:
- `registry <- nodes`;
- `pending[t]` is `{th[t].input}` while `t` is inside `Sync`.

Sync takes effect at its final assignment.

### NodeMeta

`NewNodeMetaFromConfig` resolves `Config.Addr`:
- `ResolveIPAddr` returns an error for unresolvable names.
- `SelectHost` is the Go condition, with Go's precedence: `&&` binds tighter than `||`.
- The result is either the resolved string or the private IP.

### Sample

`Sample.tla` keeps the control of `main` and drops its data (ports, ids, envelopes, logging):
- `pc` is where `main` is. Each step is one statement group: the etcd dials (`EtcdDial1`, `EtcdDial2`, either of which can end the process through `log.Fatal`), `NewClient`, `NewServer`, the two `go` statements, `signal.Notify`, the `select`, `s.Stop()`, `cancel()` and the return.
- `rt` is the lifecycle of `s` and `ss` (none, running, stopped). The runtimes' code is not under `src/`, so `ClientStop` follows spec §4.5.
- `sig` is the signal. Before `Notify` it ends the process at once (Go's default action). After `Notify` it waits in the buffered channel `sign`.
- `ticker` and `ticks` are the ticker goroutine. `Tick` is its body up to `s.Send`. `PeerCall` is `peer.Send` with `context.Background()`, which may never return. `tickSeen` records the runtimes' states at each firing.
- `MetricsFail` is `ListenAndServe` failing, which ends the process through `log.Fatal`.

The `ctx.Done()` case of main's `select` is never ready: only main's own `cancel()` cancels `ctx`, and that runs after the `select`.

## Runs

| Run | cfg | Expect | What it shows |
|---|---|---|---|
| registry_concurrent | `LocalPeer_registry.cfg` | pass | 3 goroutines with Sync, Delete, Update and Reset, 5 calls. Under every interleaving of Sync's unlocked loop, counts and rings match `nodes` (`IndexesMatchNodes`). The implementation refines `PeerRegistry` (`RefinesPeerRegistry`) |
| transport_sequential | `LocalPeer_sequential.cfg` | pass | 1 goroutine, every operation including Get with a write to the result, two client ids, 5 calls, reliable streams. Quiescent transport only for registered ids (`TransportOnlyForRegistered`). No open pool lost (`NoOrphanOpenPool`). One live stream per client id (`StreamSingleton`). Removing a peer ends its streams (`PeerRemovalEndsStreams`) |
| transport_faults | `LocalPeer_faults.cfg` | pass | stream transports that can break at any time (`NetFaults`) and callers' contexts that can end at any time (`CallerCancels`), two client ids, 4 calls. A stream that fails before its Store can leave a dead stream registered. Even so, once calls return each client id has one live stream (`StreamSingleton`), and removing a peer still ends its streams (`PeerRemovalEndsStreams`) |
| reader_snapshot | `LocalPeer_reader_snapshot.cfg` | pass | AllToMap, GetByName, Sync and Reset in 3 goroutines, 6 calls: two readers against a writer, or a reader against two writers. The readers return the registry of one instant (`ReaderSeesSnapshot`): Sync and Reset assign a new map, so a running range keeps reading the old one. This confirms spec §5's claim for Sync |
| stream_dup | `LocalPeer_stream_dup.cfg` | violation | two first SendStreams with one client id both open a stream. The later Store hides the earlier one, which keeps running and is unreachable |
| conn_once | `LocalPeer_conn_once.cfg` | violation | two goroutines stream to one peer through a pool with room for one connection and `Reuse` false. The second gets a one-time connection, and SendStream's deferred `conn.Close()` (line 249) closes it under the stream it has just registered (`StreamOnOpenConn`) |
| stale_send | `LocalPeer_stale_send.cfg` | violation | Send with a Meta read before a concurrent Delete recreates the pool of the removed peer after the purge. Only another Delete of that id or a Reset would close it |
| pool_race | `LocalPeer_pool_race.cfg` | violation | two first Sends to a peer both dial a pool. The second `Store` drops the first, which stays open |
| stream_fault | `LocalPeer_stream_fault.cfg` | violation | a stream failing before `grpcStreams.Store` stays registered with no goroutine |
| all_race | `LocalPeer_all_race.cfg` | violation | `All()` writes past the slice it sized when a Sync grows the registry (index out of range) |
| ticker_stop | `Sample_ticker_stop.cfg` | violation | after a signal, `main` runs `s.Stop()` while the ticker goroutine still runs. The ticker's next firing calls `s.Send` on the stopped client (`TickerUsesRunningClient`) |
| wildcard_addr | `NodeMeta_wildcard.cfg` | violation | `Addr` 0.0.0.0 or empty is advertised as is, instead of the private IP (spec §6) |

Three more behaviours are kept as hazards in `PROJECT.json` rather than as runs:
- a write to `Vars` of a Meta returned by `Get` changes the registered node's weight, because `Clone` copies the map reference (`MutateReadResult`);
- a Sync argument list with a repeated id puts the id in two services' rings;
- AllToMap racing Delete returns a mixture, for example {n1} after it read n1 and then n1 and n2 were deleted. Delete and Update edit the map the range reads. Spec §5 promises a snapshot only against Sync, which `reader_snapshot` checks.

The sample has hazards of its own, also in `PROJECT.json`. A failed second etcd dial exits through `log.Fatal` with `s` running. A signal before `signal.Notify` kills the process. The ticker's `peer.Send` has no deadline. The server's delegate is built with `conn: s`.

The peer-scoped stream context is `context.WithCancel` of the ctx of whichever SendStream first reached the peer (line 257). When that caller's request ends, the stored context is cancelled while the peer stays registered. Every later SendStream to the peer then fails to open until the peer is removed. Spec §3 and §5 scope the context to the peer's lifetime. TLC finds this in a few steps when `CallerCancels` is TRUE, with one goroutine, one client id and 2 calls. There is no run for it: the run list is kept to twelve questions, and conn_once shows a more severe stream failure.

A SendStream racing Delete can also store a fresh stream context after the purge. That has the same cause as stale_send: the Meta is used without checking the registry again.

`PROJECT.json` lists, for each violation:
- the finding (source line, and what the code and the spec say);
- a mutant for every property of every passing run. A mutant is a plausible bug in the mapped action that makes TLC report the property violated: for example a purge that forgets to `Close`, a `Delete` that keeps the ring, or a `Sync` that merges instead of replacing.

### Properties in detail

- **IndexesMatchNodes** (spec §8.2): once every call has returned, each name's count equals the number of its nodes. Each ring holds exactly those ids, with the clamped weight. Updates, deletes and Syncs by other goroutines interleaved with Sync's unlocked loop could break this.
- **TransportOnlyForRegistered** (spec §5, §8.5): once every call has returned, pools and stream contexts exist only for registered ids.
- **NoOrphanOpenPool**: every pool that is still open is reachable from `grpcPool`, so some purge can close it.
- **PeerRemovalEndsStreams** (liveness): once every call has returned, a stream whose peer is not registered eventually stops receiving.
- **AllSliceFits**: `All()` never writes more entries than it allocated.
- **RefinesPeerRegistry**: the behaviour of `nodes` is a behaviour of the abstract registry.
- **StreamSingleton** (spec §8.4): once every call has returned, every stream whose goroutine still receives is the one registered for its client id. So no client id has two live streams or an unreachable one.
- **StreamOnOpenConn** (spec §4.3): every stream registered for a client id runs on a connection that is still open.
- **ReaderSeesSnapshot** (action property, spec §4.1, §5): when AllToMap or GetByName returns, its result equals the registry at some instant of the call.
- **TickerUsesRunningClient** (sample, violated): every firing of the ticker sends through a running `s`. Spec §4.5 makes `Stop` the client's orderly shutdown, but `main` stops `s` before anything stops the ticker.
- **StreamRegistryLive** (spec §8.4, violated in stream_fault): a stored stream's receive goroutine has not exited.

### Bounds and why they suffice

Every hazard here needs only:
- two goroutines;
- two ids, which gives a registered peer and a removed one;
- two services;
- one client id;
- 3 to 5 calls (`MaxOps`).

The passing runs go beyond that:
- The registry and reader runs use three goroutines, so a Sync's unlocked loop or a reader's range can overlap two other calls.
- The transport runs use two client ids, so two streams share one peer's context and a purge must end both.

For example, a Send overlapping a Delete, or two first Sends to a peer. The two Sync argument lists move one id between services, add and remove ids, and use weights unset, `"0"` (clamped to 1) and `"3"`.

Each violation is found with the smallest bound that reaches it. The passing transport runs use 5 calls (4 with faults and caller cancellation). That is enough for Sync, a transport call, a purge and a second transport call. The reader run uses 6 calls: for example Sync, two readers and three more Syncs or Resets. The largest runs explore about 830,000 distinct states (reader_snapshot) and 470,000 (transport_faults). Each finishes in under two minutes.

The sample run allows 2 ticker firings. The violation needs one firing after `s.Stop()`.

The two-goroutine transport runs only pass once the code races are excluded. That is why the passing transport runs use one calling goroutine: the receive goroutines still run concurrently with it.

Deadlock checking is off. A bounded LocalPeer run stops once `MaxOps` calls have returned, and no state is stuck before that. The sample stops when its process ends.

### Fairness

Weak fairness is assumed only for the receive goroutine's `RecvCancelled` and `RecvExit`. Once a context is cancelled, gRPC's `Recv` returns, and the Go scheduler runs the goroutine to its exit.

No fairness is assumed for calls of the Peer interface. Callers are the environment and may stop at any time.

In the sample, weak fairness is assumed for the main goroutine's steps: it is runnable, and the Go scheduler runs it. The signal, the metrics failure and the ticker's `peer.Send` get no fairness, because `peer.Send` has no deadline. The sample's run checks an invariant only.

## Not modelled, and the plan

Not modelled now:
- The JSON encoding of `Meta`, and `NodeType`. They are pure conversions that no property distinguishes.
- Writes to the struct fields of the pointer `GetWithHashRing` returns without cloning (meta.go:312). These are a data race with `Update` that a model of field values cannot represent. Writes to its `Vars` are the `Clone` aliasing, which is modelled.
- The internals of `shimingyah/pool` (idle eviction, `MaxIdle`, dialing, a blocking `Get`) and of `serialx/hashring`, which are outside the repository. The pool's `MaxActive`/`Reuse` choice is modelled from the `PeerOptions` comment.
- The sources as given do not build together. `samples/main.go` builds `api.Envelope{Cid: ...}` and `Envelope_Bytes{Bytes: []byte}`, which the generated `cluster.pb.go` does not have: it has `Id`, `Node` and a `*Bytes` message. `meta.go` uses `api.NewApiServerClient` and `api.ApiServer_StreamClient`, but there is no gRPC stubs file. The models follow the control flow of each file and do not depend on these types.
- The generated `cluster.pb.go`: message types and nil-safe getters, with no state.
- The Delegate methods of `samples/main.go`. They only log or return constant envelopes. The ticker's calls on `ss.GetPeers()` are one step of `Sample.tla`: their interleavings with the registry are what the LocalPeer runs check.
- C5, and C6 and C7 beyond their lifecycle. Their code is not under `src/`. The spec describes C5's conflict policy, but no code shows how it maps onto `Sync`, `Delete` and `Update`. `Peer` has no insert, so a model of NotifyJoin would be invented, not translated.
- Message delivery to `ch`. Spec §4.3 allows the drop when the caller is not reading.

Plan for later work, most important first:
1. Larger instances of the reader and stream runs (three ids), to check that the passing results do not depend on the bounds. Three ids multiply the Sync inputs and push the transport runs past a few minutes.
2. A passing run with `PoolCap` 1 and `Reuse` TRUE and two calling goroutines. It needs the stream races of stream_dup and stream_fault excluded first.
