------------------------------ MODULE LocalPeer ------------------------------
(***************************************************************************)
(* LocalPeer, the peer registry and transport pool of nakama-cluster       *)
(* (src/meta.go lines 78-457, the part that is peer.go).                   *)
(*                                                                         *)
(* Every public call runs in a goroutine of Threads.  A call is split into *)
(* one step per critical section of the RWMutex and one step per sync.Map  *)
(* operation, since those are the points where other goroutines can       *)
(* interleave; local computation is folded into the neighbouring step.    *)
(* The receive goroutine started by SendStream is a process of its own.   *)
(* Pools, stream contexts and streams are numbered objects: grpcPool,      *)
(* grpcStreamCancelFn and grpcStreams map keys to those numbers.           *)
(***************************************************************************)
EXTENDS Integers, Sequences, FiniteSets, TLC, Functions, FiniteSetsExt

CONSTANTS
    Threads,      \* goroutines calling the Peer interface
    Ids,          \* node ids (Meta.Id)
    Names,        \* service names (Meta.Name)
    Clients,      \* clientId arguments of SendStream
    Keys,         \* keys given to GetWithHashRing
    WeightVars,   \* values of Vars["weight"]; Absent when the key is unset
    VarMaps,      \* the Vars map objects of the Metas the delegate builds
    InitVars,     \* Vars["weight"] of each map object when it is built
    Atoi,         \* strconv.Atoi's integer result on each other WeightVars value
    SyncInputs,   \* argument lists of Sync: sequences of <<id, meta>>
    Ops,          \* the Peer operations the callers may start
    NetFaults,    \* TRUE when a stream's transport may break at any time
    CallerCancels,\* TRUE when a caller's ctx may end while its derived context lives
    CallerWrites, \* TRUE when callers write to the Vars of Metas they read
    PoolCap,      \* streams a pool hands out at once (MaxActive * MaxConcurrentStreams), 0 = no limit
    Reuse,        \* PeerOptions.Reuse
    MaxOps        \* bound on the number of calls started

Absent == "absent"
None == 0                 \* no pool / context / stream object
NoId == "noid"
NoClient == "noclient"

\* MetaStatus (iota): META_STATUS_WAIT_READY, META_STATUS_READYED, META_STATUS_STOPED
MetaStatus == 0..2

\* Meta, abstracted to the fields the registry reads: Name, Status, and Vars,
\* a reference to a map object (a Go map is a reference type), whose
\* "weight" key is held in varsWeight.
Meta == [name : Names, vars : VarMaps, status : MetaStatus]

ASSUME Absent \in WeightVars /\ Atoi \in [WeightVars \ {Absent} -> Int]
ASSUME InitVars \in [VarMaps -> WeightVars] /\ CallerWrites \in BOOLEAN
ASSUME MaxOps \in Nat /\ NetFaults \in BOOLEAN /\ CallerCancels \in BOOLEAN
ASSUME PoolCap \in Nat /\ Reuse \in BOOLEAN

VARIABLES
    nodes,              \* peer.nodes: id -> Meta
    nodesByName,        \* peer.nodesByName: name -> int
    rings,              \* peer.rings: name -> (id -> weight)
    grpcPool,           \* sync.Map id -> pool object
    poolOpen,           \* pool objects not yet Closed
    poolSeq,            \* pool objects created so far
    grpcStreamCancelFn, \* sync.Map id -> stream context object
    ctxCancelled,       \* context objects whose cancel func has run
    ctxSeq,             \* context objects created so far
    grpcStreams,        \* sync.Map clientId -> stream object
    streams,            \* stream objects: client, peer, ctx, sent, recv goroutine state
    th,                 \* per-goroutine call state (program counter and locals)
    opCount,            \* calls started so far
    varsWeight          \* Vars map object -> its "weight" entry

vars == <<nodes, nodesByName, rings, grpcPool, poolOpen, poolSeq,
          grpcStreamCancelFn, ctxCancelled, ctxSeq, grpcStreams, streams,
          th, opCount, varsWeight>>
regVars == <<nodes, nodesByName, rings>>
poolVars == <<grpcPool, poolOpen, poolSeq>>
ctxVars == <<grpcStreamCancelFn, ctxCancelled, ctxSeq>>
streamVars == <<grpcStreams, streams>>

EmptyFn == [x \in {} |-> None]

\* f without key k (Go's delete(m, k) and sync.Map.Delete(k))
Without(f, k) == Restrict(f, DOMAIN f \ {k})

\* f with k set to v (m[k] = v, sync.Map.Store(k, v))
Put(f, k, v) == (k :> v) @@ f

-----------------------------------------------------------------------------
(* Sync's derivations from its argument list (lines 316-338).               *)

\* weight = 1; if set, strconv.Atoi(v), clamped to 1 when below 1 (lines 324-330)
Weight(m) ==
    LET w == varsWeight[m.vars] IN IF w = Absent \/ Atoi[w] < 1 THEN 1 ELSE Atoi[w]

InputIds(in) == {in[i][1] : i \in DOMAIN in}

\* The index of the last entry with id, which wins in newNodes[node.Id] = node
LastIndex(in, id) == Max({i \in DOMAIN in : in[i][1] = id})

\* newNodes
SyncNodes(in) == [id \in InputIds(in) |-> in[LastIndex(in, id)][2]]

\* newNodesByName: newNodesByName[node.Name]++ once per list entry
SyncByName(in) ==
    [n \in {in[i][2].name : i \in DOMAIN in} |->
        Cardinality({i \in DOMAIN in : in[i][2].name = n})]

\* newRings: AddWeightedNode per entry, a later entry replacing the weight
SyncRings(in) ==
    [n \in {in[i][2].name : i \in DOMAIN in} |->
        LET idx(id) == Max({i \in DOMAIN in : in[i][1] = id /\ in[i][2].name = n})
        IN  [id \in {in[i][1] : i \in {j \in DOMAIN in : in[j][2].name = n}} |->
                Weight(in[idx(id)][2])]]

\* hashring GetNode: the library (outside src/) is used only by its contract,
\* a deterministic owner among the ring's members; None on an empty ring.
RingOwner(ring, k) == IF DOMAIN ring = {} THEN NoId ELSE CHOOSE id \in DOMAIN ring : TRUE

\* GetWithHashRing(name, k) (lines 295-313): the node found, or NoId
GetWithHashRing(name, k) ==
    IF name \notin DOMAIN rings THEN NoId
    ELSE LET id == RingOwner(rings[name], k)
         IN  IF id \in DOMAIN nodes THEN id ELSE NoId

\* Get(id): node, ok := peer.nodes[id] (lines 146-154)
Lookup(id) == id \in DOMAIN nodes

\* Size(): len(peer.nodes) (lines 204-208)
Size == Cardinality(DOMAIN nodes)

\* SizeByName(name): peer.nodesByName[name], 0 when absent (lines 210-214)
SizeByName(n) == IF n \in DOMAIN nodesByName THEN nodesByName[n] ELSE 0

-----------------------------------------------------------------------------
(* Per-goroutine call state.                                                *)

PCs == {"idle", "syncLock", "syncHead", "poolLoad", "poolDelete", "ctxLoad",
        "ctxDelete", "resetPools", "resetPool", "resetCtx", "mkLoad", "mkNew",
        "sendGet", "ssLoad", "ssGet", "ssCtxLoad", "ssCtxStore", "ssOpen",
        "ssStore", "rangeStart", "rangeHead"}

Idle == [op |-> "none", pc |-> "idle", ret |-> "idle", id |-> NoId, cl |-> NoClient,
         input |-> <<>>, keys |-> {}, live |-> FALSE, pool |-> None, ctx |-> None,
         strm |-> None, alloc |-> 0, produced |-> 0, name |-> "noname", snap |-> EmptyFn,
         newRings |-> EmptyFn, result |-> EmptyFn, seen |-> {}, conn |-> "none"]

\* The reader calls whose result is checked against the registry's history
ReaderOps == {"AllToMap", "GetByName"}

\* History: a writer that gives peer.nodes the value nn records it in the
\* call state of every reader call in progress.
Record(thr, nn) ==
    [u \in Threads |-> IF thr[u].op \in ReaderOps THEN [thr[u] EXCEPT !.seen = @ \cup {nn}]
                                                 ELSE thr[u]]

\* A range over peer.nodes that is still iterating the current map object
\* loses a key deleted from that object before the key is reached.
DropFromIterators(id) ==
    [u \in Threads |-> IF th[u].live THEN [th[u] EXCEPT !.keys = @ \ {id}] ELSE th[u]]

\* peer.nodes is replaced by a new map: running ranges keep the old object,
\* which nothing changes any more.
DetachIterators ==
    [u \in Threads |-> IF th[u].live THEN [th[u] EXCEPT !.live = FALSE, !.snap = nodes]
                                     ELSE th[u]]

\* Goroutine t may start a call of op (the bound MaxOps caps the calls)
CanBegin(t, op) == th[t].pc = "idle" /\ opCount < MaxOps /\ op \in Ops

\* The call state of a call of op entering at pc
Call(op, pc, ret, id, cl, input) ==
    [Idle EXCEPT !.op = op, !.pc = pc, !.ret = ret, !.id = id, !.cl = cl, !.input = input]

Goto(t, pc) == th' = [th EXCEPT ![t].pc = pc]
Done(t) == th' = [th EXCEPT ![t] = Idle]
\* the end of the purge sequence: back into Sync's loop, or return from Delete
Return(t) == IF th[t].ret = "idle" THEN Done(t) ELSE Goto(t, th[t].ret)

-----------------------------------------------------------------------------
(* Registry operations.                                                     *)

\* Sync(nodes...) enters; newNodes, newRings, newNodesByName are computed
\* from the argument alone, outside the lock (lines 315-338).
SyncBegin(t, in) ==
    /\ CanBegin(t, "Sync")
    /\ th' = [th EXCEPT ![t] = [Call("Sync", "syncLock", "syncHead", NoId, NoClient, in)
                                   EXCEPT !.newRings = SyncRings(in)]]
    /\ opCount' = opCount + 1
    /\ UNCHANGED <<regVars, poolVars, ctxVars, streamVars, varsWeight>>

\* One critical section of Sync's loop over peer.nodes (lines 340-359): the
\* next key is taken under the lock and the lock released for the body,
\* which purges the key's transport when it is not in the new list; when
\* no key is left the three indexes are replaced and the lock released.
\* Mutant: the new list is merged into peer.nodes instead of replacing it.
SyncIterateMerged(t, keys, live) ==
    LET in == th[t].input IN
    \/ /\ keys = {}
       /\ nodes' = SyncNodes(in) @@ nodes
       /\ rings' = th[t].newRings
       /\ nodesByName' = SyncByName(in)
       /\ th' = [Record(DetachIterators, nodes') EXCEPT ![t] = Idle]
    \/ \E k \in keys :
          /\ th' = [th EXCEPT ![t].keys = keys \ {k}, ![t].live = live, ![t].id = k,
                              ![t].pc = IF k \in InputIds(in) THEN "syncHead" ELSE "poolLoad"]
          /\ UNCHANGED regVars

\* Mutant: Sync edits peer.nodes in place (deletes the stale ids, stores the
\* new entries) instead of assigning the new map.
SyncIterateInPlace(t, keys, live) ==
    LET in == th[t].input IN
    \/ /\ keys = {}
       /\ nodes' = SyncNodes(in)
       /\ rings' = th[t].newRings
       /\ nodesByName' = SyncByName(in)
       /\ th' = [Record([u \in Threads |->
                             IF th[u].live THEN [th[u] EXCEPT !.keys = @ \cap InputIds(in)]
                             ELSE th[u]], nodes')
                  EXCEPT ![t] = Idle]
    \/ \E k \in keys :
          /\ th' = [th EXCEPT ![t].keys = keys \ {k}, ![t].live = live, ![t].id = k,
                              ![t].pc = IF k \in InputIds(in) THEN "syncHead" ELSE "poolLoad"]
          /\ UNCHANGED regVars

SyncIterate(t, keys, live) ==
    LET in == th[t].input IN
    \/ /\ keys = {}
       /\ nodes' = SyncNodes(in)
       /\ rings' = th[t].newRings
       /\ nodesByName' = SyncByName(in)
       /\ th' = [Record(DetachIterators, nodes') EXCEPT ![t] = Idle]
    \/ \E k \in keys :
          /\ th' = [th EXCEPT ![t].keys = keys \ {k}, ![t].live = live, ![t].id = k,
                              ![t].pc = IF k \in InputIds(in) THEN "syncHead" ELSE "poolLoad"]
          /\ UNCHANGED regVars

\* peer.Lock(); for k := range peer.nodes  -- the range starts on the current map
SyncLock(t) ==
    /\ th[t].pc = "syncLock"
    /\ SyncIterate(t, DOMAIN nodes, TRUE)
    /\ UNCHANGED <<poolVars, ctxVars, streamVars, opCount, varsWeight>>

\* peer.Lock() at the end of the loop body, then the next iteration
SyncHead(t) ==
    /\ th[t].pc = "syncHead"
    /\ SyncIterate(t, th[t].keys, th[t].live)
    /\ UNCHANGED <<poolVars, ctxVars, streamVars, opCount, varsWeight>>

\* Purge of the transport of id, shared by Sync (lines 344-352) and Delete
\* (lines 399-407): grpcPool.Load + Close, grpcPool.Delete, then
\* grpcStreamCancelFn.Load + cancel, grpcStreamCancelFn.Delete.
\* Mutant: the loaded pool is dropped from the map without Close.
PurgePoolLoadNoClose(t) ==
    LET id == th[t].id IN
    /\ th[t].pc = "poolLoad"
    /\ Goto(t, IF id \in DOMAIN grpcPool THEN "poolDelete" ELSE "ctxLoad")
    /\ UNCHANGED <<regVars, poolVars, ctxVars, streamVars, opCount, varsWeight>>

PurgePoolLoad(t) ==
    LET id == th[t].id IN
    /\ th[t].pc = "poolLoad"
    /\ \/ /\ id \in DOMAIN grpcPool
          /\ poolOpen' = poolOpen \ {grpcPool[id]}
          /\ Goto(t, "poolDelete")
       \/ /\ id \notin DOMAIN grpcPool
          /\ Goto(t, "ctxLoad")
          /\ UNCHANGED poolOpen
    /\ UNCHANGED <<regVars, grpcPool, poolSeq, ctxVars, streamVars, opCount, varsWeight>>

\* Mutant: the pool is closed but its map entry is left behind.
PurgePoolDeleteMissing(t) ==
    /\ th[t].pc = "poolDelete"
    /\ Goto(t, "ctxLoad")
    /\ UNCHANGED <<regVars, poolVars, ctxVars, streamVars, opCount, varsWeight>>

PurgePoolDelete(t) ==
    /\ th[t].pc = "poolDelete"
    /\ grpcPool' = Without(grpcPool, th[t].id)
    /\ Goto(t, "ctxLoad")
    /\ UNCHANGED <<regVars, poolOpen, poolSeq, ctxVars, streamVars, opCount, varsWeight>>

\* Mutant: the context entry is removed without calling its cancel func.
PurgeCtxLoadNoCancel(t) ==
    LET id == th[t].id IN
    /\ th[t].pc = "ctxLoad"
    /\ IF id \in DOMAIN grpcStreamCancelFn THEN Goto(t, "ctxDelete") ELSE Return(t)
    /\ UNCHANGED <<regVars, poolVars, ctxVars, streamVars, opCount, varsWeight>>

PurgeCtxLoad(t) ==
    LET id == th[t].id IN
    /\ th[t].pc = "ctxLoad"
    /\ \/ /\ id \in DOMAIN grpcStreamCancelFn
          /\ ctxCancelled' = ctxCancelled \cup {grpcStreamCancelFn[id]}
          /\ Goto(t, "ctxDelete")
       \/ /\ id \notin DOMAIN grpcStreamCancelFn
          /\ Return(t)
          /\ UNCHANGED ctxCancelled
    /\ UNCHANGED <<regVars, poolVars, grpcStreamCancelFn, ctxSeq, streamVars, opCount, varsWeight>>

PurgeCtxDelete(t) ==
    /\ th[t].pc = "ctxDelete"
    /\ grpcStreamCancelFn' = Without(grpcStreamCancelFn, th[t].id)
    /\ Return(t)
    /\ UNCHANGED <<regVars, poolVars, ctxCancelled, ctxSeq, streamVars, opCount, varsWeight>>

\* Mutant: the node is not removed from its service's ring.
RegistryDeleteKeepsRing(id) ==
    IF id \in DOMAIN nodes
    THEN LET m   == nodes[id]
             cnt == (IF m.name \in DOMAIN nodesByName THEN nodesByName[m.name] ELSE 0) - 1
         IN  /\ nodesByName' = IF cnt < 1 THEN Without(nodesByName, m.name)
                                          ELSE Put(nodesByName, m.name, cnt)
             /\ rings' = IF cnt < 1 THEN Without(rings, m.name) ELSE rings
             /\ nodes' = Without(nodes, id)
    ELSE UNCHANGED regVars

\* The registry part of Delete(id), under the lock (lines 384-397)
RegistryDelete(id) ==
    IF id \in DOMAIN nodes
    THEN LET m     == nodes[id]
             cnt   == (IF m.name \in DOMAIN nodesByName THEN nodesByName[m.name] ELSE 0) - 1
             rings1 == IF m.name \in DOMAIN rings
                       THEN Put(rings, m.name, Without(rings[m.name], id))
                       ELSE rings
         IN  /\ nodesByName' = IF cnt < 1 THEN Without(nodesByName, m.name)
                                          ELSE Put(nodesByName, m.name, cnt)
             /\ rings' = IF cnt < 1 THEN Without(rings1, m.name) ELSE rings1
             /\ nodes' = Without(nodes, id)
    ELSE UNCHANGED regVars

\* Delete(id): the registry removal, then the transport purge (lines 383-408)
DeleteBegin(t, id) ==
    /\ CanBegin(t, "Delete")
    /\ RegistryDelete(id)
    /\ th' = [Record(DropFromIterators(id), nodes') EXCEPT ![t] = Call("Delete", "poolLoad", "idle", id, NoClient, <<>>)]
    /\ opCount' = opCount + 1
    /\ UNCHANGED <<poolVars, ctxVars, streamVars, varsWeight>>

\* Mutant: the status written is one past the one given.
UpdateOffByOne(t, id, st) ==
    /\ CanBegin(t, "Update")
    /\ nodes' = IF id \in DOMAIN nodes THEN [nodes EXCEPT ![id].status = st + 1] ELSE nodes
    /\ th' = Record(th, nodes')
    /\ opCount' = opCount + 1
    /\ UNCHANGED <<nodesByName, rings, poolVars, ctxVars, streamVars, varsWeight>>

\* Update(id, status): a clone with the new status replaces the node (lines 410-421)
Update(t, id, st) ==
    /\ CanBegin(t, "Update")
    /\ nodes' = IF id \in DOMAIN nodes THEN [nodes EXCEPT ![id].status = st] ELSE nodes
    /\ th' = Record(th, nodes')
    /\ opCount' = opCount + 1
    /\ UNCHANGED <<nodesByName, rings, poolVars, ctxVars, streamVars, varsWeight>>

\* Reset(): the indexes are replaced by empty maps under the lock (lines 362-367)
ResetBegin(t) ==
    /\ CanBegin(t, "Reset")
    /\ nodes' = EmptyFn
    /\ rings' = EmptyFn
    /\ nodesByName' = EmptyFn
    /\ th' = [Record(DetachIterators, nodes') EXCEPT ![t] = Call("Reset", "resetPools", "idle", NoId, NoClient, <<>>)]
    /\ opCount' = opCount + 1
    /\ UNCHANGED <<poolVars, ctxVars, streamVars, varsWeight>>

\* grpcPool.Range starts: it visits the keys present now (lines 368-373)
ResetPoolsStart(t) ==
    /\ th[t].pc = "resetPools"
    /\ th' = [th EXCEPT ![t].keys = DOMAIN grpcPool, ![t].pc = "resetPool"]
    /\ UNCHANGED <<regVars, poolVars, ctxVars, streamVars, opCount, varsWeight>>

\* LoadAndDelete(key), then Close of the pool it held
ResetPool(t) ==
    /\ th[t].pc = "resetPool"
    /\ \E k \in th[t].keys :
          /\ IF k \in DOMAIN grpcPool
             THEN /\ poolOpen' = poolOpen \ {grpcPool[k]}
                  /\ grpcPool' = Without(grpcPool, k)
             ELSE UNCHANGED <<poolOpen, grpcPool>>
          /\ th' = [th EXCEPT ![t].keys = @ \ {k}]
    /\ UNCHANGED <<regVars, poolSeq, ctxVars, streamVars, opCount, varsWeight>>

\* grpcStreamCancelFn.Range starts after the pool range ends (lines 375-380)
ResetCtxStart(t) ==
    /\ th[t].pc = "resetPool"
    /\ th[t].keys = {}
    /\ th' = [th EXCEPT ![t].keys = DOMAIN grpcStreamCancelFn, ![t].pc = "resetCtx"]
    /\ UNCHANGED <<regVars, poolVars, ctxVars, streamVars, opCount, varsWeight>>

\* LoadAndDelete(key), then cancel of the context it held; Reset returns
\* after the last key
ResetCtx(t) ==
    /\ th[t].pc = "resetCtx"
    /\ \/ \E k \in th[t].keys :
             /\ IF k \in DOMAIN grpcStreamCancelFn
                THEN /\ ctxCancelled' = ctxCancelled \cup {grpcStreamCancelFn[k]}
                     /\ grpcStreamCancelFn' = Without(grpcStreamCancelFn, k)
                ELSE UNCHANGED <<ctxCancelled, grpcStreamCancelFn>>
             /\ th' = [th EXCEPT ![t].keys = @ \ {k}]
       \/ /\ th[t].keys = {}
          /\ Done(t)
          /\ UNCHANGED <<ctxCancelled, grpcStreamCancelFn>>
    /\ UNCHANGED <<regVars, poolVars, ctxSeq, streamVars, opCount, varsWeight>>

-----------------------------------------------------------------------------
(* Transport operations.                                                    *)

\* Send(ctx, node, in): node is a Meta the caller looked up in the registry
\* (Get, GetByName, GetWithHashRing), so id is registered at the lookup;
\* Send itself never consults the registry again (lines 216-230).
SendBegin(t, id) ==
    /\ CanBegin(t, "Send")
    /\ Lookup(id)
    /\ th' = [th EXCEPT ![t] = Call("Send", "mkLoad", "sendGet", id, NoClient, <<>>)]
    /\ opCount' = opCount + 1
    /\ UNCHANGED <<regVars, poolVars, ctxVars, streamVars, varsWeight>>

\* makeGrpcPool: grpcPool.Load(id) (lines 424-427)
MkLoad(t) ==
    LET id == th[t].id IN
    /\ th[t].pc = "mkLoad"
    /\ th' = IF id \in DOMAIN grpcPool
             THEN [th EXCEPT ![t].pool = grpcPool[id], ![t].pc = th[t].ret]
             ELSE [th EXCEPT ![t].pc = "mkNew"]
    /\ UNCHANGED <<regVars, poolVars, ctxVars, streamVars, opCount, varsWeight>>

\* makeGrpcPool: pool.New dials the address; on success the new pool is
\* stored under id whatever the map holds by now (lines 429-442)
MkNew(t) ==
    LET p == poolSeq + 1 IN
    /\ th[t].pc = "mkNew"
    /\ \/ /\ poolSeq' = p
          /\ poolOpen' = poolOpen \cup {p}
          /\ grpcPool' = Put(grpcPool, th[t].id, p)
          /\ th' = [th EXCEPT ![t].pool = p, ![t].pc = th[t].ret]
       \/ /\ Done(t)
          /\ UNCHANGED poolVars
    /\ UNCHANGED <<regVars, ctxVars, streamVars, opCount, varsWeight>>

\* p.Get(), client.Call, conn.Close (lines 222-229): Get fails on a closed
\* pool; the call changes no state of LocalPeer
SendGet(t) ==
    /\ th[t].pc = "sendGet"
    /\ Done(t)
    /\ UNCHANGED <<regVars, poolVars, ctxVars, streamVars, opCount, varsWeight>>

\* SendStream(ctx, clientId, node, in, md) (lines 232-293); node as in Send
SendStreamBegin(t, c, id) ==
    /\ CanBegin(t, "SendStream")
    /\ Lookup(id)
    /\ th' = [th EXCEPT ![t] = Call("SendStream", "ssLoad", "ssGet", id, c, <<>>)]
    /\ opCount' = opCount + 1
    /\ UNCHANGED <<regVars, poolVars, ctxVars, streamVars, varsWeight>>

\* s.Send(in) on a stream: delivered while its context is live, its
\* connection open and its receive goroutine still running
SendOn(s) ==
    IF streams[s].recv = "recv" /\ streams[s].ctx \notin ctxCancelled /\ ~streams[s].connClosed
    THEN [streams EXCEPT ![s].sent = TRUE]
    ELSE streams

\* Mutant: the registered stream is ignored and a new one is always opened.
SSLoadNoReuse(t) ==
    /\ th[t].pc = "ssLoad"
    /\ Goto(t, "mkLoad")
    /\ UNCHANGED <<regVars, poolVars, ctxVars, streamVars, opCount, varsWeight>>

\* grpcStreams.Load(clientId): an existing stream takes the envelope and
\* SendStream returns created = false (lines 233-237)
SSLoad(t) ==
    LET c == th[t].cl IN
    /\ th[t].pc = "ssLoad"
    /\ \/ /\ c \in DOMAIN grpcStreams
          /\ streams' = SendOn(grpcStreams[c])
          /\ Done(t)
       \/ /\ c \notin DOMAIN grpcStreams
          /\ Goto(t, "mkLoad")
          /\ UNCHANGED streams
    /\ UNCHANGED <<regVars, poolVars, ctxVars, grpcStreams, opCount, varsWeight>>

\* The connections of pool p that SendStream calls hold between p.Get()
\* and their deferred conn.Close().  Send holds its connection inside one
\* atomic step and is not counted.
Held(p) == Cardinality({u \in Threads : th[u].conn # "none" /\ th[u].pool = p})

\* The pool is at its MaxActive limit (0 means no limit)
Full(p) == PoolCap > 0 /\ Held(p) >= PoolCap

\* What p.Get() returns (PeerOptions.Reuse, lines 118-121): at the limit a
\* shared connection when Reuse is true, else a one-time connection that
\* conn.Close() closes
GetConn(p) == IF Full(p) /\ ~Reuse THEN "once" ELSE "pooled"

\* p.Get(), failing on a closed pool; defer conn.Close() (lines 244-249)
SSGet(t) ==
    /\ th[t].pc = "ssGet"
    /\ th' = IF th[t].pool \in poolOpen
             THEN [th EXCEPT ![t].pc = "ssCtxLoad", ![t].conn = GetConn(th[t].pool)]
             ELSE [th EXCEPT ![t] = Idle]
    /\ UNCHANGED <<regVars, poolVars, ctxVars, streamVars, opCount, varsWeight>>

\* grpcStreamCancelFn.Load(node.Id) (lines 252-255)
SSCtxLoad(t) ==
    LET id == th[t].id IN
    /\ th[t].pc = "ssCtxLoad"
    /\ th' = IF id \in DOMAIN grpcStreamCancelFn
             THEN [th EXCEPT ![t].ctx = grpcStreamCancelFn[id], ![t].pc = "ssOpen"]
             ELSE [th EXCEPT ![t].pc = "ssCtxStore"]
    /\ UNCHANGED <<regVars, poolVars, ctxVars, streamVars, opCount, varsWeight>>

\* context.WithCancel and grpcStreamCancelFn.Store(node.Id, ...) (lines 256-260)
SSCtxStore(t) ==
    LET c == ctxSeq + 1 IN
    /\ th[t].pc = "ssCtxStore"
    /\ ctxSeq' = c
    /\ grpcStreamCancelFn' = Put(grpcStreamCancelFn, th[t].id, c)
    /\ th' = [th EXCEPT ![t].ctx = c, ![t].pc = "ssOpen"]
    /\ UNCHANGED <<regVars, poolVars, ctxCancelled, streamVars, opCount, varsWeight>>

\* client.Stream(ctx) and the start of the receive goroutine (lines 262-288):
\* opening fails on a cancelled context, or on a transport fault
SSOpen(t) ==
    LET s == Len(streams) + 1 IN
    /\ th[t].pc = "ssOpen"
    /\ \/ /\ th[t].ctx \notin ctxCancelled
          /\ streams' = Append(streams, [client |-> th[t].cl, peer |-> th[t].id,
                                         ctx |-> th[t].ctx, sent |-> FALSE,
                                         recv |-> "recv", why |-> "none",
                                         connClosed |-> FALSE])
          /\ th' = [th EXCEPT ![t].strm = s, ![t].pc = "ssStore"]
       \/ /\ th[t].ctx \in ctxCancelled \/ NetFaults
          /\ Done(t)
          /\ UNCHANGED streams
    /\ UNCHANGED <<regVars, poolVars, ctxVars, grpcStreams, opCount, varsWeight>>

\* grpcStreams.Store(clientId, s); return true, ch, s.Send(in), then the
\* deferred conn.Close() of line 249, which closes a one-time connection
\* under the stream that goes on running (lines 291-292)
SSStore(t) ==
    LET s == th[t].strm
        sent == SendOn(s)
    IN
    /\ th[t].pc = "ssStore"
    /\ grpcStreams' = Put(grpcStreams, th[t].cl, s)
    /\ streams' = IF th[t].conn = "once" THEN [sent EXCEPT ![s].connClosed = TRUE] ELSE sent
    /\ Done(t)
    /\ UNCHANGED <<regVars, poolVars, ctxVars, opCount, varsWeight>>

\* The peer-scoped context is context.WithCancel(ctx) of the ctx passed to
\* the SendStream call that created it (line 257): when that caller's ctx
\* ends (its request returns or times out), the derived context is
\* cancelled with it, whatever peer it scopes.
CallerContextDone(c) ==
    /\ CallerCancels
    /\ c \notin ctxCancelled
    /\ ctxCancelled' = ctxCancelled \cup {c}
    /\ UNCHANGED <<regVars, poolVars, grpcStreamCancelFn, ctxSeq, streamVars, th, opCount, varsWeight>>

\* The receive goroutine (lines 269-288) makes one s.Recv() and returns:
\* Recv fails once the stream's context is cancelled ...
RecvCancelled(s) ==
    /\ streams[s].recv = "recv"
    /\ streams[s].ctx \in ctxCancelled
    /\ streams' = [streams EXCEPT ![s].recv = "closing", ![s].why = "cancel"]
    /\ UNCHANGED <<regVars, poolVars, ctxVars, grpcStreams, th, opCount, varsWeight>>

\* ... or returns the server's reply to an envelope sent on the stream,
\* offered to ch without blocking; the goroutine returns either way ...
RecvMessage(s) ==
    /\ streams[s].recv = "recv"
    /\ streams[s].sent
    /\ streams' = [streams EXCEPT ![s].recv = "closing", ![s].why = "message"]
    /\ UNCHANGED <<regVars, poolVars, ctxVars, grpcStreams, th, opCount, varsWeight>>

\* ... or fails when the transport breaks or its connection is closed
RecvFault(s) ==
    /\ NetFaults \/ streams[s].connClosed
    /\ streams[s].recv = "recv"
    /\ streams' = [streams EXCEPT ![s].recv = "closing", ![s].why = "fault"]
    /\ UNCHANGED <<regVars, poolVars, ctxVars, grpcStreams, th, opCount, varsWeight>>

\* deferred: close(ch); grpcStreams.Delete(clientId) (lines 270-273), which
\* removes whatever stream is stored under the client id by then
RecvExit(s) ==
    /\ streams[s].recv = "closing"
    /\ grpcStreams' = Without(grpcStreams, streams[s].client)
    /\ streams' = [streams EXCEPT ![s].recv = "exited"]
    /\ UNCHANGED <<regVars, poolVars, ctxVars, th, opCount, varsWeight>>

-----------------------------------------------------------------------------
(* The readers.  Get, Size and SizeByName are one read-locked section each; *)
(* GetByName, All and AllToMap range over peer.nodes and release the read   *)
(* lock inside the loop body (lines 156-202).                               *)

\* GetByName(name) returns the empty list when SizeByName(name) < 1
\* (lines 156-161), and ranges otherwise
GetByNameBegin(t, n) ==
    /\ CanBegin(t, "GetByName")
    /\ th' = IF SizeByName(n) < 1 THEN th
             ELSE [th EXCEPT ![t] = [Call("GetByName", "rangeStart", "idle", NoId, NoClient, <<>>)
                                       EXCEPT !.name = n, !.seen = {nodes}]]
    /\ opCount' = opCount + 1
    /\ UNCHANGED <<regVars, poolVars, ctxVars, streamVars, varsWeight>>

\* All(): len := peer.Size(); nodes := make([]*Meta, len) (lines 176-178)
AllBegin(t) ==
    /\ CanBegin(t, "All")
    /\ th' = [th EXCEPT ![t] = [Call("All", "rangeStart", "idle", NoId, NoClient, <<>>)
                                  EXCEPT !.alloc = Size]]
    /\ opCount' = opCount + 1
    /\ UNCHANGED <<regVars, poolVars, ctxVars, streamVars, varsWeight>>

\* AllToMap(): nodes := make(map[string]*Meta) (lines 192-193)
AllToMapBegin(t) ==
    /\ CanBegin(t, "AllToMap")
    /\ th' = [th EXCEPT ![t] = [Call("AllToMap", "rangeStart", "idle", NoId, NoClient, <<>>)
                                  EXCEPT !.seen = {nodes}]]
    /\ opCount' = opCount + 1
    /\ UNCHANGED <<regVars, poolVars, ctxVars, streamVars, varsWeight>>

\* The next key under the read lock, then the body with the lock released:
\* All writes nodes[i] and increments i, AllToMap stores the clone,
\* GetByName appends it when its name matches.  The value is read from
\* the map object the range iterates: peer.nodes while it is still that
\* object, else the old object as it was when it was replaced.
RangeIterate(t, keys, live, snap) ==
    \/ /\ keys = {}
       /\ Done(t)
    \/ \E k \in keys :
          LET m == IF live THEN nodes ELSE snap
              skip == th[t].op = "GetByName" /\ m[k].name # th[t].name
          IN  th' = [th EXCEPT ![t].keys = keys \ {k}, ![t].live = live, ![t].snap = snap,
                               ![t].produced = IF skip THEN @ ELSE @ + 1,
                               ![t].result = IF skip \/ th[t].op = "All" THEN @ ELSE Put(@, k, m[k]),
                               ![t].pc = "rangeHead"]

\* peer.RLock(); for k, v := range peer.nodes
RangeStart(t) ==
    /\ th[t].pc = "rangeStart"
    /\ RangeIterate(t, DOMAIN nodes, TRUE, nodes)
    /\ UNCHANGED <<regVars, poolVars, ctxVars, streamVars, opCount, varsWeight>>

\* peer.RLock() at the end of the body, then the next iteration
RangeHead(t) ==
    /\ th[t].pc = "rangeHead"
    /\ RangeIterate(t, th[t].keys, th[t].live, th[t].snap)
    /\ UNCHANGED <<regVars, poolVars, ctxVars, streamVars, opCount, varsWeight>>

\* A caller writes to the Vars of a Meta the registry returned: Get,
\* GetByName, All and AllToMap return node.Clone(), and Clone copies the
\* struct, so the copy's Vars is the registry's own map (lines 36-39):
\* Goroutine t calls m, _ := peer.Get(id) and then sets m.Vars["weight"] = w.
MutateReadResult(t, id, w) ==
    /\ CallerWrites
    /\ CanBegin(t, "Get")
    /\ Lookup(id)
    /\ varsWeight' = [varsWeight EXCEPT ![nodes[id].vars] = w]
    /\ opCount' = opCount + 1
    /\ UNCHANGED <<regVars, poolVars, ctxVars, streamVars, th>>

-----------------------------------------------------------------------------

Init ==
    /\ nodes = EmptyFn
    /\ nodesByName = EmptyFn
    /\ rings = EmptyFn
    /\ grpcPool = EmptyFn
    /\ poolOpen = {}
    /\ poolSeq = 0
    /\ grpcStreamCancelFn = EmptyFn
    /\ ctxCancelled = {}
    /\ ctxSeq = 0
    /\ grpcStreams = EmptyFn
    /\ streams = <<>>
    /\ th = [t \in Threads |-> Idle]
    /\ opCount = 0
    /\ varsWeight = InitVars

Invoke(t) ==
    \/ \E in \in SyncInputs : SyncBegin(t, in)
    \/ \E id \in Ids : DeleteBegin(t, id) \/ SendBegin(t, id)
    \/ \E id \in Ids, st \in MetaStatus : Update(t, id, st)
    \/ ResetBegin(t)
    \/ \E c \in Clients, id \in Ids : SendStreamBegin(t, c, id)
    \/ AllBegin(t) \/ AllToMapBegin(t)
    \/ \E n \in Names : GetByNameBegin(t, n)
    \/ \E id \in Ids, w \in WeightVars : MutateReadResult(t, id, w)

Step(t) ==
    \/ SyncLock(t) \/ SyncHead(t)
    \/ PurgePoolLoad(t) \/ PurgePoolDelete(t) \/ PurgeCtxLoad(t) \/ PurgeCtxDelete(t)
    \/ ResetPoolsStart(t) \/ ResetPool(t) \/ ResetCtxStart(t) \/ ResetCtx(t)
    \/ MkLoad(t) \/ MkNew(t) \/ SendGet(t)
    \/ SSLoad(t) \/ SSGet(t) \/ SSCtxLoad(t) \/ SSCtxStore(t) \/ SSOpen(t) \/ SSStore(t)
    \/ RangeStart(t) \/ RangeHead(t)

Next ==
    \/ \E t \in Threads : Invoke(t) \/ Step(t)
    \/ \E s \in DOMAIN streams :
          RecvCancelled(s) \/ RecvMessage(s) \/ RecvFault(s) \/ RecvExit(s)
    \/ \E c \in 1..ctxSeq : CallerContextDone(c)

\* A receive goroutine whose context is cancelled is scheduled by the Go
\* runtime and its Recv returns: the only step fairness is assumed for.
\* Calls are made by the application, which may stop calling at any time.
Fairness == \A s \in 1..MaxOps : WF_vars(s \in DOMAIN streams /\ RecvCancelled(s))
                                 /\ WF_vars(s \in DOMAIN streams /\ RecvExit(s))

Spec == Init /\ [][Next]_vars /\ Fairness

-----------------------------------------------------------------------------
(* Properties.                                                              *)

StreamRec == [client : Clients, peer : Ids, ctx : Nat, sent : BOOLEAN,
              recv : {"recv", "closing", "exited"},
              why : {"none", "cancel", "message", "fault"}, connClosed : BOOLEAN]

TypeOK ==
    /\ \E D \in SUBSET Ids : nodes \in [D -> Meta]
    /\ \E D \in SUBSET Names : nodesByName \in [D -> Int]
    /\ \A n \in DOMAIN rings : n \in Names /\ DOMAIN rings[n] \subseteq Ids
    /\ \E D \in SUBSET Ids : grpcPool \in [D -> 1..poolSeq]
    /\ poolOpen \subseteq 1..poolSeq
    /\ \E D \in SUBSET Ids : grpcStreamCancelFn \in [D -> 1..ctxSeq]
    /\ ctxCancelled \subseteq 1..ctxSeq
    /\ \E D \in SUBSET Clients : grpcStreams \in [D -> DOMAIN streams]
    /\ streams \in Seq(StreamRec)
    /\ \A t \in Threads : th[t].pc \in PCs
    /\ opCount \in 0..MaxOps
    /\ varsWeight \in [VarMaps -> WeightVars]

\* No call is in progress (receive goroutines may still run)
Quiescent == \A t \in Threads : th[t].pc = "idle"

\* The registry's secondary indexes agree with peer.nodes after any mix of
\* concurrent Sync, Delete, Update and Reset: a service's count is its
\* number of nodes, its ring holds exactly its nodes with their parsed
\* weights, and a service without nodes has neither (spec section 8, 1-2).
IndexesMatchNodes ==
    \A n \in Names :
        LET members == {id \in DOMAIN nodes : nodes[id].name = n} IN
        IF members = {}
        THEN n \notin DOMAIN nodesByName /\ n \notin DOMAIN rings
        ELSE /\ n \in DOMAIN nodesByName /\ nodesByName[n] = Cardinality(members)
             /\ n \in DOMAIN rings /\ rings[n] = [id \in members |-> Weight(nodes[id])]

\* Once no call is in progress, every id holding a channel pool or a stream
\* context is in the registry: Delete and Sync purge the transport of the
\* nodes they remove (spec section 8, 5).
TransportOnlyForRegistered ==
    Quiescent =>
        DOMAIN grpcPool \cup DOMAIN grpcStreamCancelFn \subseteq DOMAIN nodes

\* Every pool that is not closed is reachable through grpcPool, so a later
\* purge or Reset closes it: makeGrpcPool's Load/New/Store and the purge's
\* Load/Close/Delete never lose an open pool.
NoOrphanOpenPool == poolOpen \subseteq Range(grpcPool)

\* A stream registered under a client id still has its receive goroutine,
\* which removes it when it ends: SendStream never hands a later call a
\* stream whose goroutine has already gone.
StreamRegistryLive ==
    \A c \in DOMAIN grpcStreams : streams[grpcStreams[c]].recv # "exited"

\* All() never writes past the slice it sized with Size().
AllSliceFits == \A t \in Threads : th[t].op = "All" => th[t].produced <= th[t].alloc

Receiving(s) == s \in DOMAIN streams /\ streams[s].recv = "recv"

\* Once no call is in progress, every stream to a peer that is no longer
\* registered eventually ends: removal cancels the peer-scoped context of
\* all its streams (spec sections 4.3 and 5).
PeerRemovalEndsStreams ==
    \A s \in 1..MaxOps :
        (Quiescent /\ Receiving(s) /\ streams[s].peer \notin DOMAIN nodes)
            ~> ~Receiving(s)

\* Once no call is in progress, every stream whose receive goroutine still
\* runs is the one grpcStreams holds for its client id: SendStream opens a
\* stream only when none is registered, and a goroutine's deferred Delete
\* removes only its own entry, so a client id never has two live streams
\* or an unreachable one (spec section 8.4: at most one stream per clientId).
StreamSingleton ==
    Quiescent =>
        \A s \in DOMAIN streams :
            Receiving(s) => /\ streams[s].client \in DOMAIN grpcStreams
                            /\ grpcStreams[streams[s].client] = s

\* Every stream registered under a client id runs on an open connection:
\* SendStream hands later calls (and its own receive goroutine) a stream
\* whose transport the pool keeps (spec section 4.3), although the deferred
\* conn.Close() of line 249 runs when SendStream returns and the stream
\* outlives it.
StreamOnOpenConn == \A c \in DOMAIN grpcStreams : ~streams[grpcStreams[c]].connClosed

\* What a reader call returns from registry state h: AllToMap all of it,
\* GetByName the nodes of its service
ReaderView(t, h) ==
    IF th[t].op = "AllToMap" THEN h
    ELSE Restrict(h, {id \in DOMAIN h : h[id].name = th[t].name})

\* AllToMap and GetByName return the registry as it was at one instant of
\* the call, never a mixture of two states: spec section 5 ("a reader sees
\* either the pre-Sync or the post-Sync snapshot") and 4.1 (reads take the
\* read lock), although the loops of lines 163-171 and 195-199 release the
\* lock between elements.
ReaderSeesSnapshot ==
    [][\A t \in Threads :
          (th[t].op \in ReaderOps /\ th[t].pc # "idle" /\ th'[t].pc = "idle")
              => \E h \in th[t].seen : th[t].result = ReaderView(t, h)]_vars

\* The registry of LocalPeer implements PeerRegistry: peer.nodes is the
\* abstract registry and a goroutine inside Sync has its argument pending,
\* so every change of peer.nodes is a whole Sync result taking effect
\* inside its call, a single Delete, an Update or a Reset.
AbstractRegistry == INSTANCE PeerRegistry WITH
    registry <- nodes,
    pending  <- [t \in Threads |-> IF th[t].op = "Sync" THEN {th[t].input} ELSE {}]

RefinesPeerRegistry == AbstractRegistry!SpecA

=============================================================================
