---------------------------- MODULE PeerRegistry ----------------------------
(***************************************************************************)
(* What the Peer Registry promises (spec sections 4.1, 5 and 8.3), with no *)
(* locks and no transport: the registry maps ids to Metas; Sync(S) makes   *)
(* it hold exactly the nodes of S, at a single instant between the call    *)
(* and its return (linearizable); Delete removes one id; Update rewrites   *)
(* the status of a present node; Reset empties it.                         *)
(*                                                                         *)
(* pending[t] holds the argument list of a Sync that caller t has made     *)
(* and that has not yet taken effect, and is empty otherwise.              *)
(***************************************************************************)
EXTENDS Integers, Sequences, FiniteSets, Functions, FiniteSetsExt

CONSTANTS Threads, Ids, MetaStatus, SyncInputs

VARIABLES registry, pending

\* The registry after Sync(S): the ids of S, each with the Meta of its last
\* entry in S.
SyncResult(S) ==
    [id \in {S[i][1] : i \in DOMAIN S} |->
        S[Max({i \in DOMAIN S : S[i][1] = id})][2]]

InitA ==
    /\ registry = [id \in {} |-> {}]
    /\ pending = [t \in Threads |-> {}]

\* Caller t calls Sync(S)
RequestSync(t, S) ==
    /\ pending[t] = {}
    /\ pending' = [pending EXCEPT ![t] = {S}]
    /\ UNCHANGED registry

\* The pending Sync of t takes effect and returns
ApplySync(t) ==
    /\ \E S \in pending[t] : registry' = SyncResult(S)
    /\ pending' = [pending EXCEPT ![t] = {}]

DeleteA(id) ==
    /\ registry' = Restrict(registry, DOMAIN registry \ {id})
    /\ UNCHANGED pending

UpdateA(id, st) ==
    /\ id \in DOMAIN registry
    /\ registry' = [registry EXCEPT ![id].status = st]
    /\ UNCHANGED pending

ResetA ==
    /\ registry' = [id \in {} |-> {}]
    /\ UNCHANGED pending

NextA ==
    \/ \E t \in Threads, S \in SyncInputs : RequestSync(t, S)
    \/ \E t \in Threads : ApplySync(t)
    \/ \E id \in Ids : DeleteA(id)
    \/ \E id \in Ids, st \in MetaStatus : UpdateA(id, st)
    \/ ResetA

SpecA == InitA /\ [][NextA]_<<registry, pending>>

=============================================================================
