--------------------------- MODULE StorageCluster ---------------------------
(***************************************************************************)
(* The Store API and the IPFS cluster behind it, as far as the workers     *)
(* observe them: a CID has an allocation (how many peers were asked to pin *)
(* it) and a number of confirmed replicas.  A first add allocates one      *)
(* peer; a promotion raises the allocation to the durability target.  A    *)
(* CID whose pins failed or were dropped has no allocation and no replica. *)
(***************************************************************************)
EXTENDS ArkRecord

CONSTANTS
    PublishAfter,     \* publish_after_replicas
    TargetReplicas,   \* target_replicas
    Fragile,          \* bound: the CIDs whose pins may be lost
    Cached            \* bound: the CIDs whose status may be used again

\* The constructor of ReplicationReconciliationWorker enforces both.
ASSUME ReplicaAssumption ==
    /\ PublishAfter \in Nat \ {0}
    /\ TargetReplicas \in Nat
    /\ PublishAfter <= TargetReplicas
    /\ Fragile \subseteq {1, 2} \X Payload
    /\ Cached \subseteq {1, 2} \X Payload

VARIABLES
    alloc,      \* peers asked to pin each CID
    replicas,   \* confirmed replicas of each CID
    peak        \* history: the most replicas each CID ever had

clusterVars == <<alloc, replicas, peak>>

Level1(p) == <<1, p>>
Level2(p) == <<2, p>>
Cid == {1, 2} \X Payload
CidPair(p) == {Level1(p), Level2(p)}

ClusterTypeOK ==
    /\ alloc    \in [Cid -> 0..TargetReplicas]
    /\ replicas \in [Cid -> 0..TargetReplicas]
    /\ peak     \in [Cid -> 0..TargetReplicas]

ClusterInit ==
    /\ alloc    = [c \in Cid |-> 0]
    /\ replicas = [c \in Cid |-> 0]
    /\ peak     = [c \in Cid |-> 0]

----------------------------------------------------------------------------
\* A store request adds content under the initial one-peer policy.
AddContent(cids) ==
    alloc' = [c \in Cid |-> IF c \in cids /\ alloc[c] = 0 THEN 1 ELSE alloc[c]]

\* ensure_replication: the CIDs are allocated to the durability target.
EnsureReplication(cids) ==
    alloc' = [c \in Cid |-> IF c \in cids THEN TargetReplicas ELSE alloc[c]]

\* One more peer of the allocation confirms its pin.
PinReplica(c) ==
    /\ replicas[c] < alloc[c]
    /\ replicas' = [replicas EXCEPT ![c] = @ + 1]
    /\ peak' = [peak EXCEPT ![c] = IF @ > replicas[c] THEN @ ELSE replicas[c] + 1]
    /\ UNCHANGED alloc

\* The pins of a CID fail or are dropped: it reads as unpinned or in error.
UnpinContent(c) ==
    /\ c \in Fragile
    /\ alloc[c] > 0
    /\ alloc' = [alloc EXCEPT ![c] = 0]
    /\ replicas' = [replicas EXCEPT ![c] = 0]
    /\ UNCHANGED peak

----------------------------------------------------------------------------
\* By that history, both levels of the payload had n replicas at some time.
Held(history, p, n) == \A c \in CidPair(p) : history[c] >= n

Reached(p, n) == Held(peak, p, n)

=============================================================================
