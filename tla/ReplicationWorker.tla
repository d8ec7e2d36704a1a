-------------------------- MODULE ReplicationWorker --------------------------
(***************************************************************************)
(* ReplicationReconciliationWorker: one cycle selects a page of ARKs, asks *)
(* the cluster for the status of their CIDs without any lock, and then     *)
(* reconciles each ARK under its own lock with the statuses it read.       *)
(***************************************************************************)
EXTENDS MinterState

CycleIdle == todo = {} /\ ~Busy("replication")

\* Seeded fault in Candidates: only pending ARKs are reconciled.
PendingCandidates(stage) ==
    {a \in Ark : /\ Exists(a)
                 /\ rows[a].state \in Pending
                 /\ rows[a].stage = stage
                 /\ ReadyForProcessing(rows[a])
                 /\ rows[a].cids # None}

\* get_reconciliation_candidates: no filter on the public state.
Candidates(stage) ==
    {a \in Ark : /\ Exists(a)
                 /\ rows[a].stage = stage
                 /\ ReadyForProcessing(rows[a])
                 /\ rows[a].cids # None}

CriticalBacklog ==
    \E a \in Ark :
        /\ Exists(a)
        /\ rows[a].status \in {"READY", "WAITING"}
        /\ \/ rows[a].stage = METADATA
           \/ rows[a].stage = AVAILABILITY /\ rows[a].cids # None

\* Select a page and read the statuses of its CIDs.  A status of the previous
\* page that is not two seconds old is used again.  A status batch that fails,
\* or a CID reported as unknown, leaves no observation.
Observe(stage, page) ==
    LET cids == UNION {CidPair(rows[a].cids) : a \in page}
    IN  /\ CycleIdle
        /\ page # {} /\ page \subseteq Candidates(stage)
        /\ Cardinality(page) <= PageSize
        /\ todo' = page
        /\ \E reused \in SUBSET {c \in Cached \cap cids : observed[c] # None} :
           \E answered \in SUBSET (cids \ reused) :
                observed' = [c \in Cid |->
                    IF c \in reused THEN observed[c]
                    ELSE IF c \in answered
                         THEN [replicas |-> replicas[c], assigned |-> alloc[c]]
                         ELSE None]
        /\ UNCHANGED <<rows, task, pipeline, replicas, peak, chainVars>>

FirstPinCycle ==
    /\ \E page \in SUBSET Candidates(AVAILABILITY) : Observe(AVAILABILITY, page)
    /\ UNCHANGED alloc

\* Only without first-pin work.  Observed CIDs below the target allocation
\* are promoted; the budget and failed requests leave any subset of them.
MaintenanceCycle ==
    /\ ~CriticalBacklog
    /\ \E page \in SUBSET Candidates(REPLICATION) : Observe(REPLICATION, page)
    /\ \E promoted \in SUBSET {c \in Cid : /\ observed'[c] # None
                                           /\ observed'[c].assigned < TargetReplicas} :
            EnsureReplication(promoted)

----------------------------------------------------------------------------
(* _reconcile *)

Reconcilable(a) ==
    /\ Exists(a)
    /\ rows[a].state \in {"D", "U", "P"}
    /\ rows[a].stage \in {AVAILABILITY, REPLICATION}
    /\ ReadyForProcessing(rows[a])

\* After the last ARK of the page, only the statuses that may be used again
\* are remembered.
Done(a) ==
    /\ todo' = todo \ {a}
    /\ observed' = IF todo = {a}
                   THEN [c \in Cid |-> IF c \in Cached THEN observed[c] ELSE None]
                   ELSE observed

\* Neither level has a copy or an allocation left.
Unpinned(c) == observed[c].replicas = 0 /\ observed[c].assigned = 0

Answered(a) == \A c \in CidPair(rows[a].cids) : observed[c] # None

\* Seeded fault in PairReplicas: one level with enough copies is enough.
MostReplicas(p) ==
    IF observed[Level1(p)].replicas > observed[Level2(p)].replicas
    THEN observed[Level1(p)].replicas ELSE observed[Level2(p)].replicas

PairReplicas(p) ==
    IF observed[Level1(p)].replicas < observed[Level2(p)].replicas
    THEN observed[Level1(p)].replicas ELSE observed[Level2(p)].replicas

\* Seeded fault in Reconciled: the payload is purged at the first replica.
PurgeEarly(row, copies, repaired) ==
    IF row.stage = AVAILABILITY
    THEN IF copies >= PublishAfter
         THEN [row EXCEPT !.stage = CHAIN, !.status = "READY"]
         ELSE [row EXCEPT !.status = "WAITING"]
    ELSE [row EXCEPT !.payload = None, !.stage = COMPLETE, !.status = "DONE"]

Reconciled(row, copies, repaired) ==
    IF row.stage = AVAILABILITY
    THEN IF copies >= PublishAfter
         THEN [row EXCEPT !.stage = CHAIN, !.status = "READY"]
         ELSE [row EXCEPT !.status = "WAITING"]
    ELSE IF copies >= TargetReplicas
         THEN [row EXCEPT !.payload = None, !.stage = COMPLETE, !.status = "DONE"]
         ELSE [row EXCEPT !.status = IF repaired THEN "READY" ELSE "WAITING"]

Reconcile(a, image) ==
    /\ a \in todo
    /\ Reconcilable(a)
    /\ Write(a, "replication", image)
    /\ Done(a)
    /\ UNCHANGED <<pipeline, replicas, peak, chainVars>>

ReconcileUnassigned(a) ==
    /\ a \in todo /\ Exists(a) /\ rows[a].authority \notin ReplicationAssigned
    /\ Reconcile(a, MarkProcessingFailed(rows[a], FALSE))
    /\ UNCHANGED alloc

\* No usable status for one of the CIDs: the attempt is deferred.
ReconcileUnanswered(a) ==
    /\ a \in todo /\ Reconcilable(a) /\ rows[a].authority \in ReplicationAssigned
    /\ ~Answered(a)
    /\ Reconcile(a, DeferProcessingRetry(rows[a]))
    /\ UNCHANGED alloc

\* Both statuses are known, and nothing needs repair or the grace period or
\* the cooldown forbids one.
ReconcileObserved(a) ==
    /\ a \in todo /\ Reconcilable(a) /\ rows[a].authority \in ReplicationAssigned
    /\ Answered(a)
    /\ Reconcile(a, Reconciled(rows[a], PairReplicas(rows[a].cids), FALSE))
    /\ UNCHANGED alloc

\* Unpinned content is stored again from the retained payload, level 2 first.
\* A failed repair defers the ARK, whatever it had stored by then.
ReconcileRepair(a) ==
    /\ a \in todo /\ Reconcilable(a) /\ rows[a].authority \in ReplicationAssigned
    /\ Answered(a)
    /\ LET lost == {c \in CidPair(rows[a].cids) : Unpinned(c)}
       IN  /\ lost # {}
           /\ \/ /\ rows[a].payload # None
                 /\ AddContent(lost)
                 /\ Reconcile(a, Reconciled(rows[a], PairReplicas(rows[a].cids), TRUE))
              \/ /\ \E stored \in {{}, lost \cap {Level2(rows[a].cids)}, lost} :
                        AddContent(stored)
                 /\ Reconcile(a, DeferProcessingRetry(rows[a]))

\* The ARK is locked by someone else, or no longer reconcilable.
SkipReconcile(a) ==
    /\ a \in todo
    /\ Locked(a) \/ ~Reconcilable(a)
    /\ Done(a)
    /\ UNCHANGED <<rows, task, pipeline, clusterVars, chainVars>>

CrashReplicationWorker ==
    /\ ~CycleIdle \/ observed # Unobserved
    /\ task' = Released("replication")
    /\ todo' = {}
    /\ observed' = Unobserved
    /\ UNCHANGED <<rows, pipeline, clusterVars, chainVars>>

ReplicationNext ==
    \/ FirstPinCycle \/ MaintenanceCycle \/ CrashReplicationWorker
    \/ \E a \in Ark : \/ ReconcileUnassigned(a) \/ ReconcileUnanswered(a)
                      \/ ReconcileObserved(a)   \/ ReconcileRepair(a)
                      \/ SkipReconcile(a)

=============================================================================
