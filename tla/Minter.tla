------------------------------- MODULE Minter -------------------------------
(***************************************************************************)
(* The publication pipeline of dark-core-minter-api: the API, the three    *)
(* workers, the IPFS cluster and the chain, one step at a time.            *)
(***************************************************************************)
EXTENDS MinterApi, MetadataWorker, ReplicationWorker, ChainWorker

Init ==
    /\ rows = [a \in Ark |-> None]
    /\ task = [a \in Ark |-> None]
    /\ todo = {}
    /\ observed = Unobserved
    /\ pipeline = [a \in Ark |-> None]
    /\ ClusterInit
    /\ ChainInit

\* What happens outside the minter.
EnvironmentNext ==
    \/ /\ \E c \in Cid : PinReplica(c) \/ UnpinContent(c)
       /\ UNCHANGED <<workVars, todo, observed, pipeline, chainVars>>
    \/ /\ \/ \E w \in Authority : Revoke(w) \/ Grant(w)
          \/ \E a \in Ark, w \in Authority : TransferOwner(a, w)
       /\ UNCHANGED <<workVars, todo, observed, pipeline, clusterVars>>

LockNext == \E a \in Ark : CommitAndUnlock(a) \/ LoseConnection(a)

Next == \/ ApiNext \/ MetadataNext \/ ReplicationNext \/ ChainNext
        \/ LockNext \/ EnvironmentNext

Spec == Init /\ [][Next]_vars

----------------------------------------------------------------------------
(* Liveness: the specification in which the outages end *)

\* The status read left a CID of the page unanswered.
BlindCycle ==
    /\ todo = {} /\ todo' # {}
    /\ \E a \in todo' : \E c \in CidPair(rows[a].cids) : observed'[c] = None

\* Every status that a cycle works with was read by that cycle: statuses are
\* used again for two seconds only.
FreshCycle ==
    /\ FirstPinCycle \/ MaintenanceCycle
    /\ \A a \in todo' : \A c \in CidPair(rows[a].cids) :
            observed'[c] = [replicas |-> replicas[c], assigned |-> alloc[c]]

\* The chain could have settled the item, had it been readable.
UnreadChain(a) ==
    /\ DeferUncertain(a)
    /\ pipeline[a].phase = "reverted" \/ OnChain(a) \/ ~IdentityHolds(a)

\* A repair was due, and left part of the content unpinned.
RepairFails(a) ==
    /\ a \in todo /\ Reconcilable(a) /\ Answered(a)
    /\ \E c \in CidPair(rows[a].cids) : Unpinned(c)
    /\ ~Locked(a) /\ task'[a] # None /\ task'[a].row = DeferProcessingRetry(rows[a])

\* What an outage of the database, the Store API, the cluster or the RPC node
\* does, and a worker restart.
Fault ==
    \/ BlindCycle \/ CrashReplicationWorker \/ CrashChainWorker
    \/ \E a \in Ark : \/ LoseConnection(a) \/ PersistFails(a) \/ RepairFails(a)
                      \/ SendFails(a) \/ ReceiptTimeout(a) \/ UnreadChain(a)
    \/ \E c \in Cid : UnpinContent(c)

\* Every worker loops for ever, every holder of a lock finishes, blocks are
\* mined and peers pin what they were asked to.  Cycles go on reading fresh
\* statuses.  Waits are finite: a repair or
\* a promotion that is due again and again is not always held back by the
\* grace period, the cooldown or the budget.
Fairness ==
    /\ WF_vars(MetadataNext) /\ WF_vars(ReplicationNext) /\ WF_vars(ChainNext)
    /\ SF_vars(FreshCycle)
    /\ \A a \in Ark : /\ WF_vars(CommitAndUnlock(a))
                      /\ SF_vars(ReconcileRepair(a))
    /\ \A w \in Authority : WF_vars(Mine(w))
    /\ \A c \in Cid :
        /\ WF_vars(PinReplica(c) /\ UNCHANGED <<workVars, todo, observed, pipeline, chainVars>>)
        /\ SF_vars(MaintenanceCycle /\ alloc'[c] > alloc[c])

FairSpec == Spec /\ Fairness /\ <>[][~Fault]_vars

----------------------------------------------------------------------------
(* Types *)

\* Every variable has its type: rows carry a stage, a status and nullable
\* columns, locks are free or held, and the cluster and the chain are as their
\* own modules say.
TypeOK ==
    /\ rows \in [Ark -> Row \cup {None}]
    /\ task \in [Ark -> Task \cup {None}]
    /\ todo \subseteq Ark
    /\ observed \in [Cid -> Observation \cup {None}]
    /\ pipeline \in [Ark -> Item \cup {None}]
    /\ ClusterTypeOK
    /\ ChainTypeOK

----------------------------------------------------------------------------
(* Invariants *)

\* A level 1 CID reaches the contract, or a transaction for it, only after
\* both levels of that content had at least publish_after_replicas copies:
\* the chain never points at content that nobody ever held.
OnlyAvailableOnChain ==
    /\ \A w \in Authority : \A i \in 1..Len(mempool[w]) :
            Reached(mempool[w][i].cids, PublishAfter)
    /\ \A a \in Ark : (chain[a] # None /\ chain[a].cids # None)
                        => Reached(chain[a].cids, PublishAfter)

\* An authority signs only content that it submitted itself for that ARK, whatever
\* happened to the ownership of the ARK meanwhile: a successor never
\* publishes the job of its predecessor.
SignedOnlyByItsAuthority ==
    \A w \in Authority : \A i \in 1..Len(mempool[w]) :
        <<mempool[w][i].ark, w, mempool[w][i].target, mempool[w][i].cids>> \in Offers

\* While content is pending, and until both levels were seen with
\* target_replicas copies, the row keeps the payload that a repair needs, and
\* its CIDs are those of that payload.
PayloadRetained ==
    \A a \in Ark : Exists(a) =>
        LET row == rows[a] IN
        /\ row.state \in Pending => row.payload # None
        /\ row.payload # None => row.cids \in {None, row.payload}
        /\ (row.payload = None /\ row.cids # None)
             => Reached(row.cids, TargetReplicas)

\* What the chain holds for a published ARK is exactly the target and the level
\* 1 CID of the row.  Only if the ARK ever had another owner there may it be
\* something else, and that, too, was requested: what another authority wrote, or
\* a forgotten transaction of a first tenure, mined late in a second.
PublishedIsOnChain ==
    \A a \in Ark :
        (Exists(a) /\ rows[a].state = "P")
        => /\ chain[a] # None
           /\ \/ ChainMatches(a, rows[a].target, rows[a].cids)
              \/ /\ owned[a] # {rows[a].authority}
                 /\ \E w \in Authority : <<a, w, chain[a].target, chain[a].cids>> \in Offers

\* No worker brings the job of a tombstoned ARK back: what a worker records
\* about an ARK that was deleted meanwhile is dropped.  (The page of an
\* authority that the workers do not serve is failed without that check.)
TombstoneInert ==
    \A a \in Ark : (Exists(a) /\ rows[a].state = "T") =>
        \/ rows[a].status = "CANCELLED"
        \/ rows[a].status = "FAILED" /\ rows[a].authority \notin ChainAssigned

\* The stores that a GET puts its answer together from fit together at every
\* moment, although the workers, the chain and the API change them at different
\* moments: read while none of them changes, a published ARK has a target, a CID and
\* metadata of one document, unless it ever had another owner.  Nothing holds them
\* still during a GET: what is committed between its reads may mix with the rest.
StoresFitTogether ==
    \A a \in Ark : \A answer \in StatusAnswers(rows[a], rows[a], chain[a]) :
        (answer.state = "P" /\ answer.cid # None /\ answer.metadata # None) =>
            \/ answer.metadata = answer.cid
               /\ <<a, rows[a].authority, answer.target, answer.cid>> \in Offers
            \/ owned[a] # {rows[a].authority}

\* The work that an operator is shown is the work that the workers find: the
\* report filters by public state, the selections by CIDs, and each of them does
\* without the filter of the other.  So no ARK is shown as waiting that nobody
\* would ever select, and no job of a deleted ARK is selected in silence.
ReportedWorkIsSelected ==
    /\ Workload("metadata") = {a \in Ark : Persistable(a)}
    /\ Workload("replication") = Candidates(AVAILABILITY) \cup Candidates(REPLICATION)
    /\ ArksAwaitingDurability = Candidates(REPLICATION)
    /\ Workload("chain") = Publishable

----------------------------------------------------------------------------
(* The inductive invariant behind the types and the first, second, third and  *)
(* last of these invariants: one part for each group of variables              *)

\* What holds of every row, committed or still in a session, under a history
\* of replicas: a pending row is a request that was made, its CIDs are those of
\* its payload, and each stage has the copies that the stage before it waits for.
RowInv(a, row, history) ==
    /\ row.state \in Pending =>
        /\ <<a, row.authority, row.target, row.payload>> \in Offers
        /\ row.stage \in METADATA..CHAIN
    /\ row.payload # None => row.cids \in {None, row.payload}
    /\ row.payload = None /\ row.cids # None => Held(history, row.cids, TargetReplicas)
    /\ row.stage >= AVAILABILITY => row.cids # None
    /\ row.stage = METADATA => row.cids = None
    /\ row.stage >= CHAIN => Held(history, row.cids, PublishAfter)
    /\ row.stage \in METADATA..CHAIN => row.state \in Pending \cup {"T"}
    /\ row.stage = REPLICATION => row.state \in {"P", "T"}
    /\ row.state = "T" =>
        \/ row.status = "CANCELLED"
        \/ row.status = "FAILED" /\ row.authority \notin ChainAssigned

RowsInv ==
    /\ rows \in [Ark -> Row \cup {None}]
    /\ \A a \in Ark : Exists(a) => RowInv(a, rows[a], peak)

TasksInv ==
    /\ task \in [Ark -> Task \cup {None}]
    /\ \A a \in Ark : Locked(a) =>
        /\ RowInv(a, task[a].row, peak)
        /\ task[a].step # "commit" => task[a].row.state \in Pending

\* Neither the cluster nor an observation of it is ahead of its history.
HistoryInv ==
    /\ ClusterTypeOK
    /\ observed \in [Cid -> Observation \cup {None}]
    /\ \A c \in Cid : /\ replicas[c] <= peak[c]
                      /\ observed[c] # None => observed[c].replicas <= peak[c]

ItemsInv ==
    /\ pipeline \in [Ark -> Item \cup {None}]
    /\ \A a \in Ark : pipeline[a] # None =>
        /\ <<a, pipeline[a].authority, pipeline[a].target, pipeline[a].cids>> \in Offers
        /\ Held(peak, pipeline[a].cids, PublishAfter)

LedgerInv ==
    /\ ChainTypeOK
    /\ \A w \in Authority : \A i \in 1..Len(mempool[w]) :
        /\ <<mempool[w][i].ark, w, mempool[w][i].target, mempool[w][i].cids>> \in Offers
        /\ Held(peak, mempool[w][i].cids, PublishAfter)
    /\ \A a \in Ark : (chain[a] # None /\ chain[a].cids # None)
                        => Held(peak, chain[a].cids, PublishAfter)

\* A row gets its content from a request, moves through the stages only as
\* copies appear, and what the chain worker selects, sends and gets mined
\* keeps what held of the row it was selected from.
IInv == RowsInv /\ TasksInv /\ HistoryInv /\ ItemsInv /\ LedgerInv /\ todo \subseteq Ark

----------------------------------------------------------------------------
(* Action properties *)

\* The content of a pending ARK is frozen until it is published, failed,
\* deleted or taken over, and its job only moves forward through the stages.
PendingIsFrozen ==
    [][\A a \in Ark :
        ( /\ Exists(a) /\ rows[a].state \in Pending
          /\ rows'[a].state \in Pending
          /\ rows'[a].authority = rows[a].authority )
        => /\ rows'[a].target  = rows[a].target
           /\ rows'[a].payload = rows[a].payload
           /\ rows'[a].stage  >= rows[a].stage]_rows

\* When the chain worker fails a job of an authority that it serves although the
\* write is on the chain, that is for the identity alone: the authority does not
\* own the entry any more, or is inactive or without its permission.  No revert,
\* lost reply or timeout does it.  (The identity is checked first: so a write
\* that succeeded is failed after a mere revocation, where
\* minter-architecture.md:363 has every match become PUBLISHED.)
ConfirmedFailsForIdentity ==
    [][\A a \in Ark :
        ( /\ ~Locked(a) /\ task'[a] # None /\ task'[a].by = "chain"
          /\ task'[a].row.status = "FAILED"
          /\ rows[a].authority \in ChainAssigned )
        => ~ ( /\ IsCurrentOwner(rows[a].authority, a)
               /\ ChainMatches(a, rows[a].target, rows[a].cids) )]_task

----------------------------------------------------------------------------
(* The lifecycle of an ARK that all this implements *)

\* A row as its readers know it: the payload is purged, but its CIDs name it.
View(row) ==
    IF row = None
    THEN [state |-> "unknown", authority |-> None, target |-> None, content |-> None]
    ELSE [state |-> row.state, authority |-> row.authority, target |-> row.target,
          content |-> IF row.payload # None THEN row.payload ELSE row.cids]

Views == [a \in Ark |-> View(rows[a])]

Lifecycle == INSTANCE ArkLifecycle WITH doc <- Views

\* Whatever is lost, repeated, reordered, taken over or crashes, an ARK only
\* does what the lifecycle allows: what was submitted is published unchanged or
\* not at all, and a tombstone is not left by the authority that it belongs to.
ImplementsLifecycle == Lifecycle!Spec

----------------------------------------------------------------------------
(* Liveness properties *)

\* Once the outages end, a pending ARK is published, deleted, or left FAILED
\* for an administrator: no interleaving of the API and the workers, and no
\* crash before, leaves its job where nobody picks it up.
PendingSettles ==
    \A a \in Ark :
        (Exists(a) /\ rows[a].state \in Pending)
            ~> (Exists(a) /\ (rows[a].state \in {"P", "T"} \/ rows[a].status = "FAILED"))

\* Once the outages end, a published ARK reaches its replica target and leaves
\* the replication stage, unless it is changed or deleted first.
DurabilityCompletes ==
    \A a \in Ark :
        (Exists(a) /\ rows[a].state = "P" /\ rows[a].stage = REPLICATION)
            ~> (Exists(a) /\ (rows[a].state # "P" \/ rows[a].stage # REPLICATION))

----------------------------------------------------------------------------
(* What the documentation says and the code does not do *)

\* README.md:544: a worker attempt holds the lock of its ARK, so its content
\* cannot change, and tombstones are refused, during the attempt.  An attempt of
\* the chain worker lasts while it waits for the receipt of what it sent.
ContentFixedDuringAttempt ==
    [][\A a \in InPhase({"sent"}) :
            /\ rows'[a].state  = rows[a].state
            /\ rows'[a].target = rows[a].target
            /\ rows'[a].cids   = rows[a].cids]_rows

\* minter-architecture.md:243: TOMBSTONE is terminal for write flows; and DELETE
\* cannot be undone (arks.py:764).  A tombstone stays one, whoever asks for what.
TombstoneIsTerminal ==
    [][\A a \in Ark : (Exists(a) /\ rows[a].state = "T") => rows'[a].state = "T"]_rows

=============================================================================
