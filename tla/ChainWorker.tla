----------------------------- MODULE ChainWorker -----------------------------
(***************************************************************************)
(* ChainPublisherWorker: one cycle selects a page of publishable ARKs      *)
(* without their locks, sends their operations through dark-core-lib, one  *)
(* pipeline per authority, and then applies each result under the ARK's    *)
(* lock.  `pipeline' holds the selected items until their result has been  *)
(* handled; an item is a copy of the row at selection time.                *)
(***************************************************************************)
EXTENDS MinterState

InPhase(phases) ==
    {a \in Ark : pipeline[a] # None /\ pipeline[a].phase \in phases}

Results == {"confirmed", "reverted", "unknown"}

SetPhase(a, phase) == pipeline' = [pipeline EXCEPT ![a].phase = phase]
Forget(a) == pipeline' = [pipeline EXCEPT ![a] = None]

----------------------------------------------------------------------------
(* Selection *)

Publishable ==
    {a \in Ark : /\ Exists(a)
                 /\ rows[a].state \in Pending
                 /\ rows[a].stage = CHAIN
                 /\ ReadyForProcessing(rows[a])
                 /\ rows[a].cids # None}

ItemOf(row) ==
    [phase |-> "selected", authority |-> row.authority, state |-> row.state,
     target |-> row.target, cids |-> row.cids]

SelectPage(page) ==
    /\ InPhase(ItemPhase) = {} /\ ~Busy("chain")
    /\ page # {} /\ page \subseteq Publishable
    /\ Cardinality(page) <= PageSize
    /\ pipeline' = [a \in Ark |-> IF a \in page THEN ItemOf(rows[a]) ELSE None]
    /\ UNCHANGED <<rows, task, todo, observed, clusterVars, chainVars>>

\* Items of an authority that this minter does not serve are failed one by
\* one; only the authority of the row is compared with the item.
RejectUnassigned(a) ==
    /\ a \in InPhase({"selected"}) /\ pipeline[a].authority \notin ChainAssigned
    /\ InPhase({"sent"} \cup Results) = {} /\ ~Busy("chain")
    /\ Forget(a)
    /\ IF ~Locked(a) /\ Exists(a) /\ rows[a].authority = pipeline[a].authority
       THEN Write(a, "chain", MarkProcessingFailed(rows[a], FALSE))
       ELSE UNCHANGED workVars
    /\ UNCHANGED <<todo, observed, clusterVars, chainVars>>

----------------------------------------------------------------------------
(* publish_ark_operations: no ARK lock is held *)

\* The call in progress is for one authority and has room for a.
CanSend(a) ==
    /\ a \in InPhase({"selected"}) /\ pipeline[a].authority \in ChainAssigned
    /\ InPhase(Results) = {} /\ ~Busy("chain")
    /\ \A b \in InPhase({"sent"}) : pipeline[b].authority = pipeline[a].authority
    /\ Cardinality(InPhase({"sent"})) < RpcBatchSize
    /\ Len(mempool[pipeline[a].authority]) < MaxPending

\* Seeded fault in OperationOf: the CID of the page's first item goes into
\* every operation.
FirstOfPage(a) ==
    [ark |-> a, target |-> pipeline[a].target,
     cids |-> pipeline[CHOOSE b \in InPhase({"selected"}) : TRUE].cids,
     action |-> IF pipeline[a].state = "D" THEN "create" ELSE "update"]

OperationOf(a) ==
    [ark |-> a, target |-> pipeline[a].target, cids |-> pipeline[a].cids,
     action |-> IF pipeline[a].state = "D" THEN "create" ELSE "update"]

Submit(a) ==
    mempool' = [mempool EXCEPT ![pipeline[a].authority] = Append(@, OperationOf(a))]

Send(a) ==
    /\ CanSend(a)
    /\ Submit(a)
    /\ SetPhase(a, "sent")
    /\ UNCHANGED <<rows, task, todo, observed, clusterVars, chain, owned, authorized>>

\* The node's answer to a send is an error or is lost; the rest of the call
\* is not sent, to keep the nonce order.
SendFails(a) ==
    /\ CanSend(a)
    /\ Submit(a) \/ UNCHANGED mempool
    /\ \E skipped \in SUBSET {b \in InPhase({"selected"}) :
                              pipeline[b].authority = pipeline[a].authority} :
          pipeline' = [b \in Ark |-> IF b = a \/ b \in skipped
                                     THEN [pipeline[b] EXCEPT !.phase = "unknown"]
                                     ELSE pipeline[b]]
    /\ UNCHANGED <<rows, task, todo, observed, clusterVars, chain, owned, authorized>>

\* A transaction is mined.  Its receipt reaches the worker if the worker is
\* waiting for it: it waits for the last operation that it sent for an ARK.
Mine(w) ==
    /\ Execute(w)
    /\ LET op == Head(mempool[w])
           awaited == /\ op.ark \in InPhase({"sent"})
                      /\ pipeline[op.ark].authority = w
                      /\ \A i \in 2..Len(mempool[w]) : mempool[w][i].ark # op.ark
       IN  IF awaited
           THEN SetPhase(op.ark, IF Accepts(w, op) THEN "confirmed" ELSE "reverted")
           ELSE UNCHANGED pipeline
    /\ UNCHANGED <<rows, task, todo, observed, clusterVars>>

\* The wait for a receipt ends without one.
ReceiptTimeout(a) ==
    /\ a \in InPhase({"sent"})
    /\ SetPhase(a, "unknown")
    /\ UNCHANGED <<rows, task, todo, observed, clusterVars, chainVars>>

----------------------------------------------------------------------------
(* Results, each under the ARK's lock *)

\* Seeded fault in ItemIsCurrent: the public state and the content are not compared.
RowIsThere(a) ==
    /\ Exists(a)
    /\ rows[a].authority = pipeline[a].authority
    /\ rows[a].stage     = CHAIN

\* _pipeline_item_is_current: the row still holds what the item was made from.
ItemIsCurrent(a) ==
    /\ Exists(a)
    /\ rows[a].authority = pipeline[a].authority
    /\ rows[a].state     = pipeline[a].state
    /\ rows[a].target    = pipeline[a].target
    /\ rows[a].stage     = CHAIN
    /\ rows[a].cids      = pipeline[a].cids

\* The call has returned and a's result is next.
CanHandle(a, phases) ==
    /\ a \in InPhase(phases)
    /\ InPhase({"sent"}) = {} /\ ~Busy("chain")

Handle(a, image) ==
    /\ Write(a, "chain", image)
    /\ Forget(a)
    /\ UNCHANGED <<todo, observed, clusterVars, chainVars>>

\* The lock is busy, or the result is stale: it is dropped.
DropResult(a) ==
    /\ CanHandle(a, Results)
    /\ Locked(a) \/ ~ItemIsCurrent(a)
    /\ Forget(a)
    /\ UNCHANGED <<rows, task, todo, observed, clusterVars, chainVars>>

FinalizeConfirmed(a) ==
    /\ CanHandle(a, {"confirmed"}) /\ ItemIsCurrent(a)
    /\ Handle(a, UpdateToPublished(rows[a]))

\* _reconcile_failed_identity: the authority of the job may still sign for it.
IdentityHolds(a) ==
    /\ pipeline[a].authority \in authorized
    /\ chain[a] # None => chain[a].owner = pipeline[a].authority

FailLostIdentity(a) ==
    /\ CanHandle(a, {"reverted", "unknown"}) /\ ItemIsCurrent(a)
    /\ ~IdentityHolds(a)
    /\ Handle(a, MarkProcessingFailed(rows[a], FALSE))

\* Seeded fault in OnChain: an entry of any content will do.
AnyEntry(a) == chain[a] # None

OnChain(a) == ChainMatches(a, pipeline[a].target, pipeline[a].cids)

\* The write did happen although its result was lost.
ReconcileOnChain(a) ==
    /\ CanHandle(a, {"reverted", "unknown"}) /\ ItemIsCurrent(a)
    /\ IdentityHolds(a)
    /\ OnChain(a)
    /\ Handle(a, UpdateToPublished(rows[a]))

\* Seeded fault in FailReverted: a revert fails the job before the chain is read.
FailUnread(a) ==
    /\ CanHandle(a, {"reverted"}) /\ ItemIsCurrent(a)
    /\ Handle(a, MarkProcessingFailed(rows[a], FALSE))

FailReverted(a) ==
    /\ CanHandle(a, {"reverted"}) /\ ItemIsCurrent(a)
    /\ IdentityHolds(a)
    /\ ~OnChain(a)
    /\ Handle(a, MarkProcessingFailed(rows[a], FALSE))

\* The outcome stays unknown, or the chain cannot be read: try again later.
DeferUncertain(a) ==
    /\ CanHandle(a, {"reverted", "unknown"}) /\ ItemIsCurrent(a)
    /\ Handle(a, DeferProcessingRetry(rows[a]))

----------------------------------------------------------------------------
CrashChainWorker ==
    /\ InPhase(ItemPhase) # {} \/ Busy("chain")
    /\ pipeline' = [a \in Ark |-> None]
    /\ task' = Released("chain")
    /\ UNCHANGED <<rows, todo, observed, clusterVars, chainVars>>

ChainNext ==
    \/ \E page \in SUBSET Publishable : SelectPage(page)
    \/ \E w \in Authority : Mine(w)
    \/ CrashChainWorker
    \/ \E a \in Ark : \/ RejectUnassigned(a) \/ Send(a) \/ SendFails(a)
                      \/ ReceiptTimeout(a) \/ DropResult(a)
                      \/ FinalizeConfirmed(a) \/ FailLostIdentity(a)
                      \/ ReconcileOnChain(a) \/ FailReverted(a)
                      \/ DeferUncertain(a)

=============================================================================
