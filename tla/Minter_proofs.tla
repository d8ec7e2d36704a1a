--------------------------- MODULE Minter_proofs ---------------------------
(***************************************************************************)
(* Proofs about Minter, for every number of ARKs, authorities, payloads and *)
(* replicas: IInv is inductive, and implies the type invariant and four of  *)
(* the safety invariants.                                                  *)
(*                                                                         *)
(* The lemmas come in three layers: what each operation of ARKRepository    *)
(* does to RowInv; what taking a lock or committing does to the rows and    *)
(* the tasks; and one lemma per action.                                     *)
(***************************************************************************)
EXTENDS Minter, TLAPS

USE DEF NONE, METADATA, AVAILABILITY, CHAIN, REPLICATION, COMPLETE

Histories == [Cid -> 0..TargetReplicas]

\* A row and what is known of it, as the row lemmas take and return them.
GoodRow(a, row, h) == row \in Row /\ RowInv(a, row, h)

----------------------------------------------------------------------------
(* The operations of ARKRepository keep RowInv *)

\* More copies never make a row bad.
LEMMA HeldGrows ==
    ASSUME NEW h1, NEW h2, NEW p \in Payload, NEW n \in Nat,
           h1 \in Histories, h2 \in Histories,
           \A c \in Cid : h1[c] <= h2[c], Held(h1, p, n)
    PROVE  Held(h2, p, n)
<1>1. CidPair(p) \subseteq Cid
    BY DEF CidPair, Level1, Level2, Cid
<1>2. \A c \in CidPair(p) : h1[c] \in Nat /\ h2[c] \in Nat
    BY <1>1, ReplicaAssumption DEF Histories
<1> QED
    BY <1>1, <1>2 DEF Held

LEMMA RowInvGrows ==
    ASSUME NEW a, NEW row \in Row, NEW h1, NEW h2,
           h1 \in Histories, h2 \in Histories,
           \A c \in Cid : h1[c] <= h2[c], RowInv(a, row, h1)
    PROVE  RowInv(a, row, h2)
<1>1. \A p \in Payload : Held(h1, p, TargetReplicas) => Held(h2, p, TargetReplicas)
    BY HeldGrows, ReplicaAssumption
<1>2. \A p \in Payload : Held(h1, p, PublishAfter) => Held(h2, p, PublishAfter)
    BY HeldGrows, ReplicaAssumption
<1>3. row.cids \in Payload \cup {None} /\ row.stage \in ProcessingStage
    BY DEF Row
<1>4. row.stage >= CHAIN => row.stage >= AVAILABILITY
    BY <1>3 DEF ProcessingStage
<1> QED
    BY <1>1, <1>2, <1>3, <1>4 DEF RowInv

\* The values that the operations assign to a row.
LEMMA RowValues ==
    /\ ArkState = {"R", "D", "U", "P", "T"}
    /\ {NONE, METADATA, AVAILABILITY, CHAIN, REPLICATION, COMPLETE} \subseteq ProcessingStage
    /\ {"READY", "WAITING", "FAILED", "DONE", "CANCELLED"} \subseteq ProcessingStatus
    BY DEF ArkState, ProcessingStage, ProcessingStatus

LEMMA NewRowGood ==
    ASSUME NEW a, NEW h, NEW w \in Authority, NEW target \in Target \cup {None},
           NEW state \in {"R", "P"}
    PROVE  GoodRow(a, NewRow(state, w, target), h)
<1>1. NewRow(state, w, target) \in Row
    BY RowValues DEF NewRow, Row
<1>2. RowInv(a, NewRow(state, w, target), h)
    BY DEF NewRow, RowInv, Pending
<1> QED
    BY <1>1, <1>2 DEF GoodRow

LEMMA SubmittedGood ==
    ASSUME NEW a \in Ark, NEW h, NEW row \in Row, row.state \in {"R", "P"},
           NEW target \in Target, NEW payload \in Payload,
           <<a, row.authority, target, payload>> \in Offers
    PROVE  GoodRow(a, UpdateToPending(CreateOrUpdateMetadata(row, payload), target), h)
<1> DEFINE new == CreateOrUpdateMetadata(row, payload)
           image == UpdateToPending(new, target)
<1>1. /\ new \in Row
      /\ new.payload = payload /\ new.cids = None /\ new.stage = METADATA
      /\ new.authority = row.authority
    BY RowValues DEF CreateOrUpdateMetadata, Row
<1> HIDE DEF new
<1>2. /\ image \in Row
      /\ image.payload = payload /\ image.cids = None /\ image.stage = METADATA
      /\ image.authority = row.authority /\ image.target = target
      /\ image.state \in Pending
    BY <1>1, RowValues DEF UpdateToPending, UpdateToDraft, UpdateToUpdate, Row, Pending
<1>3. RowInv(a, image, h)
    BY <1>2, RecordAssumption DEF RowInv, Pending
<1> QED
    BY <1>2, <1>3 DEF GoodRow, new

LEMMA PublishedGood ==
    ASSUME NEW a, NEW h, NEW row, GoodRow(a, row, h), row.stage = CHAIN
    PROVE  GoodRow(a, UpdateToPublished(row), h)
<1>1. UpdateToPublished(row) \in Row
    BY RowValues DEF GoodRow, UpdateToPublished, Row
<1>2. RowInv(a, UpdateToPublished(row), h)
    BY DEF GoodRow, UpdateToPublished, Row, RowInv, Pending
<1> QED
    BY <1>1, <1>2 DEF GoodRow

LEMMA TombstoneGood ==
    ASSUME NEW a, NEW h, NEW row, GoodRow(a, row, h)
    PROVE  GoodRow(a, UpdateToTombstone(row), h)
<1>1. UpdateToTombstone(row) \in Row
    BY RowValues DEF GoodRow, UpdateToTombstone, Row
<1>2. RowInv(a, UpdateToTombstone(row), h)
    BY DEF GoodRow, UpdateToTombstone, Row, RowInv, Pending
<1> QED
    BY <1>1, <1>2 DEF GoodRow

\* What only touches the status and the attempts of a row keeps it good, as
\* long as it revives no tombstone.
LEMMA StatusGood ==
    ASSUME NEW a, NEW h, NEW row, GoodRow(a, row, h),
           NEW status \in ProcessingStatus, NEW attempts \in Nat,
           row.state = "T" => status = "FAILED" /\ row.authority \notin ChainAssigned
    PROVE  GoodRow(a, [row EXCEPT !.status = status, !.attempts = attempts], h)
<1> DEFINE image == [row EXCEPT !.status = status, !.attempts = attempts]
<1>1. image \in Row
    BY DEF GoodRow, Row
<1>2. RowInv(a, image, h)
    BY DEF GoodRow, Row, RowInv
<1> QED
    BY <1>1, <1>2 DEF GoodRow

\* Only the chain worker fails a row whatever its state.
LEMMA FailedGood ==
    ASSUME NEW a, NEW h, NEW row, GoodRow(a, row, h), NEW retryable \in BOOLEAN,
           row.state = "T" => ~retryable /\ row.authority \notin ChainAssigned
    PROVE  GoodRow(a, MarkProcessingFailed(row, retryable), h)
<1> DEFINE status == IF retryable THEN "WAITING" ELSE "FAILED"
           attempts == row.attempts + 1
<1>1. attempts \in Nat
    BY DEF GoodRow, Row
<1>2. status \in ProcessingStatus
    BY DEF ProcessingStatus
<1>3. row.state = "T" => status = "FAILED" /\ row.authority \notin ChainAssigned
    OBVIOUS
<1>4. MarkProcessingFailed(row, retryable)
        = [row EXCEPT !.status = status, !.attempts = attempts]
    BY DEF GoodRow, MarkProcessingFailed, Row
<1> HIDE DEF status, attempts
<1>5. GoodRow(a, [row EXCEPT !.status = status, !.attempts = attempts], h)
    BY <1>1, <1>2, <1>3, StatusGood
<1> QED
    BY <1>4, <1>5

LEMMA DeferredGood ==
    ASSUME NEW a, NEW h, NEW row, GoodRow(a, row, h), row.state # "T"
    PROVE  GoodRow(a, DeferProcessingRetry(row), h)
<1>1. DeferProcessingRetry(row)
        = [row EXCEPT !.status = "WAITING", !.attempts = row.attempts]
    BY DEF GoodRow, DeferProcessingRetry, Row
<1>2. row.attempts \in Nat
    BY DEF GoodRow, Row
<1>3. GoodRow(a, [row EXCEPT !.status = "WAITING", !.attempts = row.attempts], h)
    BY <1>2, StatusGood, RowValues
<1> QED
    BY <1>1, <1>3

LEMMA RetriedGood ==
    ASSUME NEW a, NEW h, NEW row, GoodRow(a, row, h), row.state # "T"
    PROVE  GoodRow(a, [row EXCEPT !.status = "READY", !.attempts = 0], h)
    BY StatusGood, RowValues

LEMMA PersistedGood ==
    ASSUME NEW a, NEW h, NEW row, GoodRow(a, row, h), row.state \in Pending
    PROVE  GoodRow(a, Persisted(row), h)
<1>1. row.payload \in Payload
    BY MinterAssumption DEF GoodRow, RowInv
<1>2. Persisted(row) \in Row
    BY <1>1, RowValues DEF GoodRow, Persisted, Row
<1>3. RowInv(a, Persisted(row), h)
    BY <1>1, RecordAssumption DEF GoodRow, Persisted, Row, RowInv, Pending
<1> QED
    BY <1>2, <1>3 DEF GoodRow

\* The reconciler advances a row by copies that the history confirms.
LEMMA ReconciledGood ==
    ASSUME NEW a, NEW h \in Histories, NEW row, GoodRow(a, row, h),
           row.stage \in {AVAILABILITY, REPLICATION}, row.state # "T",
           NEW copies \in Nat, NEW repaired \in BOOLEAN, Held(h, row.cids, copies)
    PROVE  GoodRow(a, Reconciled(row, copies, repaired), h)
<1>1. row.cids \in Payload
    BY DEF GoodRow, RowInv, Row
<1>2. CidPair(row.cids) \subseteq Cid
    BY <1>1 DEF CidPair, Level1, Level2, Cid
<1>3. \A n \in Nat : n <= copies => Held(h, row.cids, n)
    BY <1>2, ReplicaAssumption DEF Held, Histories
<1>4. CASE row.stage = AVAILABILITY /\ copies >= PublishAfter
    <2> DEFINE image == [row EXCEPT !.stage = CHAIN, !.status = "READY"]
    <2>1. Held(h, row.cids, PublishAfter)
        BY <1>3, <1>4, ReplicaAssumption
    <2>2. image \in Row
        BY RowValues DEF GoodRow, Row
    <2>3. RowInv(a, image, h)
        BY <1>4, <2>1 DEF GoodRow, Row, RowInv, Pending
    <2> QED
        BY <1>4, <2>2, <2>3 DEF GoodRow, Reconciled
<1>5. CASE row.stage = REPLICATION /\ copies >= TargetReplicas
    <2> DEFINE image == [row EXCEPT !.payload = None, !.stage = COMPLETE, !.status = "DONE"]
    <2>1. Held(h, row.cids, TargetReplicas)
        BY <1>3, <1>5, ReplicaAssumption
    <2>2. image \in Row
        BY RowValues DEF GoodRow, Row
    <2>3. RowInv(a, image, h)
        BY <1>5, <2>1 DEF GoodRow, Row, RowInv, Pending
    <2> QED
        BY <1>5, <2>2, <2>3 DEF GoodRow, Reconciled
<1>6. CASE \/ row.stage = AVAILABILITY /\ ~(copies >= PublishAfter)
           \/ row.stage = REPLICATION /\ ~(copies >= TargetReplicas)
    <2> DEFINE status == IF row.stage = REPLICATION /\ repaired THEN "READY" ELSE "WAITING"
    <2>1. status \in ProcessingStatus
        BY RowValues
    <2>2. Reconciled(row, copies, repaired)
            = [row EXCEPT !.status = status, !.attempts = row.attempts]
        <3>1. [row EXCEPT !.status = status, !.attempts = row.attempts]
                = [row EXCEPT !.status = status]
            BY DEF GoodRow, Row
        <3>2. row.stage # AVAILABILITY <=> row.stage = REPLICATION
            OBVIOUS
        <3> QED
            BY <1>6, <3>1, <3>2 DEF Reconciled
    <2>3. row.attempts \in Nat
        BY DEF GoodRow, Row
    <2> HIDE DEF status
    <2>4. GoodRow(a, [row EXCEPT !.status = status, !.attempts = row.attempts], h)
        BY <2>1, <2>3, StatusGood
    <2> QED
        BY <2>2, <2>4
<1> QED
    BY <1>4, <1>5, <1>6

----------------------------------------------------------------------------
(* What a step does to one group of variables *)

\* A group whose variables stay as they are keeps its part of IInv.
LEMMA Frame ==
    ASSUME IInv, UNCHANGED peak
    PROVE  /\ UNCHANGED rows => RowsInv'
           /\ UNCHANGED task => TasksInv'
           /\ UNCHANGED <<alloc, replicas, observed>> => HistoryInv'
           /\ UNCHANGED pipeline => ItemsInv'
           /\ UNCHANGED chainVars => LedgerInv'
           /\ UNCHANGED todo => (todo \subseteq Ark)'
<1>1. UNCHANGED rows => RowsInv'
    BY DEF IInv, RowsInv, Exists
<1>2. UNCHANGED task => TasksInv'
    BY DEF IInv, TasksInv, Locked
<1>3. UNCHANGED <<alloc, replicas, observed>> => HistoryInv'
    BY DEF IInv, HistoryInv, ClusterTypeOK
<1>4. UNCHANGED pipeline => ItemsInv'
    BY DEF IInv, ItemsInv
<1>5. UNCHANGED chainVars => LedgerInv'
    BY DEF IInv, LedgerInv, ChainTypeOK, chainVars
<1>6. UNCHANGED todo => (todo \subseteq Ark)'
    BY DEF IInv
<1> QED
    BY <1>1, <1>2, <1>3, <1>4, <1>5, <1>6

LEMMA RowGood ==
    ASSUME IInv, NEW a \in Ark, Exists(a)
    PROVE  GoodRow(a, rows[a], peak)
    BY DEF IInv, RowsInv, GoodRow, Exists

LEMMA TaskGood ==
    ASSUME IInv, NEW a \in Ark, Locked(a)
    PROVE  task[a] \in Task /\ GoodRow(a, task[a].row, peak)
    BY DEF IInv, TasksInv, Task, GoodRow, Locked

LEMMA SetRow ==
    ASSUME IInv, UNCHANGED peak, NEW a \in Ark, NEW row, GoodRow(a, row, peak),
           rows' = [rows EXCEPT ![a] = row]
    PROVE  RowsInv'
<1>1. rows' \in [Ark -> Row \cup {None}]
    BY DEF IInv, RowsInv, GoodRow
<1>2. ASSUME NEW b \in Ark, rows'[b] # None
      PROVE  RowInv(b, rows'[b], peak)
    BY <1>2 DEF IInv, RowsInv, GoodRow, Exists
<1> QED
    BY <1>1, <1>2 DEF RowsInv, Exists

LEMMA SetTask ==
    ASSUME IInv, UNCHANGED peak, NEW a \in Ark, NEW who \in Holder,
           NEW step \in {"level2", "level1", "commit"},
           NEW row, GoodRow(a, row, peak), step # "commit" => row.state \in Pending,
           task' = [task EXCEPT ![a] = [by |-> who, step |-> step, row |-> row]]
    PROVE  TasksInv'
<1> DEFINE new == [by |-> who, step |-> step, row |-> row]
<1>1. new \in Task
    BY DEF Task, GoodRow
<1>2. task' \in [Ark -> Task \cup {None}]
    BY <1>1 DEF IInv, TasksInv
<1>3. ASSUME NEW b \in Ark, task'[b] # None
      PROVE  /\ RowInv(b, task'[b].row, peak)
             /\ task'[b].step # "commit" => task'[b].row.state \in Pending
    <2>1. CASE b = a
        <3>1. task'[b] = new
            BY <2>1 DEF IInv, TasksInv
        <3> QED
            BY <2>1, <3>1 DEF GoodRow
    <2>2. CASE b # a
        <3>1. task'[b] = task[b]
            BY <2>2 DEF IInv, TasksInv
        <3> QED
            BY <1>3, <3>1 DEF IInv, TasksInv, Locked
    <2> QED
        BY <2>1, <2>2
<1> QED
    BY <1>2, <1>3 DEF TasksInv, Locked

\* Locks that are released take no row with them.
LEMMA DropTasks ==
    ASSUME IInv, UNCHANGED peak,
           task' \in [Ark -> Task \cup {None}],
           \A a \in Ark : task'[a] \in {task[a], None}
    PROVE  TasksInv'
    BY DEF IInv, TasksInv, Locked

LEMMA WriteGood ==
    ASSUME IInv, UNCHANGED peak, NEW a \in Ark, NEW who \in Holder, NEW row,
           GoodRow(a, row, peak), Write(a, who, row)
    PROVE  RowsInv' /\ TasksInv'
<1>1. TasksInv'
    BY SetTask DEF Write, Acquire
<1> QED
    BY <1>1, Frame DEF Write

LEMMA SetAlloc ==
    ASSUME IInv, UNCHANGED <<peak, replicas, observed>>,
           alloc' \in [Cid -> 0..TargetReplicas]
    PROVE  HistoryInv'
    BY DEF IInv, HistoryInv, ClusterTypeOK

LEMMA AddGood ==
    ASSUME IInv, UNCHANGED <<peak, replicas, observed>>, NEW cids, AddContent(cids)
    PROVE  HistoryInv'
<1>1. 1 \in 0..TargetReplicas
    BY ReplicaAssumption
<1>2. alloc' \in [Cid -> 0..TargetReplicas]
    BY <1>1 DEF IInv, HistoryInv, ClusterTypeOK, AddContent
<1> QED
    BY <1>2, SetAlloc

----------------------------------------------------------------------------
(* The API *)

\* What a PUT works on belongs to the authority that sent it.
LEMMA BaseGood ==
    ASSUME IInv, NEW a \in Ark, NEW w \in Authority, NEW base \in PutBase(a, w)
    PROVE  base \in Row /\ base.authority = w
<1>1. chain[a] # None => chain[a] \in Entry
    BY DEF IInv, LedgerInv, ChainTypeOK
<1>2. \A target \in Target :
        /\ NewRow("P", w, target) \in Row
        /\ NewRow("P", w, target).authority = w
    BY RowValues DEF NewRow, Row
<1>3. Exists(a) => rows[a] \in Row
    BY RowGood DEF GoodRow
<1> QED
    BY <1>1, <1>2, <1>3 DEF PutBase, CreatePublishedImport, Superseded,
       IsCurrentOwner, Entry

\* The takeover of an ARK starts from a clean row.
LEMMA SupersededGood ==
    ASSUME IInv, NEW a \in Ark, NEW w \in Authority, IsCurrentOwner(w, a)
    PROVE  GoodRow(a, Superseded(rows[a], w, chain[a]), peak)
<1>1. chain[a].target \in Target
    BY DEF IInv, LedgerInv, ChainTypeOK, IsCurrentOwner, Entry
<1> QED
    BY <1>1, NewRowGood DEF Superseded

LEMMA ApiStep ==
    ASSUME IInv, ApiNext
    PROVE  IInv'
<1> SUFFICES ASSUME NEW a \in Ark, NEW w \in Authority,
                    \/ Reserve(a, w) \/ Delete(a, w) \/ RetryFailed(a, w)
                    \/ \E target \in Target, payload \in Payload :
                            PutMetadata(a, w, target, payload)
             PROVE  IInv'
    BY DEF ApiNext
<1>1. CASE Reserve(a, w)
    <2>1. GoodRow(a, CreateReserved(w), peak)
        BY NewRowGood DEF CreateReserved
    <2>2. RowsInv'
        BY <1>1, <2>1, SetRow DEF Reserve, clusterVars
    <2> QED
        BY <1>1, <2>2, Frame DEF Reserve, IInv, clusterVars
<1>2. CASE Delete(a, w)
    <2>1. PICK row : GoodRow(a, row, peak) /\ Write(a, "api", row)
        <3>1. GoodRow(a, UpdateToTombstone(rows[a]), peak)
            BY <1>2, RowGood, TombstoneGood DEF Delete
        <3>2. IsCurrentOwner(w, a) =>
                GoodRow(a, UpdateToTombstone(Superseded(rows[a], w, chain[a])), peak)
            BY SupersededGood, TombstoneGood
        <3> QED
            BY <1>2, <3>1, <3>2 DEF Delete
    <2>2. RowsInv' /\ TasksInv'
        BY <1>2, <2>1, WriteGood DEF Delete, clusterVars, Holder
    <2> QED
        BY <1>2, <2>2, Frame DEF Delete, IInv, clusterVars
<1>3. CASE RetryFailed(a, w)
    <2>1. GoodRow(a, [rows[a] EXCEPT !.status = "READY", !.attempts = 0], peak)
        BY <1>3, RowGood, RetriedGood DEF RetryFailed
    <2>2. RowsInv' /\ TasksInv'
        BY <1>3, <2>1, WriteGood DEF RetryFailed, clusterVars, Holder
    <2> QED
        BY <1>3, <2>2, Frame DEF RetryFailed, IInv, clusterVars
<1>4. ASSUME NEW target \in Target, NEW payload \in Payload,
             PutMetadata(a, w, target, payload)
      PROVE  IInv'
    <2>1. PICK base \in PutBase(a, w) :
            /\ base.state \in {"R", "P"}
            /\ Write(a, "api", UpdateToPending(CreateOrUpdateMetadata(base, payload), target))
        BY <1>4 DEF PutMetadata
    <2>2. base \in Row /\ <<a, base.authority, target, payload>> \in Offers
        BY <1>4, BaseGood DEF PutMetadata
    <2>3. GoodRow(a, UpdateToPending(CreateOrUpdateMetadata(base, payload), target), peak)
        BY <2>1, <2>2, SubmittedGood
    <2>4. RowsInv' /\ TasksInv'
        BY <1>4, <2>1, <2>3, WriteGood DEF PutMetadata, clusterVars, Holder
    <2> QED
        BY <1>4, <2>4, Frame DEF PutMetadata, IInv, clusterVars
<1> QED
    BY <1>1, <1>2, <1>3, <1>4

----------------------------------------------------------------------------
(* The metadata worker *)

LEMMA MetadataStep ==
    ASSUME IInv, MetadataNext
    PROVE  IInv'
<1> SUFFICES ASSUME NEW a \in Ark,
                    \/ PersistBegin(a) \/ StoreLevel2(a)
                    \/ StoreLevel1(a) \/ PersistFails(a)
             PROVE  IInv'
    BY DEF MetadataNext
<1> DEFINE held == task[a].row
<1>1. (StoreLevel2(a) \/ StoreLevel1(a) \/ PersistFails(a)) =>
        /\ Locked(a) /\ task[a] \in Task /\ task[a].by = "metadata"
        /\ GoodRow(a, held, peak) /\ held.state \in Pending
    BY TaskGood DEF StoreLevel2, StoreLevel1, PersistFails, Persisting, IInv, TasksInv
<1>2. CASE PersistBegin(a)
    <2>1. GoodRow(a, rows[a], peak) /\ rows[a].state \in Pending
        BY <1>2, RowGood DEF PersistBegin, Persistable
    <2>2. TasksInv'
        BY <1>2, <2>1, SetTask DEF PersistBegin, Acquire, clusterVars, Holder
    <2> QED
        BY <1>2, <2>2, Frame DEF PersistBegin, IInv, clusterVars
<1>3. CASE StoreLevel2(a)
    <2>1. TasksInv'
        BY <1>1, <1>3, SetTask DEF StoreLevel2, Advance, Holder
    <2>2. HistoryInv'
        BY <1>3, AddGood DEF StoreLevel2
    <2> QED
        BY <1>3, <2>1, <2>2, Frame DEF StoreLevel2, IInv
<1>4. CASE StoreLevel1(a)
    <2>1. GoodRow(a, Persisted(held), peak)
        BY <1>1, <1>4, PersistedGood
    <2>2. TasksInv'
        BY <1>4, <2>1, SetTask DEF StoreLevel1, Advance, Holder
    <2>3. HistoryInv'
        BY <1>4, AddGood DEF StoreLevel1
    <2> QED
        BY <1>4, <2>2, <2>3, Frame DEF StoreLevel1, IInv
<1>5. CASE PersistFails(a)
    <2>1. held.state # "T"
        BY <1>1, <1>5 DEF Pending
    <2>2. PICK image \in {DeferProcessingRetry(held), MarkProcessingFailed(held, TRUE)} :
            Advance(a, "commit", image)
        BY <1>5 DEF PersistFails
    <2>3. GoodRow(a, image, peak)
        BY <1>1, <1>5, <2>1, DeferredGood, FailedGood
    <2>4. TasksInv'
        BY <1>5, <2>2, <2>3, SetTask DEF PersistFails, Advance, Holder
    <2>5. HistoryInv'
        BY <1>5, AddGood, Frame DEF PersistFails
    <2> QED
        BY <1>5, <2>4, <2>5, Frame DEF PersistFails, IInv
<1> QED
    BY <1>2, <1>3, <1>4, <1>5

----------------------------------------------------------------------------
(* The replication worker *)

LEMMA AllocTyped ==
    ASSUME IInv
    PROVE  /\ UNCHANGED alloc => alloc' \in [Cid -> 0..TargetReplicas]
           /\ \A cids : AddContent(cids) => alloc' \in [Cid -> 0..TargetReplicas]
           /\ \A cids : EnsureReplication(cids) => alloc' \in [Cid -> 0..TargetReplicas]
<1>1. 1 \in 0..TargetReplicas /\ TargetReplicas \in 0..TargetReplicas
    BY ReplicaAssumption
<1>2. alloc \in [Cid -> 0..TargetReplicas]
    BY DEF IInv, HistoryInv, ClusterTypeOK
<1> QED
    BY <1>1, <1>2 DEF AddContent, EnsureReplication

\* A status read now, or used again, is a status the history knows.
LEMMA ObserveGood ==
    ASSUME IInv, NEW stage, NEW page, Observe(stage, page),
           alloc' \in [Cid -> 0..TargetReplicas]
    PROVE  IInv'
<1>1. (todo \subseteq Ark)'
    BY DEF Observe, Candidates
<1>2. \A c \in Cid : /\ alloc[c] \in 0..TargetReplicas /\ replicas[c] \in 0..TargetReplicas
                     /\ replicas[c] <= peak[c]
                     /\ observed[c] \in Observation \cup {None}
                     /\ observed[c] # None => observed[c].replicas <= peak[c]
    BY DEF IInv, HistoryInv, ClusterTypeOK
<1> DEFINE cids == UNION {CidPair(rows[a].cids) : a \in page}
<1>3. PICK reused \in SUBSET {c \in Cached \cap cids : observed[c] # None},
           answered \in SUBSET cids :
        observed' = [c \in Cid |->
            IF c \in reused THEN observed[c]
            ELSE IF c \in answered
                 THEN [replicas |-> replicas[c], assigned |-> alloc[c]]
                 ELSE None]
    <2>1. \A reused : SUBSET (cids \ reused) \subseteq SUBSET cids
        OBVIOUS
    <2> HIDE DEF cids
    <2> QED
        BY Zenon, <2>1 DEF Observe, cids
<1>4. observed' \in [Cid -> Observation \cup {None}]
    BY <1>2, <1>3 DEF Observation
<1>5. ASSUME NEW c \in Cid, observed'[c] # None
      PROVE  observed'[c].replicas <= peak[c]
    <2>1. observed'[c] \in {observed[c], [replicas |-> replicas[c], assigned |-> alloc[c]]}
        BY <1>3, <1>5
    <2> QED
        BY <1>2, <1>5, <2>1
<1>6. HistoryInv'
    BY <1>2, <1>4, <1>5 DEF IInv, HistoryInv, ClusterTypeOK, Observe
<1> QED
    BY <1>1, <1>6, Frame DEF Observe, IInv

\* Dropping an ARK from the page, whatever else the step adds to the cluster.
LEMMA DoneGood ==
    ASSUME IInv, NEW a \in Ark, Done(a), UNCHANGED <<replicas, peak>>,
           alloc' \in [Cid -> 0..TargetReplicas]
    PROVE  HistoryInv' /\ (todo \subseteq Ark)'
<1>1. (todo \subseteq Ark)'
    BY DEF Done, IInv
<1>2. observed' \in [Cid -> Observation \cup {None}]
    BY DEF Done, IInv, HistoryInv
<1>3. \A c \in Cid : observed'[c] # None => observed[c] # None /\ observed'[c] = observed[c]
    BY DEF Done
<1> QED
    BY <1>1, <1>2, <1>3 DEF IInv, HistoryInv, ClusterTypeOK

LEMMA ReconcileGood ==
    ASSUME IInv, NEW a \in Ark, NEW image, Reconcile(a, image), GoodRow(a, image, peak),
           alloc' \in [Cid -> 0..TargetReplicas]
    PROVE  IInv'
<1>1. RowsInv' /\ TasksInv'
    BY WriteGood DEF Reconcile, Holder
<1>2. HistoryInv' /\ (todo \subseteq Ark)'
    BY DoneGood DEF Reconcile
<1> QED
    BY <1>1, <1>2, Frame DEF Reconcile, IInv

\* What the reconciler takes for the copies of a row is what both its CIDs had.
LEMMA CopiesHeld ==
    ASSUME IInv, NEW a \in Ark, Reconcilable(a), Answered(a)
    PROVE  /\ PairReplicas(rows[a].cids) \in Nat
           /\ Held(peak, rows[a].cids, PairReplicas(rows[a].cids))
<1> DEFINE p == rows[a].cids
<1>1. p \in Payload
    <2>1. GoodRow(a, rows[a], peak) /\ rows[a].stage \in {AVAILABILITY, REPLICATION}
        BY RowGood DEF Reconcilable
    <2>2. p # None /\ p \in Payload \cup {None}
        BY <2>1 DEF GoodRow, RowInv, Row
    <2> QED
        BY <2>2
<1>2. CidPair(p) = {Level1(p), Level2(p)} /\ CidPair(p) \subseteq Cid
    BY <1>1 DEF CidPair, Level1, Level2, Cid
<1>3. \A c \in CidPair(p) : /\ observed[c].replicas \in Nat /\ peak[c] \in Nat
                            /\ observed[c].replicas <= peak[c]
    BY <1>2, ReplicaAssumption DEF Answered, IInv, HistoryInv, ClusterTypeOK, Observation
<1>4. /\ PairReplicas(p) \in {observed[Level1(p)].replicas, observed[Level2(p)].replicas}
      /\ PairReplicas(p) <= observed[Level1(p)].replicas
      /\ PairReplicas(p) <= observed[Level2(p)].replicas
    BY <1>2, <1>3 DEF PairReplicas
<1> HIDE DEF p
<1>5. PairReplicas(p) \in Nat /\ Held(peak, p, PairReplicas(p))
    BY <1>2, <1>3, <1>4 DEF Held
<1> QED
    BY <1>5 DEF p

LEMMA ReplicationStep ==
    ASSUME IInv, ReplicationNext
    PROVE  IInv'
<1>1. CASE FirstPinCycle
    BY <1>1, ObserveGood, AllocTyped DEF FirstPinCycle
<1>2. CASE MaintenanceCycle
    BY <1>2, ObserveGood, AllocTyped DEF MaintenanceCycle
<1>3. CASE CrashReplicationWorker
    <2>1. TasksInv'
        <3>1. task' \in [Ark -> Task \cup {None}]
            BY <1>3 DEF CrashReplicationWorker, Released, IInv, TasksInv
        <3>2. \A a \in Ark : task'[a] \in {task[a], None}
            BY <1>3 DEF CrashReplicationWorker, Released
        <3> QED
            BY <1>3, <3>1, <3>2, DropTasks DEF CrashReplicationWorker, clusterVars
    <2>2. HistoryInv'
        BY <1>3 DEF CrashReplicationWorker, IInv, HistoryInv, ClusterTypeOK, clusterVars,
           Unobserved
    <2> QED
        BY <1>3, <2>1, <2>2, Frame DEF CrashReplicationWorker, IInv, clusterVars
<1>4. ASSUME NEW a \in Ark,
             \/ ReconcileUnassigned(a) \/ ReconcileUnanswered(a)
             \/ ReconcileObserved(a)   \/ ReconcileRepair(a)
      PROVE  IInv'
    <2> DEFINE copies == PairReplicas(rows[a].cids)
    <2>1. Reconcilable(a)
        BY <1>4 DEF ReconcileUnassigned, ReconcileUnanswered, ReconcileObserved,
           ReconcileRepair, Reconcile
    <2>2. GoodRow(a, rows[a], peak) /\ rows[a].state # "T"
        BY <2>1, RowGood DEF Reconcilable
    <2>3. /\ GoodRow(a, MarkProcessingFailed(rows[a], FALSE), peak)
          /\ GoodRow(a, DeferProcessingRetry(rows[a]), peak)
        BY <2>2, FailedGood, DeferredGood
    <2>4. Answered(a) => \A repaired \in BOOLEAN :
                            GoodRow(a, Reconciled(rows[a], copies, repaired), peak)
        <3>1. peak \in Histories
            BY DEF IInv, HistoryInv, ClusterTypeOK, Histories
        <3>2. rows[a].stage \in {AVAILABILITY, REPLICATION}
            BY <2>1 DEF Reconcilable
        <3> QED
            BY <2>1, <2>2, <3>1, <3>2, CopiesHeld, ReconciledGood
    <2>5. PICK image : Reconcile(a, image) /\ GoodRow(a, image, peak)
        BY <1>4, <2>3, <2>4 DEF ReconcileUnassigned, ReconcileUnanswered,
           ReconcileObserved, ReconcileRepair
    <2>6. alloc' \in [Cid -> 0..TargetReplicas]
        BY <1>4, AllocTyped DEF ReconcileUnassigned, ReconcileUnanswered,
           ReconcileObserved, ReconcileRepair
    <2> QED
        BY <2>5, <2>6, ReconcileGood
<1>5. ASSUME NEW a \in Ark, SkipReconcile(a)
      PROVE  IInv'
    <2>1. HistoryInv' /\ (todo \subseteq Ark)'
        BY <1>5, DoneGood, AllocTyped DEF SkipReconcile, clusterVars
    <2> QED
        BY <1>5, <2>1, Frame DEF SkipReconcile, IInv, clusterVars
<1> QED
    BY <1>1, <1>2, <1>3, <1>4, <1>5 DEF ReplicationNext

----------------------------------------------------------------------------
(* The chain worker *)

\* Items change their phase or are forgotten; nothing else of them changes.
LEMMA ItemsKept ==
    ASSUME IInv, UNCHANGED peak,
           pipeline' \in [Ark -> Item \cup {None}],
           \A a \in Ark : pipeline'[a] # None =>
                /\ pipeline[a] # None
                /\ pipeline'[a].authority = pipeline[a].authority
                /\ pipeline'[a].target = pipeline[a].target
                /\ pipeline'[a].cids = pipeline[a].cids
    PROVE  ItemsInv'
    BY DEF IInv, ItemsInv

LEMMA PhaseValues == {"selected", "sent", "confirmed", "reverted", "unknown"} = ItemPhase
    BY DEF ItemPhase

\* Any set of items may change its phase at once.
LEMMA PhasesGood ==
    ASSUME IInv, UNCHANGED peak, NEW S, S \subseteq InPhase(ItemPhase),
           NEW phase \in ItemPhase,
           pipeline' = [b \in Ark |-> IF b \in S THEN [pipeline[b] EXCEPT !.phase = phase]
                                      ELSE pipeline[b]]
    PROVE  ItemsInv'
<1>1. \A b \in Ark : pipeline[b] \in Item \cup {None}
    BY DEF IInv, ItemsInv
<1>2. \A b \in S : b \in Ark /\ pipeline[b] \in Item
    BY <1>1 DEF InPhase
<1>3. \A b \in S : LET item == [pipeline[b] EXCEPT !.phase = phase]
                   IN  /\ item \in Item
                       /\ item.authority = pipeline[b].authority
                       /\ item.target = pipeline[b].target
                       /\ item.cids = pipeline[b].cids
    BY <1>2 DEF Item
<1>4. pipeline' \in [Ark -> Item \cup {None}]
    BY <1>1, <1>3
<1>5. \A b \in S : pipeline[b] # None
    BY DEF InPhase
<1> QED
    BY <1>3, <1>4, <1>5, ItemsKept

LEMMA PhaseGood ==
    ASSUME IInv, UNCHANGED peak, NEW a \in InPhase(ItemPhase),
           NEW phase \in ItemPhase, SetPhase(a, phase)
    PROVE  ItemsInv'
<1>1. pipeline \in [Ark -> Item \cup {None}] /\ a \in Ark /\ pipeline[a] \in Item
    BY DEF IInv, ItemsInv, InPhase
<1>2. [pipeline EXCEPT ![a].phase = phase]
        = [b \in Ark |-> IF b \in {a} THEN [pipeline[b] EXCEPT !.phase = phase]
                         ELSE pipeline[b]]
    BY <1>1
<1> QED
    BY <1>2, PhasesGood DEF SetPhase

LEMMA ForgetGood ==
    ASSUME IInv, UNCHANGED peak, NEW a \in Ark, Forget(a)
    PROVE  ItemsInv'
<1>1. pipeline \in [Ark -> Item \cup {None}]
    BY DEF IInv, ItemsInv
<1>2. pipeline' \in [Ark -> Item \cup {None}]
    BY <1>1 DEF Forget
<1>3. \A b \in Ark : pipeline'[b] # None => pipeline'[b] = pipeline[b]
    BY <1>1 DEF Forget
<1> QED
    BY <1>2, <1>3, ItemsKept

\* What is selected is a pending row of the chain stage: a request whose
\* content has its copies.
LEMMA SelectGood ==
    ASSUME IInv, NEW page, SelectPage(page)
    PROVE  IInv'
<1>1. \A a \in page : /\ a \in Ark /\ ItemOf(rows[a]) \in Item
                      /\ <<a, rows[a].authority, rows[a].target, rows[a].cids>> \in Offers
                      /\ Held(peak, rows[a].cids, PublishAfter)
    <2> SUFFICES ASSUME NEW a \in page
                 PROVE  /\ a \in Ark /\ ItemOf(rows[a]) \in Item
                        /\ <<a, rows[a].authority, rows[a].target, rows[a].cids>> \in Offers
                        /\ Held(peak, rows[a].cids, PublishAfter)
        OBVIOUS
    <2>1. /\ a \in Ark /\ Exists(a) /\ rows[a].state \in Pending
          /\ rows[a].stage = CHAIN /\ rows[a].cids # None
        BY DEF SelectPage, Publishable
    <2>2. GoodRow(a, rows[a], peak)
        BY <2>1, RowGood
    <2>3. <<a, rows[a].authority, rows[a].target, rows[a].payload>> \in Offers
        BY <2>1, <2>2 DEF GoodRow, RowInv
    <2>4. /\ rows[a].payload \in Payload /\ rows[a].target \in Target
          /\ rows[a].authority \in Authority
        BY <2>3, MinterAssumption
    <2>5. rows[a].cids = rows[a].payload
        BY <2>1, <2>2, <2>4, RecordAssumption DEF GoodRow, RowInv
    <2>6. Held(peak, rows[a].cids, PublishAfter)
        BY <2>1, <2>2 DEF GoodRow, RowInv
    <2>7. ItemOf(rows[a]) \in Item
        BY <2>1, <2>4, <2>5, PhaseValues DEF ItemOf, Item
    <2> QED
        BY <2>1, <2>3, <2>5, <2>6, <2>7
<1>2. pipeline' = [a \in Ark |-> IF a \in page THEN ItemOf(rows[a]) ELSE None]
    BY DEF SelectPage
<1>3. pipeline' \in [Ark -> Item \cup {None}]
    BY <1>1, <1>2
<1>4. ASSUME NEW a \in Ark, pipeline'[a] # None
      PROVE  /\ <<a, pipeline'[a].authority, pipeline'[a].target, pipeline'[a].cids>> \in Offers
             /\ Held(peak, pipeline'[a].cids, PublishAfter)
    <2>1. a \in page /\ pipeline'[a] = ItemOf(rows[a])
        BY <1>2, <1>4
    <2>2. /\ pipeline'[a].authority = rows[a].authority
          /\ pipeline'[a].target = rows[a].target
          /\ pipeline'[a].cids = rows[a].cids
        BY <2>1 DEF ItemOf
    <2> QED
        BY <1>1, <2>1, <2>2
<1>5. ItemsInv'
    BY <1>3, <1>4 DEF ItemsInv, SelectPage, clusterVars
<1> QED
    BY <1>5, Frame DEF SelectPage, IInv, clusterVars

\* A transaction carries what its item carried.
LEMMA SubmitGood ==
    ASSUME IInv, UNCHANGED <<peak, chain, owned, authorized>>, NEW a \in Ark,
           pipeline[a] # None, Submit(a)
    PROVE  LedgerInv'
<1> DEFINE w == pipeline[a].authority
           op == OperationOf(a)
<1>1. /\ pipeline[a] \in Item
      /\ <<a, w, pipeline[a].target, pipeline[a].cids>> \in Offers
      /\ Held(peak, pipeline[a].cids, PublishAfter)
    BY DEF IInv, ItemsInv
<1>2. /\ op \in Operation /\ w \in Authority
      /\ op.ark = a /\ op.target = pipeline[a].target /\ op.cids = pipeline[a].cids
    BY <1>1 DEF OperationOf, Operation, Item
<1>3. mempool \in [Authority -> Seq(Operation)]
    BY DEF IInv, LedgerInv, ChainTypeOK
<1>4. mempool' = [mempool EXCEPT ![w] = Append(mempool[w], op)]
    BY DEF Submit
<1> HIDE DEF op, w
<1>5. mempool' \in [Authority -> Seq(Operation)]
    BY <1>2, <1>3, <1>4
<1>6. ASSUME NEW v \in Authority, NEW i \in 1..Len(mempool'[v])
      PROVE  \/ v = w /\ mempool'[v][i] = op
             \/ i \in 1..Len(mempool[v]) /\ mempool'[v][i] = mempool[v][i]
    <2>1. CASE v # w
        BY <1>3, <1>4, <1>6, <2>1
    <2>2. CASE v = w
        <3>1. mempool'[v] = Append(mempool[v], op) /\ mempool[v] \in Seq(Operation)
            BY <1>3, <1>4, <2>2
        <3> QED
            BY <1>2, <1>6, <2>2, <3>1
    <2> QED
        BY <2>1, <2>2
<1>7. ASSUME NEW v \in Authority, NEW i \in 1..Len(mempool'[v])
      PROVE  /\ <<mempool'[v][i].ark, v, mempool'[v][i].target, mempool'[v][i].cids>> \in Offers
             /\ Held(peak, mempool'[v][i].cids, PublishAfter)
    BY <1>1, <1>2, <1>6, <1>7 DEF IInv, LedgerInv, w
<1>8. /\ chain \in [Ark -> Entry \cup {None}] /\ owned \in [Ark -> SUBSET Authority]
      /\ authorized \subseteq Authority
    BY DEF IInv, LedgerInv, ChainTypeOK
<1> QED
    BY <1>5, <1>7, <1>8 DEF IInv, LedgerInv, ChainTypeOK

\* Mining moves the content of a transaction to the chain, or drops it.
LEMMA ExecuteGood ==
    ASSUME IInv, UNCHANGED peak, NEW w \in Authority, Execute(w)
    PROVE  LedgerInv'
<1> DEFINE op == Head(mempool[w])
           entry == [owner |-> w, target |-> op.target, cids |-> op.cids]
<1>1. mempool \in [Authority -> Seq(Operation)] /\ chain \in [Ark -> Entry \cup {None}]
    BY DEF IInv, LedgerInv, ChainTypeOK
<1>2. mempool[w] \in Seq(Operation) /\ mempool[w] # <<>>
    BY <1>1 DEF Execute
<1>3. 1 \in 1..Len(mempool[w]) /\ op = mempool[w][1] /\ op \in Operation
    BY <1>2
<1>4. Held(peak, op.cids, PublishAfter)
    BY <1>3 DEF IInv, LedgerInv
<1>5. entry \in Entry /\ entry.cids = op.cids /\ op.ark \in Ark
    BY <1>3 DEF Entry, Operation
<1>6. chain' \in {chain, [chain EXCEPT ![op.ark] = entry]}
    BY DEF Execute
<1>7. mempool' = [mempool EXCEPT ![w] = Tail(mempool[w])]
    BY DEF Execute
<1> HIDE DEF op, entry
<1>8. mempool' \in [Authority -> Seq(Operation)]
    BY <1>1, <1>2, <1>7
<1>9. ASSUME NEW v \in Authority, NEW i \in 1..Len(mempool'[v])
      PROVE  \E j \in 1..Len(mempool[v]) : mempool'[v][i] = mempool[v][j]
    <2>1. CASE v # w
        BY <1>1, <1>7, <1>9, <2>1
    <2>2. CASE v = w
        <3>1. mempool'[v] = Tail(mempool[v])
            BY <1>1, <1>7, <2>2
        <3>2. i + 1 \in 1..Len(mempool[v]) /\ Tail(mempool[v])[i] = mempool[v][i + 1]
            BY <1>2, <1>9, <2>2, <3>1
        <3> QED
            BY <3>1, <3>2
    <2> QED
        BY <2>1, <2>2
<1>10. chain' \in [Ark -> Entry \cup {None}]
    BY <1>1, <1>5, <1>6
<1>11. \A a \in Ark : (chain'[a] # None /\ chain'[a].cids # None)
                        => Held(peak, chain'[a].cids, PublishAfter)
    BY <1>1, <1>4, <1>5, <1>6 DEF IInv, LedgerInv
<1>12. authorized' \subseteq Authority /\ owned' \in [Ark -> SUBSET Authority]
    BY SMTT(30) DEF Execute, IInv, LedgerInv, ChainTypeOK
<1>13. \A v \in Authority : \A i \in 1..Len(mempool'[v]) :
        /\ <<mempool'[v][i].ark, v, mempool'[v][i].target, mempool'[v][i].cids>> \in Offers
        /\ Held(peak, mempool'[v][i].cids, PublishAfter)
    BY <1>9, ZenonT(60) DEF IInv, LedgerInv
<1> QED
    BY <1>8, <1>10, <1>11, <1>12, <1>13 DEF LedgerInv, ChainTypeOK

\* A result is applied to a row that is still pending in the chain stage.
LEMMA HandleGood ==
    ASSUME IInv, NEW a \in Ark, NEW image, Handle(a, image), GoodRow(a, image, peak)
    PROVE  IInv'
<1>1. RowsInv' /\ TasksInv'
    BY WriteGood DEF Handle, Holder, clusterVars
<1>2. ItemsInv'
    BY ForgetGood DEF Handle, clusterVars
<1> QED
    BY <1>1, <1>2, Frame DEF Handle, IInv, clusterVars

LEMMA ChainStep ==
    ASSUME IInv, ChainNext
    PROVE  IInv'
<1>1. ASSUME NEW page \in SUBSET Publishable, SelectPage(page)
      PROVE  IInv'
    BY <1>1, SelectGood
<1>2. ASSUME NEW w \in Authority, Mine(w)
      PROVE  IInv'
    <2>1. LedgerInv'
        BY <1>2, ExecuteGood DEF Mine, clusterVars
    <2>2. ItemsInv'
        <3> DEFINE op == Head(mempool[w])
        <3>1. CASE UNCHANGED pipeline
            BY <1>2, <3>1, Frame DEF Mine, clusterVars
        <3>2. CASE ~UNCHANGED pipeline
            <4>1. PICK phase \in {"confirmed", "reverted"} :
                    op.ark \in InPhase({"sent"}) /\ SetPhase(op.ark, phase)
                BY <1>2, <3>2 DEF Mine
            <4>2. op.ark \in InPhase(ItemPhase) /\ phase \in ItemPhase
                BY <4>1, PhaseValues DEF InPhase
            <4> QED
                BY <1>2, <4>1, <4>2, PhaseGood DEF Mine, clusterVars
        <3> QED
            BY <3>1, <3>2
    <2> QED
        BY <1>2, <2>1, <2>2, Frame DEF Mine, IInv, clusterVars
<1>3. CASE CrashChainWorker
    <2>1. TasksInv'
        <3>1. task' \in [Ark -> Task \cup {None}]
            BY <1>3 DEF CrashChainWorker, Released, IInv, TasksInv
        <3>2. \A a \in Ark : task'[a] \in {task[a], None}
            BY <1>3 DEF CrashChainWorker, Released
        <3> QED
            BY <1>3, <3>1, <3>2, DropTasks DEF CrashChainWorker, clusterVars
    <2>2. ItemsInv'
        BY <1>3 DEF CrashChainWorker, ItemsInv
    <2> QED
        BY <1>3, <2>1, <2>2, Frame DEF CrashChainWorker, IInv, clusterVars
<1>4. ASSUME NEW a \in Ark, RejectUnassigned(a)
      PROVE  IInv'
    <2>1. RowsInv' /\ TasksInv'
        <3>1. CASE UNCHANGED workVars
            BY <1>4, <3>1, Frame DEF RejectUnassigned, workVars, clusterVars
        <3>2. CASE ~UNCHANGED workVars
            <4>1. /\ Exists(a) /\ rows[a].authority \notin ChainAssigned
                  /\ Write(a, "chain", MarkProcessingFailed(rows[a], FALSE))
                BY <1>4, <3>2 DEF RejectUnassigned
            <4>2. GoodRow(a, MarkProcessingFailed(rows[a], FALSE), peak)
                BY <4>1, RowGood, FailedGood
            <4> QED
                BY <1>4, <4>1, <4>2, WriteGood DEF RejectUnassigned, Holder, clusterVars
        <3> QED
            BY <3>1, <3>2
    <2>2. ItemsInv'
        BY <1>4, ForgetGood DEF RejectUnassigned, clusterVars
    <2> QED
        BY <1>4, <2>1, <2>2, Frame DEF RejectUnassigned, IInv, clusterVars
<1>5. ASSUME NEW a \in Ark, Send(a)
      PROVE  IInv'
    <2>1. a \in InPhase(ItemPhase) /\ pipeline[a] # None
        BY <1>5, PhaseValues DEF Send, CanSend, InPhase
    <2>2. ItemsInv'
        BY <1>5, <2>1, PhaseGood, PhaseValues DEF Send, clusterVars
    <2>3. LedgerInv'
        BY <1>5, <2>1, SubmitGood DEF Send, clusterVars
    <2> QED
        BY <1>5, <2>2, <2>3, Frame DEF Send, IInv, clusterVars
<1>6. ASSUME NEW a \in Ark, SendFails(a)
      PROVE  IInv'
    <2>1. a \in InPhase(ItemPhase) /\ pipeline[a] # None
        BY <1>6, PhaseValues DEF SendFails, CanSend, InPhase
    <2>2. ItemsInv'
        <3>1. PICK skipped \in SUBSET {b \in InPhase({"selected"}) :
                              pipeline[b].authority = pipeline[a].authority} :
                pipeline' = [b \in Ark |-> IF b = a \/ b \in skipped
                                           THEN [pipeline[b] EXCEPT !.phase = "unknown"]
                                           ELSE pipeline[b]]
            BY <1>6 DEF SendFails
        <3> DEFINE S == {a} \cup skipped
        <3>2. S \subseteq InPhase(ItemPhase)
            BY <2>1, PhaseValues DEF InPhase
        <3>3. pipeline' = [b \in Ark |-> IF b \in S
                                         THEN [pipeline[b] EXCEPT !.phase = "unknown"]
                                         ELSE pipeline[b]]
            BY <3>1
        <3> HIDE DEF S
        <3> QED
            BY <1>6, <3>2, <3>3, PhasesGood, PhaseValues DEF SendFails, clusterVars
    <2>3. LedgerInv'
        <3>1. CASE Submit(a)
            BY <1>6, <2>1, <3>1, SubmitGood DEF SendFails, clusterVars
        <3>2. CASE UNCHANGED mempool
            BY <1>6, <3>2, Frame DEF SendFails, clusterVars, chainVars
        <3> QED
            BY <1>6, <3>1, <3>2 DEF SendFails
    <2> QED
        BY <1>6, <2>2, <2>3, Frame DEF SendFails, IInv, clusterVars
<1>7. ASSUME NEW a \in Ark, ReceiptTimeout(a)
      PROVE  IInv'
    <2>1. a \in InPhase(ItemPhase)
        BY <1>7, PhaseValues DEF ReceiptTimeout, InPhase
    <2>2. ItemsInv'
        BY <1>7, <2>1, PhaseGood, PhaseValues DEF ReceiptTimeout, clusterVars
    <2> QED
        BY <1>7, <2>2, Frame DEF ReceiptTimeout, IInv, clusterVars
<1>8. ASSUME NEW a \in Ark, DropResult(a)
      PROVE  IInv'
    <2>1. ItemsInv'
        BY <1>8, ForgetGood DEF DropResult, clusterVars
    <2> QED
        BY <1>8, <2>1, Frame DEF DropResult, IInv, clusterVars
<1>9. ASSUME NEW a \in Ark,
             \/ FinalizeConfirmed(a) \/ FailLostIdentity(a) \/ ReconcileOnChain(a)
             \/ FailReverted(a)      \/ DeferUncertain(a)
      PROVE  IInv'
    <2>1. ItemIsCurrent(a) /\ pipeline[a] # None
        BY <1>9 DEF FinalizeConfirmed, FailLostIdentity, ReconcileOnChain,
           FailReverted, DeferUncertain, CanHandle, InPhase
    <2>2. /\ GoodRow(a, rows[a], peak)
          /\ rows[a].stage = CHAIN /\ rows[a].state # "T"
        <3>1. pipeline[a].state # "T"
            BY <2>1 DEF IInv, ItemsInv, Item, Pending
        <3> QED
            BY <2>1, <3>1, RowGood DEF ItemIsCurrent
    <2>3. GoodRow(a, UpdateToPublished(rows[a]), peak)
        BY <2>2, PublishedGood
    <2>4. GoodRow(a, MarkProcessingFailed(rows[a], FALSE), peak)
        BY <2>2, FailedGood
    <2>5. GoodRow(a, DeferProcessingRetry(rows[a]), peak)
        BY <2>2, DeferredGood
    <2>6. PICK image : Handle(a, image) /\ GoodRow(a, image, peak)
        BY <1>9, <2>3, <2>4, <2>5 DEF FinalizeConfirmed, FailLostIdentity,
           ReconcileOnChain, FailReverted, DeferUncertain
    <2> QED
        BY <2>6, HandleGood
<1> QED
    BY <1>1, <1>2, <1>3, <1>4, <1>5, <1>6, <1>7, <1>8, <1>9 DEF ChainNext

----------------------------------------------------------------------------
(* Commits, lost connections and the environment *)

LEMMA LockStep ==
    ASSUME IInv, LockNext
    PROVE  IInv'
<1> SUFFICES ASSUME NEW a \in Ark, CommitAndUnlock(a) \/ LoseConnection(a)
             PROVE  IInv'
    BY DEF LockNext
<1>1. TasksInv'
    <2>1. task' = [task EXCEPT ![a] = None]
        BY DEF CommitAndUnlock, LoseConnection
    <2>2. task \in [Ark -> Task \cup {None}]
        BY DEF IInv, TasksInv
    <2>3. task' \in [Ark -> Task \cup {None}] /\ \A b \in Ark : task'[b] \in {task[b], None}
        BY <2>1, <2>2
    <2> QED
        BY <2>3, DropTasks DEF CommitAndUnlock, LoseConnection, clusterVars
<1>2. CASE CommitAndUnlock(a)
    <2>1. GoodRow(a, task[a].row, peak)
        BY <1>2, TaskGood DEF CommitAndUnlock
    <2>2. RowsInv'
        BY <1>2, <2>1, SetRow DEF CommitAndUnlock, clusterVars
    <2> QED
        BY <1>1, <1>2, <2>2, Frame DEF CommitAndUnlock, IInv, clusterVars
<1>3. CASE LoseConnection(a)
    BY <1>1, <1>3, Frame DEF LoseConnection, IInv, clusterVars
<1> QED
    BY <1>2, <1>3

\* What held of the history before holds after more copies appear.
LEMMA PeakGrows ==
    ASSUME IInv, peak' \in Histories, \A c \in Cid : peak[c] <= peak'[c],
           UNCHANGED <<workVars, todo, observed, pipeline, chainVars>>
    PROVE  RowsInv' /\ TasksInv' /\ ItemsInv' /\ LedgerInv'
<1>1. peak \in Histories
    BY DEF IInv, HistoryInv, ClusterTypeOK, Histories
<1>2. ASSUME NEW p \in Payload, Held(peak, p, PublishAfter)
      PROVE  Held(peak', p, PublishAfter)
    BY <1>1, <1>2, HeldGrows, ReplicaAssumption
<1>3. ASSUME NEW a \in Ark, NEW row \in Row, RowInv(a, row, peak)
      PROVE  RowInv(a, row, peak')
    BY <1>1, <1>3, RowInvGrows
<1>4. RowsInv'
    BY <1>3 DEF IInv, RowsInv, Exists, workVars
<1>5. TasksInv'
    <2>1. \A a \in Ark : Locked(a) => task[a].row \in Row
        BY DEF IInv, TasksInv, Task, Locked
    <2> QED
        BY <1>3, <2>1 DEF IInv, TasksInv, Locked, workVars
<1>6. ItemsInv'
    <2>1. \A a \in Ark : pipeline[a] # None => pipeline[a].cids \in Payload
        BY DEF IInv, ItemsInv, Item
    <2> QED
        BY <1>2, <2>1 DEF IInv, ItemsInv
<1>7. LedgerInv'
    <2>1. \A w \in Authority : \A i \in 1..Len(mempool[w]) : mempool[w][i].cids \in Payload
        BY MinterAssumption DEF IInv, LedgerInv
    <2>2. \A a \in Ark : (chain[a] # None /\ chain[a].cids # None) => chain[a].cids \in Payload
        BY DEF IInv, LedgerInv, ChainTypeOK, Entry
    <2> QED
        BY <1>2, <2>1, <2>2 DEF IInv, LedgerInv, ChainTypeOK, chainVars
<1> QED
    BY <1>4, <1>5, <1>6, <1>7

LEMMA EnvironmentStep ==
    ASSUME IInv, EnvironmentNext
    PROVE  IInv'
<1>1. ASSUME NEW c \in Cid, PinReplica(c),
             UNCHANGED <<workVars, todo, observed, pipeline, chainVars>>
      PROVE  IInv'
    <2>1. \A d \in Cid : /\ alloc[d] \in 0..TargetReplicas /\ replicas[d] \in 0..TargetReplicas
                         /\ peak[d] \in 0..TargetReplicas /\ replicas[d] <= peak[d]
        BY DEF IInv, HistoryInv, ClusterTypeOK
    <2>2. replicas[c] + 1 \in 0..TargetReplicas
        BY <1>1, <2>1, ReplicaAssumption DEF PinReplica
    <2>3. /\ replicas \in [Cid -> 0..TargetReplicas] /\ peak \in [Cid -> 0..TargetReplicas]
          /\ replicas' = [replicas EXCEPT ![c] = replicas[c] + 1]
          /\ peak' = [peak EXCEPT ![c] = IF peak[c] > replicas[c] THEN peak[c]
                                         ELSE replicas[c] + 1]
        BY <1>1 DEF IInv, HistoryInv, ClusterTypeOK, PinReplica
    <2>4. replicas' \in [Cid -> 0..TargetReplicas] /\ peak' \in [Cid -> 0..TargetReplicas]
        BY <2>1, <2>2, <2>3
    <2>5. \A d \in Cid : peak[d] <= peak'[d] /\ replicas'[d] <= peak'[d]
        BY <2>1, <2>2, <2>3, ReplicaAssumption
    <2>6. \A d \in Cid : observed[d] # None => observed[d].replicas <= peak'[d]
        <3>1. \A d \in Cid : observed[d] # None =>
                observed[d].replicas \in Nat /\ observed[d].replicas <= peak[d]
            BY ReplicaAssumption DEF IInv, HistoryInv, Observation
        <3>2. \A d \in Cid : peak[d] \in Nat /\ peak'[d] \in Nat
            BY <2>1, <2>4, ReplicaAssumption
        <3> QED
            BY <2>5, <3>1, <3>2
    <2>7. HistoryInv'
        BY <1>1, <2>4, <2>5, <2>6 DEF IInv, HistoryInv, ClusterTypeOK, PinReplica
    <2>8. RowsInv' /\ TasksInv' /\ ItemsInv' /\ LedgerInv'
        BY <1>1, <2>4, <2>5, PeakGrows DEF Histories
    <2> QED
        BY <1>1, <2>7, <2>8 DEF IInv
<1>2. ASSUME NEW c \in Cid, UnpinContent(c),
             UNCHANGED <<workVars, todo, observed, pipeline, chainVars>>
      PROVE  IInv'
    <2>1. 0 \in 0..TargetReplicas
        BY ReplicaAssumption
    <2>2. HistoryInv'
        BY <1>2, <2>1 DEF IInv, HistoryInv, ClusterTypeOK, UnpinContent
    <2> QED
        BY <1>2, <2>2, Frame DEF UnpinContent, IInv, workVars
<1>3. ASSUME NEW w \in Authority, Revoke(w) \/ Grant(w),
             UNCHANGED <<workVars, todo, observed, pipeline, clusterVars>>
      PROVE  IInv'
    <2>1. LedgerInv'
        BY <1>3 DEF Revoke, Grant, IInv, LedgerInv, ChainTypeOK, clusterVars
    <2> QED
        BY <1>3, <2>1, Frame DEF IInv, workVars, clusterVars
<1>4. ASSUME NEW a \in Ark, NEW w \in Authority, TransferOwner(a, w),
             UNCHANGED <<workVars, todo, observed, pipeline, clusterVars>>
      PROVE  IInv'
    <2>1. chain \in [Ark -> Entry \cup {None}] /\ chain[a] \in Entry
        BY <1>4 DEF IInv, LedgerInv, ChainTypeOK, TransferOwner
    <2> DEFINE entry == [chain[a] EXCEPT !.owner = w]
    <2>2. entry \in Entry /\ entry.cids = chain[a].cids
        BY <2>1 DEF Entry
    <2>3. chain' = [chain EXCEPT ![a] = entry]
        BY <1>4, <2>1 DEF TransferOwner
    <2> HIDE DEF entry
    <2>4. chain' \in [Ark -> Entry \cup {None}]
        BY <2>1, <2>2, <2>3
    <2>5. \A b \in Ark : (chain'[b] # None /\ chain'[b].cids # None)
                            => Held(peak, chain'[b].cids, PublishAfter)
        BY <1>4, <2>1, <2>2, <2>3 DEF IInv, LedgerInv, TransferOwner
    <2>6. owned' \in [Ark -> SUBSET Authority]
        BY <1>4 DEF TransferOwner, IInv, LedgerInv, ChainTypeOK
    <2>7. LedgerInv'
        BY <1>4, <2>4, <2>5, <2>6 DEF IInv, LedgerInv, ChainTypeOK, TransferOwner, clusterVars
    <2> QED
        BY <1>4, <2>7, Frame DEF IInv, workVars, clusterVars
<1> QED
    BY <1>1, <1>2, <1>3, <1>4 DEF EnvironmentNext

----------------------------------------------------------------------------
(* The invariant and what follows from it *)

LEMMA InitGood == Init => IInv
<1> SUFFICES ASSUME Init PROVE IInv
    OBVIOUS
<1>1. RowsInv /\ TasksInv /\ ItemsInv /\ todo \subseteq Ark
    BY DEF Init, RowsInv, TasksInv, ItemsInv, Exists, Locked
<1>2. HistoryInv
    <2>1. 0 \in 0..TargetReplicas
        BY ReplicaAssumption
    <2> QED
        BY <2>1 DEF Init, ClusterInit, HistoryInv, ClusterTypeOK, Unobserved
<1>3. LedgerInv
    <2>1. chain \in [Ark -> Entry \cup {None}]
        BY DEF Init, ChainInit, Entry
    <2>2. \A a \in Ark : chain[a] # None => chain[a].cids = None
        BY DEF Init, ChainInit
    <2>3. owned \in [Ark -> SUBSET Authority]
        BY DEF Init, ChainInit
    <2> QED
        BY <2>1, <2>2, <2>3 DEF Init, ChainInit, LedgerInv, ChainTypeOK
<1> QED
    BY <1>1, <1>2, <1>3 DEF IInv

\* The inductive invariant: whatever the API, the workers, the cluster and the
\* chain do, and in whatever order, every row, every session, every item in the
\* pipeline and every transaction keeps what its origin guaranteed.
THEOREM Inductive == Spec => []IInv
<1>1. IInv /\ [Next]_vars => IInv'
    <2>1. CASE Next
        BY <2>1, ApiStep, MetadataStep, ReplicationStep, ChainStep, LockStep,
           EnvironmentStep DEF Next
    <2>2. CASE UNCHANGED vars
        BY <2>2, Frame DEF vars, IInv, clusterVars
    <2> QED
        BY <2>1, <2>2
<1> QED
    BY <1>1, InitGood, PTL DEF Spec

\* The database, the locks, the workers' memory, the cluster and the chain
\* always have their types.
THEOREM TypeCorrect == Spec => []TypeOK
<1>1. IInv => TypeOK
    BY DEF IInv, TypeOK, RowsInv, TasksInv, HistoryInv, ItemsInv, LedgerInv
<1> QED
    BY <1>1, Inductive, PTL

\* The chain never gets a level 1 CID, and no transaction carries one, before
\* both levels of that content had their publish_after_replicas copies.
THEOREM OnlyAvailable == Spec => []OnlyAvailableOnChain
<1>1. IInv => OnlyAvailableOnChain
    BY DEF IInv, LedgerInv, OnlyAvailableOnChain, Reached
<1> QED
    BY <1>1, Inductive, PTL

\* Every transaction that an authority signs is a request of that authority
\* for that ARK, however often the ownership of the ARK changed.
THEOREM SignedByAuthority == Spec => []SignedOnlyByItsAuthority
<1>1. IInv => SignedOnlyByItsAuthority
    BY DEF IInv, LedgerInv, SignedOnlyByItsAuthority
<1> QED
    BY <1>1, Inductive, PTL

\* The local payload is purged only after both levels had target_replicas
\* copies, and a pending ARK always has it.
THEOREM PayloadKept == Spec => []PayloadRetained
<1>1. IInv => PayloadRetained
    BY MinterAssumption, RecordAssumption
       DEF IInv, RowsInv, RowInv, PayloadRetained, Reached
<1> QED
    BY <1>1, Inductive, PTL

\* No worker revives the job of a tombstone.
THEOREM TombstonesInert == Spec => []TombstoneInert
<1>1. IInv => TombstoneInert
    BY DEF IInv, RowsInv, RowInv, TombstoneInert
<1> QED
    BY <1>1, Inductive, PTL

\* The report of the waiting work and the selections of the workers agree.
THEOREM ReportIsAccurate == Spec => []ReportedWorkIsSelected
<1> SUFFICES ASSUME IInv PROVE ReportedWorkIsSelected
    BY Inductive, PTL
<1>1. ASSUME NEW a \in Ark, Exists(a)
      PROVE  LET row == rows[a] IN
             /\ row.stage = METADATA => row.cids = None
             /\ row.stage \in {AVAILABILITY, CHAIN, REPLICATION} => row.cids # None
             /\ row.stage \in {METADATA, AVAILABILITY, CHAIN} => row.state \in Pending \cup {"T"}
             /\ row.stage = REPLICATION => row.state \in {"P", "T"}
             /\ row.state = "T" => row.status \notin {"READY", "WAITING"}
    <2>1. RowInv(a, rows[a], peak)
        BY <1>1 DEF IInv, RowsInv
    <2> HIDE DEF IInv
    <2> DEFINE row == rows[a]
    <2>2. RowInv(a, row, peak)
        BY <2>1
    <2> HIDE DEF row
    <2>3. /\ row.stage = METADATA => row.cids = None
          /\ row.stage \in {AVAILABILITY, CHAIN, REPLICATION} => row.cids # None
          /\ row.stage \in {METADATA, AVAILABILITY, CHAIN} => row.state \in Pending \cup {"T"}
          /\ row.stage = REPLICATION => row.state \in {"P", "T"}
        BY <2>2 DEF RowInv, METADATA, AVAILABILITY, CHAIN, REPLICATION
    <2>4. row.state = "T" => row.status \notin {"READY", "WAITING"}
        BY <2>2 DEF RowInv
    <2> QED
        BY <2>3, <2>4 DEF row
<1>2. Workload("metadata") = {a \in Ark : Persistable(a)}
    BY <1>1 DEF Workload, WorkerStages, Persistable, ReadyForProcessing, Pending
<1>5. Workload("replication") = Candidates(AVAILABILITY) \cup Candidates(REPLICATION)
    BY <1>1 DEF Workload, WorkerStages, Candidates, ReadyForProcessing, Pending
<1>6. ArksAwaitingDurability = Candidates(REPLICATION)
    BY <1>1 DEF ArksAwaitingDurability, Workload, WorkerStages, Candidates,
                ReadyForProcessing
<1>7. Workload("chain") = Publishable
    BY <1>1 DEF Workload, WorkerStages, Publishable, ReadyForProcessing, Pending
<1> QED
    BY <1>2, <1>5, <1>6, <1>7 DEF ReportedWorkIsSelected

=============================================================================
