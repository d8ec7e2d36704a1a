-------------------------- MODULE Lifecycle_proofs --------------------------
(***************************************************************************)
(* Minter implements ArkLifecycle, for every number of ARKs, authorities   *)
(* and payloads.  The argument: while an ARK is locked, the image that the *)
(* holder of the lock keeps is one step of the lifecycle away from the     *)
(* committed row, or looks the same.  Only a commit shows it to readers.   *)
(*                                                                         *)
(* Then the action properties of Minter.  A step takes the lock of an ARK  *)
(* with an image in one of four ways (Turn), and a holder changes its      *)
(* image in one way only.  What an image may change is decided when the    *)
(* lock is taken, so what a commit changes needs one more invariant: an    *)
(* image of pending content is that of the committed row, at its stage or  *)
(* a later one.                                                            *)
(***************************************************************************)
EXTENDS Minter_proofs

USE DEF NONE, METADATA, AVAILABILITY, CHAIN, REPLICATION, COMPLETE

Doc(state, w, target, content) ==
    [state |-> state, authority |-> w, target |-> target, content |-> content]

\* The lifecycle lets the ARK a turn from one view into the other.
Lawful(a, old, new) ==
    \/ new = old
    \/ /\ old.state \in {"R", "P"}
       /\ \E target \in Target, content \in Payload :
            /\ <<a, old.authority, target, content>> \in Offers
            /\ new = Doc(IF old.state = "R" THEN "D" ELSE "U", old.authority, target, content)
    \/ /\ old.state \in {"D", "U"}
       /\ new = Doc("P", old.authority, old.target, old.content)
    \/ /\ old.state \in {"R", "P", "D", "U"}
       /\ new = Doc("T", old.authority, old.target, old.content)
    \/ \E w \in Authority, target \in Target :
        /\ old.authority # w
        /\ \/ \E content \in Payload :
                 <<a, w, target, content>> \in Offers /\ new = Doc("U", w, target, content)
           \/ old.state # "unknown" /\ new = Doc("T", w, target, None)

TasksLawful ==
    \A a \in Ark : Locked(a) => Lawful(a, View(rows[a]), View(task[a].row))

RInv == IInv /\ TasksLawful

----------------------------------------------------------------------------
(* Views *)

LEMMA ViewOfRow ==
    ASSUME NEW row \in Row
    PROVE  View(row) = Doc(row.state, row.authority, row.target,
                           IF row.payload # None THEN row.payload ELSE row.cids)
    BY NullAssumption DEF View, Doc

LEMMA ViewOfNone == View(None) = Doc("unknown", None, None, None)
    BY DEF View, Doc

\* What the workers do to a row short of publishing it cannot be seen.
LEMMA StatusUnseen ==
    ASSUME NEW row \in Row, NEW retryable \in BOOLEAN
    PROVE  /\ View(MarkProcessingFailed(row, retryable)) = View(row)
           /\ View(DeferProcessingRetry(row)) = View(row)
           /\ View([row EXCEPT !.status = "READY", !.attempts = 0]) = View(row)
<1> DEFINE failed == MarkProcessingFailed(row, retryable)
           deferred == DeferProcessingRetry(row)
           retried == [row EXCEPT !.status = "READY", !.attempts = 0]
<1>1. failed \in Row /\ deferred \in Row /\ retried \in Row
    <2>1. row.attempts \in Nat /\ row.attempts + 1 \in Nat
        BY DEF Row
    <2> QED
        BY <2>1, RowValues DEF Row, MarkProcessingFailed, DeferProcessingRetry
<1>2. \A new \in {failed, deferred, retried} :
        /\ new.state = row.state /\ new.authority = row.authority
        /\ new.target = row.target /\ new.payload = row.payload /\ new.cids = row.cids
    BY DEF Row, MarkProcessingFailed, DeferProcessingRetry
<1> HIDE DEF failed, deferred, retried
<1>3. \A new \in {failed, deferred, retried} : new \in Row
    BY <1>1
<1>4. \A new \in {failed, deferred, retried} : View(new) = View(row)
    BY <1>2, <1>3, ViewOfRow
<1> QED
    BY <1>4 DEF failed, deferred, retried

LEMMA PersistedUnseen ==
    ASSUME NEW row \in Row, row.payload \in Payload
    PROVE  View(Persisted(row)) = View(row)
<1>1. Persisted(row) \in Row
    BY RowValues DEF Persisted, Row
<1>2. /\ Persisted(row).state = row.state /\ Persisted(row).authority = row.authority
      /\ Persisted(row).target = row.target /\ Persisted(row).payload = row.payload
    BY DEF Persisted, Row
<1>3. row.payload # None
    BY RecordAssumption
<1> QED
    BY <1>1, <1>2, <1>3, ViewOfRow

\* The purge hides nothing: the CIDs of the row are those of its payload.
LEMMA ReconciledUnseen ==
    ASSUME NEW row \in Row, NEW copies, NEW repaired,
           row.cids \in Payload, row.payload # None => row.cids = row.payload
    PROVE  View(Reconciled(row, copies, repaired)) = View(row)
<1> DEFINE new == Reconciled(row, copies, repaired)
<1>1. new \in Row
    BY RowValues DEF Reconciled, Row
<1>2. /\ new.state = row.state /\ new.authority = row.authority
      /\ new.target = row.target /\ new.cids = row.cids
      /\ new.payload \in {row.payload, None}
    BY DEF Reconciled, Row
<1> HIDE DEF new
<1>3. View(new) = View(row)
    BY <1>1, <1>2, ViewOfRow
<1> QED
    BY <1>3 DEF new

----------------------------------------------------------------------------
(* Sessions *)

\* Only the lock of a is taken, with an image that the lifecycle allows.
LEMMA WriteLawful ==
    ASSUME IInv, TasksLawful, UNCHANGED rows, NEW a \in Ark, NEW task0,
           task' = [task EXCEPT ![a] = task0],
           Lawful(a, View(rows[a]), View(task0.row))
    PROVE  TasksLawful'
<1> SUFFICES ASSUME NEW b \in Ark, task'[b] # None
             PROVE  Lawful(b, View(rows[b]), View(task'[b].row))
    BY DEF TasksLawful, Locked
<1>1. CASE b = a
    <2>1. task'[b] = task0
        BY <1>1 DEF IInv, TasksInv
    <2> QED
        BY <1>1, <2>1
<1>2. CASE b # a
    <2>1. task'[b] = task[b]
        BY <1>2 DEF IInv, TasksInv
    <2> QED
        BY <2>1 DEF TasksLawful, Locked
<1> QED
    BY <1>1, <1>2

\* Locks are released.
LEMMA DropLawful ==
    ASSUME IInv, TasksLawful, UNCHANGED rows,
           \A a \in Ark : task'[a] \in {task[a], None}
    PROVE  TasksLawful'
    BY DEF TasksLawful, Locked

LEMMA IdleLawful ==
    ASSUME TasksLawful, UNCHANGED <<rows, task>>
    PROVE  TasksLawful'
    BY DEF TasksLawful, Locked

\* A write decides to commit an image of the row.
LEMMA ImageLawful ==
    ASSUME IInv, TasksLawful, NEW a \in Ark, NEW who, NEW row, Write(a, who, row),
           Lawful(a, View(rows[a]), View(row))
    PROVE  TasksLawful'
<1> DEFINE task0 == [by |-> who, step |-> "commit", row |-> row]
<1>1. task' = [task EXCEPT ![a] = task0] /\ UNCHANGED rows
    BY DEF Write, Acquire
<1>2. task0.row = row
    OBVIOUS
<1> HIDE DEF task0
<1> QED
    BY <1>1, <1>2, WriteLawful

\* What cannot be seen is lawful.
LEMMA UnseenLawful ==
    ASSUME IInv, TasksLawful, NEW a \in Ark, NEW who, NEW row, Write(a, who, row),
           View(row) = View(rows[a])
    PROVE  TasksLawful'
<1>1. Lawful(a, View(rows[a]), View(row))
    BY DEF Lawful
<1> QED
    BY <1>1, ImageLawful

----------------------------------------------------------------------------
(* The API *)

\* The views that a PUT and a DELETE leave.
LEMMA SubmittedView ==
    ASSUME NEW base \in Row, NEW payload \in Payload, NEW target \in Target,
           base.state \in {"R", "P"}
    PROVE  View(UpdateToPending(CreateOrUpdateMetadata(base, payload), target))
             = Doc(IF base.state = "R" THEN "D" ELSE "U", base.authority, target, payload)
<1> DEFINE draft == CreateOrUpdateMetadata(base, payload)
           new == UpdateToPending(draft, target)
<1>1. draft \in Row /\ draft.state = base.state /\ draft.authority = base.authority
                    /\ draft.payload = payload
    BY RowValues DEF CreateOrUpdateMetadata, Row
<1> HIDE DEF draft
<1>2. /\ new \in Row /\ new.authority = base.authority /\ new.target = target
      /\ new.payload = payload /\ new.state = IF base.state = "R" THEN "D" ELSE "U"
    BY <1>1, RowValues DEF UpdateToPending, UpdateToDraft, UpdateToUpdate, Row
<1> HIDE DEF new
<1>3. payload # None
    BY RecordAssumption
<1>4. View(new) = Doc(IF base.state = "R" THEN "D" ELSE "U", base.authority, target, payload)
    BY <1>2, <1>3, ViewOfRow
<1> QED
    BY <1>4 DEF new, draft

LEMMA RemovedView ==
    ASSUME NEW row \in Row
    PROVE  View(UpdateToTombstone(row))
             = [View(row) EXCEPT !.state = "T"]
<1> DEFINE new == UpdateToTombstone(row)
<1>1. /\ new \in Row /\ new.state = "T" /\ new.authority = row.authority
      /\ new.target = row.target /\ new.payload = row.payload /\ new.cids = row.cids
    BY RowValues DEF UpdateToTombstone, Row
<1> HIDE DEF new
<1>2. View(new) = [View(row) EXCEPT !.state = "T"]
    BY <1>1, ViewOfRow DEF Doc
<1> QED
    BY <1>2 DEF new

LEMMA SupersededView ==
    ASSUME NEW row, NEW w \in Authority, NEW entry \in Entry
    PROVE  /\ Superseded(row, w, entry) \in Row
           /\ Superseded(row, w, entry).authority = w
           /\ Superseded(row, w, entry).state = "P"
           /\ View(UpdateToTombstone(Superseded(row, w, entry)))
                = Doc("T", w, entry.target, None)
<1> DEFINE base == Superseded(row, w, entry)
<1>1. /\ base \in Row /\ base.state = "P" /\ base.authority = w
      /\ base.target = entry.target /\ base.payload = None /\ base.cids = None
    BY RowValues DEF Superseded, NewRow, Row, Entry
<1> HIDE DEF base
<1>2. View(UpdateToTombstone(base)) = Doc("T", w, entry.target, None)
    BY <1>1, RemovedView, ViewOfRow DEF Doc
<1> QED
    BY <1>1, <1>2 DEF base

LEMMA PutLawful ==
    ASSUME IInv, NEW a \in Ark, NEW w \in Authority, NEW base \in PutBase(a, w),
           NEW target \in Target, NEW payload \in Payload,
           <<a, w, target, payload>> \in Offers, base.state \in {"R", "P"}
    PROVE  Lawful(a, View(rows[a]),
                  View(UpdateToPending(CreateOrUpdateMetadata(base, payload), target)))
<1> DEFINE new == View(UpdateToPending(CreateOrUpdateMetadata(base, payload), target))
<1>1. base \in Row /\ base.authority = w
    BY BaseGood
<1>2. new = Doc(IF base.state = "R" THEN "D" ELSE "U", w, target, payload)
    BY <1>1, SubmittedView
<1> SUFFICES Lawful(a, View(rows[a]), new)
    OBVIOUS
<1> HIDE DEF new
<1>3. CASE ~Exists(a)
    <2>1. base.state = "P"
        BY <1>3 DEF PutBase, CreatePublishedImport, NewRow
    <2>2. View(rows[a]).authority = None
        BY <1>3, ViewOfNone DEF Exists, Doc
    <2>3. View(rows[a]).authority # w
        BY <2>2, RecordAssumption
    <2> QED
        BY <1>2, <2>1, <2>3 DEF Lawful
<1>4. CASE Exists(a) /\ rows[a].authority = w
    <2>1. base = rows[a]
        BY <1>4 DEF PutBase
    <2>2. View(rows[a]).state = base.state /\ View(rows[a]).authority = w
        BY <1>1, <1>4, <2>1, ViewOfRow DEF Doc
    <2> QED
        BY <1>2, <2>2 DEF Lawful
<1>5. CASE Exists(a) /\ rows[a].authority # w
    <2>1. base = Superseded(rows[a], w, chain[a])
        BY <1>5 DEF PutBase
    <2>2. base.state = "P"
        BY <2>1 DEF Superseded, NewRow
    <2>3. View(rows[a]).authority # w
        BY <1>5, RowGood, ViewOfRow DEF Doc, GoodRow
    <2> QED
        BY <1>2, <2>2, <2>3 DEF Lawful
<1> QED
    BY <1>3, <1>4, <1>5

LEMMA DeleteLawful ==
    ASSUME IInv, TasksLawful, NEW a \in Ark, NEW w \in Authority, Delete(a, w)
    PROVE  TasksLawful'
<1>1. rows[a] \in Row
    BY RowGood DEF Delete, GoodRow
<1>2. CASE rows[a].authority = w /\ Write(a, "api", UpdateToTombstone(rows[a]))
    <2>1. CASE rows[a].state = "T"
        <3>1. UpdateToTombstone(rows[a]) = rows[a]
            BY <2>1 DEF UpdateToTombstone
        <3> QED
            BY <1>2, <3>1, UnseenLawful
    <2>2. CASE rows[a].state # "T"
        <3>1. View(rows[a]) = Doc(rows[a].state, rows[a].authority, rows[a].target,
                    IF rows[a].payload # None THEN rows[a].payload ELSE rows[a].cids)
            BY <1>1, ViewOfRow
        <3>2. View(rows[a]).state \in {"R", "P", "D", "U"}
            BY <1>1, <2>2, <3>1 DEF Doc, Row, ArkState
        <3>3. View(UpdateToTombstone(rows[a]))
                = Doc("T", View(rows[a]).authority, View(rows[a]).target, View(rows[a]).content)
            BY <1>1, <3>1, RemovedView DEF Doc
        <3>4. Lawful(a, View(rows[a]), View(UpdateToTombstone(rows[a])))
            BY <3>2, <3>3 DEF Lawful
        <3> QED
            BY <1>2, <3>4, ImageLawful
    <2> QED
        BY <2>1, <2>2
<1>3. CASE /\ rows[a].authority # w /\ IsCurrentOwner(w, a)
           /\ Write(a, "api", UpdateToTombstone(Superseded(rows[a], w, chain[a])))
    <2>1. chain[a] \in Entry /\ chain[a].target \in Target
        BY <1>3 DEF IInv, LedgerInv, ChainTypeOK, IsCurrentOwner, Entry
    <2>2. View(rows[a]).authority # w /\ View(rows[a]).state # "unknown"
        BY <1>1, <1>3, ViewOfRow DEF Doc, Row, ArkState
    <2>3. View(UpdateToTombstone(Superseded(rows[a], w, chain[a])))
            = Doc("T", w, chain[a].target, None)
        BY <2>1, SupersededView
    <2>4. Lawful(a, View(rows[a]), View(UpdateToTombstone(Superseded(rows[a], w, chain[a]))))
        BY <2>1, <2>2, <2>3 DEF Lawful
    <2> QED
        BY <1>3, <2>4, ImageLawful
<1> QED
    BY <1>2, <1>3 DEF Delete

LEMMA ApiLawful ==
    ASSUME IInv, TasksLawful, ApiNext
    PROVE  TasksLawful'
<1> SUFFICES ASSUME NEW a \in Ark, NEW w \in Authority,
                    \/ Reserve(a, w) \/ Delete(a, w) \/ RetryFailed(a, w)
                    \/ \E target \in Target, payload \in Payload :
                            PutMetadata(a, w, target, payload)
             PROVE  TasksLawful'
    BY DEF ApiNext
<1>1. CASE Reserve(a, w)
    <2>1. \A b \in Ark : b # a => rows'[b] = rows[b]
        BY <1>1 DEF Reserve, IInv, RowsInv
    <2> QED
        BY <1>1, <2>1 DEF Reserve, TasksLawful, Locked
<1>2. CASE Delete(a, w)
    BY <1>2, DeleteLawful
<1>3. CASE RetryFailed(a, w)
    <2>1. rows[a] \in Row
        BY <1>3, RowGood DEF RetryFailed, GoodRow
    <2> QED
        BY <1>3, <2>1, StatusUnseen, UnseenLawful DEF RetryFailed
<1>4. ASSUME NEW target \in Target, NEW payload \in Payload,
             PutMetadata(a, w, target, payload)
      PROVE  TasksLawful'
    <2>1. PICK base \in PutBase(a, w) :
            /\ base.state \in {"R", "P"}
            /\ Write(a, "api", UpdateToPending(CreateOrUpdateMetadata(base, payload), target))
        BY <1>4 DEF PutMetadata
    <2>2. <<a, w, target, payload>> \in Offers
        BY <1>4 DEF PutMetadata
    <2> QED
        BY <2>1, <2>2, PutLawful, ImageLawful
<1> QED
    BY <1>1, <1>2, <1>3, <1>4

----------------------------------------------------------------------------
(* The workers *)

\* A step of the metadata worker under the lock that it holds.
LEMMA AdvanceLawful ==
    ASSUME IInv, TasksLawful, UNCHANGED rows, NEW a \in Ark, NEW step, NEW row,
           Locked(a), Advance(a, step, row), View(row) = View(task[a].row)
    PROVE  TasksLawful'
<1> DEFINE task0 == [by |-> "metadata", step |-> step, row |-> row]
<1>1. task' = [task EXCEPT ![a] = task0] /\ task0.row = row
    BY DEF Advance
<1> HIDE DEF task0
<1>2. Lawful(a, View(rows[a]), View(row))
    BY DEF TasksLawful
<1> QED
    BY <1>1, <1>2, WriteLawful

LEMMA MetadataLawful ==
    ASSUME IInv, TasksLawful, MetadataNext
    PROVE  TasksLawful'
<1> SUFFICES ASSUME NEW a \in Ark,
                    PersistBegin(a) \/ StoreLevel2(a) \/ StoreLevel1(a) \/ PersistFails(a)
             PROVE  TasksLawful'
    BY DEF MetadataNext
<1>1. CASE PersistBegin(a)
    <2> DEFINE task0 == [by |-> "metadata", step |-> "level2", row |-> rows[a]]
    <2>1. task' = [task EXCEPT ![a] = task0] /\ task0.row = rows[a] /\ UNCHANGED rows
        BY <1>1 DEF PersistBegin, Acquire
    <2> HIDE DEF task0
    <2>2. Lawful(a, View(rows[a]), View(rows[a]))
        BY DEF Lawful
    <2> QED
        BY <2>1, <2>2, WriteLawful
<1>2. CASE StoreLevel2(a)
    BY <1>2, AdvanceLawful DEF StoreLevel2, Persisting
<1>3. CASE StoreLevel1(a)
    <2>1. task[a].row \in Row /\ task[a].row.state \in Pending
          /\ RowInv(a, task[a].row, peak)
        BY <1>3, TaskGood DEF StoreLevel1, Persisting, IInv, TasksInv, GoodRow
    <2>2. task[a].row.payload \in Payload
        BY <2>1, MinterAssumption DEF RowInv
    <2>3. View(Persisted(task[a].row)) = View(task[a].row)
        BY <2>1, <2>2, PersistedUnseen
    <2> QED
        BY <1>3, <2>3, AdvanceLawful DEF StoreLevel1, Persisting
<1>4. CASE PersistFails(a)
    <2>1. Locked(a) /\ UNCHANGED rows
        BY <1>4 DEF PersistFails, Persisting
    <2>2. task[a].row \in Row
        BY <2>1, TaskGood DEF GoodRow
    <2>3. PICK image \in {DeferProcessingRetry(task[a].row),
                          MarkProcessingFailed(task[a].row, TRUE)} :
                Advance(a, "commit", image)
        BY <1>4 DEF PersistFails
    <2>4. View(image) = View(task[a].row)
        BY <2>2, <2>3, StatusUnseen
    <2> QED
        BY <2>1, <2>3, <2>4, AdvanceLawful
<1> QED
    BY <1>1, <1>2, <1>3, <1>4

LEMMA ReplicationLawful ==
    ASSUME IInv, TasksLawful, ReplicationNext
    PROVE  TasksLawful'
<1>1. CASE FirstPinCycle \/ MaintenanceCycle
    BY <1>1, IdleLawful DEF FirstPinCycle, MaintenanceCycle, Observe
<1>2. CASE CrashReplicationWorker
    <2>1. \A a \in Ark : task'[a] \in {task[a], None}
        BY <1>2 DEF CrashReplicationWorker, Released
    <2> QED
        BY <1>2, <2>1, DropLawful DEF CrashReplicationWorker
<1>3. ASSUME NEW a \in Ark, SkipReconcile(a)
      PROVE  TasksLawful'
    BY <1>3, IdleLawful DEF SkipReconcile
<1>4. ASSUME NEW a \in Ark,
             \/ ReconcileUnassigned(a) \/ ReconcileUnanswered(a)
             \/ ReconcileObserved(a)   \/ ReconcileRepair(a)
      PROVE  TasksLawful'
    <2>1. Reconcilable(a)
        BY <1>4 DEF ReconcileUnassigned, ReconcileUnanswered, ReconcileObserved,
           ReconcileRepair, Reconcile
    <2>2. rows[a] \in Row /\ RowInv(a, rows[a], peak) /\ rows[a].stage >= AVAILABILITY
        <3>1. rows[a] \in Row /\ RowInv(a, rows[a], peak)
            BY <2>1, RowGood DEF Reconcilable, GoodRow
        <3>2. rows[a].stage = AVAILABILITY \/ rows[a].stage = REPLICATION
            BY <2>1 DEF Reconcilable
        <3> QED
            BY <3>1, <3>2
    <2>3. rows[a].cids \in Payload /\ (rows[a].payload # None => rows[a].cids = rows[a].payload)
        BY <2>2 DEF RowInv, Row
    <2>4. \A copies : \A repaired : View(Reconciled(rows[a], copies, repaired)) = View(rows[a])
        BY <2>2, <2>3, ReconciledUnseen
    <2>5. View(DeferProcessingRetry(rows[a])) = View(rows[a])
          /\ View(MarkProcessingFailed(rows[a], FALSE)) = View(rows[a])
        BY <2>2, StatusUnseen
    <2>6. \E image : Write(a, "replication", image) /\ View(image) = View(rows[a])
        <3>1. CASE ReconcileUnassigned(a)
            BY <2>5, <3>1 DEF ReconcileUnassigned, Reconcile
        <3>2. CASE ReconcileUnanswered(a)
            BY <2>5, <3>2 DEF ReconcileUnanswered, Reconcile
        <3>3. CASE ReconcileObserved(a)
            <4> DEFINE image == Reconciled(rows[a], PairReplicas(rows[a].cids), FALSE)
            <4>1. Write(a, "replication", image)
                BY <3>3 DEF ReconcileObserved, Reconcile
            <4>2. View(image) = View(rows[a])
                BY <2>4
            <4> QED
                BY <4>1, <4>2
        <3>4. CASE ReconcileRepair(a)
            <4> DEFINE image == Reconciled(rows[a], PairReplicas(rows[a].cids), TRUE)
            <4>1. \/ Write(a, "replication", image)
                  \/ Write(a, "replication", DeferProcessingRetry(rows[a]))
                BY <3>4 DEF ReconcileRepair, Reconcile
            <4>2. View(image) = View(rows[a])
                BY <2>4
            <4> QED
                BY <2>5, <4>1, <4>2
        <3> QED
            BY <1>4, <3>1, <3>2, <3>3, <3>4
    <2> QED
        BY <2>6, UnseenLawful
<1> QED
    BY <1>1, <1>2, <1>3, <1>4 DEF ReplicationNext

\* A result is recorded of a row that is pending, as its item was.
LEMMA PublishedLawful ==
    ASSUME IInv, NEW a \in Ark, ItemIsCurrent(a), pipeline[a] # None
    PROVE  /\ rows[a] \in Row
           /\ Lawful(a, View(rows[a]), View(UpdateToPublished(rows[a])))
<1> DEFINE row == rows[a]
           new == UpdateToPublished(row)
<1>1. row \in Row /\ row.state \in {"D", "U"}
    BY RowGood DEF ItemIsCurrent, GoodRow, IInv, ItemsInv, Item, Pending
<1>2. /\ new \in Row /\ new.state = "P" /\ new.authority = row.authority
      /\ new.target = row.target /\ new.payload = row.payload /\ new.cids = row.cids
    BY <1>1, RowValues DEF UpdateToPublished, Row
<1> HIDE DEF new
<1>3. View(row) = Doc(row.state, row.authority, row.target,
                      IF row.payload # None THEN row.payload ELSE row.cids)
    BY <1>1, ViewOfRow
<1>4. View(new) = Doc("P", View(row).authority, View(row).target, View(row).content)
    BY <1>2, <1>3, ViewOfRow DEF Doc
<1>5. View(row).state \in {"D", "U"}
    BY <1>1, <1>3 DEF Doc
<1>6. Lawful(a, View(row), View(new))
    BY <1>4, <1>5 DEF Lawful
<1> QED
    BY <1>1, <1>6 DEF new

LEMMA ChainLawful ==
    ASSUME IInv, TasksLawful, ChainNext
    PROVE  TasksLawful'
<1>1. ASSUME NEW page \in SUBSET Publishable, SelectPage(page)
      PROVE  TasksLawful'
    BY <1>1, IdleLawful DEF SelectPage
<1>2. ASSUME NEW w \in Authority, Mine(w)
      PROVE  TasksLawful'
    BY <1>2, IdleLawful DEF Mine
<1>3. CASE CrashChainWorker
    <2>1. \A a \in Ark : task'[a] \in {task[a], None}
        BY <1>3 DEF CrashChainWorker, Released
    <2> QED
        BY <1>3, <2>1, DropLawful DEF CrashChainWorker
<1>4. ASSUME NEW a \in Ark, Send(a) \/ SendFails(a) \/ ReceiptTimeout(a) \/ DropResult(a)
      PROVE  TasksLawful'
    BY <1>4, IdleLawful DEF Send, SendFails, ReceiptTimeout, DropResult
<1>5. ASSUME NEW a \in Ark, RejectUnassigned(a)
      PROVE  TasksLawful'
    <2>1. CASE Exists(a) /\ Write(a, "chain", MarkProcessingFailed(rows[a], FALSE))
        <3>1. View(MarkProcessingFailed(rows[a], FALSE)) = View(rows[a])
            BY <2>1, RowGood, StatusUnseen DEF GoodRow
        <3> QED
            BY <2>1, <3>1, UnseenLawful
    <2>2. CASE UNCHANGED workVars
        BY <2>2, IdleLawful DEF workVars
    <2> QED
        BY <1>5, <2>1, <2>2 DEF RejectUnassigned
<1>6. ASSUME NEW a \in Ark, FinalizeConfirmed(a) \/ ReconcileOnChain(a)
      PROVE  TasksLawful'
    <2>1. ItemIsCurrent(a) /\ pipeline[a] # None
        BY <1>6 DEF FinalizeConfirmed, ReconcileOnChain, CanHandle, InPhase
    <2>2. Write(a, "chain", UpdateToPublished(rows[a]))
        BY <1>6 DEF FinalizeConfirmed, ReconcileOnChain, Handle
    <2> QED
        BY <2>1, <2>2, PublishedLawful, ImageLawful
<1>7. ASSUME NEW a \in Ark, FailLostIdentity(a) \/ FailReverted(a) \/ DeferUncertain(a)
      PROVE  TasksLawful'
    <2>1. ItemIsCurrent(a) /\ pipeline[a] # None
        BY <1>7 DEF FailLostIdentity, FailReverted, DeferUncertain, CanHandle, InPhase
    <2>2. rows[a] \in Row
        BY <2>1, PublishedLawful
    <2>3. \E image : Write(a, "chain", image) /\ View(image) = View(rows[a])
        BY <1>7, <2>2, StatusUnseen DEF FailLostIdentity, FailReverted, DeferUncertain, Handle
    <2> QED
        BY <2>3, UnseenLawful
<1> QED
    BY <1>1, <1>2, <1>3, <1>4, <1>5, <1>6, <1>7 DEF ChainNext

LEMMA LockLawful ==
    ASSUME IInv, TasksLawful, LockNext
    PROVE  TasksLawful'
<1>1. ASSUME NEW a \in Ark, LoseConnection(a)
      PROVE  TasksLawful'
    <2>1. \A b \in Ark : task'[b] \in {task[b], None}
        BY <1>1 DEF LoseConnection, IInv, TasksInv
    <2> QED
        BY <1>1, <2>1, DropLawful DEF LoseConnection
<1>2. ASSUME NEW a \in Ark, CommitAndUnlock(a)
      PROVE  TasksLawful'
    <2>1. \A b \in Ark : b # a => rows'[b] = rows[b] /\ task'[b] = task[b]
        BY <1>2 DEF CommitAndUnlock, IInv, RowsInv, TasksInv
    <2>2. task'[a] = None
        BY <1>2 DEF CommitAndUnlock, IInv, TasksInv
    <2> QED
        BY <2>1, <2>2 DEF TasksLawful, Locked
<1> QED
    BY <1>1, <1>2 DEF LockNext

----------------------------------------------------------------------------
(* The refinement *)

LEMMA LawfulStep ==
    ASSUME NEW a \in Ark, NEW new, Views' = [Views EXCEPT ![a] = new],
           Lawful(a, Views[a], new)
    PROVE  [Lifecycle!Next]_Views
<1>1. Views'[a] = new
    BY DEF Views
<1>2. CASE new = Views[a]
    <2>1. Views' = Views
        BY <1>2 DEF Views
    <2> QED
        BY <2>1
<1>3. CASE new # Views[a]
    <2>1. ASSUME NEW t \in Target, NEW c \in Payload,
                 Views[a].state \in {"R", "P"}, <<a, Views[a].authority, t, c>> \in Offers,
                 new = Doc(IF Views[a].state = "R" THEN "D" ELSE "U", Views[a].authority, t, c)
          PROVE  Lifecycle!Submit(a, t, c)
        BY <2>1 DEF Lifecycle!Submit, Lifecycle!Become, Lifecycle!Written, Doc
    <2>2. Views[a].state \in {"D", "U"}
            /\ new = Doc("P", Views[a].authority, Views[a].target, Views[a].content)
            => Lifecycle!Publish(a)
        BY DEF Lifecycle!Publish, Lifecycle!Waiting, Lifecycle!Become, Lifecycle!Written, Doc
    <2>3. Views[a].state \in {"R", "P", "D", "U"}
            /\ new = Doc("T", Views[a].authority, Views[a].target, Views[a].content)
            => Lifecycle!Remove(a)
        BY DEF Lifecycle!Remove, Lifecycle!Waiting, Lifecycle!Become, Lifecycle!Written, Doc
    <2>4. ASSUME NEW w \in Authority, NEW t \in Target, Views[a].authority # w,
                 \/ \E c \in Payload : <<a, w, t, c>> \in Offers /\ new = Doc("U", w, t, c)
                 \/ Views[a].state # "unknown" /\ new = Doc("T", w, t, None)
          PROVE  Lifecycle!Arrive(a, w)
        <3>1. ASSUME NEW c \in Payload, <<a, w, t, c>> \in Offers, new = Doc("U", w, t, c)
              PROVE  Lifecycle!Arrive(a, w)
            BY <2>4, <3>1 DEF Lifecycle!Arrive, Lifecycle!Become, Lifecycle!Written, Doc
        <3>2. ASSUME Views[a].state # "unknown", new = Doc("T", w, t, None)
              PROVE  Lifecycle!Arrive(a, w)
            <4>1. Views[a] # Lifecycle!Unknown
                BY <3>2 DEF Lifecycle!Unknown, Lifecycle!Written
            <4> QED
                BY <2>4, <3>2, <4>1 DEF Lifecycle!Arrive, Lifecycle!Become, Lifecycle!Written, Doc
        <3> QED
            BY <2>4, <3>1, <3>2
    <2>5. \/ Lifecycle!Publish(a) \/ Lifecycle!Remove(a)
          \/ \E w \in Authority : Lifecycle!Arrive(a, w)
          \/ \E t \in Target, c \in Payload : Lifecycle!Submit(a, t, c)
        <3>1. CASE /\ Views[a].state \in {"R", "P"}
                   /\ \E t \in Target, c \in Payload :
                        /\ <<a, Views[a].authority, t, c>> \in Offers
                        /\ new = Doc(IF Views[a].state = "R" THEN "D" ELSE "U",
                                     Views[a].authority, t, c)
            BY <2>1, <3>1
        <3>2. CASE \E w \in Authority, t \in Target :
                /\ Views[a].authority # w
                /\ \/ \E c \in Payload : <<a, w, t, c>> \in Offers /\ new = Doc("U", w, t, c)
                   \/ Views[a].state # "unknown" /\ new = Doc("T", w, t, None)
            BY <2>4, <3>2
        <3> QED
            BY <1>3, <2>2, <2>3, <3>1, <3>2 DEF Lawful
    <2>6. Views'[a] # Views[a]
        BY <1>1, <1>3
    <2>7. Lifecycle!Next
        BY <2>5, <2>6, Zenon DEF Lifecycle!Next
    <2> QED
        BY <2>7
<1> QED
    BY <1>2, <1>3

LEMMA SetView ==
    ASSUME IInv, NEW a \in Ark, NEW row, rows' = [rows EXCEPT ![a] = row]
    PROVE  Views' = [Views EXCEPT ![a] = View(row)]
    BY DEF IInv, RowsInv, Views

\* Committed rows change by a commit or a reservation.
LEMMA RowsMove ==
    ASSUME [Next]_vars
    PROVE  \/ UNCHANGED rows
           \/ \E a \in Ark, w \in Authority : Reserve(a, w)
           \/ \E a \in Ark : CommitAndUnlock(a)
<1>1. CASE ApiNext
    BY <1>1, ZenonT(60) DEF ApiNext, Delete, RetryFailed, PutMetadata, Write
<1>2. CASE MetadataNext
    BY <1>2 DEF MetadataNext, PersistBegin, StoreLevel2, StoreLevel1, PersistFails
<1>3. CASE ReplicationNext
    BY <1>3 DEF ReplicationNext, FirstPinCycle, MaintenanceCycle, Observe,
       CrashReplicationWorker, SkipReconcile, ReconcileUnassigned, ReconcileUnanswered,
       ReconcileObserved, ReconcileRepair, Reconcile, Write
<1>4. CASE ChainNext
    BY <1>4 DEF ChainNext, SelectPage, Mine, CrashChainWorker, RejectUnassigned, Send,
       SendFails, ReceiptTimeout, DropResult, FinalizeConfirmed, ReconcileOnChain,
       FailLostIdentity, FailReverted, DeferUncertain, Handle, Write, workVars
<1>5. CASE LockNext
    BY <1>5 DEF LockNext, LoseConnection
<1>6. CASE EnvironmentNext \/ UNCHANGED vars
    BY <1>6 DEF EnvironmentNext, workVars, vars
<1> QED
    BY <1>1, <1>2, <1>3, <1>4, <1>5, <1>6 DEF Next

\* Every step of the minter is a step of the lifecycle, or cannot be seen.
LEMMA StepRefines ==
    ASSUME IInv, TasksLawful, Next
    PROVE  [Lifecycle!Next]_Views
<1>1. CASE UNCHANGED rows
    <2>1. Views' = Views
        BY <1>1 DEF Views
    <2> QED
        BY <2>1
<1>2. ASSUME NEW a \in Ark, NEW w \in Authority, Reserve(a, w)
      PROVE  [Lifecycle!Next]_Views
    <2> DEFINE new == View(CreateReserved(w))
    <2>1. CreateReserved(w) \in Row
        BY NewRowGood DEF CreateReserved, GoodRow
    <2>2. new = Doc("R", w, None, None)
        BY <2>1, ViewOfRow DEF CreateReserved, NewRow
    <2>3. Views' = [Views EXCEPT ![a] = new]
        BY <1>2, SetView DEF Reserve
    <2>4. Views[a] = Doc("unknown", None, None, None)
        BY <1>2, ViewOfNone DEF Reserve, Exists, Views
    <2> HIDE DEF new
    <2>5. Views'[a] = new
        BY <2>3 DEF Views
    <2>6. Lifecycle!Reserve(a, w)
        BY <2>2, <2>3, <2>4 DEF Lifecycle!Reserve, Lifecycle!Unknown, Lifecycle!Become,
           Lifecycle!Written, Doc
    <2>7. Views'[a] # Views[a]
        BY <2>2, <2>4, <2>5 DEF Doc
    <2> QED
        BY <2>6, <2>7 DEF Lifecycle!Next
<1>3. ASSUME NEW a \in Ark, CommitAndUnlock(a)
      PROVE  [Lifecycle!Next]_Views
    <2>1. Views' = [Views EXCEPT ![a] = View(task[a].row)]
        BY <1>3, SetView DEF CommitAndUnlock
    <2>2. Lawful(a, Views[a], View(task[a].row))
        BY <1>3 DEF CommitAndUnlock, TasksLawful, Views
    <2> QED
        BY <2>1, <2>2, LawfulStep
<1>4. \/ UNCHANGED rows
      \/ \E a \in Ark, w \in Authority : Reserve(a, w)
      \/ \E a \in Ark : CommitAndUnlock(a)
    BY RowsMove
<1> QED
    BY <1>1, <1>2, <1>3, <1>4

\* The minter implements the lifecycle of an ARK: whatever the workers, the
\* clients, the chain and their failures do, readers see nothing but its steps.
THEOREM Refinement == Spec => ImplementsLifecycle
<1>1. Init => RInv /\ Lifecycle!Init
    <2>1. ASSUME Init PROVE TasksLawful
        BY <2>1 DEF Init, TasksLawful, Locked
    <2>2. ASSUME Init PROVE Views = [a \in Ark |-> Doc("unknown", None, None, None)]
        BY <2>2, ViewOfNone DEF Init, Views
    <2>3. Init => Lifecycle!Init
        BY <2>2 DEF Lifecycle!Init, Lifecycle!Unknown, Lifecycle!Written, Doc
    <2> QED
        BY <2>1, <2>3, InitGood DEF RInv
<1>2. RInv /\ [Next]_vars => TasksLawful'
    <2>1. ASSUME RInv, UNCHANGED vars PROVE TasksLawful'
        BY <2>1, IdleLawful DEF RInv, vars, workVars
    <2>2. ASSUME RInv, EnvironmentNext PROVE TasksLawful'
        BY <2>2, IdleLawful DEF RInv, EnvironmentNext, workVars
    <2> QED
        BY <2>1, <2>2, ApiLawful, MetadataLawful, ReplicationLawful, ChainLawful,
           LockLawful DEF RInv, Next
<1>3. RInv /\ [Next]_vars => [Lifecycle!Next]_Views
    <2>1. UNCHANGED vars => UNCHANGED Views
        BY DEF vars, workVars, Views
    <2> QED
        BY <2>1, StepRefines DEF RInv
<1>4. RInv <=> IInv /\ TasksLawful
    BY DEF RInv
<1> QED
    BY <1>1, <1>2, <1>3, <1>4, Inductive, PTL DEF Spec, ImplementsLifecycle, Lifecycle!Spec

----------------------------------------------------------------------------
(* How a lock is taken, and what its holder commits *)

\* Nothing but the status and the stage, which moves forward, and CIDs that were
\* not known before.
Kept(old, new) ==
    /\ new.state = old.state /\ new.authority = old.authority /\ new.target = old.target
    /\ old.state \in Pending => new.payload = old.payload
    /\ old.cids # None => new.cids = old.cids
    /\ new.stage >= old.stage

\* Whom an image belongs to: the authority of the row, or the owner of the entry.
Entitled(a, image) ==
    \/ Exists(a) /\ image.authority = rows[a].authority
    \/ chain[a] # None /\ chain[a].owner = image.authority

\* How a step may take the lock of a.
Turn(a, by, image) ==
    /\ Entitled(a, image)
    /\ \/ by # "chain" /\ image.state = "T"
       \/ /\ by # "chain" /\ image.state \in Pending /\ image.cids = None
          /\ \/ ~Exists(a)
             \/ rows[a].state \in {"R", "P"}
             \/ image.authority # rows[a].authority
       \/ /\ Exists(a) /\ Kept(rows[a], image)
          /\ (by = "chain" /\ image.status = "FAILED" /\ rows[a].authority \in ChainAssigned)
               => ~ (/\ IsCurrentOwner(rows[a].authority, a)
                     /\ ChainMatches(a, rows[a].target, rows[a].cids))
       \/ /\ by = "chain" /\ Exists(a) /\ rows[a].state \in Pending
          /\ image.state = "P" /\ image.status = "READY"
          /\ image.authority = rows[a].authority
          /\ image.target = rows[a].target /\ image.cids = rows[a].cids
          /\ ItemIsCurrent(a) /\ pipeline[a] # None
          /\ pipeline[a].phase = "confirmed" \/ ChainMatches(a, image.target, image.cids)

\* A holder that still uploads has a row in the metadata stage.
Early(held) == held.step # "commit" => held.row.stage = METADATA

\* What a step does to the lock of a.
LockMoves(a) ==
    \/ task'[a] = None
    \/ task'[a] = task[a] /\ (Locked(a) => rows'[a] = rows[a])
    \/ /\ rows'[a] = rows[a] /\ Early(task'[a])
       /\ IF Locked(a) THEN Kept(task[a].row, task'[a].row) /\ task'[a].by = task[a].by
          ELSE Turn(a, task'[a].by, task'[a].row)

Forward(old, new) ==
    ( /\ old # None /\ old.state \in Pending /\ new.state \in Pending
      /\ new.authority = old.authority )
    => Kept(old, new)

TasksForward ==
    \A a \in Ark : Locked(a) => Forward(rows[a], task[a].row) /\ Early(task[a])

----------------------------------------------------------------------------
(* The operations on a row *)

LEMMA StatusKept ==
    ASSUME NEW row \in Row, NEW retryable \in BOOLEAN
    PROVE  /\ Kept(row, row)
           /\ Kept(row, MarkProcessingFailed(row, retryable))
           /\ Kept(row, DeferProcessingRetry(row)) /\ DeferProcessingRetry(row).status = "WAITING"
           /\ Kept(row, [row EXCEPT !.status = "READY", !.attempts = 0])
<1>1. row.stage >= row.stage
    BY DEF Row, ProcessingStage
<1>2. ASSUME NEW status, NEW attempts
      PROVE  Kept(row, [row EXCEPT !.status = status, !.attempts = attempts])
    BY <1>1 DEF Row, Kept
<1>3. Kept(row, row)
    BY <1>1 DEF Kept
<1>4. Kept(row, MarkProcessingFailed(row, retryable))
    <2> DEFINE status == IF retryable THEN "WAITING" ELSE "FAILED"
               attempts == row.attempts + 1
    <2>1. MarkProcessingFailed(row, retryable)
            = [row EXCEPT !.status = status, !.attempts = attempts]
        BY DEF MarkProcessingFailed, Row
    <2> HIDE DEF status, attempts
    <2>2. Kept(row, [row EXCEPT !.status = status, !.attempts = attempts])
        BY <1>2
    <2> QED
        BY <2>1, <2>2
<1>6. Kept(row, DeferProcessingRetry(row))
    BY <1>1 DEF Kept, DeferProcessingRetry, Row
<1>7. DeferProcessingRetry(row).status = "WAITING"
    BY DEF DeferProcessingRetry, Row
<1> QED
    BY <1>2, <1>3, <1>4, <1>6, <1>7

LEMMA ReconciledKept ==
    ASSUME NEW row \in Row, NEW copies, NEW repaired \in BOOLEAN,
           row.stage \in {AVAILABILITY, REPLICATION},
           row.stage = REPLICATION => row.state \notin Pending
    PROVE  Kept(row, Reconciled(row, copies, repaired))
<1> DEFINE status == IF row.stage = REPLICATION /\ repaired THEN "READY" ELSE "WAITING"
           published == [row EXCEPT !.stage = CHAIN, !.status = "READY"]
           purged == [row EXCEPT !.payload = None, !.stage = COMPLETE, !.status = "DONE"]
           same == [row EXCEPT !.status = status]
<1>1. Reconciled(row, copies, repaired) \in {published, purged, same}
      /\ (Reconciled(row, copies, repaired) = published => row.stage = AVAILABILITY)
      /\ (Reconciled(row, copies, repaired) = purged => row.stage = REPLICATION)
    <2>1. published.stage = CHAIN /\ purged.stage = COMPLETE /\ same.stage = row.stage
        BY DEF Row
    <2>2. CASE row.stage = AVAILABILITY
        <3>1. Reconciled(row, copies, repaired) \in {published, same}
            BY <2>2 DEF Reconciled
        <3> HIDE DEF published, purged, same
        <3> QED
            BY <2>1, <2>2, <3>1
    <2>3. CASE row.stage = REPLICATION
        <3>1. Reconciled(row, copies, repaired) \in {purged, same}
            BY <2>3 DEF Reconciled
        <3> HIDE DEF published, purged, same
        <3> QED
            BY <2>1, <2>3, <3>1
    <2> QED
        BY <2>2, <2>3
<1>2. row.stage = AVAILABILITY => Kept(row, published)
    BY DEF Kept, Row
<1>3. row.stage = REPLICATION => Kept(row, purged)
    BY DEF Kept, Row
<1>4. Kept(row, same)
    <2>1. row.stage >= row.stage
        OBVIOUS
    <2> HIDE DEF status
    <2> QED
        BY <2>1 DEF Kept, Row
<1> HIDE DEF published, purged, same
<1> QED
    BY <1>1, <1>2, <1>3, <1>4

LEMMA PersistedKept ==
    ASSUME NEW row \in Row, row.stage <= AVAILABILITY, row.cids = None
    PROVE  Kept(row, Persisted(row))
    BY DEF Kept, Persisted, Row, ProcessingStage

----------------------------------------------------------------------------
(* Locks taken, kept and dropped *)

\* The other ARKs of a step that takes one lock.
LEMMA Took ==
    ASSUME IInv, NEW b \in Ark, NEW by, NEW image, Write(b, by, image),
           Turn(b, by, image)
    PROVE  \A a \in Ark : LockMoves(a)
<1> DEFINE new == [by |-> by, step |-> "commit", row |-> image]
<1>1. task' = [task EXCEPT ![b] = new] /\ new.by = by /\ new.row = image
      /\ new.step = "commit" /\ ~Locked(b) /\ UNCHANGED rows
    BY DEF Write, Acquire
<1> HIDE DEF new
<1>2. task'[b] = new /\ \A a \in Ark : a # b => task'[a] = task[a]
    BY <1>1 DEF IInv, TasksInv
<1> QED
    BY <1>1, <1>2 DEF LockMoves, Early

LEMMA KeptTurn ==
    ASSUME NEW b \in Ark, Exists(b), NEW by, NEW image, Kept(rows[b], image),
           (by = "chain" /\ image.status = "FAILED" /\ rows[b].authority \in ChainAssigned)
             => ~ (/\ IsCurrentOwner(rows[b].authority, b)
                   /\ ChainMatches(b, rows[b].target, rows[b].cids))
    PROVE  Turn(b, by, image)
    BY DEF Turn, Entitled, Kept

LEMMA Idle ==
    UNCHANGED <<rows, task>> => \A a \in Ark : LockMoves(a)
    BY DEF LockMoves

LEMMA ApiSteps ==
    ASSUME IInv, ApiNext
    PROVE  \A a \in Ark : LockMoves(a)
<1> SUFFICES ASSUME NEW b \in Ark, NEW w \in Authority,
                    \/ Reserve(b, w) \/ Delete(b, w) \/ RetryFailed(b, w)
                    \/ \E target \in Target, payload \in Payload :
                            PutMetadata(b, w, target, payload)
             PROVE  \A a \in Ark : LockMoves(a)
    BY DEF ApiNext
<1>1. CASE Reserve(b, w)
    <2>1. \A a \in Ark : a # b => rows'[a] = rows[a]
        BY <1>1 DEF Reserve, IInv, RowsInv
    <2> QED
        BY <1>1, <2>1 DEF Reserve, LockMoves
<1>2. CASE Delete(b, w)
    <2>1. rows[b] \in Row
        BY <1>2, RowGood DEF Delete, GoodRow
    <2>2. PICK row : /\ Write(b, "api", UpdateToTombstone(row))
                     /\ \/ row = rows[b]
                        \/ row = Superseded(rows[b], w, chain[b]) /\ IsCurrentOwner(w, b)
        BY <1>2 DEF Delete
    <2>3. UpdateToTombstone(row).state = "T"
          /\ UpdateToTombstone(row).authority = row.authority
        BY <2>1, <2>2 DEF UpdateToTombstone, Superseded, NewRow, Row
    <2>4. row = rows[b] \/ (row.authority = w /\ IsCurrentOwner(w, b))
        BY <1>2, <2>2 DEF Delete, Superseded, NewRow
    <2>5. Entitled(b, UpdateToTombstone(row))
        BY <1>2, <2>3, <2>4 DEF Entitled, IsCurrentOwner, Delete
    <2> QED
        BY <2>2, <2>3, <2>5, Took DEF Turn
<1>3. CASE RetryFailed(b, w)
    <2>1. rows[b] \in Row /\ Exists(b)
        BY <1>3, RowGood DEF RetryFailed, GoodRow
    <2>2. Kept(rows[b], [rows[b] EXCEPT !.status = "READY", !.attempts = 0])
        BY <2>1, StatusKept
    <2>3. Turn(b, "api", [rows[b] EXCEPT !.status = "READY", !.attempts = 0])
        BY <2>1, <2>2, KeptTurn
    <2> QED
        BY <1>3, <2>3, Took DEF RetryFailed
<1>4. ASSUME NEW target \in Target, NEW payload \in Payload, PutMetadata(b, w, target, payload)
      PROVE  \A a \in Ark : LockMoves(a)
    <2>1. PICK base \in PutBase(b, w) :
            /\ base.state \in {"R", "P"}
            /\ Write(b, "api", UpdateToPending(CreateOrUpdateMetadata(base, payload), target))
        BY <1>4 DEF PutMetadata
    <2> DEFINE image == UpdateToPending(CreateOrUpdateMetadata(base, payload), target)
    <2>2. base \in Row /\ base.authority = w
        BY <2>1, BaseGood
    <2>3. image.authority = w /\ image.state \in Pending /\ image.cids = None
        BY <2>2 DEF Pending, UpdateToPending, UpdateToDraft, UpdateToUpdate, CreateOrUpdateMetadata, Row
    <2> HIDE DEF image
    <2>4. \/ ~Exists(b) /\ chain[b] # None /\ chain[b].owner = w
          \/ Exists(b) /\ base = rows[b]
          \/ Exists(b) /\ rows[b].authority # w /\ IsCurrentOwner(w, b)
        BY <2>1 DEF PutBase
    <2>5. Entitled(b, image)
        BY <2>2, <2>3, <2>4 DEF Entitled, IsCurrentOwner
    <2>6. Turn(b, "api", image)
        BY <2>1, <2>3, <2>4, <2>5 DEF Turn
    <2> QED
        BY <2>1, <2>6, Took DEF image
<1> QED
    BY <1>1, <1>2, <1>3, <1>4

\* A holder that goes on with an image.
LEMMA Advanced ==
    ASSUME IInv, NEW b \in Ark, NEW step, NEW image, UNCHANGED rows,
           Locked(b), task[b].by = "metadata", Advance(b, step, image),
           Kept(task[b].row, image),
           step # "commit" => image.stage = METADATA
    PROVE  \A a \in Ark : LockMoves(a)
<1> DEFINE new == [by |-> "metadata", step |-> step, row |-> image]
<1>1. task' = [task EXCEPT ![b] = new] /\ new.row = image /\ new.step = step
      /\ new.by = "metadata"
    BY DEF Advance
<1> HIDE DEF new
<1>2. task'[b] = new /\ \A a \in Ark : a # b => task'[a] = task[a]
    BY <1>1 DEF IInv, TasksInv
<1> QED
    BY <1>1, <1>2 DEF LockMoves, Early

LEMMA MetadataSteps ==
    ASSUME IInv, TasksForward, MetadataNext
    PROVE  \A a \in Ark : LockMoves(a)
<1> SUFFICES ASSUME NEW b \in Ark,
                    PersistBegin(b) \/ StoreLevel2(b) \/ StoreLevel1(b) \/ PersistFails(b)
             PROVE  \A a \in Ark : LockMoves(a)
    BY DEF MetadataNext
<1>1. CASE PersistBegin(b)
    <2> DEFINE new == [by |-> "metadata", step |-> "level2", row |-> rows[b]]
    <2>1. task' = [task EXCEPT ![b] = new] /\ new.row = rows[b] /\ new.by = "metadata"
          /\ UNCHANGED rows /\ ~Locked(b) /\ Exists(b) /\ rows[b].stage = METADATA
        BY <1>1 DEF PersistBegin, Acquire, Persistable
    <2> HIDE DEF new
    <2>2. rows[b] \in Row
        BY <2>1, RowGood DEF GoodRow
    <2>3. Turn(b, "metadata", rows[b])
        BY <2>1, <2>2, StatusKept, KeptTurn
    <2>4. task'[b] = new /\ \A a \in Ark : a # b => task'[a] = task[a]
        BY <2>1 DEF IInv, TasksInv
    <2> QED
        BY <2>1, <2>3, <2>4 DEF LockMoves, Early
<1>2. CASE StoreLevel2(b)
    <2>1. Locked(b) /\ UNCHANGED rows /\ task[b].by = "metadata" /\ task[b].step = "level2"
          /\ Advance(b, "level1", task[b].row)
        BY <1>2 DEF StoreLevel2, Persisting
    <2>2. task[b].row \in Row /\ task[b].row.stage = METADATA
        BY <2>1, TaskGood DEF GoodRow, TasksForward, Early
    <2> QED
        BY <2>1, <2>2, StatusKept, Advanced
<1>3. CASE StoreLevel1(b)
    <2>1. Locked(b) /\ UNCHANGED rows /\ task[b].by = "metadata" /\ task[b].step = "level1"
          /\ Advance(b, "commit", Persisted(task[b].row))
        BY <1>3 DEF StoreLevel1, Persisting
    <2>2. task[b].row \in Row /\ task[b].row.stage = METADATA /\ task[b].row.cids = None
        BY <2>1, TaskGood DEF GoodRow, RowInv, TasksForward, Early
    <2> QED
        BY <2>1, <2>2, PersistedKept, Advanced
<1>4. CASE PersistFails(b)
    <2>1. Locked(b) /\ UNCHANGED rows /\ task[b].by = "metadata"
        BY <1>4 DEF PersistFails, Persisting
    <2>2. task[b].row \in Row
        BY <2>1, TaskGood DEF GoodRow
    <2>3. PICK image \in {DeferProcessingRetry(task[b].row),
                          MarkProcessingFailed(task[b].row, TRUE)} :
                Advance(b, "commit", image)
        BY <1>4 DEF PersistFails
    <2>4. Kept(task[b].row, image)
        BY <2>2, <2>3, StatusKept
    <2> QED
        BY <2>1, <2>3, <2>4, Advanced
<1> QED
    BY <1>1, <1>2, <1>3, <1>4

LEMMA ReplicationSteps ==
    ASSUME IInv, ReplicationNext
    PROVE  \A a \in Ark : LockMoves(a)
<1>1. CASE FirstPinCycle \/ MaintenanceCycle
    BY <1>1, Idle DEF FirstPinCycle, MaintenanceCycle, Observe
<1>2. CASE CrashReplicationWorker
    BY <1>2 DEF CrashReplicationWorker, Released, LockMoves
<1>3. ASSUME NEW b \in Ark, SkipReconcile(b)
      PROVE  \A a \in Ark : LockMoves(a)
    BY <1>3, Idle DEF SkipReconcile
<1>4. ASSUME NEW b \in Ark,
             \/ ReconcileUnassigned(b) \/ ReconcileUnanswered(b)
             \/ ReconcileObserved(b)   \/ ReconcileRepair(b)
      PROVE  \A a \in Ark : LockMoves(a)
    <2>1. Reconcilable(b)
        BY <1>4 DEF ReconcileUnassigned, ReconcileUnanswered, ReconcileObserved,
           ReconcileRepair, Reconcile
    <2>2. /\ rows[b] \in Row /\ Exists(b)
          /\ rows[b].stage \in {AVAILABILITY, REPLICATION}
          /\ rows[b].stage = REPLICATION => rows[b].state \notin Pending
        <3>1. rows[b] \in Row /\ RowInv(b, rows[b], peak)
            BY <2>1, RowGood DEF Reconcilable, GoodRow
        <3> QED
            BY <2>1, <3>1 DEF Reconcilable, RowInv, Pending
    <2>3. \A copies : \A repaired \in BOOLEAN : Kept(rows[b], Reconciled(rows[b], copies, repaired))
        BY <2>2, ReconciledKept
    <2>4. Kept(rows[b], DeferProcessingRetry(rows[b]))
          /\ Kept(rows[b], MarkProcessingFailed(rows[b], FALSE))
        BY <2>2, StatusKept
    <2>5. PICK image : Write(b, "replication", image) /\ Kept(rows[b], image)
        <3>1. CASE ReconcileUnassigned(b)
            BY <2>4, <3>1 DEF ReconcileUnassigned, Reconcile
        <3>2. CASE ReconcileUnanswered(b)
            BY <2>4, <3>2 DEF ReconcileUnanswered, Reconcile
        <3>3. CASE ReconcileObserved(b)
            <4> DEFINE image == Reconciled(rows[b], PairReplicas(rows[b].cids), FALSE)
            <4>1. Write(b, "replication", image)
                BY <3>3 DEF ReconcileObserved, Reconcile
            <4>2. Kept(rows[b], image)
                BY <2>3
            <4> QED
                BY <4>1, <4>2
        <3>4. CASE ReconcileRepair(b)
            <4> DEFINE image == Reconciled(rows[b], PairReplicas(rows[b].cids), TRUE)
            <4>1. \/ Write(b, "replication", image)
                  \/ Write(b, "replication", DeferProcessingRetry(rows[b]))
                BY <3>4 DEF ReconcileRepair, Reconcile
            <4>2. Kept(rows[b], image)
                BY <2>3
            <4> QED
                BY <2>4, <4>1, <4>2
        <3> QED
            BY <1>4, <3>1, <3>2, <3>3, <3>4
    <2>6. Turn(b, "replication", image)
        BY <2>2, <2>5, KeptTurn
    <2> QED
        BY <2>5, <2>6, Took
<1> QED
    BY <1>1, <1>2, <1>3, <1>4 DEF ReplicationNext

LEMMA ChainSteps ==
    ASSUME IInv, ChainNext
    PROVE  \A a \in Ark : LockMoves(a)
<1>1. CASE \/ \E page \in SUBSET Publishable : SelectPage(page)
           \/ \E w \in Authority : Mine(w)
           \/ \E b \in Ark : Send(b) \/ SendFails(b) \/ ReceiptTimeout(b) \/ DropResult(b)
    BY <1>1, Idle DEF SelectPage, Mine, Send, SendFails, ReceiptTimeout, DropResult
<1>2. CASE CrashChainWorker
    BY <1>2 DEF CrashChainWorker, Released, LockMoves
<1>3. ASSUME NEW b \in Ark, RejectUnassigned(b)
      PROVE  \A a \in Ark : LockMoves(a)
    <2>1. CASE UNCHANGED workVars
        BY <2>1, Idle DEF workVars
    <2>2. CASE /\ Exists(b) /\ rows[b].authority = pipeline[b].authority
               /\ Write(b, "chain", MarkProcessingFailed(rows[b], FALSE))
        <3>1. Kept(rows[b], MarkProcessingFailed(rows[b], FALSE))
            BY <2>2, RowGood, StatusKept DEF GoodRow
        <3>2. rows[b].authority \notin ChainAssigned
            BY <1>3, <2>2 DEF RejectUnassigned
        <3>3. Turn(b, "chain", MarkProcessingFailed(rows[b], FALSE))
            BY <2>2, <3>1, <3>2, KeptTurn
        <3> QED
            BY <2>2, <3>3, Took
    <2> QED
        BY <1>3, <2>1, <2>2 DEF RejectUnassigned
<1>4. ASSUME NEW b \in Ark, \/ FinalizeConfirmed(b) \/ ReconcileOnChain(b)
                            \/ FailLostIdentity(b) \/ FailReverted(b) \/ DeferUncertain(b)
      PROVE  \A a \in Ark : LockMoves(a)
    <2>1. ItemIsCurrent(b) /\ pipeline[b] # None
        BY <1>4 DEF FinalizeConfirmed, ReconcileOnChain, FailLostIdentity, FailReverted,
           DeferUncertain, CanHandle, InPhase
    <2>2. /\ Exists(b) /\ rows[b] \in Row /\ rows[b].state \in Pending
          /\ rows[b].authority = pipeline[b].authority
          /\ rows[b].target = pipeline[b].target /\ rows[b].cids = pipeline[b].cids
        <3>1. pipeline[b].state \in Pending
            BY <2>1 DEF IInv, ItemsInv, Item
        <3> QED
            BY <2>1, <3>1, RowGood DEF ItemIsCurrent, GoodRow
    <2>3. CASE FinalizeConfirmed(b) \/ ReconcileOnChain(b)
        <3>1. Write(b, "chain", UpdateToPublished(rows[b]))
            BY <2>3 DEF FinalizeConfirmed, ReconcileOnChain, Handle
        <3>2. /\ UpdateToPublished(rows[b]).state = "P" /\ UpdateToPublished(rows[b]).status = "READY"
              /\ UpdateToPublished(rows[b]).target = rows[b].target
              /\ UpdateToPublished(rows[b]).cids = rows[b].cids
              /\ UpdateToPublished(rows[b]).authority = rows[b].authority
            BY <2>2 DEF UpdateToPublished, Row
        <3>3. \/ pipeline[b].phase = "confirmed"
              \/ ChainMatches(b, rows[b].target, rows[b].cids)
            BY <2>2, <2>3 DEF FinalizeConfirmed, ReconcileOnChain, CanHandle, InPhase, OnChain
        <3>4. Turn(b, "chain", UpdateToPublished(rows[b]))
            BY <2>1, <2>2, <3>2, <3>3 DEF Turn, Entitled
        <3> QED
            BY <3>1, <3>4, Took
    <2>4. CASE FailLostIdentity(b) \/ FailReverted(b)
        <3>1. ~ (/\ IsCurrentOwner(rows[b].authority, b)
                 /\ ChainMatches(b, rows[b].target, rows[b].cids))
            BY <2>2, <2>4 DEF FailLostIdentity, FailReverted, IdentityHolds, OnChain, IsCurrentOwner
        <3>2. Kept(rows[b], MarkProcessingFailed(rows[b], FALSE))
            BY <2>2, StatusKept
        <3>3. Turn(b, "chain", MarkProcessingFailed(rows[b], FALSE))
            BY <2>2, <3>1, <3>2, KeptTurn
        <3> QED
            BY <2>4, <3>3, Took DEF FailLostIdentity, FailReverted, Handle
    <2>5. CASE DeferUncertain(b)
        <3>1. Turn(b, "chain", DeferProcessingRetry(rows[b]))
            BY <2>2, StatusKept, KeptTurn
        <3> QED
            BY <2>5, <3>1, Took DEF DeferUncertain, Handle
    <2> QED
        BY <1>4, <2>3, <2>4, <2>5
<1> QED
    BY <1>1, <1>2, <1>3, <1>4 DEF ChainNext

LEMMA Steps ==
    ASSUME IInv, TasksForward, [Next]_vars
    PROVE  \A a \in Ark : LockMoves(a)
<1>1. CASE LockNext
    <2>1. ASSUME NEW b \in Ark, CommitAndUnlock(b) \/ LoseConnection(b)
          PROVE  \A a \in Ark : LockMoves(a)
        <3>1. \A a \in Ark : a # b => task'[a] = task[a] /\ rows'[a] = rows[a]
            BY <2>1 DEF CommitAndUnlock, LoseConnection, IInv, TasksInv, RowsInv
        <3>2. task'[b] = None
            BY <2>1 DEF CommitAndUnlock, LoseConnection, IInv, TasksInv
        <3> QED
            BY <3>1, <3>2 DEF LockMoves
    <2> QED
        BY <1>1, <2>1 DEF LockNext
<1>2. CASE EnvironmentNext \/ UNCHANGED vars
    BY <1>2, Idle DEF EnvironmentNext, workVars, vars
<1> QED
    BY <1>1, <1>2, ApiSteps, MetadataSteps, ReplicationSteps, ChainSteps DEF Next

----------------------------------------------------------------------------
(* The properties *)

LEMMA TurnForward ==
    ASSUME IInv, NEW a \in Ark, NEW by, NEW image, Turn(a, by, image)
    PROVE  Forward(rows[a], image)
    BY DEF Turn, Forward, Exists, Pending

LEMMA KeptForward ==
    ASSUME NEW old, NEW mid \in Row, NEW new \in Row, old # None => old \in Row,
           Forward(old, mid), Kept(mid, new)
    PROVE  Forward(old, new)
<1>1. SUFFICES ASSUME old \in Row, old.state \in Pending, new.state \in Pending,
                      new.authority = old.authority
               PROVE  Kept(old, new)
    BY DEF Forward
<1>2. Kept(old, mid)
    BY <1>1, NullAssumption DEF Forward, Kept
<1>3. old.stage \in Nat /\ mid.stage \in Nat /\ new.stage \in Nat
    BY <1>1 DEF Row, ProcessingStage
<1> QED
    BY <1>1, <1>2, <1>3 DEF Kept

\* An image of pending content stays that of the committed row, in its stage
\* or a later one, for as long as its session is open.
THEOREM ImagesForward == Spec => []TasksForward
<1>1. Init => TasksForward
    BY DEF Init, TasksForward, Locked
<1>2. IInv /\ IInv' /\ TasksForward /\ [Next]_vars => TasksForward'
    <2> SUFFICES ASSUME IInv, IInv', TasksForward, [Next]_vars, NEW a \in Ark, Locked(a)'
                 PROVE  Forward(rows'[a], task'[a].row) /\ Early(task'[a])
        BY DEF TasksForward
    <2>1. LockMoves(a)
        BY Steps
    <2>2. CASE task'[a] = task[a] /\ (Locked(a) => rows'[a] = rows[a])
        BY <2>2 DEF TasksForward, Locked
    <2>3. CASE rows'[a] = rows[a] /\ Early(task'[a]) /\ ~Locked(a) /\ Turn(a, task'[a].by, task'[a].row)
        BY <2>3, TurnForward
    <2>4. CASE rows'[a] = rows[a] /\ Early(task'[a]) /\ Locked(a) /\ Kept(task[a].row, task'[a].row)
        <3>1. task[a].row \in Row /\ task'[a].row \in Row
            BY <2>4 DEF IInv, TasksInv, Task, Locked
        <3>2. rows[a] # None => rows[a] \in Row
            BY DEF IInv, RowsInv
        <3>3. Forward(rows[a], task[a].row)
            BY <2>4 DEF TasksForward
        <3> QED
            BY <2>4, <3>1, <3>2, <3>3, KeptForward
    <2> QED
        BY <2>1, <2>2, <2>3, <2>4 DEF LockMoves, Locked
<1> QED
    BY <1>1, <1>2, Inductive, PTL DEF Spec

\* Whoever interleaves, the content of a pending ARK changes with its owner
\* only, and its job never goes back to an earlier stage.
THEOREM PendingFrozen == Spec => PendingIsFrozen
<1> DEFINE Frozen(a) ==
        ( /\ Exists(a) /\ rows[a].state \in Pending
          /\ rows'[a].state \in Pending
          /\ rows'[a].authority = rows[a].authority )
        => /\ rows'[a].target  = rows[a].target
           /\ rows'[a].payload = rows[a].payload
           /\ rows'[a].stage  >= rows[a].stage
<1>1. IInv /\ TasksForward /\ [Next]_vars => \A a \in Ark : Frozen(a)
    <2> SUFFICES ASSUME IInv, TasksForward, [Next]_vars, NEW a \in Ark,
                        Exists(a), rows[a].state \in Pending, rows'[a].state \in Pending,
                        rows'[a].authority = rows[a].authority
                 PROVE  Kept(rows[a], rows'[a])
        BY DEF Kept
    <2>1. rows[a] \in Row
        BY RowGood DEF GoodRow
    <2>2. CASE rows'[a] = rows[a]
        BY <2>1, <2>2, StatusKept
    <2>3. CASE Locked(a) /\ rows'[a] = task[a].row
        BY <2>3 DEF TasksForward, Forward, Exists
    <2>4. rows'[a] = rows[a] \/ (Locked(a) /\ rows'[a] = task[a].row)
        <3>1. \/ UNCHANGED rows
              \/ \E b \in Ark, w \in Authority : Reserve(b, w)
              \/ \E b \in Ark : CommitAndUnlock(b)
            BY RowsMove
        <3>2. ASSUME NEW b \in Ark, NEW w \in Authority, Reserve(b, w)
              PROVE  rows'[a] = rows[a]
            BY <3>2 DEF Reserve, IInv, RowsInv
        <3>3. ASSUME NEW b \in Ark, CommitAndUnlock(b)
              PROVE  rows'[a] = rows[a] \/ (Locked(a) /\ rows'[a] = task[a].row)
            BY <3>3 DEF CommitAndUnlock, IInv, RowsInv
        <3> QED
            BY <3>1, <3>2, <3>3
    <2> QED
        BY <2>2, <2>3, <2>4
<1>2. (\A a \in Ark : Frozen(a)) => [\A a \in Ark : Frozen(a)]_rows
    OBVIOUS
<1> QED
    BY <1>1, <1>2, Inductive, ImagesForward, PTL DEF Spec, PendingIsFrozen

\* A job whose write is on the chain is failed only for the identity of its
\* authority: not the owner any more, inactive, or without its permission.
THEOREM ConfirmedKept == Spec => ConfirmedFailsForIdentity
<1> DEFINE Spared(a) ==
        ( /\ ~Locked(a) /\ task'[a] # None /\ task'[a].by = "chain"
          /\ task'[a].row.status = "FAILED"
          /\ rows[a].authority \in ChainAssigned )
        => ~ ( /\ IsCurrentOwner(rows[a].authority, a)
               /\ ChainMatches(a, rows[a].target, rows[a].cids) )
<1>1. IInv /\ TasksForward /\ [Next]_vars => \A a \in Ark : Spared(a)
    BY Steps DEF LockMoves, Turn, Locked
<1>2. (\A a \in Ark : Spared(a)) => [\A a \in Ark : Spared(a)]_task
    OBVIOUS
<1> QED
    BY <1>1, <1>2, Inductive, ImagesForward, PTL DEF Spec, ConfirmedFailsForIdentity

=============================================================================
