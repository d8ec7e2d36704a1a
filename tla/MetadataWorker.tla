--------------------------- MODULE MetadataWorker ---------------------------
(***************************************************************************)
(* MetadataPersistenceWorker: under the ARK's lock, store the level 2      *)
(* content, then the level 1 JSON that refers to it, then record both CIDs *)
(* and hand the ARK to the availability stage.                             *)
(***************************************************************************)
EXTENDS MinterState

Persistable(a) ==
    /\ Exists(a)
    /\ rows[a].state \in Pending
    /\ rows[a].stage = METADATA
    /\ rows[a].cids = None
    /\ ReadyForProcessing(rows[a])

\* Seeded fault in Persisted: publication need not wait for the first pin.
SkipAvailability(row) ==
    [row EXCEPT !.cids = row.payload, !.stage = CHAIN,
                !.status = "READY", !.attempts = 0]

\* The row that records the CIDs of its payload.
Persisted(row) ==
    [row EXCEPT !.cids = row.payload, !.stage = AVAILABILITY,
                !.status = "READY", !.attempts = 0]

\* Lock the ARK and recheck it; the read transaction ends before the I/O.
PersistBegin(a) ==
    /\ Persistable(a)
    /\ rows[a].payload # None
    /\ Acquire(a, "metadata", "level2", rows[a])
    /\ UNCHANGED <<rows, todo, observed, pipeline, clusterVars, chainVars>>

Persisting(a, step) ==
    Locked(a) /\ task[a].by = "metadata" /\ task[a].step = step

Advance(a, step, row) ==
    task' = [task EXCEPT ![a] = [by |-> "metadata", step |-> step, row |-> row]]

StoreLevel2(a) ==
    /\ Persisting(a, "level2")
    /\ AddContent({Level2(task[a].row.payload)})
    /\ Advance(a, "level1", task[a].row)
    /\ UNCHANGED <<rows, todo, observed, pipeline, replicas, peak, chainVars>>

StoreLevel1(a) ==
    /\ Persisting(a, "level1")
    /\ AddContent({Level1(task[a].row.payload)})
    /\ Advance(a, "commit", Persisted(task[a].row))
    /\ UNCHANGED <<rows, todo, observed, pipeline, replicas, peak, chainVars>>

\* A store call fails; it may have stored its content all the same.  An
\* unavailable Store API defers the ARK.  Any other error is recorded as
\* STORAGE_INVALID_RESPONSE, which the catalogue calls retryable, for as long as
\* the column can count it; then the transaction fails, as in LoseConnection, and
\* the row stays due as it was.
PersistFails(a) ==
    /\ \E step \in {"level2", "level1"} :
        /\ Persisting(a, step)
        /\ \/ UNCHANGED alloc
           \/ AddContent({<<IF step = "level2" THEN 2 ELSE 1, task[a].row.payload>>})
    /\ \/ Advance(a, "commit", DeferProcessingRetry(task[a].row))
       \/ /\ task[a].row.attempts < MaxAttempts
          /\ Advance(a, "commit", MarkProcessingFailed(task[a].row, TRUE))
    /\ UNCHANGED <<rows, todo, observed, pipeline, replicas, peak, chainVars>>

MetadataNext ==
    \E a \in Ark : \/ PersistBegin(a) \/ StoreLevel2(a)
                   \/ StoreLevel1(a)  \/ PersistFails(a)

=============================================================================
