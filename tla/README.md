# A verification project for dark-core-minter-api

TLA+ modules, TLC runs and TLAPS proofs about the publication pipeline of the
minter: how an ARK that a client reserves and describes gets its metadata into
the IPFS cluster, its level 1 CID onto the chain, and its replicas up to the
durability target, while owners change, requests arrive, replies get lost and
processes die. Around it, the worker processes themselves, the names that are
minted, the authorization cache and the import command.

Source paths below are relative to `src/`.

## 1. The system

| Part | State it keeps | Operations |
| --- | --- | --- |
| API (`app/api/arks.py`, `app/api/worker.py`, `app/middleware/authority_lifecycle.py`) | none of its own | reserve, batch reserve, PUT metadata, DELETE, retry of failed ARKs, reads |
| Database (`app/database/models.py`, `app/repositories/ark_repository.py`) | one row per ARK with its metadata: public state, owner, target, processing stage and status, payload, CIDs | the repository's operations and selection queries |
| ARK lock (`app/database/ark_locks.py`) | a PostgreSQL session advisory lock per ARK | try-lock, unlock, lost connection |
| Metadata worker (`app/workers/publisher.py` 100-246) | nothing between ARKs | store level 2, store level 1, record CIDs |
| Replication worker (`publisher.py` 249-754) | statuses read in the last two seconds, promotion budget | read statuses, promote, reconcile, repair, purge |
| Chain worker (`publisher.py` 757-1115) | the page of its cycle and the results of its pipeline | select, send, await receipts, apply results, reconcile with the chain |
| Store API and IPFS cluster (external) | allocation and replicas of every CID | store, ensure_replication, status |
| ARK and authority contracts (external) | owner, target, CID of every ARK; active authorities and their NAANs; nonce queues | create, update, transfer, revoke, grant |
| Worker process (`app/main_worker.py`, `app/repositories/worker_runtime_repository.py`) | pidfile, singleton lock, heartbeat row, adaptive page size | start, cycle, heartbeat, pause, stop |
| NOID minting (`app/repositories/noid_counter_repository.py`, `app/utils/noid.py`) | a counter per namespace | allocate, encode |
| Authorization cache (`app/utils/auth_cache.py`) | positive answers with their time | get, set, evict |
| Import command (`app/cli/import_arks.py`) | the result file | import, resume |

The API and the three workers are separate processes. They share the database
rows and the ARK locks and nothing else; each calls the Store API or the chain
by itself. The public state (RESERVED, DRAFT, UPDATE, PUBLISHED, TOMBSTONE) says
what a client may do next; the processing stage (METADATA, AVAILABILITY, CHAIN,
REPLICATION, COMPLETE) says which worker is next; the status (READY, WAITING,
FAILED, DONE, CANCELLED) says whether it may act.

What is hard in it:

* The chain cycle selects rows, sends their transactions and waits for the
  receipts without any ARK lock. The rows may change meanwhile, and a result is
  checked against the row only when it is applied.
* The replication cycle reads the statuses of a whole page before it locks any
  ARK, and uses a status again for two seconds.
* Replies of the node get lost, receipts time out, one failed send leaves the
  rest of a nonce pipeline unsent; a worker can die between a write on the chain
  and the commit that records it. Nothing is exactly-once.
* The owner of an ARK is decided on the chain and can change at any time; the
  API reads it before it commits.
* Reservations are transactions that run at once (`API_WORKERS` processes). They
  insert in savepoints, collide on names and client items, and their answers get
  lost after the commit.
* Pins are lost after they were confirmed, and the payload needed to repair them
  is deleted at some point.
* A worker is kept single by two mechanisms of different reach: a pidfile on its
  host and a database lock that can vanish unnoticed. All its instances, those that are refused
  included, and a heartbeat thread that may outlive its loop, write one row.
* The authorization cache is filled by threads that read the chain without a lock,
  and the import command is run again over a checkpoint and a file that may differ
  from those of the run that crashed.

What makes each part correct: the chain only gets content that the cluster held
(replication and chain workers); the payload outlives the need for it
(replication worker); an authority signs only its own requests (API, chain
worker); a published row agrees with the chain (chain worker); a tombstone stays
dead (all); pending content does not change (API); every job ends (all); no name is
handed out twice, a name that is answered is registered, and a client item has one
live ARK (NOID minting and the reservations of the API); one instance of a worker
works, and the status report tells the truth about it and about the work that waits
(worker processes, worker API); a stored permission is honoured for no longer than
the cache's time to live; an import never reports what is not on the chain.

## 2. Plan

1. Done: the core. `ArkRecord`, `StorageCluster`, `Blockchain`, `MinterState`,
   `MetadataWorker`, `ReplicationWorker`, `ChainWorker`, `MinterApi`, composed by
   `Minter`; seven runs; `Minter_proofs`.
2. Done: `ArkLifecycle`, the abstract life of an ARK, implemented by `Minter`
   (checked in `owners`, proved in `Lifecycle_proofs`).
3. Done: `Reservation`, the NOID counter, savepoints and collisions, batches with
   `client_item_id`; three runs; `Reservation_proofs`. `Noid` and `Names`, the names
   themselves. `ArkRegistry`, what the clients are promised, implemented by `Reservation`.
4. Done: `WorkerRuntime` and `Pacing`; the run `worker`; `WorkerRuntime_proofs`.
5. Done: `AuthCache` and `ImportArks`, composed by `ChainAccess`; the run `access`.
6. Done: `ChainAccess_proofs`, `Answers_proofs`, `Published_proofs`, `Names_proofs` and the
   second half of `Lifecycle_proofs`: the remaining safety and action properties of the runs,
   and both refinements. What is left to TLC is liveness.
7. Open: several ARKs under the backlog gate, the page limit and explicit times: what
   starves and what does not. `PROJECT.json` lists these two hazards without a property, and
   five more which the model contains but which no property excludes, because the code
   accepts them or nothing it says forbids them; each has its reason beside it.

## 3. Modules

```
ArkRecord --+-- StorageCluster --+
            |                    +-- MinterState --+-- MinterApi ----------+
            +-- Blockchain ------+                 +-- MetadataWorker -----+
                                                   +-- ReplicationWorker --+-- Minter -- MCMinter
                                                   +-- ChainWorker --------+       |
                                              ArkLifecycle (INSTANCE) -------- Minter
                                                                                   |
                                    Published_proofs -- Lifecycle_proofs -- Minter_proofs

ArkRegistry (INSTANCE) -- Reservation --+-- Reservation_proofs --+-- Answers_proofs
                                        |                        +-- Names_proofs
                                 Noid --+-- Names ---------------+
                                              +-- MCReservation

Pacing -- WorkerRuntime --+-- MCWorkerRuntime
                          +-- WorkerRuntime_proofs

AuthCache --+-- ChainAccess --+-- MCChainAccess
ImportArks -+                 +-- ChainAccess_proofs
```

* `ArkRecord` - a row and, one operator each, the row that every operation of
  `ARKRepository` leaves. The operations are pure; whoever calls them decides when
  the result is committed.
* `StorageCluster` - allocation and confirmed replicas of each CID. `peak` is a
  history variable: the most replicas a CID ever had.
* `Blockchain` - the contract's entries, a queue of transactions per authority,
  and the authorities that may sign. `owned`, the authorities that ever owned each
  entry, is a history variable as well.
* `MinterState` - the shared variables. `rows` holds committed rows. `task[a]` is the
  advisory lock of `a` together with the row image in its holder's session: a lock
  has one holder, and the image becomes visible when the holder commits.
  `CommitAndUnlock` and `LoseConnection` end every locked section.
* `MetadataWorker` - `PersistBegin`, `StoreLevel2`, `StoreLevel1`, `PersistFails`.
* `ReplicationWorker` - `FirstPinCycle` and `MaintenanceCycle` select a page (`todo`)
  and read statuses (`observed`); `ReconcileUnassigned`, `ReconcileUnanswered`,
  `ReconcileObserved`, `ReconcileRepair` and `SkipReconcile` are the outcomes of
  `_reconcile` for an ARK of the page.
* `ChainWorker` - `SelectPage` copies rows into `pipeline`; `Send`, `SendFails`, `Mine`,
  `ReceiptTimeout` are the call into dark-core-lib, one authority and at most
  `RpcBatchSize` operations at a time; `FinalizeConfirmed`, `FailLostIdentity`,
  `ReconcileOnChain`, `FailReverted`, `DeferUncertain` and `DropResult` apply a result.
* `MinterApi` - `Reserve`, `PutMetadata`, `Delete`, `RetryFailed`; `StatusAnswers`, all
  that a GET may answer from what it read of the record, the metadata and the contract; `Workload(worker)`, what the status report shows.
* `ArkLifecycle` - the abstract specification: which document of which authority an ARK
  stands for. `Minter` instantiates it with `doc <- Views`, the committed rows without
  stages, statuses and payload columns (`View`).
* `Minter` - the composition, the environment (pins come and go, ownership and
  permissions change), fairness and every property.
* `MCMinter` - the constants of the runs. `Minter_proofs` - the invariants;
  `Lifecycle_proofs` - the refinement, and what steps may never do;
  `Published_proofs` - the chain shows what is published.
* `Reservation` - `POST /arks` and `POST /arks/batch` of one namespace. `session[r]` is
  the handler and the transaction of a request: the batch's map of known ARKs, the
  results so far, the attempt, the uncommitted rows and the uncommitted counter.
  `Begin` prefetches the map; `AnswerKnown` answers from it; `Reserve` allocates and
  inserts; `BatchCollides` and `Reread` are a collision in a batch, `SingleCollides` one
  in `POST /arks`; `Commit` ends the transaction and sends the answer, or loses it;
  `Break` and `FailItem` are a failed allocation statement in a batch, `Abort` is a
  crash or an error 500. `Import`, `Tombstone` and `Takeover` are what the other requests do to
  the rows in question. `MCReservation`, `Reservation_proofs` and `Answers_proofs` belong to it.
* `ArkRegistry` - the abstract specification of the same requests: `Grant` registers all rows
  of a request in one step, with names that nobody has and one live row for each client
  item, and its answer names exactly these rows and rows that were seen live for the item;
  `Refuse` needs as many foreign names as there are attempts; the response of a transaction that
  PostgreSQL has aborted promises nothing (`Mislead`). `Reservation` instantiates it with
  `registry <- records`, `seen <- witnessed` and `View`, the phase of a request without the
  attempts and savepoints of its transaction.
* `Noid` - `EncodeCounter`, `ComputeCheckdigit`, `MintArkId` and `ValidateNameCheckdigit` as
  functions on sequences of ordinals.
* `Names` - what these promise of the numbers that are registered. `Names_proofs`.
* `WorkerRuntime` - every start of every instance of a worker: `CreatePid`, `CheckPid`,
  `UnlinkPid`, `RecreatePid`, `WritePid` and `RefusedByPid` are `_acquire_worker_pid`, system call by
  system call; `AcquireLock` and `RefusedByLock` the advisory lock; `ReportStarting`,
  `EnterLoop`, `Pause`, `BeginCycle`, `EndCycle`, `EndSaturatedCycle`, `FallAsleep`, `WaitBeat` the
  loop; `Raise`, `ReportError`, `ReportStopped`, `ReleaseLock`, `Exit` its end; `BeatBegin`,
  `BeatCommit` and `BeatFails` the heartbeat thread. `ProcessState` is what the API makes of
  the row.
* `Pacing` - the page of the chain worker and the promotion budget of the replication
  worker, as functions from a pace and an observation to the next pace.
* `AuthCache` - `Hit` and `Miss` are the lookup, `Ask` reads the contract, `Store` fills the
  cache and evicts; `since` is a history variable, how long ago a pair was
  permitted, or a thread held a permission that it had not stored.
* `ImportArks` - one run after the other: `Run` and `ReadCsv` read the file, `Preflight`,
  then for each row `Resume`, `Exists`, `Validate`, `Submit` with `Receipt` or `TimeOut`, or `FailRow`;
  `Line` writes the checkpoint. `held` is a history variable, the URLs an ARK had
  while the wallet owned it.
* `ChainAccess` - these two and the administration of permissions. `ChainAccess_proofs`.

`Reservation` and `Minter` meet in the rows: what `Reserve` of `MinterApi` does in one
step, for a name that happens to be free, `Reservation` opens up, and it needs of the
rest of a row only whether it is live and whose client item it is.

An operator marked "Seeded fault in X" is not used by the specification. It is
X with a plausible bug, and stands before X so that the two can be exchanged to
see that a property notices.

### Abstractions

* `None` is NULL, a missing row, a free lock, a status that was not answered.
* `payload` stands for `level1_json` and `original_content`, `cids` for `level1_cid`
  and `original_cid`: the code writes, resets and purges each pair together, and a
  CID is a hash of its content, so a CID pair is named by its payload. The level 1
  document names its ARK, so two ARKs never share a level 1 CID.
* Time is not modelled: a WAITING row may be due at any step, a cached status may
  be used again or not, grace periods and cooldowns may have passed or not.
* `attempts` is counted without a cap, as in the code. `MaxAttempts` (0 or 1 in the runs)
  stands for the end of the SmallInteger column: there the UPDATE that would record one more
  retryable failure fails, its transaction rolls back and the row stays due
  (`LoseConnection` does the same to it). Nothing else reads the number: no retry is
  refused for it, and a final failure ends the job whatever it is. Replica counts on the row,
  wait reasons, error codes, observation counters and statistics are left out.
* The reads of a GET are not steps. `StatusAnswers` takes what each of them found as an
  argument, and StoresFitTogether applies it to one state. A GET during which the stores
  change may answer a mixture, which no property excludes (see the findings).
* Only accepted requests are actions; a refused one changes nothing.
* `authorized` merges two questions, whether an authority is active and whether it
  may use the NAAN. Where the code asks only the first, the action asks neither.
* `Reserve` stands for a reservation that found its name free; the chain is not
  asked, and the permission may come from the cache.
* The results `not_sent`, `send_failed`, `ambiguous` and `failed` are "unknown". An
  operation that was sent has one receipt, the one of its last transaction.
* The identity check, the chain read and the lock of a result are one step; its
  commit is another. So are the chain read and the lock of an API request.
* A reverted result may be deferred in place of failed, since the code defers
  errors that read like infrastructure errors.
* The assignment of authorities is configuration, read by each process: the API,
  the replication worker and the chain worker have a constant each.
* In `Reservation` a name is its counter value; that the encoding is injective is
  MintedNamesDiffer. One namespace is modelled: different shoulders have different
  counters, and equal names of two of them would meet the same unique index. A
  client item stands for its authority too. PostgreSQL runs READ COMMITTED: a
  statement sees committed rows and its own. The first allocation takes the row
  lock of the counter until the end of the transaction, so an allocation and the
  insert behind it are one step: no other reservation can come between them, and an
  import that could is ordered before or after. `witnessed` is a history variable:
  what was live for an item of the request since it was sent.
* Threads within a worker are interleaved at the grain of the ARK locks.
* In `WorkerRuntime` the status RUNNING stands for SLEEPING and the PAUSED states too, none
  of which is DOWN; durations are left out, `HeartbeatAges` is the time after which a row
  is stale; an upsert is one transaction. A host is what has a `/tmp` and process numbers
  of its own, and `Container` says which hosts have `/.dockerenv`. The number in a pidfile whose
  maker is gone may be nobody's, another process's or the reader's own (`Bearers`); as long as
  the maker runs it is the maker's. The counter of
  cycles without progress stops at the 3 that its reader asks for.
* In `ChainAccess` the two clients do not interact, so they are explored one at a time
  (`Scenes`). Ages stop at the time to live. A create of the import is mined only with
  the permission; the owner in a completed line is taken to be this wallet.

## 4. Runs

Bounds: `MaxAttempts` (where the attempt counter ends), `MaxPending` (transactions in flight per authority),
`Offers` (the requests that clients may send), `Fragile` (CIDs whose pins may be
lost), `Cached` (CIDs whose status may be used again), `Revocable` (authorities that
may be revoked), `Foreign` (ARKs that another application may have put on the chain);
in `Reservation`, `MaxSends` (times a client sends the same request), `Foreign` (names
that may be imported) and `Breakable` (batches whose statements may fail), and
`MaxRetries`, 8 in the code, is 2; in `WorkerRuntime`, `Kinds`, `Instances` and `Outcomes` (which workers are started how often, and how
their cycles end); in `ImportArks`, `Inputs` (the files) and `Contested` (the ARKs that others
write). Every other counter is bounded by the code.

| Run | Instance | Properties | Shows |
| --- | --- | --- | --- |
| `content` | 1 ARK, 1 authority, 2 documents, target 2 replicas, publish after 1 | TypeOK, IInv, OnlyAvailableOnChain, PayloadRetained, StoresFitTogether, ReportedWorkIsSelected, PendingIsFrozen | content is replaced over and over while pins of a level 2 document are lost, repaired from the payload and promoted, and workers crash; the row and the contract fit together in every state, and the report shows the work that workers select |
| `owners` | 1 ARK, 2 authorities with a target each, 2 transactions in flight | SignedOnlyByItsAuthority, PublishedIsOnChain, ConfirmedFailsForIdentity, ImplementsLifecycle | the ARK changes hands on the chain with lost replies, timeouts, repeated sends and a revocation; nobody signs the job of the other, a confirmed write fails for the identity of its authority alone, and what readers see is a behaviour of ArkLifecycle |
| `assignment` | as `owners`, but the replication worker serves only one authority and the chain worker only the other; both levels may lose their pins | TombstoneInert, IInv | jobs that a worker does not serve fail; deleted jobs stay dead |
| `pair` | 2 ARKs, pages and pipelines of 2 | OnlyAvailableOnChain, PublishedIsOnChain, SignedOnlyByItsAuthority | several ARKs share a page, a status read and a nonce queue |
| `liveness` | 1 ARK, target 2 replicas, level 1 pins may be lost | PendingSettles, DurabilityCompletes | once outages end every job ends and every published ARK gets its replicas |
| `attempt` | 1 ARK | ContentFixedDuringAttempt, violated | see findings |
| `terminal` | 1 ARK, 2 authorities with a target each | TombstoneIsTerminal, violated | see findings |
| `race` | 2 batches with a common client item and a single request, 2 foreign names | TypeOK, AnswersNeverClash, AnswersAgree, AnswersWereLive, RefusedOnlyWhenCrowded, MintedNamesDiffer, TyposAreRejected, ImplementsRegistry | concurrent reservations agree on the ARK of an item and never share a name, while ARKs are imported, deleted and taken over; a request is refused only after real collisions; the names differ and reject every single typo; what the clients see is a behaviour of ArkRegistry |
| `resend` | 1 batch, whose statements may fail, and a single request, each sent twice, 1 foreign name | AnswersAreReserved, AnswersNeverClash, RequestsEnd | lost answers, aborted transactions and repeated requests lose no row and reuse no number, and nobody keeps the counter locked |
| `phantom` | 1 batch whose statements may fail | ResultsAreReserved, violated | see findings |
| `worker` | 2 instances of the metadata worker in one container, or 1 of the chain or the replication worker; pages of 2 to 6, budgets of 1 to 3 | TypeOK, Singleton, FalseRefusalsFollowCrashes, WorkerIsShown, DeathIsNoticed, StallIsWithdrawn, PaceRecovers | starts race for pidfile and lock, crash, lose the lock and stop while pids are used again and heartbeats are late or fail; one works, the API shows which, and pages and budgets recover |
| `access` | 2 threads, a cache of 2 for 3 pairs, time to live 2; an import of 2 ARKs from 2 files, 1 of them contested | TypeOK, ReportsAreTrue, GrantsAreRecent | threads miss, read, store, expire and evict in any order; imports crash, time out and are resumed with a corrected file |

Why the bounds are enough: an interference needs an ARK, a job and one other
actor. Two documents are needed to tell stale CIDs from current ones, two
authorities to confuse owners, two transactions in flight for a repeated send, two
ARKs for a page that is handled half; two replicas are the least for which
publication and durability differ. `pair` uses the symmetry that swaps the two ARKs
together with their documents; no temporal property is checked there. Two batches
are needed to race for an item, the second item of one of them to hit the index in
the middle of a batch, two foreign names to exhaust `MaxRetries = 2`, and two sends for
a lost answer. A stale pidfile needs an instance that died and two that start; an instance
that ends can start again, so two are enough, and the instances of two kinds share
nothing. Base 5 with one digit puts the number that fills the length, and names of two
digits, among the numbers that the requests of `race` register. As with the 29 characters
of the code the base is prime, and no shorter than a prefix and a name together, without which
the check digit misses typos: TyposAreRejected speaks of such names only. In the code, a NAAN of 5
characters, the slash and the 8 of a name leave 15 for the shoulder. An entry
is evicted while another is stored with three pairs for a cache of two. The import needs
two runs with two URLs for an ARK, and a second ARK to go on with.

`CHECK_DEADLOCK FALSE` stands where the last state is one in which nothing
remains to be done: an ARK that was deleted before it was ever on the chain
has no owner there who could take it over, so no request and no worker touches it
again. In `owners` another authority can always act, and deadlock is checked. The
reservations stop when every client has sent what it had to send.

### Fairness

`FairSpec` assumes weak fairness of each worker, of the commit of each locked
section, of mining and of pinning: worker loops never end, holders of a lock
either commit or fail, blocks are mined, the cluster pins what it has accepted.
Strong fairness is assumed of a repair, a promotion and a status read that is
not from the cache: each is held back by a finite wait only (the grace period
and the cooldown, the budget, the two seconds), so what is due again and again
is done at some time. Faults are the actions in `Fault`: lost connections, crashes,
failed stores, sends, receipts and reads, lost pins. They happen at any time and in
any number, and then stop (`<>[][~Fault]_vars`). Nothing is assumed of clients.

`FairSpec` of `WorkerRuntime` assumes weak fairness of each process that runs, of its heartbeat
thread and of time (`HeartbeatAges`). Errors of the database in the heartbeat thread and
disturbances (pauses, an unhealthy chain, saturated pages, pressure on the cluster) end
at some time. Starts, signals and crashes may go on for ever.

`LiveSpec` of `Reservation` assumes weak fairness of each handler: a coroutine or its
process runs on, or dies (`Abort`, which is not fair). It is weak although several
requests wait for one lock, because PostgreSQL queues the waiters of a row and because
the number of sends is finite.

### Findings

* `attempt`: the README (line 544) says a worker attempt holds the ARK's lock, so that
  the content cannot change during it. The chain worker sends without the lock
  (`app/workers/publisher.py` line 1066). TLC shows a DELETE committed while the
  operation is in flight; the chain is then written for a tombstone. The result is
  dropped as stale, which TombstoneInert confirms.
* `terminal`: `minter-architecture.md` line 243 calls TOMBSTONE terminal for write flows, and
  DELETE is documented as "Cannot be undone" (`app/api/arks.py` line 764). The takeover
  (`_reconcile_local_owner`, line 546) sets the row of the previous owner PUBLISHED and clears
  `tombstoned_at`, whatever its state. TLC shows an ARK that is deleted, a transfer of ownership
  on the chain, and the PUT of the new owner that makes the tombstone an UPDATE. The README
  (line 953) speaks of importing the chain's PID for a successor, not of tombstones.
  ImplementsLifecycle allows this one way out of a tombstone and no other.
* `phantom`: the batch promises "individual error handling" (`app/api/arks.py` line 281).
  An allocation that fails with another error than a collision (a lock timeout, a
  cancelled statement, a deadlock) does so outside the savepoint, so PostgreSQL aborts
  the transaction with the rows of earlier items. `except Exception` (line 365) only
  leaves the item; the later items fail as well; the commit of an aborted transaction
  is a rollback that psycopg2 does not report. The answer is 200 and its results name
  ARKs that are not in the database. AnswersAreReserved speaks of committed
  transactions only, and holds.

Contradictions between text and code that the source shows without a run:

* The README's state diagram (line 224) calls the DELETE of a tombstone idempotent.
  `app/api/arks.py` line 797 tolerates a missing chain record only for RESERVED and DRAFT, so
  the second DELETE of an ARK that never reached the chain is refused.
* The README's `METADATA_WORKER_MAX_RETRIES` and `CHAIN_WORKER_MAX_RETRIES` (lines 777 and 798)
  are "retry attempts before permanent failure". The repository discards the value
  (`app/repositories/ark_repository.py` line 576), so a retryable failure is retried for ever.
* `minter-architecture.md` line 363 has a write that matches the chain become PUBLISHED. The
  identity is checked first (`app/workers/publisher.py` line 888): after a mere revocation
  the job of a successful write is FAILED. ConfirmedFailsForIdentity says that nothing else does it.
* The README (line 515) explains `no_progress_cycles` by work that was attempted repeatedly. The
  counter counts heartbeats (`app/repositories/worker_runtime_repository.py` line 137).

Observed while modelling, without a statement in the repository that they contradict:

* A GET reads the row, the metadata, the Store API and the contract one after the other
  (`app/api/arks.py` lines 412, 415, 418 and 431) without a lock or a snapshot. A PUT or a
  publication between two reads mixes the description of one document with the CID of
  another.
* A stale pidfile whose number another process has by now refuses every start on that host
  as long as that process runs (the README lists it at line 924). FalseRefusalsFollowCrashes says that
  only a crash leaves such a file.

* An ARK that goes from one authority to another and back can be published and then
  overwritten: a transaction of the first tenure whose answer was lost is no longer in anybody's
  books, and may be mined after reconciliation (`app/workers/publisher.py` line 775) found that the
  chain shows the content of the second. PublishedIsOnChain and StoresFitTogether
  except ARKs that ever had another owner.
* The pidfile alone (`app/main_worker.py` line 97) may let two instances through on one host:
  one reads the file before the pid is in it, or unlinks the file that another has just
  made. Singleton holds by the advisory lock, and is proved of it alone.
* The ERROR of a failed worker and its `last_error` are overwritten at once by the STOPPED
  of the finally block. A refused second instance writes both into the row of the one that
  runs, until that one's next heartbeat (WorkerIsShown says there is one), and resets its
  counter of fruitless cycles; the counter counts heartbeats, not cycles.
* Cycles that are paused do not reset the count of healthy capacity cycles; a healthy
  capacity with a smaller recommendation does not shrink the page. The promotion budget is
  restored at once by a mild pressure, by a low one only after three cycles; a status batch
  that fails counts as no pressure.
* While ARKs in the metadata stage block the maintenance, a replication row that is overdue
  makes `next_wake_plan` (`app/workers/publisher.py` line 752) return a delay of 0, so the
  worker polls without a pause until the backlog is gone.
* `_backlog_age_metrics` (`app/api/worker.py` line 245) takes its percentiles of the stages 1, 2 and 4,
  the count beside them of the stages 1, 2 and 3.
* `dark-core-worker-status` reads a pidfile that no worker writes.
* `AuthCache` dates an entry when it is stored, not when the contract was read, and at its
  limit evicts another entry even to replace one that it has.
* A dry run of the import adds `skipped_same_url` lines to the checkpoint, which a later run
  resumes without asking the chain. A create that timed out is reported as failed and may
  still be mined.

## 5. Proofs

`Minter_proofs` proves, for every number of ARKs, authorities, documents and
replicas:

| Theorem | Statement |
| --- | --- |
| Inductive | `Spec => []IInv` |
| TypeCorrect | `Spec => []TypeOK` |
| OnlyAvailable | `Spec => []OnlyAvailableOnChain` |
| SignedByAuthority | `Spec => []SignedOnlyByItsAuthority` |
| PayloadKept | `Spec => []PayloadRetained` |
| TombstonesInert | `Spec => []TombstoneInert` |
| ReportIsAccurate | `Spec => []ReportedWorkIsSelected` |
| Refinement (`Lifecycle_proofs`) | `Spec => ImplementsLifecycle` |

The assumptions are the named ones in the modules: `None` is no authority, target or
document (RecordAssumption); `1 <= PublishAfter <= TargetReplicas`, which the
constructor of the replication worker enforces (ReplicaAssumption); sizes are
positive and offers are made of ARKs, authorities, targets and documents
(MinterAssumption, PendingAssumption).

None of the safety properties is inductive. That the chain has only available
content depends on what was mined, that on what was sent, that on the item that
was selected, that on the stage of its row, that on the image some session
committed, and that on the statuses the worker had read. `IInv` says what holds at
each of these places: RowInv of every committed row (RowsInv) and of every row
in a session (TasksInv), of the observations (HistoryInv), of the selected items
(ItemsInv), of the transactions and the entries (LedgerInv). What is said of copies
is said of `peak`, which only grows; so it survives lost pins, and one lemma
(HeldGrows) carries it over every step of the cluster.

The proof has three layers: a lemma per repository operation (it keeps RowInv),
lemmas about taking, dropping and committing a lock, and a lemma per group of
actions, with a step for each action.

`Lifecycle_proofs` shows that the initial views are those of `ArkLifecycle` and that every step is a
step of it or leaves the views alone. A commit publishes an image that was computed
when the lock was taken, so the invariant it adds to `IInv` is about the time between: while
an ARK is locked, the view of the holder's image is that of the committed row or one
lifecycle step away from it. Rows change only by a commit under the lock, so the step
is still possible when it is taken; a reservation, which takes no lock, waits for it.

The second half of `Lifecycle_proofs` proves the action properties:

| Theorem | Statement |
| --- | --- |
| ImagesForward | `Spec => []TasksForward`, the invariant it adds |
| PendingFrozen | `Spec => PendingIsFrozen` |
| ConfirmedKept | `Spec => ConfirmedFailsForIdentity` |

A lock is taken with an image in one of four ways (`Turn`), and its holder changes the image
in one way only; the two lemmas that say so replace a case analysis of every action in each of the
theorems. A commit changes what was decided when the lock was taken: TasksForward says that
an image of pending content keeps the content of the committed row, at its stage or a later one.

`Published_proofs` proves what the chain shows of a published ARK:

| Theorem | Statement |
| --- | --- |
| PublishedInductive | `Spec => []PubInv`, the invariant it adds |
| Published | `Spec => []PublishedIsOnChain` |
| StoresFit | `Spec => []StoresFitTogether` |

If the ARK ever had another owner, it is enough that what was confirmed has been written, at the
request of one of its owners, and that an entry is never removed. If it always had one owner, the
entry has to be that of the row, although a transaction that was given up for lost may still be
mined; this is proved for any number of authorities, since nobody but `w` can write an entry while
`owned[a] \subseteq {w}`. So PubInv speaks of the nonce queue:
each transaction in it repeats the entry or carries the content of the row, and once the
content of the row is in the queue or on the chain, nothing else follows it. That is why a
client cannot replace pending content, and why a receipt, which comes for the last transaction
of an ARK, settles the ones before. EntryAssumption (None is no entry) is the only assumption it
adds.

`Reservation_proofs` proves, for every number of requests, items and retries:

| Theorem | Statement |
| --- | --- |
| ReservationTypes | `Spec => []TypeOK` |
| AnsweredIsReserved | `Spec => []AnswersAreReserved` |
| NoNameTwice | `Spec => []AnswersNeverClash` |

Its assumptions are RequestAssumption (requests are non-empty, only `POST /arks` has no
client item) and BoundAssumption. The argument has two parts. `RInv` adds to the types
that the uncommitted state is guarded by the counter's lock (who has rows of its own
holds it), that attempts and results stay within the request, and that every name a
session has collected is a row it can see: committed, or its own and about to be. The
collected names are then registered when they are answered, since rows are changed
but never removed. `ClaimedOnce` says that a name is claimed for one item only,
wherever the claim stands: in a row, in an open session, in an answer; for an ARK
without client item, by one request only, and such a request has one ARK. A new claim has a number
that no visible row has; here the collision check of the database does the work,
whatever the counter does, so a rolled back counter is harmless.

`Answers_proofs` adds:

| Theorem | Statement |
| --- | --- |
| AnsweredWasLive | `Spec => []AnswersWereLive` |
| OneArkPerItem | `Spec => []AnswersAgree` |
| RefusalIsEarned | `Spec => []RefusedOnlyWhenCrowded` |

For the first two, `AInv` follows a name from the moment a session reads or writes it: it stands
for its item, in a committed row or in one of the session's own, and whenever a row of a wanted
item is live it is witnessed. The unique index over client items is modelled by the guard of the
insert, and it alone makes them agree: OneActive, at most one live row for an item. For the third,
`CrowdInv` counts: a registered number that the counter has not passed is foreign, so that every
collision of a request, one per attempt, is with another foreign name.

It ends with the refinement of `ArkRegistry`:

| Theorem | Statement |
| --- | --- |
| RegistryInductive | `Spec => []RegistryInv`, the invariant it adds |
| RegistryRefinement | `Spec => ImplementsRegistry` |

The steps inside a transaction must be stutters, and its commit a `Grant`. The first needs the
history to be up to date before and after them (`Watched`). For the second, what the abstract
step does at once was decided earlier, row by row and against the rows of that time;
RegistryInv carries it to the commit: no two rows share a name, what a session has written is
named by no committed row and by one of its results each, and a request to `POST /arks`, which
has no savepoint, answers only rows of its own (`Accounted`). No other reservation can break
it, since the counter's lock leaves one session with uncommitted rows; an import can, and
the guard of the insert, the unique index that waits for the transaction, is what stops it. The
refusal is CrowdInv, the answers are AInv.

`Names_proofs` proves, for every prime size of the alphabet, every length and every prefix:

| Theorem | Statement |
| --- | --- |
| NamesDiffer | different numbers have different names |
| RegisteredNamesDiffer | `Spec => []MintedNamesDiffer` |
| SlipsAreSeen | `Spec => []TyposAreRejected` |

The only assumption beside those of `Reservation_proofs` is NoidAssumption (the base is prime,
the length positive, the prefix a sequence of ordinals). `Digits` and `Total` are recursive
functions, and the induction theorems of the library take an operator and cannot be used; so
the induction is over sets of numbers, by the least element of the counterexamples (`Smallest`,
`Induction`). Names: padding is undone by the length, digits by division, so the codes
under the check digits of two numbers differ. Slips: a wrong character changes the weighted sum by the
product of its weight and the difference of the characters, two neighbours swapped before the check digit change it
by their difference; the weights and the differences are smaller than the base, and a prime divides no
product of two smaller numbers (Euclid's lemma, proved here). A wrong check digit is refused
because the digit is computed from the rest. The prefix, which a request gives in its URL too, is not
varied.

`WorkerRuntime_proofs` proves, for any number of instances on any number of hosts, and all
settings of the paces:

| Theorem | Statement |
| --- | --- |
| RuntimeTypes | `Spec => []TypeOK` |
| RuntimeSingleton | `Spec => []Singleton` |
| RuntimeRefusals | `Spec => FalseRefusalsFollowCrashes` |

The assumptions are RuntimeAssumption and PacingAssumption (sizes are positive, the minimal
promotion batch is at most the batch). For Singleton the invariant is that whoever works
holds the lock or has lost it; for FalseRefusalsFollowCrashes that a pidfile belongs to an
instance of its host that is not off, or was left by one that crashed. Who bears
the number in it is a choice at every check, and the theorem holds for each choice.

`ChainAccess_proofs` proves, for any number of threads, pairs, ARKs and files:

| Theorem | Statement |
| --- | --- |
| AccessInductive | `Spec => []IInv`, the invariant |
| AccessTypes | `Spec => []TypeOK` |
| ReportsTrue | `Spec => []ReportsAreTrue` |
| GrantsRecent | `Spec => GrantsAreRecent` |

The assumptions are CacheAssumption, ImportAssumption and AccessAssumption. An entry of the
cache is never younger than `since`, which counts from the last moment at which its pair was
permitted or a thread held a positive answer that it had not stored. So a hit grants
what was permitted, or held, less than the time to live ago. The second case is a limit of the code,
which dates an entry when it is stored: how long a thread may take between its read and
the store is not bounded, nor is it for the miss that grants from its own read. Entries and their order are two variables, kept in step: QueueInv says that the order lists
each stored pair once, and that there are at most as many as the cache may hold, which types
alone do not give. Whatever the import believes of an ARK, in its checkpoint or while it waits for a receipt, is a
URL in `held`.

Every invariant, action property and refinement that a passing run checks is a theorem. Only
model-checked are the liveness properties, since fairness is beyond the prover: RequestsEnd,
PendingSettles, DurabilityCompletes, WorkerIsShown, DeathIsNoticed, StallIsWithdrawn and
PaceRecovers. TombstoneIsTerminal, ContentFixedDuringAttempt and ResultsAreReserved are
refuted by TLC.

## 6. Not modelled

* Request authentication (`app/middleware/auth.py`, `signed_auth.py`): a security boundary, outside
  the scope of a behavioural model. Requests carry an authority that has been established.
* Health checks, logging, error rendering, configuration, migrations, the authority
  endpoints, the error listing and the NAAN check command: they do not change the state
  modelled here. A health check pauses a worker, which is `Pause`, or a delay of its next step.
* The single-ARK publication paths of the chain worker (`publish_single_ark`, `ARKPublisher`) are
  used by tests only; four repository methods are called by nothing.
* Durations: sleeps, the cadence of observations, backoffs. They are any delay; that they
  are finite is the fairness of section 4.
* The notebooks call the HTTP API and have no logic of the minter.

`PROJECT.json` lists the hazards of this code, and for each the properties that
cover it or why none does.
