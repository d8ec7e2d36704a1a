------------------------------ MODULE MinterApi ------------------------------
(***************************************************************************)
(* The mutating requests of the API.  PUT, DELETE and the retry of a       *)
(* failed ARK answer 409 while the ARK is locked; otherwise they hold its  *)
(* lock from the first read to the commit.  A request that is refused      *)
(* leaves no trace, so only the accepted ones are actions.  The chain is   *)
(* read before the commit: what it said may no longer hold by then.        *)
(*                                                                         *)
(* `authorized' stands for both conditions the code asks of an authority:  *)
(* active, and permitted on the NAAN.  Where the code asks for the first   *)
(* alone, the action asks for neither.                                     *)
(***************************************************************************)
EXTENDS MinterState

\* require_current_owner
IsCurrentOwner(w, a) ==
    w \in authorized /\ chain[a] # None /\ chain[a].owner = w

\* _reconcile_local_owner: the current owner takes the ARK over as the chain
\* has it; the job and the metadata of the previous owner are only archived.
Superseded(row, w, entry) == NewRow("P", w, entry.target)

\* Seeded fault in PutBase: the row keeps the authority of its previous owner.
KeepOwner(a, w) ==
    IF ~Exists(a)
    THEN IF chain[a] # None /\ chain[a].owner = w
         THEN {CreatePublishedImport(w, chain[a].target)} ELSE {}
    ELSE IF rows[a].authority = w \/ IsCurrentOwner(w, a) THEN {rows[a]} ELSE {}

\* The row a PUT of authority w works on, if there is one: its own, one it
\* imports from the chain, or one it takes over from a previous owner.
PutBase(a, w) ==
    IF ~Exists(a)
    THEN IF chain[a] # None /\ chain[a].owner = w
         THEN {CreatePublishedImport(w, chain[a].target)} ELSE {}
    ELSE IF rows[a].authority = w THEN {rows[a]}
         ELSE IF IsCurrentOwner(w, a)
              THEN {Superseded(rows[a], w, chain[a])} ELSE {}

\* The name comes from the NOID counter; the chain is not asked whether it is
\* free, and the permission of w may be a cached one.  The unique index makes the
\* insert wait for a PUT that is importing the same name.
Reserve(a, w) ==
    /\ ~Exists(a) /\ ~Locked(a)
    /\ w \in ApiAssigned
    /\ rows' = [rows EXCEPT ![a] = CreateReserved(w)]
    /\ UNCHANGED <<task, todo, observed, pipeline, clusterVars, chainVars>>

\* Seeded fault in PutMetadata: a pending payload can be overwritten.
PutOverPending(a, w, target, payload) ==
    /\ w \in ApiAssigned
    /\ <<a, w, target, payload>> \in Offers
    /\ \E base \in PutBase(a, w) :
        /\ base.state # "T"
        /\ Write(a, "api", UpdateToPending(CreateOrUpdateMetadata(base, payload), target))
    /\ UNCHANGED <<todo, observed, pipeline, clusterVars, chainVars>>

PutMetadata(a, w, target, payload) ==
    /\ w \in ApiAssigned
    /\ <<a, w, target, payload>> \in Offers
    /\ \E base \in PutBase(a, w) :
        /\ base.state \in {"R", "P"}
        /\ Write(a, "api", UpdateToPending(CreateOrUpdateMetadata(base, payload), target))
    /\ UNCHANGED <<todo, observed, pipeline, clusterVars, chainVars>>

\* An ARK that was never published need not be on the chain.
Delete(a, w) ==
    /\ w \in ApiAssigned
    /\ Exists(a)
    /\ \/ /\ rows[a].authority = w
          /\ \/ IsCurrentOwner(w, a)
             \/ rows[a].state \in {"R", "D"} /\ chain[a] = None
          /\ Write(a, "api", UpdateToTombstone(rows[a]))
       \/ /\ rows[a].authority # w
          /\ IsCurrentOwner(w, a)
          /\ Write(a, "api", UpdateToTombstone(Superseded(rows[a], w, chain[a])))
    /\ UNCHANGED <<todo, observed, pipeline, clusterVars, chainVars>>

\* POST /worker/retry: a failed ARK is READY again in the stage it failed in.
RetryFailed(a, w) ==
    /\ w \in ApiAssigned
    /\ Exists(a) /\ rows[a].authority = w
    /\ rows[a].state \notin {"R", "T"}
    /\ rows[a].status = "FAILED"
    /\ \/ IsCurrentOwner(w, a)
       \/ rows[a].state = "D" /\ chain[a] = None
    /\ Write(a, "api", [rows[a] EXCEPT !.status = "READY", !.attempts = 0])
    /\ UNCHANGED <<todo, observed, pipeline, clusterVars, chainVars>>

----------------------------------------------------------------------------
(* GET /arks/{ark} and POST /arks/status/batch: what a reader may be told.  The *)
(* reads hold no lock and see what is committed when each is made: the ARK's    *)
(* record, its metadata, the Store API and, last, the contract.                 *)

\* level1_json, else the document of the CID if the Store API gives it.
MinimalMetadata(metadata, cid) ==
    IF metadata.payload # None THEN {metadata.payload} ELSE {cid, None}

Answer(state, target, cid, metadata) ==
    [state |-> state, target |-> target, cid |-> cid, metadata |-> metadata]

LocalAnswers(record, metadata) ==
    {Answer(record.state, record.target, metadata.cids, m) :
        m \in MinimalMetadata(metadata, metadata.cids)}

\* The target and the CID of a published ARK come from the contract, what
\* describes them from the database.
ChainAnswers(metadata, entry) ==
    {Answer("P", entry.target, entry.cids, m) :
        m \in MinimalMetadata(metadata, IF metadata.cids # None THEN metadata.cids
                                        ELSE entry.cids)}

\* The answers to a reader who found `record' (None: no row) and `metadata' in the
\* database, each a row at the moment it was read, and `entry' (None: no entry)
\* on the chain.  An unreadable contract leaves the local answer; 404 is no answer.
StatusAnswers(record, metadata, entry) ==
    IF record = None
    THEN IF entry = None THEN {} ELSE {Answer("P", entry.target, entry.cids, None)}
    ELSE LocalAnswers(record, metadata)
         \cup IF record.state = "P" /\ entry # None
              THEN ChainAnswers(metadata, entry) ELSE {}

----------------------------------------------------------------------------
(* GET /worker/status?detail=workload: what is reported to wait *)

WorkerStages ==
    [metadata |-> {METADATA}, replication |-> {AVAILABILITY, REPLICATION}, chain |-> {CHAIN}]

\* ready_now and waiting, of the ARKs that are neither reserved nor deleted.
Workload(worker) ==
    {a \in Ark : /\ Exists(a)
                 /\ rows[a].state \in Pending \cup {"P"}
                 /\ rows[a].stage \in WorkerStages[worker]
                 /\ rows[a].status \in {"READY", "WAITING"}}

ArksAwaitingDurability ==
    {a \in Workload("replication") : rows[a].state = "P" /\ rows[a].stage = REPLICATION}

ApiNext ==
    \E a \in Ark, w \in Authority :
        \/ Reserve(a, w) \/ Delete(a, w) \/ RetryFailed(a, w)
        \/ \E target \in Target, payload \in Payload :
                PutMetadata(a, w, target, payload)

=============================================================================
