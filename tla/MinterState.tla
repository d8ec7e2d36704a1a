---------------------------- MODULE MinterState ----------------------------
(***************************************************************************)
(* The state the processes of the minter share: the PostgreSQL rows, the   *)
(* advisory lock of every ARK, and what the two workers that act without   *)
(* that lock remember between their steps.                                 *)
(*                                                                         *)
(* pg_try_advisory_lock has one holder per ARK, so the lock and the        *)
(* uncommitted work of its holder are one variable: task[a] is None while  *)
(* the lock of a is free, and otherwise names the holder, the step it is   *)
(* at and the row image its session holds.  A step of "commit" means that  *)
(* everything is decided: the next thing the holder does is to commit the  *)
(* image and unlock.                                                       *)
(***************************************************************************)
EXTENDS StorageCluster, Blockchain

CONSTANTS
    Offers,           \* the PUT requests clients send: ARK, authority, target, payload
    ApiAssigned,      \* MINTER_ALLOWED_AUTHORITY_IDS as the API reads it
    ReplicationAssigned, ChainAssigned,  \* the same setting as the workers read it
    PageSize,         \* rows a worker cycle selects
    RpcBatchSize      \* operations of one publish_ark_operations call

ASSUME MinterAssumption ==
    /\ Offers \subseteq Ark \X Authority \X Target \X Payload
    /\ ApiAssigned \subseteq Authority
    /\ ReplicationAssigned \subseteq Authority
    /\ ChainAssigned \subseteq Authority
    /\ PageSize \in Nat \ {0}
    /\ RpcBatchSize \in Nat \ {0}

VARIABLES
    rows,       \* committed rows, None where there is none
    task,       \* advisory locks and the work done under them
    todo,       \* ARKs the replication cycle still has to reconcile
    observed,   \* CID statuses that cycle read before taking any lock
    pipeline    \* what the chain cycle selected, and the result of each item

workVars == <<rows, task>>
vars == <<rows, task, todo, observed, pipeline, clusterVars, chainVars>>

Holder == {"api", "metadata", "replication", "chain"}
Task == [by : Holder, step : {"level2", "level1", "commit"}, row : Row]

Observation == [replicas : 0..TargetReplicas, assigned : 0..TargetReplicas]

ItemPhase == {"selected", "sent", "confirmed", "reverted", "unknown"}
Item == [phase : ItemPhase, authority : Authority, state : Pending,
         target : Target, cids : Payload]

Unobserved == [c \in Cid |-> None]

----------------------------------------------------------------------------
Exists(a)  == rows[a] # None
Locked(a)  == task[a] # None
Busy(who)  == \E a \in Ark : Locked(a) /\ task[a].by = who

\* Take the free lock of a; the session holds the image `row'.
Acquire(a, who, step, row) ==
    /\ ~Locked(a)
    /\ task' = [task EXCEPT ![a] = [by |-> who, step |-> step, row |-> row]]

\* Under the lock of a, decide to commit the image `row'.
Write(a, who, row) == Acquire(a, who, "commit", row) /\ UNCHANGED rows

\* The holder commits its session, then unlocks.
CommitAndUnlock(a) ==
    /\ Locked(a) /\ task[a].step = "commit"
    /\ rows' = [rows EXCEPT ![a] = task[a].row]
    /\ task' = [task EXCEPT ![a] = None]
    /\ UNCHANGED <<todo, observed, pipeline, clusterVars, chainVars>>

\* The holder fails, or its lock connection is lost: PostgreSQL rolls back and
\* unlocks.  (The chain worker then loses its whole cycle: CrashChainWorker.)
LoseConnection(a) ==
    /\ Locked(a) /\ task[a].by # "chain"
    /\ task' = [task EXCEPT ![a] = None]
    /\ UNCHANGED <<rows, todo, observed, pipeline, clusterVars, chainVars>>

\* The locks a process leaves behind when it dies.
Released(who) ==
    [a \in Ark |-> IF Locked(a) /\ task[a].by = who THEN None ELSE task[a]]

=============================================================================
