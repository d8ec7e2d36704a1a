------------------------------ MODULE ArkRecord ------------------------------
(***************************************************************************)
(* The database row of one ARK, and the operations of ARKRepository that   *)
(* rewrite it.  A row joins ark_records and ark_metadata: the public       *)
(* lifecycle state, the owning authority, the target URL, the internal     *)
(* processing stage and status, and the two-level metadata.                *)
(*                                                                         *)
(* `payload' stands for level1_json and original_content, which are        *)
(* written and purged together.  `cids' stands for level1_cid and          *)
(* original_cid, which are written and reset together; both are hashes of  *)
(* the content, so a CID pair is named by the payload it was computed      *)
(* from.                                                                   *)
(***************************************************************************)
EXTENDS Naturals, FiniteSets

CONSTANTS
    Ark,          \* ARK identifiers (naan/name)
    Authority,    \* authorities, each with one signing wallet
    Target,       \* target URLs
    Payload,      \* metadata documents (level 1 JSON with its level 2 content)
    None,         \* SQL NULL, a missing row, a free lock
    MaxAttempts   \* bound: failures of one stage, after which the UPDATE that would
                  \* count another one fails.  The code has no limit of its own: the
                  \* column, a SmallInteger, ends at 32767

ASSUME RecordAssumption ==
    /\ None \notin Authority
    /\ None \notin Target
    /\ None \notin Payload
    /\ MaxAttempts \in Nat

----------------------------------------------------------------------------
(* models/states.py and models/processing.py *)

ArkState == {"R", "D", "U", "P", "T"}
Pending  == {"D", "U"}

NONE         == 0
METADATA     == 1
AVAILABILITY == 2
CHAIN        == 3
REPLICATION  == 4
COMPLETE     == 5
ProcessingStage == NONE..COMPLETE

ProcessingStatus == {"READY", "WAITING", "FAILED", "DONE", "CANCELLED"}

Row == [state     : ArkState,
        authority : Authority,
        target    : Target \cup {None},
        stage     : ProcessingStage,
        status    : ProcessingStatus,
        attempts  : Nat,
        payload   : Payload \cup {None},
        cids      : Payload \cup {None}]

ASSUME NullAssumption == None \notin Row

\* Seeded fault in ReadyForProcessing: a deferred row is never due again.
IsReady(row) == row.status = "READY"

\* A WAITING row is due once next_action_at has passed.  Time is not part of
\* the state: any step may find the wait over.
ReadyForProcessing(row) == row.status \in {"READY", "WAITING"}

----------------------------------------------------------------------------
(* ARKRepository: the row each operation leaves *)

NewRow(state, authority, target) ==
    [state |-> state, authority |-> authority, target |-> target,
     stage |-> NONE, status |-> "DONE", attempts |-> 0,
     payload |-> None, cids |-> None]

CreateReserved(authority) == NewRow("R", authority, None)

CreatePublishedImport(authority, target) == NewRow("P", authority, target)

CreateOrUpdateMetadata(row, payload) ==
    [row EXCEPT !.payload = payload, !.cids = None, !.stage = METADATA,
                !.status = "READY", !.attempts = 0]

\* Seeded fault in UpdateToDraft: the draft is queued without its target.
DraftWithoutTarget(row, target) == [row EXCEPT !.state = "D", !.target = None]

\* A compare-and-set on the state, RESERVED for a draft and PUBLISHED for an
\* update, which PutMetadata's guard holds to be the expected one.
UpdateToDraft(row, target) == [row EXCEPT !.state = "D", !.target = target]

UpdateToUpdate(row, target) == [row EXCEPT !.state = "U", !.target = target]

UpdateToPending(row, target) ==
    IF row.state = "R" THEN UpdateToDraft(row, target) ELSE UpdateToUpdate(row, target)

UpdateToPublished(row) ==
    [row EXCEPT !.state = "P", !.stage = REPLICATION,
                !.status = "READY", !.attempts = 0]

\* Seeded fault in UpdateToTombstone: the pending job of the ARK is not cancelled.
KeepJob(row) == [row EXCEPT !.state = "T"]

\* Idempotent; the stage and the payload are kept.
UpdateToTombstone(row) ==
    IF row.state = "T" THEN row
    ELSE [row EXCEPT !.state = "T", !.status = "CANCELLED"]

\* The error catalogue decides: codes it calls retryable wait, others fail.
\* However many failures there were, none makes a retryable one final.
MarkProcessingFailed(row, retryable) ==
    [row EXCEPT !.status = IF retryable THEN "WAITING" ELSE "FAILED",
                !.attempts = @ + 1]

DeferProcessingRetry(row) == [row EXCEPT !.status = "WAITING"]

=============================================================================
