------------------------------- MODULE Pacing -------------------------------
(***************************************************************************)
(* How much a worker process takes on in its next cycle, as it adapts to   *)
(* what it observes: the page size of the chain worker (main_worker.py)    *)
(* and the promotion budget of the replication worker (publisher.py).      *)
(* Both are a size with a count of calm cycles; the metadata worker keeps  *)
(* neither.  The counts have no bound in the code, where only `>= GrowAfter' *)
(* and `>= CalmCycles' are asked of them: here they stop at these values.  *)
(***************************************************************************)
EXTENDS Naturals, FiniteSets

CONSTANTS
    NominalPage,   \* CHAIN_WORKER_PAGE_SIZE
    MinPage,       \* CHAIN_WORKER_MIN_PAGE_SIZE
    GrowAfter,     \* CHAIN_WORKER_HEALTHY_CYCLES_BEFORE_GROWING
    Batch,         \* REPLICATION_PROMOTION_BATCH_SIZE
    MinBatch       \* REPLICATION_PROMOTION_MIN_BATCH_SIZE

\* The replication worker clamps its minimum to the batch; the settings of the
\* chain worker are only floored at one.
ASSUME PacingAssumption ==
    /\ NominalPage \in Nat \ {0} /\ MinPage \in Nat \ {0} /\ GrowAfter \in Nat \ {0}
    /\ Batch \in Nat \ {0} /\ MinBatch \in 1..Batch

Kind == {"metadata", "replication", "chain"}

Lower(i, j) == IF i < j THEN i ELSE j
Upper(i, j) == IF i < j THEN j ELSE i

\* A counter that stops at its bound.
Count(n, bound) == IF n < bound THEN n + 1 ELSE n

----------------------------------------------------------------------------
(* The page of the chain worker *)

MaxPage == Upper(NominalPage, MinPage)

PageSizeLevels == {MinPage, MaxPage} \cup {l \in {5, 10} : MinPage <= l /\ l <= MaxPage}

\* Seeded fault in ClampPageSize: there is no smallest page.
NoFloor(value) == Lower(value, MaxPage)

ClampPageSize(value) == Upper(Lower(value, MaxPage), MinPage)

\* Seeded fault in NextHigherPageSize: the level that was reached is kept.
SameLevel(current) ==
    CHOOSE l \in PageSizeLevels :
        /\ l >= current \/ l = MaxPage
        /\ \A m \in PageSizeLevels : m >= current => l <= m

NextHigherPageSize(current) ==
    CHOOSE l \in PageSizeLevels :
        /\ l > current \/ l = MaxPage
        /\ \A m \in PageSizeLevels : m > current => l <= m

\* get_chain_capacity: a state, and the page that core-lib recommends.
Capacity == [state : {"healthy", "busy"}, recommended : 1..MaxPage]

\* Pages grow level by level, but never past what is recommended; a capacity
\* that is not healthy shrinks them at once.  One that is healthy never does.
AdaptPage(pace, capacity) ==
    LET target == ClampPageSize(capacity.recommended)
        calm   == Count(pace.calm, GrowAfter)
    IN  IF capacity.state # "healthy"
        THEN [size |-> Lower(pace.size, target), calm |-> 0]
        ELSE IF pace.size < target /\ calm >= GrowAfter
        THEN [size |-> Lower(target, NextHigherPageSize(pace.size)), calm |-> 0]
        ELSE [pace EXCEPT !.calm = calm]

\* A full page that failed for infrastructure: back to the smallest.
CollapsePage == [size |-> MinPage, calm |-> 0]

----------------------------------------------------------------------------
(* The promotion budget of the replication worker *)

\* The share of observed CIDs that are queued or pinning, as the settings and
\* the fixed limit of 25 percent divide it.
Pressure == {"high", "medium", "mild", "low"}

CalmCycles == 3

\* Seeded fault in UpdatePromotionBudget: a medium pressure never ends.
ReduceBudget(pace, pressure) ==
    IF pressure = "high" THEN [size |-> MinBatch, calm |-> 0]
    ELSE IF pressure = "medium"
    THEN [size |-> Upper(MinBatch, Batch \div 2), calm |-> 0]
    ELSE [pace EXCEPT !.calm = Count(pace.calm, CalmCycles)]

\* A mild pressure restores the batch at once, a low one after some cycles.
UpdatePromotionBudget(pace, pressure) ==
    LET calm == IF pressure = "low" THEN Count(pace.calm, CalmCycles) ELSE 0
        size == IF pressure = "high" THEN MinBatch
                ELSE IF pressure = "medium" THEN Upper(MinBatch, Batch \div 2)
                ELSE IF pressure = "low" /\ calm < CalmCycles THEN pace.size
                ELSE Batch
    IN  [size |-> size, calm |-> calm]

----------------------------------------------------------------------------
(* What a process starts with, and what it may come to *)

FullPace == [metadata |-> 1, replication |-> Batch, chain |-> MaxPage]

\* run_worker starts with the nominal page, the constructor with the batch.
StartPace(kind) ==
    [size |-> IF kind = "chain" THEN NominalPage ELSE FullPace[kind], calm |-> 0]

Paces ==
    [ metadata    |-> [size : {1}, calm : {0}],
      replication |-> [size : MinBatch..Batch, calm : 0..CalmCycles],
      chain       |-> [size : Lower(NominalPage, MinPage)..MaxPage, calm : 0..GrowAfter] ]

=============================================================================
