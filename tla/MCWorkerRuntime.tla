--------------------------- MODULE MCWorkerRuntime ---------------------------
(* Small instances of WorkerRuntime for TLC. *)
EXTENDS WorkerRuntime

CONSTANTS p1, p2

\* Two instances of the worker that keeps no pace: who runs, who is shown.
\* One instance of the others: how cycles are counted and paces adapt.
MCInstances == [k \in Kinds |-> IF k = "metadata" THEN {p1, p2} ELSE {p1}]
MCOutcomes  == [k \in Kinds |-> IF k = "metadata" THEN {"empty"} ELSE Outcome]

=============================================================================
