--------------------------- MODULE MCChainAccess ---------------------------
(***************************************************************************)
(* The instance of ChainAccess that TLC checks.                            *)
(***************************************************************************)
EXTENDS ChainAccess

CONSTANTS p1, p2, p3, a1, a2, u1, u2, t1, t2

CsvRow(ark, url) == [ark |-> ark, url |-> url]

\* A file with both ARKs and a duplicate, and one that corrects the URL of the
\* first ARK, after a malformed row for it.
MCInputs == {
    <<CsvRow(a1, u1), CsvRow(a2, u1), CsvRow(a1, u2)>>,
    <<CsvRow(a1, NoUrl), CsvRow(a1, u2)>> }

=============================================================================
