------------------------------ MODULE ImportArks ------------------------------
(***************************************************************************)
(* dark-import-arks (cli/import_arks.py): ARKs from a CSV file are created *)
(* on the chain without the minter's database.  A checkpoint file lets an  *)
(* operator run the command again, after a crash, a timeout or a change of *)
(* the CSV.  Of the checkpoint only the last completed line of each ARK is *)
(* read again; its owner is always this wallet.  One run uses the file at  *)
(* a time.  The lines of rows that read_csv rejects are never read again.  *)
(***************************************************************************)
EXTENDS Naturals, Sequences, FiniteSets

CONSTANTS
    Ark, Url,
    Me, Other,    \* the authority's wallet, any other wallet
    Inputs,       \* bound: the CSV files, rows with an ARK and a URL or NoUrl
    Contested,    \* bound: the ARKs that others create, update or move
    NoUrl         \* malformed; not in the file, not on the chain, no line

ASSUME ImportAssumption ==
    /\ Me # Other /\ Ark # {}
    /\ NoUrl \notin Url
    /\ Inputs \subseteq Seq([ark : Ark, url : Url \cup {NoUrl}])
    /\ Contested \subseteq Ark

VARIABLES
    entry,      \* the contract: owner and URL of each ARK
    pending,    \* transactions of this wallet that are not mined
    csv,        \* what the last run read from its file
    execute,    \* whether that run was not a dry run
    pc,         \* its step
    todo,       \* its rows that are still to do
    current,    \* the row whose transaction it waits for
    report,     \* the outcome of each of its rows
    completed,  \* checkpoint: the URL of the last completed line of each ARK
    held        \* history: the URLs each ARK has had while this wallet owned it

importVars == <<entry, pending, csv, execute, pc, todo, current, report, completed, held>>

Nowhere == [owner |-> Other, url |-> NoUrl]

Entry == [owner : {Me, Other}, url : Url] \cup {Nowhere}

Transaction == [ark : Ark, url : Url, awaited : BOOLEAN]

Completed == {"created", "skipped_same_url", "resumed"}
Outcome   == Completed \cup {"none", "validated", "conflict_owner", "conflict_url", "failed"}

Holds(e) == [a \in Ark |-> IF e[a].owner = Me THEN held[a] \cup {e[a].url} ELSE held[a]]

ImportInit ==
    /\ entry = [a \in Ark |-> Nowhere]
    /\ pending = {}
    /\ csv = [a \in Ark |-> NoUrl]
    /\ execute = FALSE
    /\ pc = "off"
    /\ todo = {}
    /\ current = CHOOSE a \in Ark : TRUE
    /\ report = [a \in Ark |-> "none"]
    /\ completed = [a \in Ark |-> NoUrl]
    /\ held = [a \in Ark |-> {}]

----------------------------------------------------------------------------
(* A run *)

\* Of several rows for an ARK the first one with a proper URL counts; the
\* others are invalid.
ReadCsv(file) ==
    LET valid(a) == {i \in DOMAIN file : file[i].ark = a /\ file[i].url # NoUrl}
    IN  [a \in Ark |->
            IF valid(a) = {} THEN NoUrl
            ELSE file[CHOOSE i \in valid(a) : \A j \in valid(a) : i <= j].url]

Run(file, mode) ==
    /\ pc = "off"
    /\ csv' = ReadCsv(file) /\ execute' = mode
    /\ report' = [a \in Ark |-> "none"]
    /\ pc' = "preflight"
    /\ UNCHANGED <<entry, pending, todo, current, completed, held>>

\* Nothing is written unless the authority is active and permitted everywhere.
Preflight(allowed) ==
    /\ pc = "preflight"
    /\ IF allowed
       THEN pc' = "rows" /\ todo' = {a \in Ark : csv[a] # NoUrl}
       ELSE pc' = "off" /\ todo' = {}
    /\ UNCHANGED <<entry, pending, csv, execute, current, report, completed, held>>

\* One line of the results, flushed; it is completed when it says so.
Line(a, outcome) ==
    /\ report' = [report EXCEPT ![a] = outcome]
    /\ completed' = IF outcome \in {"created", "skipped_same_url"}
                    THEN [completed EXCEPT ![a] = csv[a]] ELSE completed
    /\ todo' = todo \ {a}

\* Seeded fault in Resumable: the URL of the line is not compared.
AnyLine(a) == completed[a] # NoUrl

\* The checkpoint is not loaded in a dry run.
Resumable(a) == completed[a] = csv[a]

Resume(a) ==
    /\ pc = "rows" /\ a \in todo /\ execute /\ Resumable(a)
    /\ report' = [report EXCEPT ![a] = "resumed"]
    /\ todo' = todo \ {a}
    /\ UNCHANGED <<entry, pending, csv, execute, pc, current, completed, held>>

Open(a) == pc = "rows" /\ a \in todo /\ ~(execute /\ Resumable(a))

\* ark_exists and get_ark: an entry never goes away.
Exists(a) ==
    /\ Open(a) /\ entry[a] # Nowhere
    /\ Line(a, IF entry[a].owner # Me THEN "conflict_owner"
               ELSE IF entry[a].url # csv[a] THEN "conflict_url"
               ELSE "skipped_same_url")
    /\ UNCHANGED <<entry, pending, csv, execute, pc, current, held>>

Validate(a) ==
    /\ Open(a) /\ entry[a] = Nowhere /\ ~execute
    /\ Line(a, "validated")
    /\ UNCHANGED <<entry, pending, csv, execute, pc, current, held>>

Submit(a) ==
    /\ Open(a) /\ entry[a] = Nowhere /\ execute
    /\ pending' = pending \cup {[ark |-> a, url |-> csv[a], awaited |-> TRUE]}
    /\ pc' = "wait" /\ current' = a
    /\ UNCHANGED <<entry, csv, execute, todo, report, completed, held>>

\* A call raises: the row fails, the next one goes on.
FailRow(a) ==
    /\ Open(a)
    /\ Line(a, "failed")
    /\ UNCHANGED <<entry, pending, csv, execute, pc, current, held>>

\* Seeded fault in Receipt: a transaction that failed counts as created.
BelieveReceipt ==
    /\ pc \in {"mined", "reverted"}
    /\ Line(current, "created")
    /\ pc' = "rows"
    /\ UNCHANGED <<entry, pending, csv, execute, current, held>>

Receipt ==
    /\ pc \in {"mined", "reverted"}
    /\ Line(current, IF pc = "mined" THEN "created" ELSE "failed")
    /\ pc' = "rows"
    /\ UNCHANGED <<entry, pending, csv, execute, current, held>>

\* Nobody waits any more for a transaction that may still be mined.
Forgotten == {[tx EXCEPT !.awaited = FALSE] : tx \in pending}

\* Seeded fault in TimeOut: the row counts as created.
AssumeCreated ==
    /\ pc = "wait"
    /\ Line(current, "created")
    /\ pending' = Forgotten
    /\ pc' = "rows"
    /\ UNCHANGED <<entry, csv, execute, current, held>>

\* No receipt in time: the row fails.
TimeOut ==
    /\ pc = "wait"
    /\ Line(current, "failed")
    /\ pending' = Forgotten
    /\ pc' = "rows"
    /\ UNCHANGED <<entry, csv, execute, current, held>>

Finish ==
    /\ pc = "rows" /\ todo = {}
    /\ pc' = "off"
    /\ UNCHANGED <<entry, pending, csv, execute, todo, current, report, completed, held>>

Crash ==
    /\ pc # "off"
    /\ pc' = "off" /\ todo' = {}
    /\ pending' = Forgotten
    /\ UNCHANGED <<entry, csv, execute, current, report, completed, held>>

----------------------------------------------------------------------------
(* The chain *)

\* A create succeeds on a free name, for a permitted signer.
Mine(tx, allowed) ==
    /\ tx \in pending
    /\ pending' = pending \ {tx}
    /\ LET ok == allowed /\ entry[tx.ark] = Nowhere
       IN  /\ entry' = IF ok THEN [entry EXCEPT ![tx.ark] = [owner |-> Me, url |-> tx.url]]
                       ELSE entry
           /\ pc' = IF ~tx.awaited THEN pc ELSE IF ok THEN "mined" ELSE "reverted"
    /\ held' = Holds(entry')
    /\ UNCHANGED <<csv, execute, todo, current, report, completed>>

\* The node loses a transaction.
Lose(tx) ==
    /\ tx \in pending
    /\ pending' = pending \ {tx}
    /\ UNCHANGED <<entry, csv, execute, pc, todo, current, report, completed, held>>

\* Others create an ARK; its owner updates it, or it is moved.
Elsewhere(a, e) ==
    /\ a \in Contested
    /\ e # entry[a]
    /\ entry[a] = Nowhere => e.owner = Other
    /\ entry' = [entry EXCEPT ![a] = e]
    /\ held' = Holds(entry')
    /\ UNCHANGED <<pending, csv, execute, pc, todo, current, report, completed>>

RowStep(a) == Resume(a) \/ Exists(a) \/ Validate(a) \/ Submit(a)

ImportStep(allowed) ==
    \/ Preflight(allowed) \/ Receipt \/ Finish
    \/ \E a \in Ark : RowStep(a)

ImportFault == TimeOut \/ Crash \/ (\E a \in Ark : FailRow(a)) \/ \E tx \in pending : Lose(tx)

ImportNext(allowed) ==
    \/ \E file \in Inputs, mode \in BOOLEAN : Run(file, mode)
    \/ ImportStep(allowed) \/ ImportFault
    \/ \E tx \in pending : Mine(tx, allowed)
    \/ \E a \in Ark, e \in Entry \ {Nowhere} : Elsewhere(a, e)

----------------------------------------------------------------------------
ImportTypeOK ==
    /\ entry \in [Ark -> Entry]
    /\ pending \subseteq Transaction
    /\ csv \in [Ark -> Url \cup {NoUrl}]
    /\ execute \in BOOLEAN
    /\ pc \in {"off", "preflight", "rows", "wait", "mined", "reverted"}
    /\ todo \subseteq Ark
    /\ current \in Ark
    /\ report \in [Ark -> Outcome]
    /\ completed \in [Ark -> Url \cup {NoUrl}]
    /\ held \in [Ark -> SUBSET Url]

\* A row that a run reports as created, skipped or resumed has been on the
\* chain, with this owner and this URL: whatever timed out, was mined late, was
\* created by others or moved away, and whatever earlier run the report relies on.
ReportsAreTrue ==
    \A a \in Ark : report[a] \in Completed => csv[a] \in held[a]

=============================================================================
