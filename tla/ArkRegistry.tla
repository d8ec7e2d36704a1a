---------------------------- MODULE ArkRegistry ----------------------------
(***************************************************************************)
(* What reserving an ARK promises to the clients.  There are no counters,  *)
(* locks, savepoints, retries or indexes here: the rows that a request     *)
(* reserves are registered in one step, with names that nobody has and at  *)
(* most one live row for each client item, and its answer names exactly    *)
(* those rows and rows that it has seen live for the same items.           *)
(***************************************************************************)
EXTENDS Naturals, Sequences, FiniteSets

CONSTANTS
    Request, wanted, MaxRetries,
    Foreign, Breakable, None, Failed   \* as in Reservation

VARIABLES
    registry,   \* the rows that everybody sees
    request,    \* "idle", "open", or how the request ended
    answer,     \* the response each client received
    seen        \* names live for the items of r while r was open

vars == <<registry, request, answer, seen>>

Over == {"refused", "answered", "misled"}

Wants(r, item) == \E k \in DOMAIN wanted[r] : item = wanted[r][k]

NewNames == {row.name : row \in registry' \ registry}

OneRowPerName == \A x, y \in registry : x.name = y.name => x = y

OneLiveRowPerItem ==
    \A x, y \in registry :
        x.live /\ y.live /\ x.item = y.item /\ x.item # None => x = y

\* A name in an answer belongs to the item it answers, unless it has been taken
\* over since; one without a client item is new.
Answers(r, k, name) ==
    /\ \E row \in registry' : row.name = name /\ row.item \in {wanted[r][k], None}
    /\ name \in seen'[r]
    /\ wanted[r][k] = None => name \in NewNames

Remember ==
    seen' = [r \in Request |->
        IF request'[r] = "idle" THEN {}
        ELSE IF request[r] \in Over THEN seen[r]
        ELSE seen[r] \cup
                {row.name : row \in {x \in registry' : x.live /\ Wants(r, x.item)}}]

Init ==
    /\ registry = {}
    /\ request = [r \in Request |-> "idle"]
    /\ answer = [r \in Request |-> <<>>]
    /\ seen = [r \in Request |-> {}]

----------------------------------------------------------------------------
Goes(r, from, to) == request[r] = from /\ request' = [request EXCEPT ![r] = to]

Ask(r) == Goes(r, "idle", "open") /\ UNCHANGED <<registry, answer>>

\* All rows of the request at once; the client may not hear of them.
Grant(r) ==
    /\ registry \subseteq registry'
    /\ \A row \in registry' \ registry : row.live /\ Wants(r, row.item)
    /\ OneRowPerName' /\ OneLiveRowPerItem'
    /\ \/ Goes(r, "open", "idle") /\ UNCHANGED answer
       \/ /\ Goes(r, "open", "answered")
          /\ answer' = [answer EXCEPT ![r] = answer'[r]]
          /\ DOMAIN answer'[r] = DOMAIN wanted[r]
          /\ \A k \in DOMAIN wanted[r] :
                answer'[r][k] # Failed => Answers(r, k, answer'[r][k])
          /\ \A row \in registry' \ registry : \E k \in DOMAIN wanted[r] :
                answer'[r][k] = row.name /\ wanted[r][k] = row.item

\* Only after as many names that the minter had not given as it has attempts.
Refuse(r) ==
    /\ Goes(r, "open", "refused")
    /\ Cardinality({row \in registry : row.name \in Foreign}) >= MaxRetries
    /\ UNCHANGED <<registry, answer>>

\* A transaction that PostgreSQL has aborted registers nothing, and what its
\* response says is worth nothing.
Mislead(r) ==
    /\ r \in Breakable
    /\ Goes(r, "open", "misled")
    /\ answer' = [answer EXCEPT ![r] = answer'[r]]
    /\ UNCHANGED registry

GiveUp(r) == Goes(r, "open", "idle") /\ UNCHANGED <<registry, answer>>

Import(n) ==
    /\ \A row \in registry : row.name # n
    /\ registry' = registry \cup {[name |-> n, item |-> None, live |-> TRUE]}
    /\ UNCHANGED <<request, answer>>

\* A row is tombstoned, or another authority takes it over; it keeps its name.
Alter(row) ==
    /\ \E new \in {[row EXCEPT !.live = FALSE],
                   [row EXCEPT !.item = None, !.live = TRUE]} :
          registry' = (registry \ {row}) \cup {new}
    /\ UNCHANGED <<request, answer>>

Step ==
    \/ \E r \in Request : Ask(r) \/ Grant(r) \/ Refuse(r) \/ Mislead(r) \/ GiveUp(r)
    \/ \E n \in Foreign : Import(n)
    \/ \E row \in registry : Alter(row)

Next == Step /\ Remember

Spec == Init /\ [][Next]_vars

=============================================================================
