---------------------------- MODULE Reservation ----------------------------
(***************************************************************************)
(* Reserving ARKs in one namespace: POST /arks and POST /arks/batch run in *)
(* several API processes, each request in a PostgreSQL transaction (READ   *)
(* COMMITTED) of its own.  The first allocation of a transaction takes the *)
(* row lock of the namespace's NOID counter and keeps it until the end; an *)
(* insert runs in a savepoint and may collide with the name or with the    *)
(* live ARK of the same client item.  A name stands for its counter value: *)
(* minting is injective (module Noid).                                     *)
(***************************************************************************)
EXTENDS Naturals, Sequences, FiniteSets

CONSTANTS
    Request,      \* the requests of the clients
    Single,       \* those to POST /arks: one ARK without a client item
    wanted,       \* wanted[r]: the client items of r, in order
    Item,         \* client items, each with its authority
    MaxRetries,   \* allocations tried for one ARK
    MaxSends,     \* bound on the times a client sends the same request
    Foreign,      \* bound: names another application registers on the chain
    Breakable,    \* requests whose transaction a failing statement aborts
    None,         \* no client item, nobody
    Failed        \* the errors entry of an item

ASSUME RequestAssumption ==
    /\ Single \subseteq Request /\ Breakable \subseteq Request
    /\ None \notin Item /\ None \notin Request
    /\ Failed \notin Nat
    /\ \A r \in Request : wanted[r] \in Seq(Item \cup {None}) /\ wanted[r] # <<>>
    /\ \A r \in Single : wanted[r] = <<None>>
    /\ \A r \in Request \ Single : \A k \in DOMAIN wanted[r] : wanted[r][k] \in Item

ASSUME BoundAssumption ==
    /\ MaxRetries \in Nat \ {0}
    /\ MaxSends \in Nat
    /\ Foreign \subseteq Nat

VARIABLES
    records,      \* the committed rows of the namespace
    counter,      \* the committed next_value
    holder,       \* whose transaction holds the row lock of the counter
    session,      \* the handler and the transaction of each request
    answer,       \* the response each client received
    sent,         \* how often each client has sent its request
    witnessed     \* history: names live for an item of r since r was sent

vars == <<records, counter, holder, session, answer, sent, witnessed>>

Row == [name : Nat, item : Item \cup {None}, live : BOOLEAN]

InProgress == {"open", "collided", "broken"}

\* A refused request was answered 409; a misled one was answered 200 by a
\* transaction that PostgreSQL had already rolled back.
Over == {"refused", "answered", "misled"}

Phase == {"idle"} \cup InProgress \cup Over

\* next is the uncommitted next_value, own the uncommitted rows.
Session == [phase : Phase, known : SUBSET Row, results : Seq(Nat \cup {Failed}),
            attempt : 0..MaxRetries-1, next : Nat, own : SUBSET Row]

Idle == [phase |-> "idle", known |-> {}, results |-> <<>>,
         attempt |-> 0, next |-> 0, own |-> {}]

Active(db, i) == {row \in db : i # None /\ row.item = i /\ row.live}

Visible(r) == records \cup session[r].own

Current(r) == wanted[r][Len(session[r].results) + 1]

Finished(r) == Len(session[r].results) = Len(wanted[r])

\* Seeded fault in Known: the map is not asked for this item.
AnyKnown(r) == session[r].known

Known(r) == {row \in session[r].known : row.item = Current(r)}

\* Rows that are live for r in the given committed rows.
LiveFor(r, db) ==
    {row.name : row \in {x \in db : x.live /\ \E k \in DOMAIN wanted[r] :
                                                x.item = wanted[r][k]}}

Witness == witnessed' = [r \in Request |->
    IF session'[r].phase = "idle" THEN {}
    ELSE IF session[r].phase \in Over THEN witnessed[r]
    ELSE witnessed[r] \cup LiveFor(r, records')]

Init ==
    /\ records = {}
    /\ counter = 0
    /\ holder = None
    /\ session = [r \in Request |-> Idle]
    /\ answer = [r \in Request |-> <<>>]
    /\ sent = [r \in Request |-> 0]
    /\ witnessed = [r \in Request |-> {}]

----------------------------------------------------------------------------
\* Seeded fault in Prefetch: the filter on the tombstone state is missing.
PrefetchAll(r) ==
    {row \in records : \E k \in DOMAIN wanted[r] : row.item = wanted[r][k]}

\* get_active_by_client_item_ids: the batch's prefetch.
Prefetch(r) ==
    {row \in records : \E k \in DOMAIN wanted[r] :
                          row \in Active(records, wanted[r][k])}

Begin(r) ==
    /\ session[r].phase = "idle"
    /\ sent[r] < MaxSends
    /\ sent' = [sent EXCEPT ![r] = @ + 1]
    /\ session' = [session EXCEPT ![r] =
           [Idle EXCEPT !.phase = "open", !.known = Prefetch(r)]]
    /\ UNCHANGED <<records, counter, holder, answer>>

Answered(s, result) ==
    [s EXCEPT !.results = Append(@, result), !.attempt = 0]

\* The batch answers an item from its map, without a statement.
AnswerKnown(r) ==
    /\ session[r].phase \in {"open", "broken"} /\ ~Finished(r)
    /\ \E row \in Known(r) :
          session' = [session EXCEPT ![r] = Answered(@, row.name)]
    /\ UNCHANGED <<records, counter, holder, answer, sent>>

\* allocate_next waits for the transaction that updated the counter before.
Allocating(r) ==
    /\ session[r].phase = "open" /\ ~Finished(r) /\ Known(r) = {}
    /\ holder \in {None, r}

NextValue(r) == IF holder = r THEN session[r].next ELSE counter

\* Seeded fault in Collides: the partial unique index is missing.
NameCollides(r) == \E row \in Visible(r) : row.name = NextValue(r)

\* uq_naan_name and uq_ark_records_active_client_item.
Collides(r) ==
    \/ \E row \in Visible(r) : row.name = NextValue(r)
    \/ Active(Visible(r), Current(r)) # {}

\* A batch also keeps the new row in its map.
Inserted(s, row) ==
    [Answered(s, row.name) EXCEPT !.own = @ \cup {row}, !.next = row.name + 1,
         !.known = IF row.item = None THEN @ ELSE @ \cup {row}]

\* Seeded fault in Reserve: the batch commits after each item.
CommitEach(r) ==
    /\ Allocating(r)
    /\ ~Collides(r)
    /\ LET row == [name |-> NextValue(r), item |-> Current(r), live |-> TRUE]
       IN  /\ session' = [session EXCEPT ![r] = [Inserted(@, row) EXCEPT !.own = {}]]
           /\ records' = records \cup {row}
    /\ counter' = NextValue(r) + 1
    /\ holder' = None
    /\ UNCHANGED <<answer, sent>>

Reserve(r) ==
    /\ Allocating(r)
    /\ ~Collides(r)
    /\ session' = [session EXCEPT ![r] = Inserted(@,
           [name |-> NextValue(r), item |-> Current(r), live |-> TRUE])]
    /\ holder' = r
    /\ UNCHANGED <<records, counter, answer, sent>>

\* Seeded fault in BatchCollides: the whole transaction is rolled back.
RollBackBatch(r) ==
    /\ r \notin Single
    /\ Allocating(r) /\ Collides(r)
    /\ session' = [session EXCEPT ![r] =
           [@ EXCEPT !.phase = "collided", !.own = {}]]
    /\ holder' = None
    /\ UNCHANGED <<records, counter, answer, sent>>

\* The savepoint undoes the insert; the allocation stays in the transaction.
BatchCollides(r) ==
    /\ r \notin Single
    /\ Allocating(r) /\ Collides(r)
    /\ session' = [session EXCEPT ![r] =
           [@ EXCEPT !.phase = "collided", !.next = NextValue(r) + 1]]
    /\ holder' = r
    /\ UNCHANGED <<records, counter, answer, sent>>

Found(s, row) ==
    [Answered(s, row.name) EXCEPT !.phase = "open", !.known = @ \cup {row}]

\* The batch reads the item again: another request may have reserved it.
Reread(r) ==
    /\ session[r].phase = "collided"
    /\ LET existing == Active(Visible(r), Current(r))
           attempt == session[r].attempt + 1
       IN  \/ \E row \in existing :
                 session' = [session EXCEPT ![r] = Found(@, row)]
           \/ /\ existing = {} /\ attempt < MaxRetries
              /\ session' = [session EXCEPT ![r] =
                     [@ EXCEPT !.phase = "open", !.attempt = attempt]]
           \/ /\ existing = {} /\ attempt >= MaxRetries
              /\ session' = [session EXCEPT ![r] =
                     [Answered(@, Failed) EXCEPT !.phase = "open"]]
    /\ UNCHANGED <<records, counter, holder, answer, sent>>

\* Seeded faults in SingleCollides: the number is rolled back with the row; one
\* attempt too many.
RollBackSingle(r) ==
    /\ r \in Single
    /\ Allocating(r) /\ Collides(r)
    /\ LET attempt == session[r].attempt + 1
       IN  session' = [session EXCEPT ![r] =
               IF attempt < MaxRetries
               THEN [@ EXCEPT !.attempt = attempt]
               ELSE [Idle EXCEPT !.phase = "refused"]]
    /\ UNCHANGED <<records, counter, holder, answer, sent>>

OneMoreAttempt(r) ==
    /\ r \in Single
    /\ Allocating(r) /\ Collides(r)
    /\ counter' = NextValue(r) + 1
    /\ holder' = None
    /\ LET attempt == session[r].attempt + 1
       IN  session' = [session EXCEPT ![r] =
               IF attempt <= MaxRetries
               THEN [@ EXCEPT !.attempt = attempt]
               ELSE [Idle EXCEPT !.phase = "refused"]]
    /\ UNCHANGED <<records, answer, sent>>

\* POST /arks commits the consumed number, then retries or answers 409.
SingleCollides(r) ==
    /\ r \in Single
    /\ Allocating(r) /\ Collides(r)
    /\ counter' = NextValue(r) + 1
    /\ holder' = None
    /\ LET attempt == session[r].attempt + 1
       IN  session' = [session EXCEPT ![r] =
               IF attempt < MaxRetries
               THEN [@ EXCEPT !.attempt = attempt]
               ELSE [Idle EXCEPT !.phase = "refused"]]
    /\ UNCHANGED <<records, answer, sent>>

\* The transaction ends with these rows; the response may get lost.
Respond(r, rows, next) ==
    /\ session[r].phase \in {"open", "broken"} /\ Finished(r)
    /\ records' = records \cup rows
    /\ counter' = next
    /\ holder' = IF holder = r THEN None ELSE holder
    /\ \/ /\ answer' = [answer EXCEPT ![r] = session[r].results]
          /\ session' = [session EXCEPT ![r] = [Idle EXCEPT !.phase =
                 IF session[r].phase = "open" THEN "answered" ELSE "misled"]]
       \/ /\ session' = [session EXCEPT ![r] = Idle]
          /\ UNCHANGED answer
    /\ UNCHANGED sent

\* Seeded fault in Commit: the error of a failed commit is not raised.
UncheckedCommit(r) ==
    \/ Respond(r, session[r].own, NextValue(r))
    \/ Respond(r, {}, counter)

Commit(r) == Respond(r, session[r].own, NextValue(r))

\* Seeded fault in Release: the session is not closed.
KeepLock(r) == UNCHANGED holder

Release(r) == holder' = IF holder = r THEN None ELSE holder

\* An allocation fails for another reason than a collision: PostgreSQL rolls
\* the transaction back, and the batch goes on with its next item.
Break(r) ==
    /\ r \in Breakable \ Single
    /\ session[r].phase = "open" /\ ~Finished(r) /\ Known(r) = {}
    /\ session' = [session EXCEPT ![r] =
           [Answered(@, Failed) EXCEPT !.phase = "broken", !.own = {}]]
    /\ Release(r)
    /\ UNCHANGED <<records, counter, answer, sent>>

\* Every later allocation of that transaction fails too.
FailItem(r) ==
    /\ session[r].phase = "broken" /\ ~Finished(r) /\ Known(r) = {}
    /\ session' = [session EXCEPT ![r] = Answered(@, Failed)]
    /\ UNCHANGED <<records, counter, holder, answer, sent>>

\* The process dies, or an error outside the loop answers 500: rollback.
Abort(r) ==
    /\ session[r].phase \in InProgress
    /\ session' = [session EXCEPT ![r] = Idle]
    /\ Release(r)
    /\ UNCHANGED <<records, counter, answer, sent>>

----------------------------------------------------------------------------
Change(row, new) ==
    /\ records' = (records \ {row}) \cup {new}
    /\ UNCHANGED <<counter, holder, session, answer, sent>>

\* PUT on an ARK that is only on the chain; the unique index makes it wait
\* for a transaction that has inserted the same name.
Import(n) ==
    /\ \A row \in records : row.name # n
    /\ \A r \in Request : \A row \in session[r].own : row.name # n
    /\ records' = records \cup {[name |-> n, item |-> None, live |-> TRUE]}
    /\ UNCHANGED <<counter, holder, session, answer, sent>>

Tombstone(row) ==
    /\ row.live
    /\ Change(row, [row EXCEPT !.live = FALSE])

\* _reconcile_local_owner: another authority gets the published ARK.
Takeover(row) ==
    /\ row.item # None \/ ~row.live
    /\ Change(row, [row EXCEPT !.item = None, !.live = TRUE])

Handle(r) ==
    \/ AnswerKnown(r) \/ Reserve(r) \/ BatchCollides(r) \/ Reread(r)
    \/ SingleCollides(r) \/ Commit(r) \/ FailItem(r)

Step ==
    \/ \E r \in Request : Begin(r) \/ Handle(r) \/ Break(r) \/ Abort(r)
    \/ \E n \in Foreign : Import(n)
    \/ \E row \in records : Tombstone(row) \/ Takeover(row)

Next == Step /\ Witness

\* PostgreSQL grants the counter's row lock in turn, and a handler runs on.
Fairness == \A r \in Request : WF_vars(Handle(r) /\ Witness)

Spec == Init /\ [][Next]_vars
LiveSpec == Spec /\ Fairness

----------------------------------------------------------------------------
TypeOK ==
    /\ records \subseteq Row
    /\ counter \in Nat
    /\ holder \in Request \cup {None}
    /\ session \in [Request -> Session]
    /\ answer \in [Request -> Seq(Nat \cup {Failed})]
    /\ sent \in [Request -> 0..MaxSends]
    /\ witnessed \in [Request -> SUBSET Nat]

\* The positions of r that a response, of a committed transaction, has named.
Given(r) == {k \in DOMAIN answer[r] : session[r].phase = "answered"
                                       /\ answer[r][k] # Failed}

Registered(n) == \E row \in records : row.name = n

\* A name that a committed transaction answered is registered: the counter's
\* lock and the savepoints lose no row of it, whatever collides or aborts.
AnswersAreReserved ==
    \A r \in Request : \A k \in Given(r) : Registered(answer[r][k])

\* The same of every response: "individual error handling" of the batch.
ResultsAreReserved ==
    \A r \in Request : \A k \in DOMAIN answer[r] :
        answer[r][k] # Failed => Registered(answer[r][k])

\* Two answers name the same ARK only for the same client item: no number is
\* handed out twice, not even after a rollback or a lost answer.
AnswersNeverClash ==
    \A r, q \in Request : \A j \in Given(r), k \in Given(q) :
        answer[r][j] = answer[q][k] =>
            \/ r = q /\ j = k
            \/ wanted[r][j] = wanted[q][k] /\ wanted[r][j] # None

\* The same client item has the same ARK in every answer, however the batches
\* interleave, unless one of the two has been deleted or taken over since.
AnswersAgree ==
    \A r, q \in Request : \A j \in Given(r), k \in Given(q) :
        (wanted[r][j] = wanted[q][k] /\ wanted[r][j] # None
            /\ answer[r][j] # answer[q][k]) =>
        \E row \in records : /\ row.name \in {answer[r][j], answer[q][k]}
                             /\ ~row.live \/ row.item = None

\* An answer may be stale, because the batch reads the items before it waits
\* for the counter, but every ARK in it was live for one of the request's
\* items at some moment between the request and its answer.
AnswersWereLive ==
    \A r \in Request : \A k \in Given(r) : answer[r][k] \in witnessed[r]

\* POST /arks gives up only after colliding with as many different names: a
\* retry never tries the number that has just collided.
RefusedOnlyWhenCrowded ==
    \A r \in Request : session[r].phase = "refused" =>
        Cardinality({row \in records : row.name \in Foreign}) >= MaxRetries

\* A request seen from outside: whatever it does before it ends is hidden.
View(r) == IF session[r].phase \in InProgress THEN "open" ELSE session[r].phase

Registry == INSTANCE ArkRegistry WITH
    registry <- records, request <- [r \in Request |-> View(r)], seen <- witnessed

\* However the requests interleave, collide, retry, abort, lose their answers or
\* are sent again, the clients see a registry that gives each request all its
\* rows in one step, each name once and each client item one live ARK, and
\* whose answers name all of these rows and nothing that was never registered.
ImplementsRegistry == Registry!Spec

\* A request in progress comes to an end: nothing keeps the counter locked.
RequestsEnd ==
    \A r \in Request :
        session[r].phase \in InProgress ~> session[r].phase \notin InProgress

=============================================================================
