------------------------------ MODULE AuthCache ------------------------------
(***************************************************************************)
(* The authorization cache of an API process (utils/auth_cache.py): which  *)
(* authorities may write to which NAAN, as threads read it from the        *)
(* authority contract and remember it.  Ages are counted in ticks of the   *)
(* clock; only `age < ttl' is ever asked of them, so they stop at Ttl.     *)
(***************************************************************************)
EXTENDS Naturals, Sequences, FiniteSets

CONSTANTS
    Pair,      \* pairs of an authority and a NAAN
    Thread,    \* request threads of one API process
    Ttl,       \* auth_cache_ttl
    MaxSize,   \* auth_cache_maxsize
    None

ASSUME CacheAssumption ==
    /\ Ttl \in Nat \ {0} /\ MaxSize \in Nat \ {0}
    /\ None \notin Nat

VARIABLES
    permitted,   \* the contract: the pairs that are authorized
    age,         \* of each pair: the age of its entry, None without one
    queue,       \* the keys of the dictionary, oldest insertion first
    check,       \* the check of each thread
    since        \* history: ticks since a pair was last authorized or about to be stored

cacheVars == <<age, queue, check, since>>

Idle == [step |-> "idle", pair |-> None]

Check == {Idle} \cup [step : {"ask", "store", "granted"}, pair : Pair]

CacheInit ==
    /\ permitted \in SUBSET Pair
    /\ age = [k \in Pair |-> None]
    /\ queue = <<>>
    /\ check = [t \in Thread |-> Idle]
    /\ since = [k \in Pair |-> IF k \in permitted THEN 0 ELSE Ttl]

Storing(k) == \E t \in Thread : check[t] = [step |-> "store", pair |-> k]

\* A tick passes for the pairs that nobody holds true.
Track(ticks) ==
    since' = [k \in Pair |->
        IF k \in permitted' \/ Storing(k)' THEN 0
        ELSE IF since[k] < Ttl THEN since[k] + ticks ELSE since[k]]

Continue(t, step, k) == check' = [check EXCEPT ![t] = [step |-> step, pair |-> k]]

----------------------------------------------------------------------------
Fresh(k) == age[k] # None /\ age[k] < Ttl

Queued(k) == \E i \in DOMAIN queue : queue[i] = k

\* The dictionary without a key: the others keep their order.
Without(k) ==
    IF Queued(k)
    THEN LET place == CHOOSE i \in DOMAIN queue : queue[i] = k
         IN  SubSeq(queue, 1, place - 1) \o SubSeq(queue, place + 1, Len(queue))
    ELSE queue

\* Seeded fault in Hit: a hit prolongs the entry.
SlidingHit(t, k) ==
    /\ check[t] = Idle /\ Fresh(k)
    /\ Continue(t, "granted", k)
    /\ age' = [age EXCEPT ![k] = 0]
    /\ UNCHANGED <<permitted, queue>>
    /\ Track(0)

\* The entry answers, without the chain.
Hit(t, k) ==
    /\ check[t] = Idle /\ Fresh(k)
    /\ Continue(t, "granted", k)
    /\ UNCHANGED <<permitted, age, queue>>
    /\ Track(0)

\* There is no entry, or it has expired and is deleted.
Miss(t, k) ==
    /\ check[t] = Idle /\ ~Fresh(k)
    /\ Continue(t, "ask", k)
    /\ age' = [age EXCEPT ![k] = None]
    /\ queue' = Without(k)
    /\ UNCHANGED permitted
    /\ Track(0)

\* is_authorized_for_naan: only a positive answer is remembered, a negative
\* one answers 403 and an error 503.
Ask(t) ==
    /\ check[t].step = "ask"
    /\ \/ check[t].pair \in permitted /\ Continue(t, "store", check[t].pair)
       \/ check' = [check EXCEPT ![t] = Idle]
    /\ UNCHANGED <<permitted, age, queue>>
    /\ Track(0)

\* Seeded fault in Evict: the cache is full one entry later.
EvictLate == Len(queue) > MaxSize

\* A full cache makes room, even for a key that it has.
Evict == Len(queue) >= MaxSize

\* set: the entry is dated now, not when the contract was read.
Store(t) ==
    /\ check[t].step = "store"
    /\ LET k    == check[t].pair
           left == IF Evict THEN Tail(queue) ELSE queue
           kept == IF Evict THEN [age EXCEPT ![Head(queue)] = None] ELSE age
       IN  /\ age' = [kept EXCEPT ![k] = 0]
           /\ queue' = IF \E i \in DOMAIN left : left[i] = k
                       THEN left ELSE Append(left, k)
           /\ Continue(t, "granted", k)
    /\ UNCHANGED permitted
    /\ Track(0)

\* The request goes on with what it was granted.
Proceed(t) ==
    /\ check[t].step = "granted"
    /\ check' = [check EXCEPT ![t] = Idle]
    /\ UNCHANGED <<permitted, age, queue>>
    /\ Track(0)

Tick ==
    /\ age' = [k \in Pair |-> IF age[k] # None /\ age[k] < Ttl THEN age[k] + 1 ELSE age[k]]
    /\ UNCHANGED <<permitted, queue, check>>
    /\ Track(1)

\* The registry administration gives or takes a permission.
Grant(k) ==
    /\ k \notin permitted
    /\ permitted' = permitted \cup {k}
    /\ UNCHANGED <<age, queue, check>>
    /\ Track(0)

Revoke(k) ==
    /\ k \in permitted
    /\ permitted' = permitted \ {k}
    /\ UNCHANGED <<age, queue, check>>
    /\ Track(0)

CacheNext ==
    \/ Tick
    \/ \E k \in Pair : Grant(k) \/ Revoke(k)
    \/ \E t \in Thread : Ask(t) \/ Store(t) \/ Proceed(t)
                         \/ \E k \in Pair : Hit(t, k) \/ Miss(t, k)

----------------------------------------------------------------------------
\* Every variable has its type; the queue lists the cached keys once each, and
\* there are never more of them than the cache may hold.
CacheTypeOK ==
    /\ permitted \subseteq Pair
    /\ age \in [Pair -> 0..Ttl \cup {None}]
    /\ queue \in Seq(Pair) /\ Len(queue) <= MaxSize
    /\ \A k \in Pair : age[k] # None <=> Queued(k)
    /\ \A i, j \in DOMAIN queue : queue[i] = queue[j] => i = j
    /\ check \in [Thread -> Check]
    /\ since \in [Pair -> 0..Ttl]

\* What a hit grants was permitted less than Ttl ago, or was then still in the
\* hands of a thread that had read it and had not stored it: threads that miss,
\* read, store, expire and evict in any order never prolong a stored entry.  An entry
\* is dated when it is stored, so nothing bounds how long before that it was read;
\* and a miss grants what the thread has read itself, however long ago.
GrantsAreRecent ==
    [][\A t \in Thread, k \in Pair : Hit(t, k) => since[k] < Ttl]_<<permitted, cacheVars>>

=============================================================================
