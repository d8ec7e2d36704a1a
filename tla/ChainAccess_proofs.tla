------------------------- MODULE ChainAccess_proofs -------------------------
(***************************************************************************)
(* Proofs about the cache and the import, for any number of pairs, threads *)
(* and ARKs, any files, any lifetime and size of the cache.  The argument  *)
(* about the cache: an entry is never younger than the last moment at      *)
(* which its pair was permitted or a thread was about to store it.  The    *)
(* argument about the import: what a line of the checkpoint, an awaited    *)
(* receipt or an entry of this wallet says has been on the chain, and      *)
(* nothing that was there is forgotten.                                    *)
(***************************************************************************)
EXTENDS ChainAccess, WellFoundedInduction, SequenceTheorems, TLAPS

CacheInv ==
    /\ permitted \subseteq Pair
    /\ age \in [Pair -> 0..Ttl \cup {None}]
    /\ check \in [Thread -> Check]
    /\ since \in [Pair -> 0..Ttl]
    /\ \A k \in Pair : k \in permitted \/ Storing(k) => since[k] = 0
    /\ \A k \in Pair : age[k] # None => since[k] <= age[k]

\* The entries in the order of their insertion.
QueueInv ==
    /\ queue \in Seq(Pair) /\ Len(queue) <= MaxSize
    /\ \A k \in Pair : age[k] # None <=> Queued(k)
    /\ \A i, j \in DOMAIN queue : queue[i] = queue[j] => i = j

ImportInv ==
    /\ ImportTypeOK
    /\ pc \in {"off", "preflight"} => todo = {}
    /\ \A a \in todo : csv[a] # NoUrl
    /\ \A a \in Ark : entry[a].owner = Me => entry[a].url \in held[a]
    /\ \A a \in Ark : completed[a] # NoUrl => completed[a] \in held[a]
    /\ \A tx \in pending : tx.awaited =>
          pc = "wait" /\ tx.ark = current /\ tx.url = csv[current]
    /\ pc = "wait" => csv[current] # NoUrl
    /\ pc = "mined" => csv[current] \in held[current]
    /\ ReportsAreTrue

\* In the scene of an import the cache stays empty; its history is not kept.
IInv ==
    /\ scene \in Scenes
    /\ CacheTypeOK
    /\ scene = "requests" => CacheInv
    /\ scene = "import" => \A k \in Pair : age[k] = None
    /\ ImportInv

----------------------------------------------------------------------------
(* The cache *)

LEMMA CacheStart == CacheInit => CacheInv
    BY CacheAssumption DEF CacheInit, CacheInv, Check, Idle, Storing

LEMMA QueueStart == CacheInit => QueueInv
    BY CacheAssumption DEF CacheInit, QueueInv, Queued

\* The ages of the pairs may only grow with the clock or start again.
LEMMA Tracked ==
    ASSUME CacheInv, permitted' \subseteq Pair, check' \in [Thread -> Check],
           NEW ticks \in {0, 1}, Track(ticks),
           age' \in [Pair -> 0..Ttl \cup {None}],
           \A k \in Pair : age'[k] # None =>
              \/ k \in permitted' \/ Storing(k)'
              \/ age[k] # None /\ age'[k] = IF age[k] < Ttl THEN age[k] + ticks ELSE age[k]
              \/ since[k] = 0 /\ ticks = 0
    PROVE  CacheInv'
<1>1. since' \in [Pair -> 0..Ttl]
    BY CacheAssumption DEF CacheInv, Track
<1>2. \A k \in Pair : k \in permitted' \/ Storing(k)' => since'[k] = 0
    BY DEF Track
<1>3. ASSUME NEW k \in Pair, age'[k] # None PROVE since'[k] <= age'[k]
    <2>1. since[k] \in 0..Ttl /\ age'[k] \in 0..Ttl /\ Ttl \in Nat
        BY <1>3, CacheAssumption DEF CacheInv
    <2>2. CASE k \in permitted' \/ Storing(k)'
        BY <2>1, <2>2, <1>2
    <2>3. CASE ~(k \in permitted' \/ Storing(k)')
        <3>1. since'[k] = IF since[k] < Ttl THEN since[k] + ticks ELSE since[k]
            BY <2>3 DEF Track
        <3>2. age[k] # None => age[k] \in 0..Ttl /\ since[k] <= age[k]
            BY DEF CacheInv
        <3> QED BY <3>1, <3>2, <2>1, <2>3, <1>3
    <2> QED BY <2>2, <2>3
<1> QED BY <1>1, <1>2, <1>3 DEF CacheInv

LEMMA Checks ==
    ASSUME CacheInv, NEW t \in Thread, NEW k \in Pair, NEW step \in {"ask", "store", "granted"}
    PROVE  /\ Continue(t, step, k) => check' \in [Thread -> Check]
           /\ check' = [check EXCEPT ![t] = Idle] => check' \in [Thread -> Check]
<1>1. [step |-> step, pair |-> k] \in Check /\ Idle \in Check
    BY DEF Check
<1> QED BY <1>1 DEF Continue, CacheInv

LEMMA CacheStep ==
    ASSUME CacheInv, CacheNext
    PROVE  CacheInv'
<1> USE DEF Continue
<1>0. Ttl \in Nat \ {0} /\ None \notin 0..Ttl
    BY CacheAssumption
<1>1. CASE Tick
    BY <1>1, <1>0, Tracked DEF Tick, CacheInv
<1>2. ASSUME NEW k \in Pair, Grant(k) \/ Revoke(k) PROVE CacheInv'
    BY <1>2, <1>0, Tracked DEF Grant, Revoke, CacheInv
<1>3. ASSUME NEW t \in Thread, NEW k \in Pair, Hit(t, k) PROVE CacheInv'
    BY <1>3, <1>0, Tracked DEF Hit, CacheInv, Check, Idle
<1>4. ASSUME NEW t \in Thread, NEW k \in Pair, Miss(t, k) PROVE CacheInv'
    BY <1>4, <1>0, Tracked DEF Miss, CacheInv, Check, Idle
<1>5. ASSUME NEW t \in Thread, Ask(t) PROVE CacheInv'
    <2>2. check' \in [Thread -> Check]
        <3>1. CASE check' = [check EXCEPT ![t] = Idle]
            BY <3>1 DEF CacheInv, Check
        <3>2. CASE check[t].pair \in permitted /\ Continue(t, "store", check[t].pair)
            <4>1. check[t].pair \in Pair
                BY <3>2 DEF CacheInv
            <4> QED BY <3>2, <4>1, Checks
        <3> QED BY <1>5, <3>1, <3>2 DEF Ask
    <2> QED BY <1>5, <1>0, <2>2, Tracked DEF Ask, CacheInv
<1>6. ASSUME NEW t \in Thread, Store(t) PROVE CacheInv'
    <2> DEFINE k == check[t].pair
               kept == IF Evict THEN [age EXCEPT ![Head(queue)] = None] ELSE age
    <2>1. check[t] \in Check /\ check[t].step = "store" /\ k \in Pair
        BY <1>6 DEF Store, CacheInv, Check, Idle
    <2>2. k \in Pair => since[k] = 0
        <3>1. check[t] = [step |-> "store", pair |-> k]
            BY <2>1 DEF Check, Idle
        <3>2. Storing(k)
            BY <3>1 DEF Storing
        <3> QED BY <3>2 DEF CacheInv
    <2>3. kept \in [Pair -> 0..Ttl \cup {None}]
          /\ \A q \in Pair : kept[q] # None => kept[q] = age[q]
        BY DEF CacheInv
    <2>4. age' = [kept EXCEPT ![k] = 0] /\ permitted' = permitted /\ Track(0)
          /\ check' = [check EXCEPT ![t] = [step |-> "granted", pair |-> k]]
        BY <1>6 DEF Store
    <2> HIDE DEF kept
    <2>5. age' \in [Pair -> 0..Ttl \cup {None}]
          /\ \A q \in Pair : age'[q] # None =>
                since[q] = 0 \/ (age[q] # None /\ age'[q] = age[q])
        <3>1. 0 \in 0..Ttl
            BY <1>0
        <3>2. \A q \in Pair : age'[q] = IF q = k THEN 0 ELSE kept[q]
            BY <2>3, <2>4
        <3>3. DOMAIN age' = Pair /\ age' = [q \in Pair |-> age'[q]]
            BY <2>3, <2>4
        <3> QED BY <3>1, <3>2, <3>3, <2>2, <2>3
    <2>6. check' \in [Thread -> Check] /\ permitted' \subseteq Pair
        BY <2>1, <2>4, Checks DEF CacheInv
    <2>7. \A q \in Pair : age[q] # None =>
             age[q] = IF age[q] < Ttl THEN age[q] + 0 ELSE age[q]
        BY <1>0 DEF CacheInv
    <2> QED BY <2>4, <2>5, <2>6, <2>7, Tracked
<1>7. ASSUME NEW t \in Thread, Proceed(t) PROVE CacheInv'
    <2>1. check' = [check EXCEPT ![t] = Idle]
        BY <1>7 DEF Proceed
    <2>2. check' \in [Thread -> Check]
        BY <2>1 DEF CacheInv, Check
    <2> QED BY <1>7, <1>0, <2>2, Tracked DEF Proceed, CacheInv
<1> QED BY <1>1, <1>2, <1>3, <1>4, <1>5, <1>6, <1>7 DEF CacheNext


----------------------------------------------------------------------------
(* The import *)

\* The parts of the order in which entries are inserted.
LEMMA WithoutKey ==
    ASSUME QueueInv, NEW k \in Pair
    PROVE  /\ Without(k) \in Seq(Pair) /\ Len(Without(k)) <= Len(queue)
           /\ \A q \in Pair : (\E i \in DOMAIN Without(k) : Without(k)[i] = q)
                                <=> Queued(q) /\ q # k
           /\ \A i, j \in DOMAIN Without(k) : Without(k)[i] = Without(k)[j] => i = j
<1>1. CASE ~Queued(k)
    BY <1>1 DEF Without, QueueInv, Queued
<1>2. CASE Queued(k)
    <2> DEFINE p == CHOOSE i \in DOMAIN queue : queue[i] = k
               n == Len(queue)
               A == SubSeq(queue, 1, p - 1)
               B == SubSeq(queue, p + 1, n)
               rest == A \o B
    <2>1. p \in 1..n /\ queue[p] = k /\ n \in Nat /\ DOMAIN queue = 1..n
        BY <1>2 DEF Queued, QueueInv
    <2>2. Without(k) = rest
        BY <1>2 DEF Without
    <2> HIDE DEF p
    <2>3. /\ A \in Seq(Pair) /\ Len(A) = p - 1
          /\ B \in Seq(Pair) /\ Len(B) = n - p
          /\ \A i \in 1..p-1 : A[i] = queue[i]
          /\ \A i \in 1..n-p : B[i] = queue[p + i]
        <3>1. /\ \A i \in 1..p-1 : queue[i] \in Pair
              /\ \A i \in p+1..n : queue[i] \in Pair
            BY <2>1 DEF QueueInv
        <3>2. /\ A \in Seq(Pair) /\ Len(A) = IF 1 <= p - 1 THEN (p - 1) - 1 + 1 ELSE 0
              /\ \A i \in 1..(p - 1) - 1 + 1 : A[i] = queue[1 + i - 1]
            BY <2>1, <3>1, SubSeqProperties
        <3>3. /\ B \in Seq(Pair) /\ Len(B) = IF p + 1 <= n THEN n - (p + 1) + 1 ELSE 0
              /\ \A i \in 1..n - (p + 1) + 1 : B[i] = queue[(p + 1) + i - 1]
            BY <2>1, <3>1, SubSeqProperties
        <3> HIDE DEF A, B, n
        <3>4. (p - 1) - 1 + 1 = p - 1 /\ n - (p + 1) + 1 = n - p
            BY <2>1
        <3>5. Len(A) = p - 1 /\ Len(B) = n - p
            BY <2>1, <3>2, <3>3
        <3>6. ASSUME NEW i \in 1..p-1 PROVE A[i] = queue[i]
            <4>1. i \in 1..(p - 1) - 1 + 1 /\ 1 + i - 1 = i
                BY <2>1, <3>4
            <4> QED BY <3>2, <4>1
        <3>7. ASSUME NEW i \in 1..n-p PROVE B[i] = queue[p + i]
            <4>1. i \in 1..n - (p + 1) + 1 /\ (p + 1) + i - 1 = p + i
                BY <2>1, <3>4
            <4> QED BY <3>3, <4>1
        <3> QED BY <3>2, <3>3, <3>5, <3>6, <3>7
    <2> HIDE DEF A, B, n
    <2>12. /\ rest \in Seq(Pair) /\ Len(rest) = Len(A) + Len(B)
           /\ \A i \in 1..Len(A) + Len(B) :
                 rest[i] = IF i <= Len(A) THEN A[i] ELSE B[i - Len(A)]
        BY <2>3, ConcatProperties
    <2>4. rest \in Seq(Pair) /\ Len(rest) = n - 1 /\ DOMAIN rest = 1..n-1
        BY <2>1, <2>3, <2>12
    <2>5. ASSUME NEW i \in 1..n-1
          PROVE  rest[i] = IF i < p THEN queue[i] ELSE queue[i + 1]
        <3>1. CASE i < p
            <4>1. i \in 1..p-1 /\ rest[i] = A[i]
                BY <2>1, <2>3, <2>12, <3>1
            <4> QED BY <2>3, <3>1, <4>1
        <3>2. CASE ~(i < p)
            <4>1. i - (p - 1) \in 1..n-p /\ p + (i - (p - 1)) = i + 1
                BY <2>1, <3>2
            <4>2. rest[i] = B[i - (p - 1)]
                BY <2>1, <2>3, <2>12, <3>2
            <4> QED BY <2>3, <3>2, <4>1, <4>2
        <3> QED BY <3>1, <3>2
    <2> HIDE DEF rest
    <2>6. ASSUME NEW i \in 1..n, i # p
          PROVE  \E j \in 1..n-1 : rest[j] = queue[i]
        <3>1. CASE i < p
            <4>1. i \in 1..n-1
                BY <2>1, <3>1
            <4> QED BY <2>5, <3>1, <4>1
        <3>2. CASE i > p
            <4>1. i - 1 \in 1..n-1 /\ ~(i - 1 < p) /\ (i - 1) + 1 = i
                BY <2>1, <3>2
            <4> QED BY <2>5, <4>1
        <3> QED BY <2>1, <2>6, <3>1, <3>2
    <2>7. \A i \in 1..n-1 : \E j \in 1..n : /\ j # p /\ rest[i] = queue[j]
                                             /\ j = IF i < p THEN i ELSE i + 1
        BY <2>1, <2>5
    <2>8. \A i, j \in 1..n : queue[i] = queue[j] => i = j
        BY <2>1 DEF QueueInv
    <2>9. ASSUME NEW i \in 1..n-1, NEW j \in 1..n-1, rest[i] = rest[j]
          PROVE  i = j
        <3>1. PICK x \in 1..n : rest[i] = queue[x] /\ x = IF i < p THEN i ELSE i + 1
            BY <2>7
        <3>2. PICK y \in 1..n : rest[j] = queue[y] /\ y = IF j < p THEN j ELSE j + 1
            BY <2>7
        <3>3. x = y
            BY <2>8, <2>9, <3>1, <3>2
        <3> QED BY <2>1, <3>1, <3>2, <3>3
    <2>10. ASSUME NEW q \in Pair
           PROVE  (\E i \in 1..n-1 : rest[i] = q) <=> Queued(q) /\ q # k
        <3>1. Queued(q) <=> \E i \in 1..n : queue[i] = q
            BY <2>1 DEF Queued
        <3>2. \A i \in 1..n : queue[i] = k => i = p
            BY <2>1, <2>8
        <3> QED BY <2>1, <2>6, <2>7, <3>1, <3>2, ZenonT(60)
    <2>11. n - 1 <= n
        BY <2>1
    <2> QED BY <2>2, <2>4, <2>9, <2>10, <2>11 DEF n
<1> QED BY <1>1, <1>2

LEMMA QueueTouched ==
    ASSUME QueueInv, UNCHANGED queue, \A k \in Pair : age'[k] # None <=> age[k] # None
    PROVE  QueueInv'
    BY DEF QueueInv, Queued

\* A full cache drops its oldest entry before it takes another one.
LEMMA QueueStored ==
    ASSUME QueueInv, NEW t \in Thread, Store(t),
           check[t].pair \in Pair, age \in [Pair -> 0..Ttl \cup {None}]
    PROVE  QueueInv'
<1> DEFINE k    == check[t].pair
           left == IF Evict THEN Tail(queue) ELSE queue
           kept == IF Evict THEN [age EXCEPT ![Head(queue)] = None] ELSE age
           found == \E i \in DOMAIN left : left[i] = k
<1>1. /\ age' = [kept EXCEPT ![k] = 0]
      /\ queue' = IF found THEN left ELSE Append(left, k)
    BY DEF Store
<1>2. MaxSize \in Nat \ {0} /\ None \notin Nat /\ k \in Pair
    BY CacheAssumption
<1>3. queue \in Seq(Pair) /\ Len(queue) \in Nat /\ Len(queue) <= MaxSize
    BY DEF QueueInv
<1>4. /\ left \in Seq(Pair) /\ Len(left) \in Nat /\ Len(left) < MaxSize
      /\ \A q \in Pair : kept[q] # None <=> \E i \in DOMAIN left : left[i] = q
      /\ \A i, j \in DOMAIN left : left[i] = left[j] => i = j
      /\ kept \in [Pair -> 0..Ttl \cup {None}]
    <2>1. CASE Evict
        <3>1. queue # <<>> /\ left = Tail(queue) /\ Head(queue) = queue[1] /\ Len(queue) >= 1
            BY <1>2, <1>3, <2>1 DEF Evict
        <3>2. /\ left \in Seq(Pair) /\ Len(left) = Len(queue) - 1
              /\ \A i \in 1..Len(left) : left[i] = queue[i + 1]
            BY <1>3, <3>1
        <3>3. kept = [age EXCEPT ![queue[1]] = None]
            BY <2>1, <3>1
        <3> HIDE DEF left, kept
        <3>4. \A i, j \in 1..Len(queue) : queue[i] = queue[j] => i = j
            BY <1>3 DEF QueueInv
        <3>5. \A i, j \in DOMAIN left : left[i] = left[j] => i = j
            <4> SUFFICES ASSUME NEW i \in DOMAIN left, NEW j \in DOMAIN left, left[i] = left[j]
                         PROVE  i = j
                OBVIOUS
            <4>1. i + 1 \in 1..Len(queue) /\ j + 1 \in 1..Len(queue)
                BY <1>3, <3>2
            <4>2. queue[i + 1] = queue[j + 1]
                BY <3>2, <1>3
            <4>3. i + 1 = j + 1
                BY <3>4, <4>1, <4>2
            <4> QED BY <4>3, <4>1, <3>2
        <3>6. ASSUME NEW q \in Pair
              PROVE  kept[q] # None <=> \E i \in DOMAIN left : left[i] = q
            <4>1. age[q] # None <=> \E i \in 1..Len(queue) : queue[i] = q
                BY <1>3 DEF QueueInv, Queued
            <4>2. ASSUME NEW i \in DOMAIN left, left[i] = q
                  PROVE  kept[q] # None
                <5>1. i + 1 \in 1..Len(queue) /\ queue[i + 1] = q /\ i + 1 # 1 /\ 1 \in 1..Len(queue)
                    BY <1>3, <3>1, <3>2, <4>2
                <5>2. q # queue[1] /\ age[q] # None
                    BY <3>4, <4>1, <5>1
                <5> QED BY <3>3, <5>2
            <4>3. ASSUME kept[q] # None
                  PROVE  \E i \in DOMAIN left : left[i] = q
                <5>1. q # queue[1] /\ age[q] # None
                    BY <3>3, <4>3
                <5>2. PICK i \in 1..Len(queue) : queue[i] = q
                    BY <4>1, <5>1
                <5>3. i - 1 \in DOMAIN left /\ (i - 1) + 1 = i
                    BY <1>3, <3>2, <5>1, <5>2
                <5>4. left[i - 1] = queue[(i - 1) + 1]
                    BY <1>3, <3>2, <5>3
                <5> QED BY <5>2, <5>3, <5>4
            <4> QED BY <4>2, <4>3
        <3>7. kept \in [Pair -> 0..Ttl \cup {None}]
            BY <3>3
        <3> QED BY <1>2, <1>3, <3>2, <3>5, <3>6, <3>7
    <2>2. CASE ~Evict
        BY <1>2, <1>3, <2>2 DEF Evict, QueueInv, Queued
    <2> QED BY <2>1, <2>2
<1> HIDE DEF left, kept
<1>5. CASE found
    BY <1>1, <1>2, <1>4, <1>5 DEF QueueInv, Queued
<1>6. CASE ~found
    <2>1. queue' = Append(left, k)
        BY <1>1, <1>6
    <2>2. /\ queue' \in Seq(Pair) /\ Len(queue') = Len(left) + 1 /\ queue'[Len(left) + 1] = k
          /\ \A i \in 1..Len(left) : queue'[i] = left[i]
          /\ DOMAIN queue' = 1..Len(left)+1 /\ DOMAIN left = 1..Len(left)
        BY <1>2, <1>4, <2>1
    <2>3. Len(queue') <= MaxSize
        BY <1>2, <1>4, <2>2
    <2>4. ASSUME NEW i \in DOMAIN queue', NEW j \in DOMAIN queue', queue'[i] = queue'[j]
          PROVE  i = j
        BY <1>4, <1>6, <2>2, <2>4
    <2>5. ASSUME NEW q \in Pair
          PROVE  age'[q] # None <=> \E i \in DOMAIN queue' : queue'[i] = q
        <3>1. q # k => age'[q] = kept[q]
            BY <1>1, <1>4
        <3>2. age'[k] = 0
            BY <1>1, <1>2, <1>4
        <3>3. (\E i \in DOMAIN queue' : queue'[i] = q) <=> q = k \/ \E i \in DOMAIN left : left[i] = q
            BY <1>4, <2>2
        <3> QED BY <1>2, <1>4, <3>1, <3>2, <3>3
    <2> QED BY <2>2, <2>3, <2>4, <2>5 DEF QueueInv, Queued
<1> QED BY <1>5, <1>6

LEMMA QueueStep ==
    ASSUME CacheInv, QueueInv, CacheNext
    PROVE  QueueInv'
<1>0. None \notin Nat /\ None \notin 0..Ttl
    BY CacheAssumption
<1>1. CASE Tick
    BY <1>0, <1>1, QueueTouched, CacheAssumption DEF Tick, CacheInv
<1>2. ASSUME NEW k \in Pair, Grant(k) \/ Revoke(k) PROVE QueueInv'
    BY <1>2, QueueTouched DEF Grant, Revoke
<1>3. ASSUME NEW t \in Thread, Ask(t) \/ Proceed(t) \/ \E k \in Pair : Hit(t, k) PROVE QueueInv'
    BY <1>3, QueueTouched DEF Ask, Proceed, Hit
<1>4. ASSUME NEW t \in Thread, NEW k \in Pair, Miss(t, k) PROVE QueueInv'
    <2>1. queue' = Without(k) /\ age' = [age EXCEPT ![k] = None]
        BY <1>4 DEF Miss
    <2>2. \A q \in Pair : Queued(q)' <=> Queued(q) /\ q # k
        BY <2>1, WithoutKey, ZenonT(60) DEF Queued
    <2>3. \A q \in Pair : age'[q] # None <=> age[q] # None /\ q # k
        BY <2>1 DEF CacheInv
    <2>4. \A q \in Pair : age[q] # None <=> Queued(q)
        BY DEF QueueInv
    <2>5. Len(queue') <= MaxSize
        BY <2>1, WithoutKey, CacheAssumption DEF QueueInv
    <2> QED BY <2>1, <2>2, <2>3, <2>4, <2>5, WithoutKey DEF QueueInv
<1>5. ASSUME NEW t \in Thread, Store(t) PROVE QueueInv'
    <2>1. check[t].pair \in Pair
        BY <1>5 DEF Store, CacheInv, Check, Idle
    <2> QED BY <1>5, <2>1, QueueStored DEF CacheInv
<1> QED BY <1>1, <1>2, <1>3, <1>4, <1>5 DEF CacheNext

\* A set of positions in a file has a first one.
LEMMA FirstOf ==
    ASSUME NEW S \in SUBSET Nat, S # {}
    PROVE  \E i \in S : \A j \in S : i <= j
<1> DEFINE Less == {r \in Nat \X Nat : r[1] < r[2]}
<1>1. IsWellFoundedOn(Less, Nat)
    BY NatLessThanWellFounded DEF OpToRel
<1>2. \E i \in S : \A j \in S : <<j, i>> \notin Less
    BY <1>1, WFMin
<1>3. \A i, j \in Nat : <<j, i>> \notin Less => i <= j
    OBVIOUS
<1> HIDE DEF Less
<1> QED BY <1>2, <1>3

LEMMA CsvTyped ==
    ASSUME NEW file \in Inputs
    PROVE  ReadCsv(file) \in [Ark -> Url \cup {NoUrl}]
<1> DEFINE valid(a) == {i \in DOMAIN file : file[i].ark = a /\ file[i].url # NoUrl}
           first(a) == CHOOSE i \in valid(a) : \A j \in valid(a) : i <= j
<1>1. file \in Seq([ark : Ark, url : Url \cup {NoUrl}])
    BY ImportAssumption
<1>2. DOMAIN file \subseteq Nat /\ \A i \in DOMAIN file : file[i].url \in Url \cup {NoUrl}
    <2> DEFINE R == [ark : Ark, url : Url \cup {NoUrl}]
    <2>1. DOMAIN file = 1..Len(file) /\ Len(file) \in Nat /\ \A i \in 1..Len(file) : file[i] \in R
        <3> HIDE DEF R
        <3>1. file \in Seq(R)
            BY <1>1 DEF R
        <3> QED BY <3>1
    <2> QED BY <2>1
<1>3. ASSUME NEW a \in Ark, valid(a) # {} PROVE first(a) \in DOMAIN file
    <2>1. valid(a) \in SUBSET Nat
        BY <1>2
    <2>2. \E i \in valid(a) : \A j \in valid(a) : i <= j
        BY <2>1, <1>3, FirstOf
    <2> QED BY <2>2
<1>4. ReadCsv(file) = [a \in Ark |-> IF valid(a) = {} THEN NoUrl ELSE file[first(a)].url]
    BY DEF ReadCsv
<1> HIDE DEF valid, first
<1> QED BY <1>2, <1>3, <1>4

LEMMA ImportStart == ImportInit => ImportInv
<1>1. (CHOOSE a \in Ark : TRUE) \in Ark
    BY ImportAssumption
<1>2. ImportInit => ImportTypeOK
    BY <1>1 DEF ImportInit, ImportTypeOK, Entry, Outcome
<1>3. ImportInit => ReportsAreTrue
    BY DEF ImportInit, ReportsAreTrue, Completed
<1>4. ImportInit => \A a \in Ark : entry[a].owner # Me
    BY ImportAssumption DEF ImportInit, Nowhere
<1> QED BY <1>2, <1>3, <1>4 DEF ImportInit, ImportInv

\* Whoever writes a line of the results waits for no transaction any more.
LEMMA Written ==
    ASSUME ImportInv, NEW a \in Ark, NEW outcome \in Outcome, Line(a, outcome),
           outcome \in Completed => csv[a] \in held[a],
           pc' = "rows",
           pending' \subseteq Transaction, \A tx \in pending' : ~tx.awaited,
           UNCHANGED <<entry, csv, execute, current, held>>
    PROVE  ImportInv'
<1>1. ImportTypeOK'
    BY DEF ImportInv, ImportTypeOK, Line
<1>2. \A b \in Ark : completed'[b] # NoUrl => completed'[b] \in held'[b]
    BY DEF ImportInv, ImportTypeOK, Line, Completed
<1>3. ReportsAreTrue'
    BY DEF ImportInv, ImportTypeOK, Line, ReportsAreTrue
<1> QED BY <1>1, <1>2, <1>3 DEF ImportInv, Line

LEMMA NoneAwaited ==
    ASSUME ImportInv
    PROVE  /\ Forgotten \subseteq Transaction /\ \A tx \in Forgotten : ~tx.awaited
           /\ pending \subseteq Transaction
           /\ pc # "wait" => \A tx \in pending : ~tx.awaited
    BY DEF ImportInv, ImportTypeOK, Transaction, Forgotten

LEMMA RowsKeep ==
    ASSUME ImportInv, NEW a \in Ark, RowStep(a) \/ FailRow(a)
    PROVE  ImportInv'
<1> USE NoneAwaited DEF Completed, Outcome
<1>1. CASE Resume(a)
    <2>1. csv[a] # NoUrl /\ completed[a] = csv[a] /\ csv[a] \in held[a]
        BY <1>1 DEF Resume, Resumable, ImportInv
    <2> QED BY <1>1, <2>1 DEF Resume, ImportInv, ImportTypeOK, ReportsAreTrue
<1>2. CASE Exists(a)
    <2> DEFINE outcome == IF entry[a].owner # Me THEN "conflict_owner"
                          ELSE IF entry[a].url # csv[a] THEN "conflict_url"
                          ELSE "skipped_same_url"
    <2>1. Line(a, outcome) /\ pc' = "rows" /\ UNCHANGED <<entry, pending, csv, execute, current, held>>
        BY <1>2 DEF Exists, Open
    <2>2. pc # "wait"
        BY <1>2 DEF Exists, Open
    <2>3. outcome \in Outcome /\ (outcome \in Completed => csv[a] \in held[a])
        BY DEF ImportInv
    <2> HIDE DEF outcome
    <2> QED BY <2>1, <2>2, <2>3, Written
<1>3. CASE Validate(a)
    BY <1>3, Written DEF Validate, Open
<1>4. CASE Submit(a)
    <2>1. csv[a] \in Url
        BY <1>4 DEF Submit, Open, ImportInv, ImportTypeOK
    <2> DEFINE new == [ark |-> a, url |-> csv[a], awaited |-> TRUE]
    <2>2. /\ pending' = pending \cup {new} /\ pc = "rows" /\ pc' = "wait" /\ current' = a
          /\ UNCHANGED <<entry, csv, execute, todo, report, completed, held>>
        BY <1>4 DEF Submit, Open
    <2>3. new \in Transaction
        BY <2>1 DEF Transaction
    <2>4. \A tx \in pending' : tx.awaited => tx.ark = a /\ tx.url = csv[a]
        BY <2>2
    <2>5. ImportTypeOK'
        BY <2>2, <2>3 DEF ImportInv, ImportTypeOK
    <2>6. ReportsAreTrue'
        BY <2>2 DEF ImportInv, ReportsAreTrue
    <2>7. csv[a] # NoUrl
        BY <2>1, ImportAssumption
    <2> HIDE DEF new
    <2> QED BY <2>2, <2>4, <2>5, <2>6, <2>7 DEF ImportInv
<1>5. CASE FailRow(a)
    BY <1>5, Written DEF FailRow, Open
<1> QED BY <1>1, <1>2, <1>3, <1>4, <1>5 DEF RowStep

LEMMA RunKeeps ==
    ASSUME ImportInv, NEW allowed \in BOOLEAN,
           \/ \E file \in Inputs, mode \in BOOLEAN : Run(file, mode)
           \/ Preflight(allowed) \/ Receipt \/ TimeOut \/ Finish \/ Crash
    PROVE  ImportInv'
<1> USE NoneAwaited DEF Completed, Outcome
<1>1. ASSUME NEW file \in Inputs, NEW mode \in BOOLEAN, Run(file, mode) PROVE ImportInv'
    <2>1. csv' \in [Ark -> Url \cup {NoUrl}]
        BY <1>1, CsvTyped DEF Run
    <2>2. ReportsAreTrue'
        BY <1>1 DEF Run, ReportsAreTrue
    <2> QED BY <1>1, <2>1, <2>2 DEF Run, ImportInv, ImportTypeOK
<1>2. CASE Preflight(allowed)
    BY <1>2 DEF Preflight, ImportInv, ImportTypeOK, ReportsAreTrue
<1>3. CASE Receipt
    BY <1>3, Written DEF Receipt, ImportInv, ImportTypeOK
<1>4. CASE TimeOut
    BY <1>4, Written DEF TimeOut, ImportInv, ImportTypeOK
<1>5. CASE Finish
    BY <1>5 DEF Finish, ImportInv, ImportTypeOK, ReportsAreTrue
<1>6. CASE Crash
    BY <1>6 DEF Crash, ImportInv, ImportTypeOK, ReportsAreTrue
<1> QED BY <1>1, <1>2, <1>3, <1>4, <1>5, <1>6

LEMMA HeldGrows ==
    ASSUME ImportInv, entry' \in [Ark -> Entry], held' = Holds(entry'),
           \A a \in Ark : entry'[a].owner = Me => entry'[a].url \in Url
    PROVE  /\ held' \in [Ark -> SUBSET Url]
           /\ \A a \in Ark : held[a] \subseteq held'[a]
           /\ \A a \in Ark : entry'[a].owner = Me => entry'[a].url \in held'[a]
    BY DEF Holds, ImportInv, ImportTypeOK

LEMMA ChainKeeps ==
    ASSUME ImportInv, NEW allowed \in BOOLEAN,
           \/ \E tx \in pending : Mine(tx, allowed) \/ Lose(tx)
           \/ \E a \in Ark, e \in Entry \ {Nowhere} : Elsewhere(a, e)
    PROVE  ImportInv'
<1>1. ASSUME NEW tx \in pending, Mine(tx, allowed) PROVE ImportInv'
    <2>1. tx \in Transaction
        BY DEF ImportInv, ImportTypeOK
    <2>2. entry' \in [Ark -> Entry] /\ held' = Holds(entry')
        BY <1>1, <2>1 DEF Mine, ImportInv, ImportTypeOK, Entry, Transaction
    <2>3. \A a \in Ark : entry'[a].owner = Me => entry'[a].url \in Url
        BY <2>2, ImportAssumption DEF Entry, Nowhere
    <2>4. /\ held' \in [Ark -> SUBSET Url]
          /\ \A a \in Ark : held[a] \subseteq held'[a]
          /\ \A a \in Ark : entry'[a].owner = Me => entry'[a].url \in held'[a]
        BY <2>2, <2>3, HeldGrows
    <2>5. pc' = "mined" /\ tx.awaited => csv[current] \in held'[current]
        <3>1. SUFFICES ASSUME pc' = "mined", tx.awaited PROVE csv[current] \in held'[current]
            OBVIOUS
        <3>2. tx.ark = current /\ tx.url = csv[current]
            BY <3>1 DEF ImportInv
        <3>3. entry' = [entry EXCEPT ![tx.ark] = [owner |-> Me, url |-> tx.url]]
            BY <1>1, <3>1 DEF Mine
        <3>4. entry'[current].owner = Me /\ entry'[current].url = csv[current] /\ current \in Ark
            BY <3>2, <3>3 DEF ImportInv, ImportTypeOK
        <3> QED BY <3>4, <2>4
    <2>6. pc' \in {pc, "mined", "reverted"} /\ (~tx.awaited => pc' = pc)
          /\ pending' = pending \ {tx}
          /\ UNCHANGED <<csv, execute, todo, current, report, completed>>
        BY <1>1 DEF Mine
    <2>7. ImportTypeOK'
        BY <2>2, <2>4, <2>6 DEF ImportInv, ImportTypeOK
    <2>8. ReportsAreTrue'
        BY <2>4, <2>6 DEF ImportInv, ReportsAreTrue
    <2>9. \A r \in pending' : r.awaited =>
             pc' = "wait" /\ r.ark = current' /\ r.url = csv'[current']
        <3>1. SUFFICES ASSUME NEW r \in pending', r.awaited
                       PROVE  pc' = "wait" /\ r.ark = current' /\ r.url = csv'[current']
            OBVIOUS
        <3>2. r # tx /\ r \in Transaction /\ r.ark = current /\ r.url = csv[current] /\ pc = "wait"
            BY <2>6, <3>1 DEF ImportInv, ImportTypeOK
        <3>3. tx.awaited => r = tx
            BY <2>1, <3>1, <3>2 DEF ImportInv, Transaction
        <3> QED BY <2>6, <3>2, <3>3
    <2>10. \A a \in Ark : completed'[a] # NoUrl => completed'[a] \in held'[a]
        BY <2>4, <2>6 DEF ImportInv
    <2>11. pc' = "mined" => csv'[current'] \in held'[current']
        BY <2>4, <2>5, <2>6 DEF ImportInv, ImportTypeOK
    <2>12. tx.awaited => pc = "wait"
        BY DEF ImportInv
    <2> QED BY <2>4, <2>6, <2>7, <2>8, <2>9, <2>10, <2>11, <2>12 DEF ImportInv
<1>2. ASSUME NEW tx \in pending, Lose(tx) PROVE ImportInv'
    BY <1>2 DEF Lose, ImportInv, ImportTypeOK, ReportsAreTrue
<1>3. ASSUME NEW a \in Ark, NEW e \in Entry \ {Nowhere}, Elsewhere(a, e) PROVE ImportInv'
    <2>1. entry' \in [Ark -> Entry] /\ held' = Holds(entry')
          /\ UNCHANGED <<pending, csv, execute, pc, todo, current, report, completed>>
        BY <1>3 DEF Elsewhere, ImportInv, ImportTypeOK
    <2>2. \A b \in Ark : entry'[b].owner = Me => entry'[b].url \in Url
        BY <2>1, ImportAssumption DEF Entry, Nowhere
    <2>3. /\ held' \in [Ark -> SUBSET Url]
          /\ \A b \in Ark : held[b] \subseteq held'[b]
          /\ \A b \in Ark : entry'[b].owner = Me => entry'[b].url \in held'[b]
        BY <2>1, <2>2, HeldGrows
    <2> QED BY <2>1, <2>3 DEF ImportInv, ImportTypeOK, ReportsAreTrue
<1> QED BY <1>1, <1>2, <1>3

----------------------------------------------------------------------------
(* The two together *)

LEMMA CacheTypes ==
    ASSUME CacheInv, QueueInv
    PROVE  CacheTypeOK
    BY DEF CacheInv, QueueInv, CacheTypeOK

LEMMA Unmoved ==
    /\ CacheTypeOK /\ UNCHANGED cacheVars /\ permitted' \subseteq Pair => CacheTypeOK'
    /\ CacheInv /\ UNCHANGED <<permitted, cacheVars>> => CacheInv'
    /\ ImportInv /\ UNCHANGED importVars => ImportInv'
    BY DEF CacheTypeOK, Queued, CacheInv, cacheVars, Storing, ImportInv, importVars,
           ImportTypeOK, ReportsAreTrue

LEMMA ImportMoves ==
    ASSUME ImportInv, NEW allowed \in BOOLEAN, ImportNext(allowed)
    PROVE  ImportInv'
<1>1. CASE \E a \in Ark : RowStep(a) \/ FailRow(a)
    BY <1>1, RowsKeep
<1>2. CASE \E tx \in pending : Mine(tx, allowed) \/ Lose(tx)
    BY <1>2, ChainKeeps
<1>3. CASE \E a \in Ark, e \in Entry \ {Nowhere} : Elsewhere(a, e)
    BY <1>3, ChainKeeps
<1>4. CASE \/ \E file \in Inputs, mode \in BOOLEAN : Run(file, mode)
           \/ Preflight(allowed) \/ Receipt \/ TimeOut \/ Finish \/ Crash
    BY <1>4, RunKeeps
<1> QED BY <1>1, <1>2, <1>3, <1>4 DEF ImportNext, ImportStep, ImportFault

\* The invariant holds in every reachable state: the entries of the cache are
\* no younger than the permission they remember (utils/auth_cache.py), and the
\* checkpoint, the receipts and the reports of the import speak of what was on
\* the chain (cli/import_arks.py).
THEOREM AccessInductive == Spec => []IInv
<1>1. Init => IInv
    <2>1. CacheInit => \A k \in Pair : age[k] = None
        BY DEF CacheInit
    <2> QED BY <2>1, CacheStart, QueueStart, CacheTypes, ImportStart DEF Init, IInv
<1>2. IInv /\ [Next]_vars => IInv'
    <2> SUFFICES ASSUME IInv, [Next]_vars PROVE IInv'
        OBVIOUS
    <2>1. CASE scene = "requests" /\ CacheNext /\ UNCHANGED <<importVars, scene>>
        <3>1. CacheInv /\ QueueInv
            BY <2>1 DEF IInv, CacheTypeOK, QueueInv
        <3>2. CacheInv' /\ QueueInv'
            BY <2>1, <3>1, CacheStep, QueueStep
        <3>3. CacheTypeOK'
            BY <3>2 DEF CacheInv, QueueInv, CacheTypeOK
        <3> QED BY <2>1, <3>2, <3>3, Unmoved DEF IInv
    <2>2. CASE scene = "import" /\ ImportNext(Allowed) /\ UNCHANGED <<permitted, cacheVars, scene>>
        <3>1. Allowed \in BOOLEAN
            BY DEF Allowed
        <3>2. ImportInv'
            BY <2>2, <3>1, ImportMoves DEF IInv
        <3>3. CacheTypeOK'
            BY <2>2, Unmoved DEF IInv, CacheTypeOK
        <3> QED BY <2>2, <3>2, <3>3 DEF IInv, cacheVars
    <2>3. CASE scene = "import" /\ Administer /\ UNCHANGED scene
        <3>1. permitted' \subseteq Pair
            BY <2>3, AccessAssumption DEF IInv, CacheTypeOK, Administer, Allowed
        <3> QED BY <2>3, <3>1, Unmoved DEF IInv, Administer, cacheVars
    <2>4. CASE UNCHANGED vars
        BY <2>4, Unmoved DEF IInv, CacheTypeOK, vars, cacheVars
    <2> QED BY <2>1, <2>2, <2>3, <2>4 DEF Next
<1> QED BY <1>1, <1>2, PTL DEF Spec

\* Types of the cache and of the import.  However threads miss, store and evict
\* (utils/auth_cache.py), the entries and their order stay in step and there
\* are never more of them than the cache may hold.
THEOREM AccessTypes == Spec => []TypeOK
<1>1. IInv => TypeOK
    BY DEF IInv, ImportInv, TypeOK
<1> QED BY <1>1, AccessInductive, PTL

\* Whatever times out, is mined late, is created by others or moved away, and
\* whatever earlier run the import resumes, a row reported as created, skipped
\* or resumed was on the chain with that owner and that URL.
THEOREM ReportsTrue == Spec => []ReportsAreTrue
<1>1. IInv => ReportsAreTrue
    BY DEF IInv, ImportInv
<1> QED BY <1>1, AccessInductive, PTL

\* For any number of threads, any lifetime and any size of the cache, what a
\* hit grants was permitted less than a lifetime ago, or was then held by a thread
\* that had read it, at whatever time, and was about to store it.
THEOREM GrantsRecent == Spec => GrantsAreRecent
<1>1. IInv => \A t \in Thread, k \in Pair : Hit(t, k) => since[k] < Ttl
    <2> SUFFICES ASSUME IInv, NEW k \in Pair, Fresh(k) PROVE since[k] < Ttl
        BY DEF Hit
    <2>1. CacheInv
        BY AccessAssumption DEF IInv, Fresh
    <2>2. age[k] \in 0..Ttl /\ since[k] \in 0..Ttl /\ since[k] <= age[k] /\ age[k] < Ttl
        BY <2>1 DEF CacheInv, Fresh
    <2> QED BY <2>2, CacheAssumption
<1>2. IInv => [\A t \in Thread, k \in Pair : Hit(t, k) => since[k] < Ttl]_<<permitted, cacheVars>>
    BY <1>1
<1> QED BY <1>2, AccessInductive, PTL DEF GrantsAreRecent

=============================================================================
