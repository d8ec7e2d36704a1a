---------------------------- MODULE Names_proofs ----------------------------
(***************************************************************************)
(* What Noid promises of its names, for every counter value, alphabet,     *)
(* length and prefix.  Recursion is dealt with by induction over sets of   *)
(* numbers: the recursive functions have values, digits tell numbers       *)
(* apart, and a sum changes by what its terms change.  That the check      *)
(* digit sees every slip is Euclid's lemma: a prime does not divide the    *)
(* product of two smaller numbers.                                         *)
(***************************************************************************)
EXTENDS Names, Reservation_proofs, WellFoundedInduction, SequenceTheorems

----------------------------------------------------------------------------
(* Induction *)

\* A set of numbers has a smallest one.
LEMMA Smallest ==
    ASSUME NEW S \in SUBSET Nat, S # {}
    PROVE  \E i \in S : \A j \in S : i <= j
<1> DEFINE Less == {r \in Nat \X Nat : r[1] < r[2]}
<1>1. IsWellFoundedOn(Less, Nat)
    BY NatLessThanWellFounded DEF OpToRel
<1>2. \E i \in S : \A j \in S : <<j, i>> \notin Less
    BY <1>1, WFMin
<1>3. \A i, j \in Nat : <<j, i>> \notin Less => i <= j
    OBVIOUS
<1> HIDE DEF Less
<1> QED BY <1>2, <1>3

\* A set that has a number whenever it has the smaller ones has them all.
LEMMA Induction ==
    ASSUME NEW S, \A n \in Nat : (\A m \in Nat : m < n => m \in S) => n \in S
    PROVE  \A n \in Nat : n \in S
<1> SUFFICES ASSUME Nat \ S # {} PROVE FALSE
    OBVIOUS
<1>1. PICK n \in Nat \ S : \A m \in Nat \ S : n <= m
    BY Smallest
<1>2. \A m \in Nat : m < n => m \in S
    BY <1>1
<1> QED BY <1>1, <1>2

----------------------------------------------------------------------------
(* Division *)

LEMMA Division ==
    ASSUME NEW n \in Nat
    PROVE  /\ n \div Base \in Nat /\ n % Base \in 0..Base-1
           /\ n = Base * (n \div Base) + (n % Base)
           /\ n >= Base => n \div Base < n /\ n \div Base > 0
<1>1. Base \in Nat /\ Base > 1
    BY NoidAssumption
<1>2. n \div Base \in Nat /\ n % Base \in 0..Base-1 /\ n = Base * (n \div Base) + (n % Base)
    BY <1>1
<1>3. ASSUME n >= Base PROVE n \div Base < n /\ n \div Base > 0
    <2> DEFINE q == n \div Base
    <2>1. q \in Nat /\ n = Base * q + (n % Base) /\ n % Base \in 0..Base-1
        BY <1>2
    <2> HIDE DEF q
    <2>2. q # 0
        BY <1>1, <1>3, <2>1
    <2>3. Base * q >= 2 * q
        BY <1>1, <2>1
    <2> QED BY <1>1, <2>1, <2>2, <2>3 DEF q
<1> QED BY <1>2, <1>3

\* Equal remainders: the difference is a multiple.
LEMMA SameRemainder ==
    ASSUME NEW x \in Nat, NEW y \in Nat, x % Base = y % Base
    PROVE  \E k \in Int : x - y = k * Base
<1>1. x = Base * (x \div Base) + (x % Base) /\ y = Base * (y \div Base) + (y % Base)
      /\ x \div Base \in Nat /\ y \div Base \in Nat /\ Base \in Nat
    BY Division, NoidAssumption
<1>2. x % Base \in Nat /\ y % Base \in Nat
    BY Division, NoidAssumption
<1> DEFINE p == x \div Base
           q == y \div Base
<1>3. p - q \in Int
    BY <1>1
<1>4. x - y = (p - q) * Base
    BY <1>1, <1>2
<1> QED BY <1>3, <1>4

LEMMA NotMultiple ==
    ASSUME NEW d \in Int, d # 0, d < Base, -d < Base, NEW k \in Int
    PROVE  d # k * Base
<1>1. Base \in Nat /\ Base > 1
    BY NoidAssumption
<1>2. CASE k = 0
    BY <1>1, <1>2
<1>3. CASE k >= 1
    <2>1. k * Base >= Base
        BY <1>1, <1>3
    <2> QED BY <2>1, <1>1
<1>4. CASE k <= -1
    <2>1. k * Base <= -Base
        BY <1>1, <1>4
    <2> QED BY <2>1, <1>1
<1> QED BY <1>2, <1>3, <1>4

\* Euclid's lemma, by descent: Base = q * a + r, so that a multiple a * b makes
\* r * b one, with r smaller than a.
LEMMA Euclid ==
    ASSUME NEW a \in 1..Base-1, NEW b \in 1..Base-1, NEW k \in Int
    PROVE  a * b # k * Base
<1> DEFINE S == {n \in Nat : n \in 1..Base-1 =>
                     \A c \in 1..Base-1, h \in Int : n * c # h * Base}
<1>0. Base \in Nat /\ Base > 1 /\ \A d \in 2..Base-1 : Base % d # 0
    BY NoidAssumption
<1>1. ASSUME NEW n \in Nat, \A m \in Nat : m < n => m \in S, n \in 1..Base-1,
             NEW c \in 1..Base-1, NEW h \in Int, n * c = h * Base
      PROVE  FALSE
    <2>1. CASE n = 1
        <3>1. c = h * Base
            BY <1>1, <2>1
        <3> QED BY <3>1, <1>0, NotMultiple
    <2>2. CASE n # 1
        <3> DEFINE q == Base \div n
                   r == Base % n
        <3>1. n \in 2..Base-1 /\ r # 0
            BY <1>0, <1>1, <2>2
        <3>2. q \in Int /\ r \in 0..n-1 /\ Base = n * q + r
            BY <1>0, <3>1
        <3> HIDE DEF q, r
        <3>3. r \in Nat /\ r < n /\ r \in 1..Base-1
            BY <3>1, <3>2, <1>0
        <3>4. r * c = Base * c - (n * q) * c
            BY <3>2, <1>0
        <3>5. (n * q) * c = q * (n * c)
            BY <3>2, <1>0
        <3>6. (n * q) * c = q * (h * Base)
            BY <3>5, <1>1
        <3>7. r * c = (c - q * h) * Base
            BY <3>4, <3>6, <3>2, <1>0
        <3>8. c - q * h \in Int
            BY <3>2
        <3>9. r \in S
            BY <3>3, <1>1
        <3> QED BY <3>3, <3>7, <3>8, <3>9
    <2> QED BY <2>1, <2>2
<1>2. \A n \in Nat : (\A m \in Nat : m < n => m \in S) => n \in S
    BY <1>1
<1> HIDE DEF S
<1>3. a \in S
    BY <1>2, <1>0, Induction
<1> QED BY <1>3 DEF S

----------------------------------------------------------------------------
(* Sums *)

\* g is the running sum of the first n terms.
Running(terms, n, g) ==
    g = [i \in 0..n |-> IF i = 0 THEN 0 ELSE g[i - 1] + terms[i]]

Sums(terms) == CHOOSE g : Running(terms, Len(terms), g)

LEMMA RunningExists ==
    ASSUME NEW terms, NEW n \in Nat
    PROVE  \E g : Running(terms, n, g)
<1> DEFINE S == {m \in Nat : \E g : Running(terms, m, g)}
<1>1. 0 \in S
    <2>1. Running(terms, 0, [i \in 0..0 |-> 0])
        BY DEF Running
    <2> QED BY <2>1
<1>2. ASSUME NEW m \in Nat, m > 0, m - 1 \in S PROVE m \in S
    <2>1. PICK g : Running(terms, m - 1, g)
        BY <1>2
    <2> DEFINE h == [i \in 0..m |-> IF i = m THEN g[m - 1] + terms[m] ELSE g[i]]
    <2>2. \A i \in 0..m-1 : g[i] = IF i = 0 THEN 0 ELSE g[i - 1] + terms[i]
        BY <2>1 DEF Running
    <2>3. ASSUME NEW i \in 0..m PROVE h[i] = IF i = 0 THEN 0 ELSE h[i - 1] + terms[i]
        <3>1. CASE i = m
            BY <3>1, <1>2
        <3>2. CASE i # m
            <4>1. i \in 0..m-1 /\ h[i] = g[i] /\ (i # 0 => i - 1 \in 0..m /\ i - 1 # m)
                BY <3>2, <1>2
            <4>2. i # 0 => h[i - 1] = g[i - 1]
                BY <4>1
            <4> HIDE DEF h
            <4> QED BY <4>1, <4>2, <2>2
        <3> QED BY <3>1, <3>2
    <2>4. h = [i \in 0..m |-> IF i = 0 THEN 0 ELSE h[i - 1] + terms[i]]
        <3>1. h = [i \in 0..m |-> h[i]]
            OBVIOUS
        <3> HIDE DEF h
        <3> QED BY <3>1, <2>3
    <2> HIDE DEF h
    <2> QED BY <2>4 DEF Running
<1>3. \A m \in Nat : (\A j \in Nat : j < m => j \in S) => m \in S
    BY <1>1, <1>2
<1> HIDE DEF S
<1>4. n \in S
    BY <1>3, Induction
<1> QED BY <1>4 DEF S

LEMMA TotalIsSum ==
    ASSUME NEW terms \in Seq(Nat)
    PROVE  /\ Total(terms) = Sums(terms)[Len(terms)]
           /\ Sums(terms)[0] = 0
           /\ \A i \in 1..Len(terms) : Sums(terms)[i] = Sums(terms)[i - 1] + terms[i]
           /\ \A i \in 0..Len(terms) : Sums(terms)[i] \in Nat
<1> DEFINE n == Len(terms)
           g == Sums(terms)
<1>1. n \in Nat /\ \A i \in 1..n : terms[i] \in Nat
    OBVIOUS
<1>2. Total(terms) = g[n]
    BY DEF Total, Sums, Running
<1>3. Running(terms, n, g)
    BY <1>1, RunningExists DEF Sums
<1> HIDE DEF g, n
<1>4. \A i \in 0..n : g[i] = IF i = 0 THEN 0 ELSE g[i - 1] + terms[i]
    BY <1>3 DEF Running
<1>5. g[0] = 0 /\ \A i \in 1..n : g[i] = g[i - 1] + terms[i]
    BY <1>1, <1>4
<1> DEFINE S == {i \in Nat : i <= n => g[i] \in Nat}
<1>6. \A i \in Nat : (\A j \in Nat : j < i => j \in S) => i \in S
    <2> SUFFICES ASSUME NEW i \in Nat, \A j \in Nat : j < i => j \in S, i <= n
                 PROVE  g[i] \in Nat
        OBVIOUS
    <2>1. CASE i = 0
        BY <2>1, <1>5
    <2>2. CASE i # 0
        <3>1. i \in 1..n /\ i - 1 \in Nat /\ i - 1 < i /\ i - 1 <= n
            BY <2>2, <1>1
        <3> QED BY <3>1, <1>1, <1>5, SMTT(30)
    <2> QED BY <2>1, <2>2
<1> HIDE DEF S
<1>7. \A i \in Nat : i \in S
    BY <1>6, Induction
<1>8. \A i \in 0..n : g[i] \in Nat
    BY <1>1, <1>7 DEF S
<1> QED BY <1>2, <1>5, <1>8 DEF g, n

\* A sum changes by what one of its terms changes.
LEMMA OneTerm ==
    ASSUME NEW t \in Seq(Nat), NEW u \in Seq(Nat), Len(u) = Len(t),
           NEW i \in 1..Len(t), \A j \in 1..Len(t) : j # i => u[j] = t[j]
    PROVE  Total(u) - Total(t) = u[i] - t[i]
<1> DEFINE n == Len(t)
           f == Sums(t)
           g == Sums(u)
           S == {j \in Nat : j <= n => g[j] - f[j] = IF j < i THEN 0 ELSE u[i] - t[i]}
<1>1. n \in Nat /\ Len(u) = n /\ i \in 1..n /\ \A j \in 1..n : t[j] \in Nat /\ u[j] \in Nat
    OBVIOUS
<1>2. /\ Total(t) = f[n] /\ f[0] = 0
      /\ \A j \in 1..n : f[j] = f[j - 1] + t[j]
      /\ \A j \in 0..n : f[j] \in Nat
    BY TotalIsSum
<1>3. /\ Total(u) = g[n] /\ g[0] = 0
      /\ \A j \in 1..n : g[j] = g[j - 1] + u[j]
      /\ \A j \in 0..n : g[j] \in Nat
    BY TotalIsSum
<1> HIDE DEF n, f, g
<1>4. \A j \in Nat : (\A m \in Nat : m < j => m \in S) => j \in S
    <2> SUFFICES ASSUME NEW j \in Nat, \A m \in Nat : m < j => m \in S, j <= n
                 PROVE  g[j] - f[j] = IF j < i THEN 0 ELSE u[i] - t[i]
        OBVIOUS
    <2>1. CASE j = 0
        BY <2>1, <1>1, <1>2, <1>3
    <2>2. CASE j # 0
        <3>1. j \in 1..n /\ j - 1 \in 0..n /\ j - 1 \in Nat /\ j - 1 < j /\ j - 1 <= n
            BY <2>2, <1>1
        <3>2. g[j - 1] - f[j - 1] = IF j - 1 < i THEN 0 ELSE u[i] - t[i]
            BY <3>1
        <3>3. /\ f[j] = f[j - 1] + t[j] /\ g[j] = g[j - 1] + u[j]
              /\ f[j - 1] \in Nat /\ g[j - 1] \in Nat /\ t[j] \in Nat /\ u[j] \in Nat
              /\ t[i] \in Nat /\ u[i] \in Nat /\ i \in Nat
            BY <3>1, <1>1, <1>2, <1>3
        <3>4. CASE j = i
            BY <3>2, <3>3, <3>4, SMTT(30)
        <3>5. CASE j # i
            <4>1. u[j] = t[j]
                BY <3>1, <3>5 DEF n
            <4>2. j - 1 < i <=> j < i
                BY <3>1, <3>3, <3>5
            <4> QED BY <3>2, <3>3, <4>1, <4>2, SMTT(30)
        <3> QED BY <3>4, <3>5
    <2> QED BY <2>1, <2>2
<1> HIDE DEF S
<1>5. n \in S
    BY <1>1, <1>4, Induction
<1> QED BY <1>1, <1>2, <1>3, <1>5 DEF S

----------------------------------------------------------------------------
(* Digits *)

Code == 0..Base-1

\* g has the digits of the numbers up to N.
DigitsUpTo(N, g) ==
    g = [n \in 0..N |-> IF n < Base THEN <<n>> ELSE Append(g[n \div Base], n % Base)]

LEMMA DigitsExist ==
    ASSUME NEW N \in Nat
    PROVE  \E g : DigitsUpTo(N, g)
<1> DEFINE S == {m \in Nat : \E g : DigitsUpTo(m, g)}
<1>0. Base \in Nat /\ Base > 1
    BY NoidAssumption
<1>1. 0 \in S
    <2>1. DigitsUpTo(0, [i \in 0..0 |-> <<i>>])
        BY <1>0 DEF DigitsUpTo
    <2> QED BY <2>1
<1>2. ASSUME NEW m \in Nat, m > 0, m - 1 \in S PROVE m \in S
    <2>1. PICK g : DigitsUpTo(m - 1, g)
        BY <1>2
    <2> DEFINE last == IF m < Base THEN <<m>> ELSE Append(g[m \div Base], m % Base)
               h == [n \in 0..m |-> IF n = m THEN last ELSE g[n]]
    <2>2. \A n \in 0..m-1 :
             g[n] = IF n < Base THEN <<n>> ELSE Append(g[n \div Base], n % Base)
        BY <2>1 DEF DigitsUpTo
    <2>3. ASSUME NEW n \in 0..m
          PROVE  h[n] = IF n < Base THEN <<n>> ELSE Append(h[n \div Base], n % Base)
        <3>1. n >= Base => n \div Base \in Nat /\ n \div Base < n
            BY Division
        <3>2. n >= Base => n \div Base \in 0..m /\ n \div Base # m
            BY <3>1, <1>2
        <3>3. n >= Base => h[n \div Base] = g[n \div Base]
            BY <3>2
        <3>4. CASE n = m
            <4>1. h[n] = last
                BY <3>4
            <4> HIDE DEF h
            <4> QED BY <3>3, <3>4, <4>1, <1>0
        <3>5. CASE n # m
            <4>1. n \in 0..m-1 /\ h[n] = g[n]
                BY <3>5, <1>2
            <4> HIDE DEF h
            <4> QED BY <3>3, <4>1, <2>2, <1>0
        <3> QED BY <3>4, <3>5
    <2>4. h = [n \in 0..m |-> h[n]]
        OBVIOUS
    <2> HIDE DEF h, last
    <2>5. DigitsUpTo(m, h)
        BY <2>3, <2>4 DEF DigitsUpTo
    <2> QED BY <2>5
<1>3. \A m \in Nat : (\A j \in Nat : j < m => j \in S) => m \in S
    BY <1>1, <1>2
<1> HIDE DEF S
<1>4. N \in S
    BY <1>3, Induction
<1> QED BY <1>4 DEF S

LEMMA DigitsUnique ==
    ASSUME NEW N \in Nat, NEW g, DigitsUpTo(N, g),
           NEW M \in Nat, NEW h, DigitsUpTo(M, h),
           NEW n \in Nat, n <= N, n <= M
    PROVE  g[n] = h[n]
<1> DEFINE S == {m \in Nat : m <= N /\ m <= M => g[m] = h[m]}
<1>1. \A m \in Nat : (\A j \in Nat : j < m => j \in S) => m \in S
    <2> SUFFICES ASSUME NEW m \in Nat, \A j \in Nat : j < m => j \in S, m <= N, m <= M
                 PROVE  g[m] = h[m]
        OBVIOUS
    <2>1. /\ g[m] = IF m < Base THEN <<m>> ELSE Append(g[m \div Base], m % Base)
          /\ h[m] = IF m < Base THEN <<m>> ELSE Append(h[m \div Base], m % Base)
        <3>1. m \in 0..N /\ m \in 0..M
            OBVIOUS
        <3> QED BY <3>1 DEF DigitsUpTo
    <2>2. m >= Base => m \div Base \in Nat /\ m \div Base < m
        BY Division
    <2>3. m >= Base => g[m \div Base] = h[m \div Base]
        BY <2>2
    <2> QED BY <2>1, <2>3, NoidAssumption
<1> HIDE DEF S
<1>2. n \in S
    BY <1>1, Induction
<1> QED BY <1>2 DEF S

LEMMA DigitsOf ==
    ASSUME NEW n \in Nat
    PROVE  Digits[n] = IF n < Base THEN <<n>> ELSE Append(Digits[n \div Base], n % Base)
<1> DEFINE G(m) == CHOOSE g : DigitsUpTo(m, g)
           F == [m \in Nat |-> G(m)[m]]
           Good(D) == D = [m \in Nat |->
                             IF m < Base THEN <<m>> ELSE Append(D[m \div Base], m % Base)]
<1>1. \A m \in Nat : DigitsUpTo(m, G(m))
    BY DigitsExist
<1> HIDE DEF G
<1>2. ASSUME NEW m \in Nat
      PROVE  F[m] = IF m < Base THEN <<m>> ELSE Append(F[m \div Base], m % Base)
    <2>1. m \in 0..m /\ DigitsUpTo(m, G(m))
        BY <1>1
    <2>2. G(m)[m] = IF m < Base THEN <<m>> ELSE Append(G(m)[m \div Base], m % Base)
        BY <2>1 DEF DigitsUpTo
    <2>3. ASSUME m >= Base PROVE G(m)[m \div Base] = F[m \div Base]
        <3> DEFINE q == m \div Base
        <3>1. q \in Nat /\ q <= m /\ q <= q
            BY <2>3, Division
        <3> HIDE DEF q
        <3>2. G(m)[q] = G(q)[q]
            BY <3>1, <1>1, DigitsUnique
        <3> QED BY <3>1, <3>2 DEF q
    <2>4. F[m] = G(m)[m]
        OBVIOUS
    <2> HIDE DEF F
    <2> QED BY <2>2, <2>3, <2>4, NoidAssumption
<1>3. F = [m \in Nat |-> F[m]]
    OBVIOUS
<1> HIDE DEF F
<1>4. Good(F)
    BY <1>2, <1>3
<1>5. Digits = CHOOSE D : Good(D)
    BY DEF Digits
<1> HIDE DEF Good
<1>6. Good(Digits)
    BY <1>4, <1>5
<1> QED BY <1>6 DEF Good

\* Digits are digits, and the first one is not 0.
LEMMA DigitsType ==
    ASSUME NEW n \in Nat
    PROVE  /\ Digits[n] \in Seq(Code) /\ Digits[n] # <<>>
           /\ n > 0 => Digits[n][1] # 0
<1> DEFINE S == {m \in Nat : /\ Digits[m] \in Seq(Code) /\ Len(Digits[m]) > 0
                             /\ m > 0 => Digits[m][1] # 0}
<1>0. Base \in Nat /\ Base > 1
    BY NoidAssumption
<1>1. ASSUME NEW m \in Nat, \A j \in Nat : j < m => j \in S
      PROVE  m \in S
    <2>3. Digits[m] = IF m < Base THEN <<m>> ELSE Append(Digits[m \div Base], m % Base)
        BY DigitsOf
    <2>1. CASE m < Base
        <3>1. Digits[m] = <<m>>
            BY <2>1, <2>3
        <3>2. m \in Code
            BY <2>1, <1>0 DEF Code
        <3>3. <<m>> \in Seq(Code) /\ Len(<<m>>) = 1 /\ <<m>>[1] = m
            BY <3>2
        <3>4. Digits[m] \in Seq(Code) /\ Len(Digits[m]) = 1 /\ Digits[m][1] = m
            BY <3>1, <3>3
        <3> QED BY <3>4
    <2>2. CASE m >= Base
        <3> DEFINE q == m \div Base
                   d == Digits[q]
        <3>1. q \in Nat /\ q < m /\ q > 0 /\ m % Base \in Code
            BY <2>2, Division DEF Code
        <3>2. Digits[m] = Append(d, m % Base)
            <4>1. ~(m < Base)
                BY <2>2, <1>0
            <4> QED BY <2>3, <4>1
        <3>3. q \in S
            BY <3>1, <1>1
        <3>4. d \in Seq(Code) /\ Len(d) > 0 /\ d[1] # 0
            BY <3>1, <3>3
        <3> HIDE DEF d
        <3>5. Digits[m] \in Seq(Code) /\ Len(Digits[m]) = Len(d) + 1 /\ Digits[m][1] = d[1]
            BY <3>1, <3>2, <3>4
        <3> QED BY <3>4, <3>5
    <2> QED BY <2>1, <2>2, <1>0
<1> HIDE DEF S
<1>2. n \in S
    BY <1>1, Induction
<1> QED BY <1>2 DEF S

Padded(k, n) == Zeros(k) \o Digits[n]

LEMMA ZerosType ==
    ASSUME NEW k \in Nat
    PROVE  Zeros(k) \in Seq(Code) /\ Len(Zeros(k)) = k /\ \A i \in 1..k : Zeros(k)[i] = 0
<1>1. 0 \in Code
    BY NoidAssumption DEF Code
<1> QED BY <1>1 DEF Zeros

Front(k, n) == IF n < Base THEN Zeros(k) ELSE Padded(k, n \div Base)

LEMMA PaddedType ==
    ASSUME NEW k \in Nat, NEW n \in Nat
    PROVE  Padded(k, n) \in Seq(Code)
    BY ZerosType, DigitsType, ConcatProperties DEF Padded

\* The last character is the last digit, and what precedes it is padded too.
LEMMA PaddedLast ==
    ASSUME NEW k \in Nat, NEW n \in Nat
    PROVE  /\ Front(k, n) \in Seq(Code) /\ n % Base \in Code
           /\ Padded(k, n) = Append(Front(k, n), n % Base)
<1>0. Base \in Nat /\ Base > 1
    BY NoidAssumption
<1> DEFINE c == n % Base
<1>1. c \in Code /\ n \div Base \in Nat
    BY Division DEF Code
<1>2. CASE n < Base
    <2>1. ~(n >= Base) /\ c = n
        BY <1>0, <1>2
    <2> HIDE DEF c
    <2>2. Digits[n] = <<c>>
        <3>1. Digits[n] = IF n < Base THEN <<n>> ELSE Append(Digits[n \div Base], n % Base)
            BY DigitsOf
        <3> QED BY <2>1, <3>1, <1>2
    <2>3. Append(Zeros(k), c) = Zeros(k) \o <<c>>
        BY <1>1, ZerosType, AppendIsConcat
    <2>4. Front(k, n) = Zeros(k)
        BY <1>2 DEF Front
    <2>5. Zeros(k) \in Seq(Code)
        BY ZerosType
    <2>6. Padded(k, n) = Append(Front(k, n), c)
        BY <2>2, <2>3, <2>4 DEF Padded
    <2> QED BY <1>1, <2>4, <2>5, <2>6 DEF c
<1>3. CASE ~(n < Base)
    <2> DEFINE d == Digits[n \div Base]
    <2>2. Digits[n] = Append(d, c)
        <3>1. Digits[n] = IF n < Base THEN <<n>> ELSE Append(Digits[n \div Base], n % Base)
            BY DigitsOf
        <3> QED BY <1>3, <3>1
    <2>3. d \in Seq(Code) /\ Zeros(k) \in Seq(Code) /\ <<c>> \in Seq(Code)
        BY <1>1, DigitsType, ZerosType
    <2> HIDE DEF d, c
    <2>4. Zeros(k) \o (d \o <<c>>) = (Zeros(k) \o d) \o <<c>>
        BY <2>3, ConcatAssociative
    <2>5. Append(d, c) = d \o <<c>>
        BY <1>1, <2>3, AppendIsConcat
    <2>6. Zeros(k) \o d \in Seq(Code)
        BY <2>3, ConcatProperties
    <2>7. Append(Zeros(k) \o d, c) = (Zeros(k) \o d) \o <<c>>
        BY <1>1, <2>6, AppendIsConcat
    <2>8. Front(k, n) = Zeros(k) \o d
        BY <1>3 DEF Front, Padded, d
    <2>9. Padded(k, n) = Append(Front(k, n), c)
        BY <2>2, <2>4, <2>5, <2>7, <2>8 DEF Padded
    <2> QED BY <1>1, <2>6, <2>8, <2>9 DEF c
<1> QED BY <1>2, <1>3

\* Zeros only are no padded number but 0.
LEMMA NotZeros ==
    ASSUME NEW k \in Nat, NEW j \in Nat, NEW m \in Nat, m > 0
    PROVE  Zeros(k) # Padded(j, m)
<1> DEFINE d == Digits[m]
<1>1. d \in Seq(Code) /\ Len(d) \in Nat /\ Len(d) > 0 /\ d[1] # 0
    BY DigitsType
<1> HIDE DEF d
<1>2. /\ Len(Zeros(j) \o d) = j + Len(d)
      /\ (Zeros(j) \o d)[j + 1] = d[1]
    <2>1. Len(Zeros(j) \o d) = Len(Zeros(j)) + Len(d)
          /\ \A i \in 1..Len(Zeros(j)) + Len(d) :
                (Zeros(j) \o d)[i] = IF i <= Len(Zeros(j)) THEN Zeros(j)[i] ELSE d[i - Len(Zeros(j))]
        BY <1>1, ZerosType, ConcatProperties
    <2>2. j + 1 \in 1..j + Len(d) /\ ~(j + 1 <= j) /\ (j + 1) - j = 1 /\ Len(Zeros(j)) = j
        BY <1>1, ZerosType, SMTT(30)
    <2> QED BY <2>1, <2>2
<1>3. ASSUME Zeros(k) = Zeros(j) \o d PROVE FALSE
    <2>1. k = j + Len(d) /\ Zeros(k)[j + 1] = d[1]
        BY <1>2, <1>3, ZerosType
    <2>2. j + 1 \in 1..k
        BY <1>1, <2>1
    <2> QED BY <1>1, <2>1, <2>2, ZerosType
<1> QED BY <1>3 DEF Padded, d

\* Padding does not make two numbers look the same.
LEMMA PaddedDiffer ==
    ASSUME NEW k \in Nat, NEW n \in Nat, NEW j \in Nat, NEW m \in Nat,
           Padded(k, n) = Padded(j, m)
    PROVE  n = m
<1> DEFINE S == {x \in Nat : \A y, h, i \in Nat : Padded(h, x) = Padded(i, y) => x = y}
<1>0. Base \in Nat /\ Base > 1
    BY NoidAssumption
<1>1. ASSUME NEW x \in Nat, \A z \in Nat : z < x => z \in S,
             NEW y \in Nat, NEW h \in Nat, NEW i \in Nat, Padded(h, x) = Padded(i, y)
      PROVE  x = y
    <2> DEFINE c == x % Base
               e == y % Base
    <2>1. Front(h, x) = Front(i, y) /\ c = e
        <3>1. /\ Front(h, x) \in Seq(Code) /\ c \in Code /\ Padded(h, x) = Append(Front(h, x), c)
              /\ Front(i, y) \in Seq(Code) /\ e \in Code /\ Padded(i, y) = Append(Front(i, y), e)
            BY PaddedLast
        <3> HIDE DEF c, e
        <3>2. Append(Front(h, x), c) = Append(Front(i, y), e)
            BY <1>1, <3>1
        <3> QED BY <3>1, <3>2, AppendInjective
    <2> HIDE DEF c, e
    <2>2. /\ x \div Base \in Nat /\ x = Base * (x \div Base) + c /\ c \in Nat
          /\ x >= Base => x \div Base < x /\ x \div Base > 0
        BY Division, <1>0, SMTT(30) DEF c
    <2>3. /\ y \div Base \in Nat /\ y = Base * (y \div Base) + e /\ e \in Nat
          /\ y >= Base => y \div Base < y /\ y \div Base > 0
        BY Division, <1>0 DEF e
    <2>4. CASE x < Base /\ y < Base
        BY <2>1, <2>4, <1>0 DEF c, e
    <2>5. CASE x < Base /\ y >= Base
        <3>1. Zeros(h) = Padded(i, y \div Base)
            BY <1>0, <2>1, <2>5 DEF Front
        <3> QED BY <3>1, <2>3, <2>5, NotZeros
    <2>6. CASE x >= Base /\ y < Base
        <3>1. Zeros(i) = Padded(h, x \div Base)
            BY <1>0, <2>1, <2>6 DEF Front
        <3> QED BY <3>1, <2>2, <2>6, NotZeros
    <2>7. CASE x >= Base /\ y >= Base
        <3>1. Padded(h, x \div Base) = Padded(i, y \div Base)
            BY <1>0, <2>1, <2>7 DEF Front
        <3>2. x \div Base \in S
            BY <2>2, <2>7, <1>1
        <3>3. x \div Base = y \div Base
            BY <3>1, <3>2, <2>2, <2>3
        <3> QED BY <3>3, <2>1, <2>2, <2>3
    <2> QED BY <2>4, <2>5, <2>6, <2>7, <1>0
<1>2. \A x \in Nat : (\A z \in Nat : z < x => z \in S) => x \in S
    BY <1>1
<1> HIDE DEF S
<1>3. n \in S
    BY <1>2, Induction
<1> QED BY <1>3 DEF S

LEMMA EncodedIsPadded ==
    ASSUME NEW n \in Nat
    PROVE  /\ \E k \in Nat : EncodeCounter(n) = Padded(k, n)
           /\ EncodeCounter(n) \in Seq(Code) /\ EncodeCounter(n) # <<>>
<1>1. Digits[n] \in Seq(Code) /\ Digits[n] # <<>> /\ Len(Digits[n]) \in Nat
    BY DigitsType
<1>2. Zeros(0) = <<>>
    <2>1. Zeros(0) \in Seq(Code) /\ Len(Zeros(0)) = 0
        BY ZerosType
    <2> QED BY <2>1
<1>3. \A k \in Nat : Padded(k, n) \in Seq(Code) /\ Padded(k, n) # <<>>
    <2> SUFFICES ASSUME NEW k \in Nat
                 PROVE  Padded(k, n) \in Seq(Code) /\ Padded(k, n) # <<>>
        OBVIOUS
    <2> QED BY <1>1, ZerosType, PaddedType, ConcatEqualIffEmpty DEF Padded
<1>4. CASE Len(Digits[n]) < MinLength
    <2>1. MinLength - Len(Digits[n]) \in Nat
        BY <1>1, <1>4, NoidAssumption
    <2>2. EncodeCounter(n) = Padded(MinLength - Len(Digits[n]), n)
        BY <1>4 DEF EncodeCounter, Padded
    <2> QED BY <1>3, <2>1, <2>2
<1>5. CASE ~(Len(Digits[n]) < MinLength)
    <2>1. EncodeCounter(n) = Digits[n] /\ Digits[n] = <<>> \o Digits[n]
        BY <1>1, <1>5, ConcatEmptySeq DEF EncodeCounter
    <2>2. EncodeCounter(n) = Padded(0, n)
        BY <1>2, <2>1 DEF Padded
    <2> QED BY <1>3, <2>2
<1> QED BY <1>4, <1>5

----------------------------------------------------------------------------
(* Check digits *)

Weighted(payload) == [i \in DOMAIN payload |-> payload[i] * i]

LEMMA WeightedType ==
    ASSUME NEW p \in Seq(Code)
    PROVE  /\ Weighted(p) \in Seq(Nat) /\ Len(Weighted(p)) = Len(p)
           /\ \A i \in 1..Len(p) : Weighted(p)[i] = p[i] * i
           /\ Total(Weighted(p)) \in Nat
           /\ ComputeCheckdigit(p) = Total(Weighted(p)) % Base
           /\ ComputeCheckdigit(p) \in Code
<1>1. Len(p) \in Nat /\ DOMAIN p = 1..Len(p) /\ \A i \in 1..Len(p) : p[i] \in Nat
    BY NoidAssumption DEF Code
<1>2. Weighted(p) = [i \in 1..Len(p) |-> p[i] * i]
    BY <1>1 DEF Weighted
<1>3. \A i \in 1..Len(p) : p[i] * i \in Nat
    BY <1>1
<1>4. Weighted(p) \in Seq(Nat) /\ Len(Weighted(p)) = Len(p)
    BY <1>1, <1>2, <1>3
<1>5. Total(Weighted(p)) \in Nat
    BY <1>4, <1>1, TotalIsSum, SMTT(30)
<1> QED BY <1>2, <1>4, <1>5, Division DEF ComputeCheckdigit, Weighted, Code

\* A payload that differs in one character, not too far from its start, has
\* another check digit.
LEMMA OneMistake ==
    ASSUME NEW p \in Seq(Code), NEW q \in Seq(Code), Len(q) = Len(p), Len(p) < Base,
           NEW i \in 1..Len(p), q[i] # p[i],
           \A j \in 1..Len(p) : j # i => q[j] = p[j]
    PROVE  ComputeCheckdigit(q) # ComputeCheckdigit(p)
<1> DEFINE t == Weighted(p)
           u == Weighted(q)
<1>1. /\ Base \in Nat /\ i \in 1..Base-1 /\ Len(p) \in Nat
      /\ p[i] \in 0..Base-1 /\ q[i] \in 0..Base-1
    BY NoidAssumption DEF Code
<1>2. /\ t \in Seq(Nat) /\ Len(t) = Len(p) /\ \A j \in 1..Len(p) : t[j] = p[j] * j
      /\ u \in Seq(Nat) /\ Len(u) = Len(p) /\ \A j \in 1..Len(p) : u[j] = q[j] * j
      /\ Total(t) \in Nat /\ Total(u) \in Nat
      /\ ComputeCheckdigit(p) = Total(t) % Base /\ ComputeCheckdigit(q) = Total(u) % Base
    BY WeightedType
<1> HIDE DEF t, u
<1>3. Total(u) - Total(t) = u[i] - t[i]
    <2>1. i \in 1..Len(t) /\ Len(u) = Len(t) /\ \A j \in 1..Len(t) : j # i => u[j] = t[j]
        BY <1>2
    <2> QED BY <1>2, <2>1, OneTerm
<1>4. Total(u) - Total(t) = q[i] * i - p[i] * i
    BY <1>2, <1>3
<1>5. ASSUME Total(u) % Base = Total(t) % Base PROVE FALSE
    <2>1. PICK k \in Int : Total(u) - Total(t) = k * Base
        BY <1>2, <1>5, SameRemainder
    <2>2. CASE q[i] > p[i]
        <3>1. q[i] - p[i] \in 1..Base-1 /\ (q[i] - p[i]) * i = k * Base
            BY <1>1, <1>4, <2>1, <2>2, SMTT(30)
        <3> QED BY <3>1, <1>1, Euclid
    <2>3. CASE q[i] < p[i]
        <3>1. p[i] - q[i] \in 1..Base-1 /\ -k \in Int
            BY <1>1, <2>3
        <3>2. (p[i] - q[i]) * i = p[i] * i - q[i] * i
            BY <1>1
        <3>3. (-k) * Base = -(k * Base)
            BY <1>1
        <3>4. p[i] * i \in Int /\ q[i] * i \in Int /\ k * Base \in Int
            BY <1>1
        <3>5. p[i] * i - q[i] * i = -(k * Base)
            BY <1>4, <2>1, <3>4
        <3>6. (p[i] - q[i]) * i = (-k) * Base
            BY <3>2, <3>3, <3>5
        <3> QED BY <3>1, <3>6, <1>1, Euclid
    <2> QED BY <1>1, <2>2, <2>3
<1> QED BY <1>2, <1>5

LEMMA NextMultiple ==
    ASSUME NEW x \in Int, NEW i \in Int
    PROVE  x * i \in Int /\ x * (i + 1) = x * i + x
    OBVIOUS

\* Two different neighbours that are swapped change the sum by their difference.
LEMMA NeighboursSwapped ==
    ASSUME NEW p \in Seq(Code), NEW q \in Seq(Code), Len(q) = Len(p),
           NEW i \in 1..Len(p), i + 1 \in 1..Len(p),
           q[i] = p[i + 1], q[i + 1] = p[i], p[i] # p[i + 1],
           \A j \in 1..Len(p) : j # i /\ j # i + 1 => q[j] = p[j]
    PROVE  ComputeCheckdigit(q) # ComputeCheckdigit(p)
<1> DEFINE m == [p EXCEPT ![i] = p[i + 1]]
           x == p[i]
           y == p[i + 1]
           t == Weighted(p)
           v == Weighted(m)
           u == Weighted(q)
<1>1. Base \in Nat /\ i \in Nat /\ Len(p) \in Nat /\ x \in 0..Base-1 /\ y \in 0..Base-1
    BY NoidAssumption, SMTT(30) DEF Code
<1>2. /\ m \in Seq(Code) /\ Len(m) = Len(p)
      /\ \A j \in 1..Len(p) : m[j] = IF j = i THEN y ELSE p[j]
    BY <1>1, SMTT(30) DEF Code
<1> HIDE DEF m
<1>3. /\ t \in Seq(Nat) /\ Len(t) = Len(p) /\ \A j \in 1..Len(p) : t[j] = p[j] * j
      /\ Total(t) \in Nat /\ ComputeCheckdigit(p) = Total(t) % Base
    BY WeightedType
<1>4. /\ v \in Seq(Nat) /\ Len(v) = Len(p) /\ \A j \in 1..Len(p) : v[j] = m[j] * j
      /\ Total(v) \in Nat
    BY <1>2, WeightedType
<1>5. /\ u \in Seq(Nat) /\ Len(u) = Len(p) /\ \A j \in 1..Len(p) : u[j] = q[j] * j
      /\ Total(u) \in Nat /\ ComputeCheckdigit(q) = Total(u) % Base
    BY WeightedType
<1> HIDE DEF t, u, v
<1>6. Total(v) - Total(t) = y * i - x * i
    <2>1. \A j \in 1..Len(t) : j # i => v[j] = t[j]
        BY <1>2, <1>3, <1>4
    <2>2. Total(v) - Total(t) = v[i] - t[i]
        BY <1>3, <1>4, <2>1, OneTerm
    <2> QED BY <1>2, <1>3, <1>4, <2>2
<1>7. Total(u) - Total(v) = x * (i + 1) - y * (i + 1)
    <2>1. \A j \in 1..Len(v) : j # i + 1 => u[j] = v[j]
        BY <1>2, <1>4, <1>5
    <2>2. Total(u) - Total(v) = u[i + 1] - v[i + 1]
        BY <1>4, <1>5, <2>1, OneTerm
    <2>3. i + 1 # i
        BY <1>1
    <2> QED BY <1>2, <1>4, <1>5, <2>2, <2>3
<1>8. Total(u) - Total(t) = x - y
    <2> DEFINE xi == x * i
               yi == y * i
               xj == x * (i + 1)
               yj == y * (i + 1)
    <2>1. x \in Int /\ y \in Int /\ i \in Int
        BY <1>1
    <2>2. xi \in Int /\ yi \in Int /\ xj = xi + x /\ yj = yi + y
        <3> HIDE DEF x, y
        <3> QED BY <2>1, NextMultiple
    <2>3. Total(v) - Total(t) = yi - xi /\ Total(u) - Total(v) = xj - yj
        BY <1>6, <1>7
    <2>4. Total(t) \in Int /\ Total(v) \in Int /\ Total(u) \in Int
        BY <1>3, <1>4, <1>5
    <2> HIDE DEF x, y, xi, yi, xj, yj
    <2> QED BY <2>1, <2>2, <2>3, <2>4, SMTT(60)
<1>9. ASSUME Total(u) % Base = Total(t) % Base PROVE FALSE
    <2>1. PICK k \in Int : x - y = k * Base
        BY <1>3, <1>5, <1>8, <1>9, SameRemainder
    <2>2. x - y # 0 /\ x - y < Base /\ -(x - y) < Base /\ x - y \in Int
        BY <1>1
    <2> HIDE DEF x, y
    <2> QED BY <2>1, <2>2, NotMultiple
<1> QED BY <1>3, <1>5, <1>9

LEMMA ValidStem ==
    ASSUME NEW stem \in Seq(Code), NEW c \in Code
    PROVE  ValidateNameCheckdigit(Append(stem, c)) <=> c = ComputeCheckdigit(Prefix \o stem)
<1> DEFINE name == Append(stem, c)
<1>1. /\ name \in Seq(Code) /\ name # <<>> /\ Len(name) = Len(stem) + 1
      /\ name[Len(name)] = c /\ Len(stem) \in Nat
      /\ \A i \in 1..Len(stem) : name[i] = stem[i]
    BY AppendProperties
<1> HIDE DEF name
<1>2. SubSeq(name, 1, Len(name) - 1) = stem
    <2> DEFINE s == SubSeq(name, 1, Len(stem))
    <2>1. Len(name) - 1 = Len(stem) /\ \A i \in 1..Len(stem) : name[i] \in Code
        BY <1>1
    <2>2. /\ s \in Seq(Code) /\ Len(s) = Len(stem)
          /\ \A i \in 1..Len(stem) : s[i] = name[i]
        BY <1>1, <2>1
    <2> HIDE DEF s
    <2>3. s = stem
        BY <1>1, <2>2, SeqEqual
    <2> QED BY <2>1, <2>3 DEF s
<1> QED BY <1>1, <1>2 DEF ValidateNameCheckdigit, name

\* What the prefix adds to a stem: the same characters, further on.
LEMMA Prefixed ==
    ASSUME NEW stem \in Seq(Code)
    PROVE  /\ Prefix \o stem \in Seq(Code)
           /\ Len(Prefix \o stem) = Len(Prefix) + Len(stem) /\ Len(Prefix) \in Nat
           /\ \A i \in 1..Len(Prefix) : (Prefix \o stem)[i] = Prefix[i]
           /\ \A i \in 1..Len(stem) : (Prefix \o stem)[Len(Prefix) + i] = stem[i]
<1>1. Prefix \in Seq(Code) /\ Len(Prefix) \in Nat /\ Len(stem) \in Nat
    BY NoidAssumption DEF Code
<1>2. /\ Prefix \o stem \in Seq(Code) /\ Len(Prefix \o stem) = Len(Prefix) + Len(stem)
      /\ \A i \in 1..Len(Prefix) + Len(stem) :
            (Prefix \o stem)[i] = IF i <= Len(Prefix) THEN Prefix[i] ELSE stem[i - Len(Prefix)]
    BY <1>1, ConcatProperties
<1>3. ASSUME NEW i \in 1..Len(stem) PROVE (Prefix \o stem)[Len(Prefix) + i] = stem[i]
    <2>1. /\ Len(Prefix) + i \in 1..Len(Prefix) + Len(stem)
          /\ ~(Len(Prefix) + i <= Len(Prefix)) /\ (Len(Prefix) + i) - Len(Prefix) = i
        BY <1>1
    <2> QED BY <1>2, <2>1
<1>4. \A i \in 1..Len(Prefix) : i \in 1..Len(Prefix) + Len(stem) /\ i <= Len(Prefix)
    BY <1>1
<1> QED BY <1>1, <1>2, <1>3, <1>4

\* A minted name, and the parts of it that a reader may get wrong.
LEMMA MintedName ==
    ASSUME NEW n \in Nat
    PROVE  /\ EncodeCounter(n) \in Seq(Code) /\ Len(EncodeCounter(n)) \in Nat
           /\ ComputeCheckdigit(Prefix \o EncodeCounter(n)) \in Code
           /\ Len(MintArkId(n)) = Len(EncodeCounter(n)) + 1
           /\ ValidateNameCheckdigit(MintArkId(n))
<1> DEFINE stem == EncodeCounter(n)
           c == ComputeCheckdigit(Prefix \o stem)
<1>1. stem \in Seq(Code) /\ Len(stem) \in Nat
    BY EncodedIsPadded, PaddedType
<1>2. MintArkId(n) = Append(stem, c)
    BY DEF MintArkId
<1> HIDE DEF stem
<1>3. Prefix \o stem \in Seq(Code)
    BY <1>1, Prefixed
<1>4. c \in Code
    BY <1>3, WeightedType, NoidAssumption DEF Code
<1>5. ValidateNameCheckdigit(Append(stem, c)) /\ Len(Append(stem, c)) = Len(stem) + 1
    BY <1>1, <1>4, ValidStem, AppendProperties
<1> QED BY <1>1, <1>2, <1>4, <1>5 DEF stem

LEMMA MistakeSeen ==
    ASSUME NEW stem \in Seq(Code), NEW c \in Code, c = ComputeCheckdigit(Prefix \o stem),
           Len(Prefix) + Len(stem) + 1 <= Base,
           NEW typo \in Mistaken(Append(stem, c))
    PROVE  ~ValidateNameCheckdigit(typo)
<1> DEFINE name == Append(stem, c)
           n == Len(stem)
<1>1. /\ name \in Seq(Code) /\ Len(name) = n + 1 /\ name[n + 1] = c /\ n \in Nat
      /\ \A j \in 1..n : name[j] = stem[j]
    BY AppendProperties
<1>2. PICK i \in 1..n+1, x \in Code : typo = [name EXCEPT ![i] = x] /\ typo # name
    BY <1>1 DEF Mistaken, Code
<1> HIDE DEF name
<1>3. /\ typo \in Seq(Code) /\ Len(typo) = n + 1
      /\ \A j \in 1..n+1 : typo[j] = IF j = i THEN x ELSE name[j]
    BY <1>1, <1>2, ExceptSeq
<1>4. x # name[i]
    <2>1. x = name[i] => typo = name
        BY <1>1, <1>2
    <2> QED BY <1>2, <2>1
<1>5. CASE i = n + 1
    <2>1. x # c
        BY <1>1, <1>4, <1>5
    <2>2. typo = Append(stem, x)
        <3>1. /\ Append(stem, x) \in Seq(Code) /\ Len(Append(stem, x)) = n + 1
              /\ \A j \in 1..n : Append(stem, x)[j] = stem[j]
              /\ Append(stem, x)[n + 1] = x
            BY AppendProperties
        <3>2. \A j \in 1..n+1 : typo[j] = Append(stem, x)[j]
            BY <1>1, <1>3, <1>5, <3>1
        <3> QED BY <1>3, <3>1, <3>2, SeqEqual
    <2> QED BY <2>1, <2>2, ValidStem
<1>6. CASE i # n + 1
    <2> DEFINE s == [stem EXCEPT ![i] = x]
               q == Prefix \o s
               p == Prefix \o stem
               k == Len(Prefix) + i
    <2>1. i \in 1..n /\ x # stem[i]
        BY <1>1, <1>4, <1>6
    <2>2. /\ s \in Seq(Code) /\ Len(s) = n
          /\ \A j \in 1..n : s[j] = IF j = i THEN x ELSE stem[j]
        BY <2>1, ExceptSeq
    <2> HIDE DEF s
    <2>3. typo = Append(s, c)
        <3>1. /\ Append(s, c) \in Seq(Code) /\ Len(Append(s, c)) = n + 1
              /\ \A j \in 1..n : Append(s, c)[j] = s[j]
              /\ Append(s, c)[n + 1] = c
            BY <2>2, AppendProperties
        <3>2. \A j \in 1..n+1 : typo[j] = Append(s, c)[j]
            BY <1>1, <1>3, <1>6, <2>2, <3>1
        <3> QED BY <1>3, <3>1, <3>2, SeqEqual
    <2>4. /\ p \in Seq(Code) /\ Len(p) = Len(Prefix) + n /\ Len(Prefix) \in Nat
          /\ \A j \in 1..Len(Prefix) : p[j] = Prefix[j]
          /\ \A j \in 1..n : p[Len(Prefix) + j] = stem[j]
        BY Prefixed
    <2>5. /\ q \in Seq(Code) /\ Len(q) = Len(Prefix) + n
          /\ \A j \in 1..Len(Prefix) : q[j] = Prefix[j]
          /\ \A j \in 1..n : q[Len(Prefix) + j] = s[j]
        BY <2>2, Prefixed
    <2> HIDE DEF p, q
    <2>6. k \in 1..Len(p) /\ q[k] # p[k] /\ Len(q) = Len(p) /\ Len(p) < Base
        BY <1>1, <2>1, <2>2, <2>4, <2>5, NoidAssumption
    <2>7. ASSUME NEW j \in 1..Len(p), j # k PROVE q[j] = p[j]
        <3>1. CASE j \in 1..Len(Prefix)
            BY <2>4, <2>5, <3>1
        <3>2. CASE j \notin 1..Len(Prefix)
            <4> DEFINE h == j - Len(Prefix)
            <4>1. h \in 1..n /\ h # i /\ j = Len(Prefix) + h
                BY <1>1, <2>1, <2>4, <2>7, <3>2
            <4> HIDE DEF h
            <4> QED BY <2>2, <2>4, <2>5, <4>1
        <3> QED BY <3>1, <3>2
    <2> HIDE DEF k
    <2>8. ComputeCheckdigit(q) # ComputeCheckdigit(p)
        BY <2>4, <2>5, <2>6, <2>7, OneMistake
    <2>9. ValidateNameCheckdigit(Append(s, c)) <=> c = ComputeCheckdigit(q)
        BY <2>2, ValidStem DEF q
    <2> QED BY <2>3, <2>8, <2>9 DEF p
<1> QED BY <1>5, <1>6

LEMMA SwapSeen ==
    ASSUME NEW stem \in Seq(Code), NEW c \in Code, c = ComputeCheckdigit(Prefix \o stem),
           NEW typo \in Swapped(Append(stem, c))
    PROVE  ~ValidateNameCheckdigit(typo)
<1> DEFINE name == Append(stem, c)
           n == Len(stem)
<1>1. /\ name \in Seq(Code) /\ Len(name) = n + 1 /\ name[n + 1] = c /\ n \in Nat
      /\ \A j \in 1..n : name[j] = stem[j]
    BY AppendProperties
<1>2. PICK i \in 1..n-1 :
          typo = [name EXCEPT ![i] = name[i + 1], ![i + 1] = name[i]] /\ typo # name
    BY <1>1 DEF Swapped
<1> DEFINE x == stem[i]
           y == stem[i + 1]
           s == [stem EXCEPT ![i] = y, ![i + 1] = x]
           q == Prefix \o s
           p == Prefix \o stem
           k == Len(Prefix) + i
<1>3. i \in 1..n /\ i + 1 \in 1..n /\ x \in Code /\ y \in Code /\ i + 1 # i
    BY <1>1
<1>4. /\ s \in Seq(Code) /\ Len(s) = n
      /\ \A j \in 1..n : s[j] = IF j = i THEN y ELSE IF j = i + 1 THEN x ELSE stem[j]
    <2> DEFINE m == [stem EXCEPT ![i] = y]
    <2>1. /\ m \in Seq(Code) /\ Len(m) = n
          /\ \A j \in 1..n : m[j] = IF j = i THEN y ELSE stem[j]
        BY <1>3, ExceptSeq
    <2>2. s = [m EXCEPT ![i + 1] = x]
        BY <1>3
    <2> HIDE DEF m, s
    <2>3. /\ [m EXCEPT ![i + 1] = x] \in Seq(Code) /\ Len([m EXCEPT ![i + 1] = x]) = n
          /\ \A j \in 1..n : [m EXCEPT ![i + 1] = x][j] = IF j = i + 1 THEN x ELSE m[j]
        BY <1>3, <2>1, ExceptSeq
    <2> QED BY <1>3, <2>1, <2>2, <2>3
<1> HIDE DEF s, name
<1>5. /\ typo \in Seq(Code) /\ Len(typo) = n + 1
      /\ \A j \in 1..n+1 : typo[j] = IF j = i + 1 THEN x ELSE IF j = i THEN y ELSE name[j]
    <2> DEFINE m == [name EXCEPT ![i] = y]
    <2>1. i \in 1..n+1 /\ i + 1 \in 1..n+1 /\ name[i] = x /\ name[i + 1] = y
        BY <1>1, <1>3
    <2>2. /\ m \in Seq(Code) /\ Len(m) = n + 1
          /\ \A j \in 1..n+1 : m[j] = IF j = i THEN y ELSE name[j]
        BY <1>1, <1>3, <2>1, ExceptSeq
    <2>3. typo = [m EXCEPT ![i + 1] = x]
        BY <1>2, <2>1
    <2> HIDE DEF m
    <2>4. /\ [m EXCEPT ![i + 1] = x] \in Seq(Code) /\ Len([m EXCEPT ![i + 1] = x]) = n + 1
          /\ \A j \in 1..n+1 : [m EXCEPT ![i + 1] = x][j] = IF j = i + 1 THEN x ELSE m[j]
        BY <1>3, <2>1, <2>2, ExceptSeq
    <2> QED BY <1>3, <2>1, <2>2, <2>3, <2>4
<1>6. x # y
    <2>1. x = y => \A j \in 1..n+1 : typo[j] = name[j]
        BY <1>1, <1>3, <1>5
    <2> QED BY <1>1, <1>2, <1>5, <2>1, SeqEqual
<1>7. typo = Append(s, c)
    <2>1. /\ Append(s, c) \in Seq(Code) /\ Len(Append(s, c)) = n + 1
          /\ \A j \in 1..n : Append(s, c)[j] = s[j]
          /\ Append(s, c)[n + 1] = c
        BY <1>4, AppendProperties
    <2>2. \A j \in 1..n+1 : typo[j] = Append(s, c)[j]
        BY <1>1, <1>3, <1>4, <1>5, <2>1, SMTT(30)
    <2> QED BY <1>5, <2>1, <2>2, SeqEqual
<1>8. /\ p \in Seq(Code) /\ Len(p) = Len(Prefix) + n /\ Len(Prefix) \in Nat
      /\ \A j \in 1..Len(Prefix) : p[j] = Prefix[j]
      /\ \A j \in 1..n : p[Len(Prefix) + j] = stem[j]
    BY Prefixed
<1>9. /\ q \in Seq(Code) /\ Len(q) = Len(Prefix) + n
      /\ \A j \in 1..Len(Prefix) : q[j] = Prefix[j]
      /\ \A j \in 1..n : q[Len(Prefix) + j] = s[j]
    BY <1>4, Prefixed
<1> HIDE DEF p, q
<1>10. /\ k \in 1..Len(p) /\ k + 1 \in 1..Len(p) /\ Len(q) = Len(p)
       /\ p[k] = x /\ p[k + 1] = y /\ q[k] = y /\ q[k + 1] = x
    <2>1. k + 1 = Len(Prefix) + (i + 1)
        BY <1>3, <1>8
    <2>2. i \in 1..n /\ i + 1 \in 1..n /\ n \in Nat
        BY <1>1, <1>3
    <2>3. k \in 1..Len(p) /\ k + 1 \in 1..Len(p) /\ Len(q) = Len(p)
        BY <1>8, <1>9, <2>2
    <2>4. p[k] = x /\ p[k + 1] = y
        BY <1>8, <2>1, <2>2, SMTT(30)
    <2>5. s[i] = y /\ s[i + 1] = x
        BY <1>4, <2>2
    <2>6. q[k] = y /\ q[k + 1] = x
        BY <1>9, <2>1, <2>2, <2>5
    <2> QED BY <2>3, <2>4, <2>6
<1>11. ASSUME NEW j \in 1..Len(p), j # k, j # k + 1 PROVE q[j] = p[j]
    <2>1. CASE j \in 1..Len(Prefix)
        BY <1>8, <1>9, <2>1
    <2>2. CASE j \notin 1..Len(Prefix)
        <3> DEFINE h == j - Len(Prefix)
        <3>1. h \in 1..n /\ h # i /\ h # i + 1 /\ j = Len(Prefix) + h
            BY <1>1, <1>3, <1>8, <1>11, <2>2
        <3> HIDE DEF h
        <3> QED BY <1>4, <1>8, <1>9, <3>1
    <2> QED BY <2>1, <2>2
<1>12. q[k] = p[k + 1] /\ q[k + 1] = p[k] /\ p[k] # p[k + 1]
    BY <1>6, <1>10
<1> HIDE DEF k, x, y
<1>14. ComputeCheckdigit(q) # ComputeCheckdigit(p)
    BY <1>8, <1>9, <1>10, <1>11, <1>12, NeighboursSwapped
<1>13. ValidateNameCheckdigit(Append(s, c)) <=> c = ComputeCheckdigit(q)
    BY <1>4, ValidStem DEF q
<1> QED BY <1>7, <1>14, <1>13 DEF p

----------------------------------------------------------------------------
(* The registered names *)

LEMMA RegisteredNumbers == TypeOK => \A row \in records : row.name \in Nat
    BY DEF TypeOK, Row

\* The names of two different counter values differ (utils/noid.py): the codes
\* under the check digit differ, on both sides of the padding's end.
THEOREM NamesDiffer ==
    ASSUME NEW m \in Nat, NEW n \in Nat, MintArkId(m) = MintArkId(n)
    PROVE  m = n
<1>1. EncodeCounter(m) = EncodeCounter(n)
    <2> DEFINE s == EncodeCounter(m)
               t == EncodeCounter(n)
               c == ComputeCheckdigit(Prefix \o EncodeCounter(m))
               e == ComputeCheckdigit(Prefix \o EncodeCounter(n))
    <2>1. s \in Seq(Code) /\ t \in Seq(Code) /\ c \in Code /\ e \in Code
        BY MintedName
    <2>2. Append(s, c) = Append(t, e)
        BY DEF MintArkId
    <2> HIDE DEF s, t, c, e
    <2>3. s = t
        BY <2>1, <2>2, AppendInjective
    <2> QED BY <2>3 DEF s, t
<1>2. PICK k \in Nat : EncodeCounter(m) = Padded(k, m)
    BY EncodedIsPadded
<1>3. PICK j \in Nat : EncodeCounter(n) = Padded(j, n)
    BY EncodedIsPadded
<1> QED BY <1>1, <1>2, <1>3, PaddedDiffer

\* Registered numbers never share a name, for any alphabet, length and prefix:
\* that a name stands for its number, as Reservation has it, loses nothing.
THEOREM RegisteredNamesDiffer == Spec => []MintedNamesDiffer
<1>1. TypeOK => MintedNamesDiffer
    BY RegisteredNumbers, NamesDiffer DEF MintedNamesDiffer
<1> QED BY <1>1, ReservationTypes, PTL

\* A registered name that is not longer than the alphabet is accepted by
\* validate_name_checkdigit, and each name with one wrong character or two
\* swapped neighbours is refused, for every alphabet of prime size.
THEOREM SlipsAreSeen == Spec => []TyposAreRejected
<1>1. ASSUME NEW n \in Nat, Len(Prefix) + Len(MintArkId(n)) <= Base,
             NEW typo \in Mistaken(MintArkId(n)) \cup Swapped(MintArkId(n))
      PROVE  ~ValidateNameCheckdigit(typo)
    <2> DEFINE stem == EncodeCounter(n)
               c == ComputeCheckdigit(Prefix \o stem)
    <2>1. stem \in Seq(Code) /\ c \in Code /\ MintArkId(n) = Append(stem, c)
        BY MintedName DEF MintArkId
    <2>2. Len(Prefix) + Len(stem) + 1 <= Base
        <3>1. Len(MintArkId(n)) = Len(stem) + 1 /\ Len(stem) \in Nat /\ Len(Prefix) \in Nat
            BY <2>1, MintedName, Prefixed
        <3> QED BY <1>1, <3>1, NoidAssumption
    <2> HIDE DEF stem
    <2>3. CASE typo \in Mistaken(MintArkId(n))
        BY <2>1, <2>2, <2>3, MistakeSeen
    <2>4. CASE typo \in Swapped(MintArkId(n))
        BY <2>1, <2>4, SwapSeen
    <2> QED BY <1>1, <2>3, <2>4
<1>2. TypeOK => TyposAreRejected
    BY <1>1, RegisteredNumbers, MintedName DEF TyposAreRejected
<1> QED BY <1>2, ReservationTypes, PTL

=============================================================================
