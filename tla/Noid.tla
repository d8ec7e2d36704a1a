-------------------------------- MODULE Noid --------------------------------
(***************************************************************************)
(* The names that the minter gives (utils/noid.py).  A character is its    *)
(* ordinal in the alphabet of Base characters, a name a sequence of them;  *)
(* Prefix is what precedes the counter: the NAAN, the separator and the    *)
(* shoulder, whose characters outside the alphabet have the ordinal 0.     *)
(***************************************************************************)
EXTENDS Naturals, Sequences

CONSTANTS
    Base,        \* the characters of the alphabet
    MinLength,   \* minter_noid_length
    Prefix       \* the payload before the encoded counter

ASSUME NoidAssumption ==
    /\ Base \in Nat \ {0, 1}
    /\ \A d \in 2..Base-1 : Base % d # 0   \* 29 is prime
    /\ MinLength \in Nat \ {0}
    /\ Prefix \in Seq(0..Base-1)

Digits[n \in Nat] ==
    IF n < Base THEN <<n>> ELSE Append(Digits[n \div Base], n % Base)

Zeros(k) == [i \in 1..k |-> 0]

\* Seeded fault in EncodeCounter: every name has MinLength characters.
Truncated(n) ==
    LET padded == Zeros(MinLength) \o Digits[n]
    IN  SubSeq(padded, Len(padded) - MinLength + 1, Len(padded))

\* encode_counter pads to MinLength, and grows beyond it.
EncodeCounter(n) ==
    IF Len(Digits[n]) < MinLength
    THEN Zeros(MinLength - Len(Digits[n])) \o Digits[n]
    ELSE Digits[n]

\* sum(...), from the first term on.
Total(terms) ==
    LET sum[i \in 0..Len(terms)] == IF i = 0 THEN 0 ELSE sum[i - 1] + terms[i]
    IN  sum[Len(terms)]

\* Seeded fault in ComputeCheckdigit: the positions do not count.
PlainSum(payload) == Total(payload) % Base

\* The characters are weighted by their position in the whole payload.
ComputeCheckdigit(payload) ==
    Total([i \in DOMAIN payload |-> payload[i] * i]) % Base

\* mint_ark_id, less the prefix.
MintArkId(n) ==
    Append(EncodeCounter(n), ComputeCheckdigit(Prefix \o EncodeCounter(n)))

\* validate_name_checkdigit, that a PUT asks before anything else.
ValidateNameCheckdigit(name) ==
    /\ name # <<>>
    /\ LET stem == SubSeq(name, 1, Len(name) - 1)
       IN  name[Len(name)] = ComputeCheckdigit(Prefix \o stem)

----------------------------------------------------------------------------
\* What a reader may do to a name: mistake one character of it, or swap two
\* neighbours before the check digit.
Mistaken(name) ==
    {[name EXCEPT ![i] = c] : i \in DOMAIN name, c \in 0..Base-1} \ {name}

Swapped(name) ==
    {[name EXCEPT ![i] = name[i+1], ![i+1] = name[i]] : i \in 1..Len(name)-2} \ {name}

=============================================================================
