------------------------------ MODULE MCMinter ------------------------------
(* Small instances of Minter for TLC. *)
EXTENDS Minter, TLC

CONSTANTS a1, a2, wA, wB, t1, t2, p1, p2

NoCid == {}
Level1OfP1 == {Level1(p1)}
Level2OfP1 == {Level2(p1)}
BothOfP1 == CidPair(p1)

OffersOne == {<<a1, wA, t1, p1>>}

\* Two ARKs of one authority: a level 1 document names its ARK.
OffersPair == {<<a1, wA, t1, p1>>, <<a2, wA, t1, p2>>}

\* Swapping the two ARKs together with their documents changes nothing.
PairSymmetry ==
    {f \in Permutations({a1, a2, p1, p2}) :
        <<f[a1], f[p1]>> \in {<<a1, p1>>, <<a2, p2>>}}

\* One authority that replaces the content of an ARK.
OffersContent == {<<a1, wA, t1, p1>>, <<a1, wA, t1, p2>>}

\* Two authorities that submit the same content with targets of their own.
OffersOwners == {<<a1, wA, t1, p1>>, <<a1, wB, t2, p1>>}

=============================================================================
