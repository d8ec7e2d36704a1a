-------------------------------- MODULE Names --------------------------------
(***************************************************************************)
(* What the minted names (Noid) promise of the ARKs that are registered    *)
(* (Reservation), where a name is the number it was minted from.           *)
(***************************************************************************)
EXTENDS Reservation, Noid

\* Two registered numbers never have the same name, on both sides of the
\* number that fills MinLength characters: encode_counter pads short numbers and
\* lets long ones grow, and the check digit never makes up for a missing one.
MintedNamesDiffer ==
    \A row, other \in records :
        row.name # other.name => MintArkId(row.name) # MintArkId(other.name)

\* A PUT accepts the name of a registered ARK and refuses each that differs from
\* it in one character, or by two swapped neighbours before the check digit: no
\* slip reaches another ARK.  From the Base-th character on the weights repeat and the check digit
\* sees nothing of a character: this is said of names that are shorter.
TyposAreRejected ==
    \A row \in records :
        LET name == MintArkId(row.name)
        IN  Len(Prefix) + Len(name) <= Base =>
                /\ ValidateNameCheckdigit(name)
                /\ \A typo \in Mistaken(name) \cup Swapped(name) :
                       ~ValidateNameCheckdigit(typo)

=============================================================================
