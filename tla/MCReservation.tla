--------------------------- MODULE MCReservation ---------------------------
(***************************************************************************)
(* Small instances of Reservation and its names for TLC.                   *)
(***************************************************************************)
EXTENDS Names, TLC

CONSTANTS r1, r2, r3, i1, i2

\* Two batches that share a client item, and a single reservation.
Wanted == (r1 :> <<i1, i2>>) @@ (r2 :> <<i1>>) @@ (r3 :> <<None>>)

MCPrefix == <<1>>

=============================================================================
