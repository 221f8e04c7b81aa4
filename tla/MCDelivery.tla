------------------------------ MODULE MCDelivery ------------------------------
(***************************************************************************)
(* Small instances of Delivery: two hotels, the first with two messages or  *)
(* more, and enricher processes that are interchangeable.                   *)
(***************************************************************************)
EXTENDS Delivery, TLC

CONSTANTS p1, p2, hotelA, hotelB

\* The last message is of the second hotel, the others are of the first.
MCGroupOf ==
    [m \in Messages |-> IF \A n \in Messages : n <= m THEN hotelB ELSE hotelA]

OneGroupOf == [m \in Messages |-> hotelA]

ProcSymmetry == Permutations(Procs)
=============================================================================
