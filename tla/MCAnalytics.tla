----------------------------- MODULE MCAnalytics -----------------------------
(***************************************************************************)
(* Small instances of Analytics: a reservation that OPERA changes from one  *)
(* booking to another, and the snapshots of consecutive dates.              *)
(***************************************************************************)
EXTENDS Analytics, TLC

CONSTANTS r1, r2

\* A stay of three nights, the same one shorter, elsewhere and cancelled.
Long      == [arrival |-> 1, departure |-> 4, status |-> "RESERVED", rooms |-> 1, market |-> "A"]
Short     == [arrival |-> 1, departure |-> 3, status |-> "RESERVED", rooms |-> 2, market |-> "A"]
Cancelled == [arrival |-> 1, departure |-> 3, status |-> "CANCELLED", rooms |-> 2, market |-> "B"]

MCBookings == {Long, Short, Cancelled}

ReservationSymmetry == Permutations(Reservations)
=============================================================================
