------------------------------- MODULE MCLedger -------------------------------
(***************************************************************************)
(* Small instances of Ledger.  A resource is created (e1), cancelled or     *)
(* deleted (e2) and changed again (e3); e4 is an event of it that no route  *)
(* accepts, and it repeats the stream offset of e3.                         *)
(***************************************************************************)
EXTENDS Ledger, TLC

CONSTANTS w1, w2, e1, e2, e3, e4, resource

MCResourceOf == [e \in Events |-> resource]

DistinctOccurredAt ==
    [e \in Events |-> CASE e = e1 -> 1 [] e = e2 -> 2 [] e = e3 -> 3 [] OTHER -> 4]

MCOffsetOf ==
    [e \in Events |-> CASE e = e1 -> 1 [] e = e2 -> 2 [] OTHER -> 3]

WorkerSymmetry == Permutations(Workers)
=============================================================================
