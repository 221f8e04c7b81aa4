------------------------------ MODULE MCLoadTest ------------------------------
(***************************************************************************)
(* A small instance of LoadTest: two tasks and three events of one          *)
(* partition, of which a task may hold the open end while the other waits.  *)
(***************************************************************************)
EXTENDS LoadTest, TLC

CONSTANTS t1, t2

\* Every event has the same message group.
OnePartition == [e \in Events |-> 0]
=============================================================================
