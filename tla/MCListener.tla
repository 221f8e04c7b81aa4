------------------------------ MODULE MCListener ------------------------------
(***************************************************************************)
(* Small instances of Listener.                                            *)
(***************************************************************************)
EXTENDS Listener, TLC

CONSTANTS old, new

ListenerSymmetry == Permutations(Listeners)
=============================================================================
