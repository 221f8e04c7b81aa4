------------------------------ MODULE MCConsumer ------------------------------
(***************************************************************************)
(* Small instance of Consumer: one consumer and one enricher take turns     *)
(* with the messages of two hotels.                                         *)
(***************************************************************************)
EXTENDS Consumer, TLC

CONSTANTS p1, c1, hotelA, hotelB

\* Messages 1 and 2 are of different hotels.
MCGroupOf == [m \in Messages |-> IF m = 1 THEN hotelA ELSE hotelB]
=============================================================================
