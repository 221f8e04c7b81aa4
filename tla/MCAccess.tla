------------------------------- MODULE MCAccess -------------------------------
(***************************************************************************)
(* Small instance of Access: two calls that share a token.          *)
(***************************************************************************)
EXTENDS Access, TLC

CONSTANTS c1, c2
=============================================================================
