---------------------------- MODULE MCTokenStore ----------------------------
(* TokenStore on small instances. *)
EXTENDS TokenStore, TLC

CONSTANTS c1, c2, c3, c4, k1, k2
=============================================================================
