----------------------------- MODULE MCRegistry -----------------------------
(* Registry on small instances: an upstream from the configuration, one    *)
(* name that is free, a few edits and requests.                            *)
EXTENDS Registry, TLC

CONSTANTS n1, n2, e1, e2, e3, r1, r2

(* The edits are interchangeable, and so are the requests. *)
Symmetry == Permutations(Edit) \cup Permutations(Request)
=============================================================================
