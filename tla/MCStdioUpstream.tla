-------------------------- MODULE MCStdioUpstream --------------------------
(* StdioUpstream on small instances: a plain request, one or two streams   *)
(* and a canceller.                                                        *)
EXTENDS StdioUpstream

CONSTANTS r1, r2, r3, c1

(* Clients that count from 1, as JSON-RPC clients do. *)
CountFromOne == [r \in Request |-> 1]

(* Clients whose ids differ, and equal ids the upstream gives out. *)
InTurn == [r \in Request |-> CASE r = r1 -> 1 [] r = r2 -> 2 [] OTHER -> 3]

(* Clients that use one id, which no upstream id equals. *)
SameIds == [r \in Request |-> MaxId + 1]

(* Ids no two requests share and that no upstream id equals. *)
UniqueIds ==
  [r \in Request |-> MaxId + (CASE r = r1 -> 1 [] r = r2 -> 2 [] OTHER -> 3)]

CancelsFirst  == [c \in Canceller |-> r1]
CancelsSecond == [c \in Canceller |-> r2]
=============================================================================
