--------------------------- MODULE RequestExchange ---------------------------
(***************************************************************************)
(* What a bridge between HTTP and a JSON-RPC server promises each of its   *)
(* clients: a request is opened once and closed once, and it is answered   *)
(* only by a server that has received it.                                  *)
(***************************************************************************)
CONSTANT Request

VARIABLES
  phase,  \* phase[r]: idle, open, answered or ended without an answer
  heard   \* the requests the server has received

xvars == <<phase, heard>>

Init ==
  /\ phase = [r \in Request |-> "idle"]
  /\ heard = {}

Open(r) ==
  /\ phase[r] = "idle"
  /\ phase' = [phase EXCEPT ![r] = "open"]
  /\ UNCHANGED heard

(* A request that could not be served at all ends as it is opened. *)
Refuse(r) ==
  /\ phase[r] = "idle"
  /\ phase' = [phase EXCEPT ![r] = "ended"]
  /\ UNCHANGED heard

(* The server may receive a request its client has given up. *)
Hear(r) ==
  /\ phase[r] # "idle"
  /\ heard' = heard \cup {r}
  /\ UNCHANGED phase

Answer(r) ==
  /\ phase[r] = "open" /\ r \in heard
  /\ phase' = [phase EXCEPT ![r] = "answered"]
  /\ UNCHANGED heard

End(r) ==
  /\ phase[r] = "open"
  /\ phase' = [phase EXCEPT ![r] = "ended"]
  /\ UNCHANGED heard

Next == \E r \in Request :
          Open(r) \/ Refuse(r) \/ Hear(r) \/ Answer(r) \/ End(r)

Spec == Init /\ [][Next]_xvars
=============================================================================
