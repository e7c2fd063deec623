------------------------------ MODULE Handshake ------------------------------
(***************************************************************************)
(* What the fetching of tools promises an MCP server over either           *)
(* transport: it uses a version the server offers, the newest of the older *)
(* protocol, or, when the server says nothing of versions, the newest one  *)
(* the proxy knows of the older protocol; that protocol's session is       *)
(* initialized before its tools are listed; and it ends once.              *)
(***************************************************************************)
EXTENDS Integers

CONSTANTS Modern, Legacy, Unknown

VARIABLES phase, offer, version

hvars == <<phase, offer, version>>

Newest(vs) == CHOOSE v \in vs : \A w \in vs : w <= v

Init == phase = "start" /\ offer = Unknown /\ version = Unknown

(* The server's offer decides. *)
Choose ==
  /\ phase = "start"
  /\ offer' \in (SUBSET (Legacy \cup {Modern})) \cup {Unknown}
  /\ \/ /\ offer' # Unknown /\ Modern \in offer'
        /\ version' = Modern /\ phase' \in {"list", "listed"}
     \/ /\ offer' # Unknown /\ offer' \cap Legacy # {}
        /\ version' = Newest(offer' \cap Legacy) /\ phase' = "initialize"
     \/ /\ offer' = Unknown
        /\ version' = Newest(Legacy) /\ phase' = "initialize"

(* The server may settle for another version, or name one nobody knows. *)
Initialize ==
  /\ phase = "initialize" /\ phase' = "initialized"
  /\ version' \in Legacy \cup {Unknown}
  /\ UNCHANGED offer

Initialized ==
  /\ phase = "initialized" /\ phase' = "list"
  /\ UNCHANGED <<offer, version>>

List ==
  /\ phase = "list" /\ phase' = "listed"
  /\ UNCHANGED <<offer, version>>

Fail ==
  /\ phase \notin {"listed", "failed"} /\ phase' = "failed"
  /\ offer' = offer \/ phase = "start"
  /\ UNCHANGED version

Next == Choose \/ Initialize \/ Initialized \/ List \/ Fail

Spec == Init /\ [][Next]_hvars
=============================================================================
