--------------------------- MODULE CredentialCache ---------------------------
(***************************************************************************)
(* What an AuthStrategy promises the requests of its upstream: a           *)
(* credential is fetched by one of them at a time and only if none is at   *)
(* hand, every request gets what is cached or the new one, and what has    *)
(* been dropped or replaced does not come back.                            *)
(***************************************************************************)
CONSTANTS Handler, Nobody, Token, None

VARIABLES
  cached,   \* the credential at hand, or None
  fresh,    \* whether it is still to be used
  fetcher,  \* the request that fetches a new one, or Nobody
  got       \* got[h]: the credential request h was given, or None

cvars == <<cached, fresh, fetcher, got>>

Init ==
  /\ cached = None /\ fresh = FALSE
  /\ fetcher = Nobody
  /\ got = [h \in Handler |-> None]

Usable == cached # None /\ fresh

Hit(h) ==
  /\ fetcher = Nobody /\ Usable /\ got[h] = None
  /\ got' = [got EXCEPT ![h] = cached]
  /\ UNCHANGED <<cached, fresh, fetcher>>

Fetch(h) ==
  /\ fetcher = Nobody /\ ~Usable /\ got[h] = None
  /\ fetcher' = h
  /\ UNCHANGED <<cached, fresh, got>>

(* The new credential is one that nobody has seen. *)
Fetched(h) ==
  /\ fetcher = h
  /\ cached' \in Token \ {None, cached}
  /\ cached' \notin {got[k] : k \in Handler}
  /\ got' = [got EXCEPT ![h] = cached']
  /\ fresh' \in BOOLEAN
  /\ fetcher' = Nobody

GiveUp(h) ==
  /\ fetcher = h
  /\ fetcher' = Nobody
  /\ UNCHANGED <<cached, fresh, got>>

Evict ==
  /\ fetcher = Nobody
  /\ cached' = None /\ fresh' = FALSE
  /\ UNCHANGED <<fetcher, got>>

Ages ==
  /\ fresh /\ fresh' = FALSE
  /\ UNCHANGED <<cached, fetcher, got>>

(* The proxy restarts with an empty cache. *)
Restart ==
  /\ cached' = None /\ fresh' = FALSE
  /\ fetcher' = Nobody
  /\ UNCHANGED got

Next ==
  \/ \E h \in Handler : Hit(h) \/ Fetch(h) \/ Fetched(h) \/ GiveUp(h)
  \/ Evict \/ Ages \/ Restart

Spec == Init /\ [][Next]_cvars
=============================================================================
