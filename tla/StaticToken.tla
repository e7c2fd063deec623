----------------------------- MODULE StaticToken -----------------------------
(***************************************************************************)
(* Credentials that a provider resolves (auth/static_token.rs), several to *)
(* an upstream (CompositeAuth in auth/mod.rs): each header of the upstream *)
(* has a credential of its own, cached for some minutes behind a           *)
(* read-write lock.  A request collects them in order, and a 401 evicts    *)
(* them in order.                                                          *)
(*                                                                         *)
(* What a header's provider resolves is numbered: value n is the result of *)
(* its n-th call, the same secret or not.  A request goes this way once,   *)
(* so nothing else bounds the numbers.  Operators named after another with *)
(* a mistake added serve to show that the properties notice it.            *)
(***************************************************************************)
EXTENDS Naturals

CONSTANTS
  Handler,  \* requests to the upstream and refreshes of its tools
  Nobody,   \* none of them
  Headers   \* the number of headers: the primary one and the extra ones

ASSUME StaticAssumption ==
  /\ Nobody \notin Handler
  /\ Headers \in Nat \ {0}

Header == 1 .. Headers
None == 0

VARIABLES
  pc,      \* pc[h]: where handler h is
  at,      \* at[h]: the header it is at
  got,     \* got[i][h]: the value it has for header i, or None
  cached,  \* cached[i]: the value in the cache of header i, or None
  fresh,   \* fresh[i]: whether it is younger than DEFAULT_CACHE_TTL
  writer,  \* writer[i]: who has the write lock of header i
  count    \* count[i]: how often its provider has resolved it

handlerVars == <<pc, at>>
headerVars  == <<got, cached, fresh, writer, count>>
vars == <<handlerVars, headerVars>>

Init ==
  /\ pc = [h \in Handler |-> "idle"]
  /\ at = [h \in Handler |-> 1]
  /\ got = [i \in Header |-> [h \in Handler |-> None]]
  /\ cached = [i \in Header |-> None]
  /\ fresh = [i \in Header |-> FALSE]
  /\ writer = [i \in Header |-> Nobody]
  /\ count = [i \in Header |-> 0]

-----------------------------------------------------------------------------
Goto(h, place) == pc' = [pc EXCEPT ![h] = place]

(* On to the next header, or, after the last one, to another place.        *)
Onward(h, here, after) ==
  IF at[h] = Headers
  THEN Goto(h, after) /\ at' = [at EXCEPT ![h] = 1]
  ELSE Goto(h, here) /\ at' = [at EXCEPT ![h] = @ + 1]

Usable(i) == cached[i] # None /\ fresh[i]

(* The value is at hand. *)
Take(h, i) ==
  /\ Usable(i)
  /\ got' = [got EXCEPT ![i][h] = cached[i]]
  /\ Onward(h, "read", "ready")
  /\ UNCHANGED <<cached, fresh, writer, count>>

Begin(h) ==
  /\ pc[h] = "idle"
  /\ Goto(h, "read")
  /\ UNCHANGED <<at, headerVars>>

(* The check under the read lock. *)
Read(h, i) ==
  /\ pc[h] = "read" /\ at[h] = i /\ writer[i] = Nobody
  /\ \/ Take(h, i)
     \/ ~Usable(i) /\ Goto(h, "queued") /\ UNCHANGED <<at, headerVars>>

StillMissingUnchecked(i) == TRUE
StillMissing(i) == ~Usable(i)

(* The write lock, and the check again. *)
Enter(h, i) ==
  /\ pc[h] = "queued" /\ at[h] = i /\ writer[i] = Nobody
  /\ \/ ~StillMissing(i) /\ Take(h, i)
     \/ /\ StillMissing(i)
        /\ writer' = [writer EXCEPT ![i] = h]
        /\ Goto(h, "resolve")
        /\ UNCHANGED <<at, got, cached, fresh, count>>

FreedNever(i) == writer
Freed(i) == [writer EXCEPT ![i] = Nobody]

(* The provider resolves the credential, or fails. *)
Resolve(h, i) ==
  /\ pc[h] = "resolve" /\ at[h] = i
  /\ writer' = Freed(i)
  /\ count' = [count EXCEPT ![i] = @ + 1]
  /\ \/ /\ cached' = [cached EXCEPT ![i] = count[i] + 1]
        /\ got' = [got EXCEPT ![i][h] = count[i] + 1]
        /\ fresh' = [fresh EXCEPT ![i] = TRUE]
        /\ Onward(h, "read", "ready")
     \/ Goto(h, "done") /\ UNCHANGED <<at, got, cached, fresh>>

(* What the headers are for; the server may reject them.  Only the proxied *)
(* request looks for a 401.                                                *)
Use(h) ==
  /\ pc[h] = "ready"
  /\ Goto(h, "done") \/ Goto(h, "reject")
  /\ UNCHANGED <<at, headerVars>>

NextToEvictNone(h) == Goto(h, "evicted") /\ UNCHANGED at
NextToEvict(h) == Onward(h, "reject", "evicted")

(* handle_unauthorized: whatever is cached by now is evicted. *)
Evict(h, i) ==
  /\ pc[h] = "reject" /\ at[h] = i /\ writer[i] = Nobody
  /\ cached' = [cached EXCEPT ![i] = None]
  /\ fresh' = [fresh EXCEPT ![i] = FALSE]
  /\ NextToEvict(h)
  /\ UNCHANGED <<got, writer, count>>

(* The client disconnects: the handler is dropped at an await, and its     *)
(* guard with it.  The provider may have been called.                      *)
Leave(h) ==
  /\ pc[h] \notin {"idle", "done", "evicted"}
  /\ Goto(h, "done")
  /\ IF pc[h] = "resolve"
     THEN /\ writer' = Freed(at[h])
          /\ count' \in {count, [count EXCEPT ![at[h]] = @ + 1]}
     ELSE UNCHANGED <<writer, count>>
  /\ UNCHANGED <<at, got, cached, fresh>>

(* The cached value comes of age. *)
Age(i) ==
  /\ fresh[i]
  /\ fresh' = [fresh EXCEPT ![i] = FALSE]
  /\ UNCHANGED <<handlerVars, got, cached, writer, count>>

Collect(h) ==
  Begin(h) \/ \E i \in Header : Read(h, i) \/ Enter(h, i) \/ Resolve(h, i)

Unauthorized(h) == \E i \in Header : Evict(h, i)

Next ==
  \/ \E h \in Handler : Collect(h) \/ Use(h) \/ Unauthorized(h) \/ Leave(h)
  \/ \E i \in Header : Age(i)

Spec == Init /\ [][Next]_vars

-----------------------------------------------------------------------------
(* Properties. *)

HandlersTyped ==
  /\ pc \in [Handler -> {"idle", "read", "queued", "resolve", "ready",
                         "reject", "evicted", "done"}]
  /\ at \in [Handler -> Header]

ValuesTyped ==
  /\ count \in [Header -> Nat] /\ fresh \in [Header -> BOOLEAN]
  /\ cached \in [Header -> Nat] /\ got \in [Header -> [Handler -> Nat]]
  /\ \A i \in Header :
       cached[i] <= count[i] /\ \A h \in Handler : got[i][h] <= count[i]

LocksHeld ==
  /\ writer \in [Header -> Handler \cup {Nobody}]
  /\ \A i \in Header, h \in Handler :
       writer[i] = h <=> pc[h] = "resolve" /\ at[h] = i

(* Every variable keeps its type; a lock is held by the handler that        *)
(* resolves its credential, and by none that failed or left.               *)
TypeOK == HandlersTyped /\ ValuesTyped /\ LocksHeld

(* Each header is a CredentialCache: one request resolves at a time, none  *)
(* while a value is usable, and none evicted or replaced is given again.   *)
Cache(i) == INSTANCE CredentialCache
              WITH Token <- Nat, cached <- cached[i], fresh <- fresh[i],
                   fetcher <- writer[i], got <- got[i]

IsCache ==
  /\ \A i \in Header : Cache(i)!Init
  /\ [][\A i \in Header : Cache(i)!Next \/ UNCHANGED Cache(i)!cvars]_vars

(* When the 401 of a request has been handled, none of the values it was    *)
(* sent with is in a cache, the extra headers' no more than the primary's, *)
(* nor comes back: no later request is sent with any of them.              *)
RejectedGone ==
  \A h \in Handler : pc[h] = "evicted" =>
    \A i \in Header : got[i][h] # None /\ cached[i] # got[i][h]
=============================================================================
