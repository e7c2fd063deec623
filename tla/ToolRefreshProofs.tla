-------------------------- MODULE ToolRefreshProofs --------------------------
(***************************************************************************)
(* Proofs about StaticToken and about ToolRefresh, which extends it.       *)
(*                                                                         *)
(* Of StaticToken, for any handlers and any number of headers: the types   *)
(* and locks, what an eviction promises, and that every header is a        *)
(* CredentialCache.                                                        *)
(*                                                                         *)
(* Of ToolRefresh: requests and refreshes together keep what StaticToken   *)
(* and ToolDiscovery promise alone.  A step of the whole is a step, or     *)
(* none, of each.                                                          *)
(***************************************************************************)
EXTENDS ToolRefresh, TLAPS

Collecting == {"read", "queued", "resolve"}

(* What a handler has when it collects, uses or has given up its headers.  *)
Has(h) ==
  /\ pc[h] = "idle" => at[h] = 1 /\ \A i \in Header : got[i][h] = None
  /\ pc[h] \in Collecting =>
       \A i \in Header : got[i][h] = None <=> i >= at[h]
  /\ pc[h] = "ready" => at[h] = 1
  /\ pc[h] \in {"ready", "reject", "evicted"} =>
       \A i \in Header : got[i][h] # None

(* The headers before the one it is at are rid of what it was sent with.   *)
Gone(h) ==
  /\ pc[h] = "reject" => \A i \in Header : i < at[h] => cached[i] # got[i][h]
  /\ pc[h] = "evicted" => \A i \in Header : cached[i] # got[i][h]

Inv == TypeOK /\ \A h \in Handler : Has(h) /\ Gone(h)

LEMMA HeaderFacts ==
  /\ 1 \in Header /\ Header \subseteq Nat
  /\ \A i \in Header : i # Headers => i + 1 \in Header
BY StaticAssumption DEF Header

(* A move to another place or header has types. *)
LEMMA OnwardTypes ==
  ASSUME NEW h \in Handler, NEW here, NEW after, at \in [Handler -> Header],
         Onward(h, here, after)
  PROVE  /\ at' \in [Handler -> Header]
         /\ pc' = [pc EXCEPT ![h] = IF at[h] = Headers THEN after ELSE here]
         /\ at' = [at EXCEPT ![h] = IF at[h] = Headers THEN 1 ELSE at[h] + 1]
BY HeaderFacts DEF Onward, Goto

(* It takes a handler that resolves nothing to where it resolves nothing.  *)
LEMMA OnwardLocks ==
  ASSUME HandlersTyped, LocksHeld, NEW h \in Handler, NEW here, NEW after,
         here # "resolve", after # "resolve", pc[h] # "resolve",
         Onward(h, here, after), UNCHANGED writer
  PROVE  LocksHeld'
BY OnwardTypes DEF HandlersTyped, LocksHeld

LEMMA TypesStart == Init => TypeOK
BY StaticAssumption, HeaderFacts
   DEF Init, TypeOK, HandlersTyped, ValuesTyped, LocksHeld, None

LEMMA TakeTypes ==
  ASSUME TypeOK, NEW h \in Handler, NEW i \in Header, pc[h] # "resolve", Take(h, i)
  PROVE  TypeOK'
<1>1. HandlersTyped'
  BY OnwardTypes DEF TypeOK, HandlersTyped, Take
<1>2. ValuesTyped'
  BY DEF TypeOK, ValuesTyped, Take
<1>3. LocksHeld'
  BY OnwardLocks DEF TypeOK, Take
<1> QED BY <1>1, <1>2, <1>3 DEF TypeOK

LEMMA ResolveTypes ==
  ASSUME TypeOK, NEW h \in Handler, NEW i \in Header, Resolve(h, i)
  PROVE  TypeOK'
<1>1. HandlersTyped'
  BY OnwardTypes DEF TypeOK, HandlersTyped, Resolve, Goto
<1>2. ValuesTyped'
  <2>1. count' = [count EXCEPT ![i] = @ + 1] /\ count[i] \in Nat
    BY DEF TypeOK, ValuesTyped, Resolve
  <2>2. CASE UNCHANGED <<got, cached, fresh>>
    BY <2>1, <2>2 DEF TypeOK, ValuesTyped
  <2>3. CASE /\ cached' = [cached EXCEPT ![i] = count[i] + 1]
             /\ got' = [got EXCEPT ![i][h] = count[i] + 1]
             /\ fresh' = [fresh EXCEPT ![i] = TRUE]
    BY <2>1, <2>3 DEF TypeOK, ValuesTyped
  <2> QED BY <2>2, <2>3 DEF Resolve
<1>3. LocksHeld'
  <2>1. /\ pc' \in [Handler -> {"idle", "read", "queued", "resolve", "ready",
                               "reject", "evicted", "done"}]
        /\ pc'[h] # "resolve"
        /\ \A k \in Handler \ {h} : pc'[k] = pc[k] /\ at'[k] = at[k]
    BY <1>1, OnwardTypes DEF TypeOK, HandlersTyped, Resolve, Goto
  <2>2. writer' = [writer EXCEPT ![i] = Nobody] /\ pc[h] = "resolve" /\ at[h] = i
    BY DEF Resolve, Freed
  <2> QED BY <2>1, <2>2, StaticAssumption DEF TypeOK, LocksHeld
<1> QED BY <1>1, <1>2, <1>3 DEF TypeOK

LEMMA EvictTypes ==
  ASSUME TypeOK, NEW h \in Handler, NEW i \in Header, Evict(h, i)
  PROVE  TypeOK'
<1>1. HandlersTyped'
  BY OnwardTypes DEF TypeOK, HandlersTyped, Evict, NextToEvict
<1>2. ValuesTyped'
  BY DEF TypeOK, ValuesTyped, Evict, None
<1>3. LocksHeld'
  BY OnwardLocks DEF TypeOK, Evict, NextToEvict
<1> QED BY <1>1, <1>2, <1>3 DEF TypeOK

LEMMA LeaveTypes ==
  ASSUME TypeOK, NEW h \in Handler, Leave(h)
  PROVE  TypeOK'
<1>1. HandlersTyped'
  BY DEF TypeOK, HandlersTyped, Leave, Goto
<1>2. ValuesTyped'
  <2>1. CASE count' = count
    BY <2>1 DEF TypeOK, ValuesTyped, Leave
  <2>2. CASE count' = [count EXCEPT ![at[h]] = @ + 1]
    BY <2>2 DEF TypeOK, HandlersTyped, ValuesTyped, Leave
  <2> QED BY <2>1, <2>2 DEF Leave
<1>3. LocksHeld'
  <2>1. pc' = [pc EXCEPT ![h] = "done"] /\ at' = at
    BY DEF Leave, Goto
  <2>2. CASE pc[h] = "resolve"
    <3>1. writer' = [writer EXCEPT ![at[h]] = Nobody]
      BY <2>2 DEF Leave, Freed
    <3> QED BY <2>1, <2>2, <3>1, StaticAssumption
       DEF TypeOK, HandlersTyped, LocksHeld
  <2>3. CASE pc[h] # "resolve"
    BY <2>1, <2>3 DEF TypeOK, HandlersTyped, LocksHeld, Leave
  <2> QED BY <2>2, <2>3
<1> QED BY <1>1, <1>2, <1>3 DEF TypeOK

LEMMA TypesKept == TypeOK /\ [Next]_vars => TypeOK'
<1> SUFFICES ASSUME TypeOK, [Next]_vars PROVE TypeOK'
  OBVIOUS
<1> USE DEF TypeOK, HandlersTyped, ValuesTyped, LocksHeld, headerVars
<1>1. ASSUME NEW h \in Handler, Begin(h) PROVE TypeOK'
  BY <1>1 DEF Begin, Goto
<1>2. ASSUME NEW h \in Handler, NEW i \in Header, Read(h, i) PROVE TypeOK'
  <2>1. CASE Take(h, i)
    <3>1. pc[h] # "resolve"
      BY <1>2 DEF Read
    <3> QED BY <2>1, <3>1, TakeTypes
  <2>2. CASE Goto(h, "queued") /\ UNCHANGED <<at, headerVars>>
    BY <1>2, <2>2 DEF Read, Goto
  <2> QED BY <1>2, <2>1, <2>2 DEF Read
<1>3. ASSUME NEW h \in Handler, NEW i \in Header, Enter(h, i) PROVE TypeOK'
  <2>1. CASE Take(h, i)
    <3>1. pc[h] # "resolve"
      BY <1>3 DEF Enter
    <3> QED BY <2>1, <3>1, TakeTypes
  <2>2. CASE ~Take(h, i)
    <3>1. /\ writer' = [writer EXCEPT ![i] = h] /\ writer[i] = Nobody
          /\ pc' = [pc EXCEPT ![h] = "resolve"] /\ at[h] = i
          /\ pc[h] = "queued" /\ UNCHANGED <<at, got, cached, fresh, count>>
      BY <1>3, <2>2 DEF Enter, Goto
    <3>2. HandlersTyped' /\ ValuesTyped'
      BY <3>1
    <3>3. LocksHeld'
      BY <3>1, StaticAssumption
    <3> QED BY <3>2, <3>3
  <2> QED BY <2>1, <2>2
<1>4. ASSUME NEW h \in Handler, Use(h) PROVE TypeOK'
  BY <1>4 DEF Use, Goto
<1>5. ASSUME NEW i \in Header, Age(i) PROVE TypeOK'
  BY <1>5 DEF Age, handlerVars
<1>6. CASE UNCHANGED vars
  BY <1>6 DEF vars, handlerVars
<1> QED BY <1>1, <1>2, <1>3, <1>4, <1>5, <1>6, ResolveTypes, EvictTypes, LeaveTypes
        DEF Next, Collect, Unauthorized

-----------------------------------------------------------------------------
(* A step of another handler, or of none, takes from a handler nothing of   *)
(* what it has, and puts nothing it had back in a cache: what is resolved   *)
(* is newer than every value there is.                                      *)
LEMMA OthersKept ==
  ASSUME Inv, NEW k \in Handler, UNCHANGED <<pc[k], at[k]>>,
         \A j \in Header : /\ got'[j][k] = got[j][k]
                           /\ cached'[j] \in {cached[j], None, count[j] + 1}
  PROVE  Has(k)' /\ Gone(k)'
<1>1. Has(k)'
  BY DEF Inv, Has, Collecting
<1>2. Gone(k)'
  <2>1. \A j \in Header :
          /\ got[j][k] \in Nat /\ got[j][k] <= count[j] /\ count[j] \in Nat
          /\ got[j][k] # None => got[j][k] # count[j] + 1
    BY DEF Inv, TypeOK, ValuesTyped
  <2>2. pc[k] \in {"reject", "evicted"} => \A j \in Header : got[j][k] # None
    BY DEF Inv, Has
  <2> QED BY <2>1, <2>2 DEF Inv, Gone
<1> QED BY <1>1, <1>2

(* The handler that takes or resolves the value of a header has one more. *)
LEMMA MoreKept ==
  ASSUME Inv, TypeOK', NEW h \in Handler, NEW i \in Header,
         at[h] = i, pc[h] \in Collecting, Onward(h, "read", "ready"),
         NEW v \in Nat, v # None, got' = [got EXCEPT ![i][h] = v]
  PROVE  Has(h)' /\ Gone(h)'
<1>1. /\ pc'[h] = IF i = Headers THEN "ready" ELSE "read"
      /\ at'[h] = IF i = Headers THEN 1 ELSE i + 1
  BY OnwardTypes DEF Inv, TypeOK, HandlersTyped
<1>2. \A j \in Header : got[j][h] = None <=> j >= i
  BY DEF Inv, Has
<1>3. \A j \in Header : got'[j][h] = IF j = i THEN v ELSE got[j][h]
  BY DEF Inv, TypeOK, ValuesTyped
<1>4. \A j \in Header : j \in Nat /\ j <= Headers
  BY StaticAssumption DEF Header
<1>5. \A j \in Header : got'[j][h] = None <=> j >= i + 1
  BY <1>2, <1>3, <1>4
<1>6. CASE i = Headers
  BY <1>1, <1>4, <1>5, <1>6, StaticAssumption DEF Has, Gone, Collecting
<1>7. CASE i # Headers
  BY <1>1, <1>5, <1>7 DEF Has, Gone, Collecting
<1> QED BY <1>6, <1>7

LEMMA TakeKept ==
  ASSUME Inv, TypeOK', NEW h \in Handler, NEW i \in Header,
         at[h] = i, pc[h] \in Collecting, Take(h, i)
  PROVE  Inv'
<1>1. Has(h)' /\ Gone(h)'
  <2>1. cached[i] \in Nat /\ cached[i] # None /\ got' = [got EXCEPT ![i][h] = cached[i]]
    BY DEF Inv, TypeOK, ValuesTyped, Take, Usable
  <2> QED BY <2>1, MoreKept DEF Take
<1>2. ASSUME NEW k \in Handler, k # h PROVE Has(k)' /\ Gone(k)'
  <2>1. UNCHANGED <<pc[k], at[k]>>
    BY <1>2, OnwardTypes DEF Inv, TypeOK, HandlersTyped, Take
  <2>2. \A j \in Header : got'[j][k] = got[j][k] /\ cached'[j] = cached[j]
    BY <1>2 DEF Inv, TypeOK, ValuesTyped, Take
  <2> QED BY <2>1, <2>2, OthersKept
<1> QED BY <1>1, <1>2 DEF Inv

LEMMA ResolveKept ==
  ASSUME Inv, TypeOK', NEW h \in Handler, NEW i \in Header, Resolve(h, i)
  PROVE  Inv'
<1>1. Has(h)' /\ Gone(h)'
  <2>1. CASE Goto(h, "done")
    BY <2>1 DEF Inv, TypeOK, HandlersTyped, Goto, Has, Gone, Collecting
  <2>2. CASE got' = [got EXCEPT ![i][h] = count[i] + 1] /\ Onward(h, "read", "ready")
    <3>1. count[i] + 1 \in Nat /\ count[i] + 1 # None
      BY DEF Inv, TypeOK, ValuesTyped, None
    <3>2. at[h] = i /\ pc[h] \in Collecting
      BY DEF Resolve, Collecting
    <3> QED BY <2>2, <3>1, <3>2, MoreKept
  <2> QED BY <2>1, <2>2 DEF Resolve
<1>2. ASSUME NEW k \in Handler, k # h PROVE Has(k)' /\ Gone(k)'
  <2>1. UNCHANGED <<pc[k], at[k]>>
    BY <1>2, OnwardTypes DEF Inv, TypeOK, HandlersTyped, Resolve, Goto
  <2>2. \A j \in Header : /\ got'[j][k] = got[j][k]
                          /\ cached'[j] \in {cached[j], count[j] + 1}
    BY <1>2 DEF Inv, TypeOK, ValuesTyped, Resolve
  <2> QED BY <2>1, <2>2, OthersKept
<1> QED BY <1>1, <1>2 DEF Inv

LEMMA EvictKept ==
  ASSUME Inv, TypeOK', NEW h \in Handler, NEW i \in Header, Evict(h, i)
  PROVE  Inv'
<1>1. \A j \in Header : /\ cached'[j] = IF j = i THEN None ELSE cached[j]
                        /\ j \in Nat /\ j <= Headers
  BY StaticAssumption DEF Inv, TypeOK, ValuesTyped, Evict, Header
<1>2. Has(h)' /\ Gone(h)'
  <2>1. /\ pc[h] = "reject" /\ at[h] = i /\ got' = got
        /\ pc'[h] = IF i = Headers THEN "evicted" ELSE "reject"
        /\ at'[h] = IF i = Headers THEN 1 ELSE i + 1
    BY OnwardTypes DEF Inv, TypeOK, HandlersTyped, Evict, NextToEvict
  <2>2. /\ \A j \in Header : got[j][h] # None
        /\ \A j \in Header : j < i => cached[j] # got[j][h]
    BY <2>1 DEF Inv, Has, Gone
  <2>3. \A j \in Header : j < i + 1 => cached'[j] # got'[j][h]
    BY <1>1, <2>1, <2>2
  <2>4. Has(h)'
    BY <2>1, <2>2 DEF Has, Collecting
  <2>5. Gone(h)'
    BY <1>1, <2>1, <2>3 DEF Gone
  <2> QED BY <2>4, <2>5
<1>3. ASSUME NEW k \in Handler, k # h PROVE Has(k)' /\ Gone(k)'
  <2>1. UNCHANGED <<pc[k], at[k]>>
    BY <1>3, OnwardTypes DEF Inv, TypeOK, HandlersTyped, Evict, NextToEvict
  <2> QED BY <1>1, <2>1, OthersKept DEF Evict
<1> QED BY <1>2, <1>3 DEF Inv

(* A handler that changes its place only, and no value.                    *)
LEMMA PlaceKept ==
  ASSUME Inv, TypeOK', NEW h \in Handler, NEW place, Goto(h, place),
         UNCHANGED <<at, got, cached>>,
         \/ place = "done"
         \/ pc[h] = "idle" /\ place = "read"
         \/ pc[h] = "ready" /\ place = "reject"
         \/ pc[h] \in Collecting /\ place \in Collecting
  PROVE  Inv'
<1>1. \A k \in Handler : pc'[k] = IF k = h THEN place ELSE pc[k]
  BY DEF Inv, TypeOK, HandlersTyped, Goto
<1>2. Has(h)' /\ Gone(h)'
  <2>1. \A j \in Header : j \in Nat /\ j >= 1
    BY DEF Header
  <2> QED BY <1>1, <2>1 DEF Inv, Has, Gone, Collecting
<1>3. ASSUME NEW k \in Handler, k # h PROVE Has(k)' /\ Gone(k)'
  BY <1>1, <1>3, OthersKept
<1> QED BY <1>2, <1>3 DEF Inv

LEMMA InvKept == Inv /\ [Next]_vars => Inv'
<1> SUFFICES ASSUME Inv, [Next]_vars PROVE Inv'
  OBVIOUS
<1>0. TypeOK'
  BY TypesKept DEF Inv
<1>1. ASSUME NEW h \in Handler, Begin(h) PROVE Inv'
  BY <1>0, <1>1, PlaceKept DEF Begin, headerVars
<1>2. ASSUME NEW h \in Handler, NEW i \in Header, Read(h, i) PROVE Inv'
  BY <1>0, <1>2, PlaceKept, TakeKept DEF Read, headerVars, Collecting
<1>3. ASSUME NEW h \in Handler, NEW i \in Header, Enter(h, i) PROVE Inv'
  BY <1>0, <1>3, PlaceKept, TakeKept DEF Enter, Collecting
<1>4. ASSUME NEW h \in Handler, Use(h) PROVE Inv'
  BY <1>0, <1>4, PlaceKept DEF Use, headerVars
<1>5. ASSUME NEW h \in Handler, Leave(h) PROVE Inv'
  BY <1>0, <1>5, PlaceKept DEF Leave
<1>6. ASSUME UNCHANGED <<pc, at, got, cached>> PROVE Inv'
  BY <1>0, <1>6 DEF Inv, Has, Gone
<1>7. CASE UNCHANGED vars
  BY <1>6, <1>7 DEF vars, handlerVars, headerVars
<1>8. ASSUME NEW i \in Header, Age(i) PROVE Inv'
  BY <1>6, <1>8 DEF Age, handlerVars
<1> QED BY <1>0, <1>1, <1>2, <1>3, <1>4, <1>5, <1>7, <1>8, ResolveKept, EvictKept
        DEF Next, Collect, Unauthorized

LEMMA InvStart == Init => Inv
BY TypesStart, HeaderFacts DEF Init, Inv, Has, Gone, Collecting

LEMMA Invariance == Spec => []Inv
BY InvStart, InvKept, PTL DEF Spec

(* Every variable keeps its type, and the lock of a header is held by the  *)
(* handler that resolves its credential and by none that failed or left.   *)
THEOREM TypeCorrect == Spec => []TypeOK
<1>1. Inv => TypeOK
  BY DEF Inv
<1> QED BY <1>1, Invariance, PTL

(* After a 401 none of the rejected values is in any cache, nor comes back. *)
THEOREM RejectedValuesGone == Spec => []RejectedGone
<1>1. Inv => RejectedGone
  BY DEF Inv, Has, Gone, RejectedGone
<1> QED BY <1>1, Invariance, PTL

-----------------------------------------------------------------------------
(* Refinement: what a step is to the CredentialCache of each header.       *)

(* Nothing, to a header it is not about.                                   *)
LEMMA CacheUntouched ==
  ASSUME NEW j \in Header,
         UNCHANGED <<cached[j], fresh[j], writer[j], got[j]>>
  PROVE  UNCHANGED Cache(j)!cvars
BY DEF Cache!cvars

LEMMA TakeCached ==
  ASSUME Inv, NEW h \in Handler, NEW i \in Header, NEW j \in Header,
         at[h] = i, pc[h] \in Collecting, writer[i] = Nobody, Take(h, i)
  PROVE  Cache(j)!Next \/ UNCHANGED Cache(j)!cvars
<1>1. CASE j = i
  <2>1. got'[i] = [got[i] EXCEPT ![h] = cached[i]]
    BY DEF Inv, TypeOK, ValuesTyped, Take
  <2>2. got[i][h] = None /\ i >= at[h]
    BY DEF Inv, Has, Header
  <2>3. Cache(i)!Hit(h)
    BY <2>1, <2>2 DEF Cache!Hit, Cache!Usable, Take, Usable
  <2> QED BY <1>1, <2>3 DEF Cache!Next
<1>2. CASE j # i
  BY <1>2, CacheUntouched DEF Inv, TypeOK, ValuesTyped, Take
<1> QED BY <1>1, <1>2

LEMMA EnterCached ==
  ASSUME Inv, NEW h \in Handler, NEW i \in Header, NEW j \in Header, Enter(h, i)
  PROVE  Cache(j)!Next \/ UNCHANGED Cache(j)!cvars
<1>1. at[h] = i /\ pc[h] \in Collecting /\ writer[i] = Nobody
  BY DEF Enter, Collecting
<1>2. CASE Take(h, i)
  BY <1>1, <1>2, TakeCached
<1>3. CASE ~Usable(i) /\ writer' = [writer EXCEPT ![i] = h]
           /\ UNCHANGED <<got, cached, fresh>>
  <2>1. got[i][h] = None
    BY <1>1 DEF Inv, Has, Header
  <2>2. CASE j = i
    <3>1. Cache(i)!Fetch(h)
      BY <1>1, <1>3, <2>1
         DEF Inv, TypeOK, LocksHeld, Cache!Fetch, Cache!Usable, Usable
    <3> QED BY <2>2, <3>1 DEF Cache!Next
  <2>3. CASE j # i
    BY <1>3, <2>3, CacheUntouched DEF Inv, TypeOK, LocksHeld
  <2> QED BY <2>2, <2>3
<1> QED BY <1>2, <1>3 DEF Enter, StillMissing

LEMMA ResolveCached ==
  ASSUME Inv, NEW h \in Handler, NEW i \in Header, NEW j \in Header, Resolve(h, i)
  PROVE  Cache(j)!Next \/ UNCHANGED Cache(j)!cvars
<1>1. writer[i] = h /\ writer' = [writer EXCEPT ![i] = Nobody]
  BY DEF Inv, TypeOK, LocksHeld, Resolve, Freed
<1>2. CASE UNCHANGED <<got, cached, fresh>>
  <2>1. CASE j = i
    <3>1. Cache(i)!GiveUp(h)
      BY <1>1, <1>2 DEF Inv, TypeOK, LocksHeld, Cache!GiveUp
    <3> QED BY <2>1, <3>1 DEF Cache!Next
  <2>2. CASE j # i
    BY <1>1, <1>2, <2>2, CacheUntouched DEF Inv, TypeOK, LocksHeld
  <2> QED BY <2>1, <2>2
<1>3. CASE /\ cached' = [cached EXCEPT ![i] = count[i] + 1]
           /\ got' = [got EXCEPT ![i][h] = count[i] + 1]
           /\ fresh' = [fresh EXCEPT ![i] = TRUE]
  <2>1. CASE j = i
    <3>1. /\ cached'[i] = count[i] + 1 /\ fresh'[i] = TRUE
          /\ got'[i] = [got[i] EXCEPT ![h] = count[i] + 1]
          /\ writer'[i] = Nobody
      BY <1>1, <1>3 DEF Inv, TypeOK, ValuesTyped, LocksHeld
    <3>2. /\ count[i] + 1 \in Nat \ {None, cached[i]}
          /\ count[i] + 1 \notin {got[i][k] : k \in Handler}
      BY DEF Inv, TypeOK, ValuesTyped, None
    <3>3. Cache(i)!Fetched(h)
      BY <1>1, <3>1, <3>2 DEF Cache!Fetched
    <3> QED BY <2>1, <3>3 DEF Cache!Next
  <2>2. CASE j # i
    BY <1>1, <1>3, <2>2, CacheUntouched DEF Inv, TypeOK, ValuesTyped, LocksHeld
  <2> QED BY <2>1, <2>2
<1> QED BY <1>2, <1>3 DEF Resolve

LEMMA EvictCached ==
  ASSUME Inv, NEW h \in Handler, NEW i \in Header, NEW j \in Header, Evict(h, i)
  PROVE  Cache(j)!Next \/ UNCHANGED Cache(j)!cvars
<1>1. CASE j = i
  <2>1. Cache(i)!Evict
    BY DEF Inv, TypeOK, ValuesTyped, Evict, Cache!Evict
  <2> QED BY <1>1, <2>1 DEF Cache!Next
<1>2. CASE j # i
  BY <1>2, CacheUntouched DEF Inv, TypeOK, ValuesTyped, Evict
<1> QED BY <1>1, <1>2

(* A handler that leaves in the middle of a call of the provider gives up. *)
LEMMA LeaveCached ==
  ASSUME Inv, NEW h \in Handler, NEW j \in Header, Leave(h)
  PROVE  Cache(j)!Next \/ UNCHANGED Cache(j)!cvars
<1>1. CASE pc[h] = "resolve" /\ at[h] = j
  <2>1. writer[j] = h /\ writer'[j] = Nobody
    BY <1>1 DEF Inv, TypeOK, LocksHeld, Leave, Freed
  <2>2. Cache(j)!GiveUp(h)
    BY <2>1 DEF Cache!GiveUp, Leave
  <2> QED BY <2>2 DEF Cache!Next
<1>2. CASE ~(pc[h] = "resolve" /\ at[h] = j)
  <2>1. writer'[j] = writer[j]
    BY <1>2 DEF Inv, TypeOK, HandlersTyped, LocksHeld, Leave, Freed
  <2> QED BY <2>1, CacheUntouched DEF Leave
<1> QED BY <1>1, <1>2

LEMMA AgeCached ==
  ASSUME Inv, NEW i \in Header, NEW j \in Header, Age(i)
  PROVE  Cache(j)!Next \/ UNCHANGED Cache(j)!cvars
<1>1. CASE j = i
  <2>1. Cache(i)!Ages
    BY DEF Inv, TypeOK, ValuesTyped, Age, Cache!Ages
  <2> QED BY <1>1, <2>1 DEF Cache!Next
<1>2. CASE j # i
  BY <1>2, CacheUntouched DEF Inv, TypeOK, ValuesTyped, Age
<1> QED BY <1>1, <1>2

LEMMA StepCached ==
  ASSUME Inv, [Next]_vars, NEW j \in Header
  PROVE  Cache(j)!Next \/ UNCHANGED Cache(j)!cvars
<1>1. ASSUME UNCHANGED headerVars
      PROVE  UNCHANGED Cache(j)!cvars
  BY <1>1, CacheUntouched DEF headerVars
<1>2. ASSUME NEW h \in Handler, NEW i \in Header, Read(h, i)
      PROVE  Cache(j)!Next \/ UNCHANGED Cache(j)!cvars
  BY <1>1, <1>2, TakeCached DEF Read, Collecting
<1>3. ASSUME NEW h \in Handler, Begin(h) \/ Use(h)
      PROVE  UNCHANGED Cache(j)!cvars
  BY <1>1, <1>3 DEF Begin, Use
<1>4. CASE UNCHANGED vars
  BY <1>1, <1>4 DEF vars
<1> QED BY <1>2, <1>3, <1>4, EnterCached, ResolveCached, EvictCached, LeaveCached,
           AgeCached
        DEF Next, Collect, Unauthorized

(* Each header implements CredentialCache: one handler resolves at a time, *)
(* none while a value is usable, and no value comes back.                  *)
THEOREM ImplementsCaches == Spec => IsCache
<1>1. Init => \A i \in Header : Cache(i)!Init
  BY DEF Init, Cache!Init
<1>2. Inv /\ [Next]_vars =>
        [\A i \in Header : Cache(i)!Next \/ UNCHANGED Cache(i)!cvars]_vars
  BY StepCached
<1> QED BY <1>1, <1>2, Invariance, PTL DEF Spec, IsCache

-----------------------------------------------------------------------------
(* Requests and refreshes. *)

FetchProof == INSTANCE ToolDiscoveryProofs

LEMMA StepOfTokens == [RefreshNext]_refreshVars => [Next]_vars
<1> SUFFICES ASSUME [RefreshNext]_refreshVars PROVE [Next]_vars
  OBVIOUS
<1>1. ASSUME NEW h \in Request, Forward(h) PROVE Next
  <2>1. h \in Handler
    BY RefreshAssumption
  <2>2. Use(h)
    BY <1>1 DEF Forward, Use
  <2> QED BY <2>1, <2>2 DEF Next
<1>2. ASSUME NEW f \in Refresher, EndFetch(f) PROVE Next
  <2>1. f \in Handler
    BY RefreshAssumption
  <2>2. Use(f)
    BY <1>2 DEF EndFetch, Use
  <2> QED BY <2>1, <2>2 DEF Next
<1>3. ASSUME NEW f \in Refresher, StartFetch(f) \/ Proceed(f) \/ Happens(f)
      PROVE  UNCHANGED vars
  BY <1>3 DEF StartFetch, Proceed, Happens
<1>4. ASSUME NEW f \in Refresher, LeaveRefresh(f) PROVE Next
  BY <1>4, RefreshAssumption DEF LeaveRefresh, Next
<1>5. ASSUME NEW h \in Handler, Resolving(h) PROVE Next
  BY <1>5 DEF Resolving, Next, Collect
<1>6. ASSUME NEW h \in Request, Rejected(h) PROVE Next
  BY <1>6, RefreshAssumption DEF Rejected, Next
<1>7. CASE Elsewhere
  BY <1>7, RefreshAssumption DEF Elsewhere, Next, Collect
<1>8. CASE UNCHANGED refreshVars
  BY <1>8 DEF refreshVars
<1> QED BY <1>1, <1>2, <1>3, <1>4, <1>5, <1>6, <1>7, <1>8 DEF RefreshNext

LEMMA StepOfFetches == [RefreshNext]_refreshVars => [Fetch!Next]_(Fetch!vars)
<1> SUFFICES ASSUME [RefreshNext]_refreshVars PROVE [Fetch!Next]_(Fetch!vars)
  OBVIOUS
<1> USE DEF fetchVars, Fetch!vars, Fetch!peerVars
<1>1. ASSUME NEW f \in Refresher,
             StartFetch(f) \/ Proceed(f) \/ Happens(f) \/ LeaveRefresh(f)
      PROVE  Fetch!Next \/ UNCHANGED fetchVars
  BY <1>1 DEF StartFetch, Proceed, Happens, LeaveRefresh, Fetch!Next
<1>2. ASSUME NEW f \in Refresher, EndFetch(f) PROVE UNCHANGED fetchVars
  BY <1>2 DEF EndFetch
<1>3. ASSUME NEW h, Resolving(h) \/ Rejected(h) \/ Forward(h)
      PROVE  UNCHANGED fetchVars
  BY <1>3 DEF Resolving, Rejected, Forward
<1>4. CASE Elsewhere
  BY <1>4 DEF Elsewhere
<1>5. CASE UNCHANGED refreshVars
  BY <1>5 DEF refreshVars
<1> QED BY <1>1, <1>2, <1>3, <1>4, <1>5 DEF RefreshNext

-----------------------------------------------------------------------------
(* Fetch and FetchProof are instances with the same arguments, so that what *)
(* one calls a step, an assumption or a property the other does, too.      *)

LEMMA SameNext == Fetch!Next <=> FetchProof!Next
BY Zenon
   DEF Fetch!Version, FetchProof!Version, Fetch!Newest, FetchProof!Newest,
         Fetch!peerVars, FetchProof!peerVars, Fetch!Choice,
         FetchProof!Choice, Fetch!Failure, FetchProof!Failure,
         Fetch!Fallback, FetchProof!Fallback, Fetch!NewestLegacy,
         FetchProof!NewestLegacy, Fetch!BestOf, FetchProof!BestOf,
         Fetch!HttpChoice, FetchProof!HttpChoice, Fetch!StdioChoice,
         FetchProof!StdioChoice, Fetch!Says, FetchProof!Says, Fetch!Reply,
         FetchProof!Reply, Fetch!Goto, FetchProof!Goto, Fetch!Take,
         FetchProof!Take, Fetch!Err, FetchProof!Err, Fetch!Start,
         FetchProof!Start, Fetch!SameSession, FetchProof!SameSession,
         Fetch!Send, FetchProof!Send, Fetch!SendDiscover,
         FetchProof!SendDiscover, Fetch!SendInitialize,
         FetchProof!SendInitialize, Fetch!SendInitialized,
         FetchProof!SendInitialized, Fetch!SendList, FetchProof!SendList,
         Fetch!Awaited, FetchProof!Awaited, Fetch!For, FetchProof!For,
         Fetch!Discovered, FetchProof!Discovered, Fetch!InitializeAnswered,
         FetchProof!InitializeAnswered, Fetch!ListAnswered,
         FetchProof!ListAnswered, Fetch!Answer, FetchProof!Answer,
         Fetch!TimeUp, FetchProof!TimeUp, Fetch!GiveUp, FetchProof!GiveUp,
         Fetch!Die, FetchProof!Die, Fetch!Drop, FetchProof!Drop,
         Fetch!Sends, FetchProof!Sends, Fetch!Receives, FetchProof!Receives,
         Fetch!Next, FetchProof!Next

LEMMA SameSpec == Fetch!Spec <=> FetchProof!Spec
BY SameNext, PTL
   DEF Fetch!Spec, FetchProof!Spec, Fetch!Init, FetchProof!Init,
       Fetch!vars, FetchProof!vars, Fetch!peerVars, FetchProof!peerVars

LEMMA SameAssumption == FetchProof!DiscoveryAssumption
BY Zenon, RefreshAssumption
   DEF Fetch!DiscoveryAssumption, FetchProof!DiscoveryAssumption,
       Fetch!Newest, FetchProof!Newest, Fetch!Version, FetchProof!Version

LEMMA SameListed == Fetch!ListedInSession <=> FetchProof!ListedInSession
BY Zenon DEF Fetch!ListedInSession, FetchProof!ListedInSession

LEMMA SameTypes == Fetch!TypeOK <=> FetchProof!TypeOK
BY Zenon DEF Fetch!TypeOK, FetchProof!TypeOK, Fetch!Version, FetchProof!Version

LEMMA SameHandshake == Fetch!IsHandshake <=> FetchProof!IsHandshake
<1>1. (\A f \in Refresher : Fetch!Session(f)!Init)
        <=> \A f \in Refresher : FetchProof!Session(f)!Init
  BY Zenon DEF Fetch!Session!Init, FetchProof!Session!Init,
               Fetch!Phase, FetchProof!Phase
<1>2. (\A f \in Refresher : Fetch!Session(f)!Next \/ UNCHANGED Fetch!Session(f)!hvars)
        <=> \A f \in Refresher :
              FetchProof!Session(f)!Next \/ UNCHANGED FetchProof!Session(f)!hvars
  BY Zenon
     DEF Fetch!Session!Next, FetchProof!Session!Next, Fetch!Session!Choose,
         FetchProof!Session!Choose, Fetch!Session!Initialize,
         FetchProof!Session!Initialize, Fetch!Session!Initialized,
         FetchProof!Session!Initialized, Fetch!Session!List,
         FetchProof!Session!List, Fetch!Session!Fail,
         FetchProof!Session!Fail, Fetch!Session!hvars,
         FetchProof!Session!hvars, Fetch!Session!Newest,
         FetchProof!Session!Newest, Fetch!Phase, FetchProof!Phase
<1> QED
  BY <1>1, <1>2, PTL DEF Fetch!IsHandshake, FetchProof!IsHandshake,
       Fetch!vars, FetchProof!vars, Fetch!peerVars, FetchProof!peerVars

-----------------------------------------------------------------------------
(* What is left to the composition. *)
Begun(f) == stage[f] \notin {"idle", "listed", "failed"}
Own ==
  /\ listed \in Refresher \cup {Nobody}
  /\ \A f \in Refresher : Begun(f) => pc[f] = "ready"

LEMMA FetchGoesOn ==
  ASSUME Fetch!TypeOK, NEW f \in Refresher, NEW g \in Refresher,
         Begun(g)',
         Fetch!Sends(f) \/ Fetch!Receives(f) \/ Fetch!GiveUp(f)
           \/ Fetch!Drop(f) \/ Fetch!Die(f)
  PROVE  Begun(g)
<1> USE DEF Begun, Fetch!Goto, Fetch!TypeOK
<1>1. CASE Fetch!Sends(f)
  BY <1>1 DEF Fetch!Sends, Fetch!SendDiscover, Fetch!SendInitialize,
              Fetch!SendInitialized, Fetch!SendList, Fetch!Send, Fetch!Err, Fetch!Take
<1>2. CASE Fetch!Receives(f)
  BY <1>2 DEF Fetch!Receives, Fetch!Answer, Fetch!Discovered, Fetch!Take,
              Fetch!InitializeAnswered, Fetch!ListAnswered
<1>3. CASE Fetch!GiveUp(f)
  BY <1>3 DEF Fetch!GiveUp, Fetch!Awaited, Fetch!Err, Fetch!Take
<1>4. CASE Fetch!Drop(f) \/ Fetch!Die(f)
  BY <1>4 DEF Fetch!Drop, Fetch!Die
<1> QED BY <1>1, <1>2, <1>3, <1>4

LEMMA OwnKept == TypeOK /\ Fetch!TypeOK /\ Own /\ [RefreshNext]_refreshVars => Own'
<1> SUFFICES ASSUME TypeOK, Fetch!TypeOK, Own, [RefreshNext]_refreshVars
             PROVE  Own'
  OBVIOUS
<1> USE DEF TypeOK, HandlersTyped, Own
<1>1. ASSUME NEW h \in Handler, pc[h] # "ready", UNCHANGED <<fetchVars, listed>>,
             NEW place, pc' = [pc EXCEPT ![h] = place]
      PROVE  Own'
  BY <1>1, RefreshAssumption DEF fetchVars, Begun
<1>2. ASSUME NEW h \in Request, UNCHANGED <<fetchVars, listed>>,
             NEW place, pc' = [pc EXCEPT ![h] = place]
      PROVE  Own'
  BY <1>2, RefreshAssumption DEF fetchVars, Begun
<1>3. ASSUME NEW h \in Handler, Resolving(h) PROVE Own'
  <2>1. pc[h] # "ready" /\ UNCHANGED <<fetchVars, listed>>
        /\ \E place : pc' = [pc EXCEPT ![h] = place]
    BY <1>3 DEF Resolving, Read, Enter, Resolve, Take, Onward, Goto
  <2> QED BY <1>1, <2>1
<1>4. ASSUME NEW h \in Request, Forward(h) \/ Rejected(h) PROVE Own'
  <2>1. UNCHANGED <<fetchVars, listed>> /\ \E place : pc' = [pc EXCEPT ![h] = place]
    BY <1>4
       DEF Forward, Rejected, Unauthorized, Evict, NextToEvict, Onward, Goto
  <2> QED BY <1>2, <2>1
<1>5. ASSUME NEW f \in Refresher, StartFetch(f) PROVE Own'
  BY <1>5
     DEF StartFetch, Fetch!Start, Fetch!Goto, Fetch!TypeOK, Begun, vars, handlerVars
<1>6. ASSUME NEW f \in Refresher, Proceed(f) \/ Happens(f) PROVE Own'
  BY <1>6, FetchGoesOn DEF Proceed, Happens, vars, handlerVars
<1>7. ASSUME NEW f \in Refresher, EndFetch(f) PROVE Own'
  BY <1>7, RefreshAssumption DEF EndFetch, Goto, fetchVars, Begun
<1>8. ASSUME NEW f \in Refresher, LeaveRefresh(f) PROVE Own'
  <2>1. pc' = [pc EXCEPT ![f] = "done"] /\ f \in Handler /\ listed' = listed
    BY <1>8, RefreshAssumption DEF LeaveRefresh, Leave, Goto
  <2>2. CASE Fetch!Drop(f)
    <3>1. ~Begun(f)'
      BY <2>2 DEF Fetch!Drop, Fetch!Goto, Fetch!TypeOK, Begun
    <3> QED BY <2>1, <2>2, <3>1, FetchGoesOn
  <2>3. CASE ~Begun(f) /\ UNCHANGED fetchVars
    BY <2>1, <2>3 DEF fetchVars, Begun
  <2> QED BY <1>8, <2>2, <2>3 DEF LeaveRefresh, Begun
<1>9. CASE Elsewhere
  <2>1. ASSUME NEW h \in Handler, Begin(h) PROVE Own'
    BY <1>1, <1>9, <2>1 DEF Elsewhere, Begin, Goto
  <2>2. ASSUME NEW h \in Request, Leave(h) PROVE Own'
    BY <1>2, <1>9, <2>2 DEF Elsewhere, Leave, Goto
  <2>3. ASSUME NEW i \in Header, Age(i) PROVE Own'
    BY <1>9, <2>3 DEF Elsewhere, Age, handlerVars, fetchVars, Begun
  <2> QED BY <1>9, <2>1, <2>2, <2>3 DEF Elsewhere
<1>10. CASE UNCHANGED refreshVars
  BY <1>10 DEF refreshVars, vars, handlerVars, fetchVars, Begun
<1> QED BY <1>3, <1>4, <1>5, <1>6, <1>7, <1>8, <1>9, <1>10 DEF RefreshNext

-----------------------------------------------------------------------------
LEMMA Parts == RefreshSpec => Spec /\ FetchProof!Spec
<1>1. RefreshInit => Init /\ Fetch!Init
  BY DEF RefreshInit
<1> QED
  BY <1>1, StepOfTokens, StepOfFetches, SameSpec, PTL
     DEF RefreshSpec, Spec, Fetch!Spec

(* Types of the composition; a fetch is under way only for a refresh that  *)
(* has its headers.                                                        *)
THEOREM RefreshTypeCorrect == RefreshSpec => []RefreshTypeOK
<1>1. RefreshInit => Own
  BY DEF RefreshInit, Fetch!Init, Own, Begun
<1>2. FetchProof!Spec => []FetchProof!TypeOK
  BY SameAssumption, FetchProof!TypeCorrect
<1>3. TypeOK /\ Fetch!TypeOK /\ Own => RefreshTypeOK
  BY DEF Own, Begun, RefreshTypeOK
<1> QED
  BY <1>1, <1>2, <1>3, Parts, OwnKept, SameTypes, TypeCorrect, PTL
     DEF RefreshSpec

(* With refreshes and requests on the same credentials, whatever a 401     *)
(* rejected is gone for both.                                              *)
THEOREM RefreshRejectedGone == RefreshSpec => []RejectedGone
BY Parts, RejectedValuesGone, PTL

(* Each header is a CredentialCache to requests and refreshes.             *)
THEOREM RefreshIsCache == RefreshSpec => IsCache
BY Parts, ImplementsCaches, PTL

(* Every refresh of the tools goes through a Handshake with the server.     *)
THEOREM RefreshIsHandshake == RefreshSpec => IsHandshake
<1>1. FetchProof!Spec => FetchProof!IsHandshake
  BY SameAssumption, FetchProof!ImplementsHandshake
<1> QED BY <1>1, Parts, SameHandshake, PTL DEF IsHandshake

(* In the older protocol tools are asked of a server, or a child, that has *)
(* been through the whole handshake, or of a child that replaced it.       *)
THEOREM RefreshListedInSession == RefreshSpec => []ListedInSession
<1>1. FetchProof!Spec => []FetchProof!ListedInSession
  BY SameAssumption, FetchProof!ListedOnlyInSession
<1> QED BY <1>1, Parts, SameListed, PTL DEF ListedInSession
=============================================================================
