-------------------------- MODULE TokenStoreProofs --------------------------
(***************************************************************************)
(* Proofs about TokenStore: its types for any calls, and, for calls that   *)
(* are made one after the other, that what is stored stays and that file   *)
(* and memory keep together.                                               *)
(***************************************************************************)
EXTENDS TokenStore, TLAPS

Cut == {Torn, Garbage}

(* One call at a time works on the store. *)
Alone == \A c, d \in Call : UnderWay(c) /\ UnderWay(d) => c = d

(* The map that a call has written or will write is the one in memory but  *)
(* for its own entry; when it is written, the file holds it.               *)
Based ==
  \A c \in Call :
    /\ pc[c] = "write" \/ task[c] \in {"open", "put"} =>
         \A k \in Key \ {key[c]} : copy[c][k] = cache[k]
    /\ pc[c] = "write" /\ task[c] = "over" => file = copy[c]
    /\ task[c] = "put" => file = Torn
    /\ task[c] \in {"open", "put"} => pc[c] \in {"write", "left"}

(* A call whose map the file holds, and the memory does not. *)
Ahead(c) ==
  /\ pc[c] = "left" \/ (pc[c] = "write" /\ task[c] = "over")
  /\ file = copy[c]
  /\ \A k \in Key \ {key[c]} : copy[c][k] = cache[k]

Linked == cache # Unread /\ file \notin Cut => file = cache \/ \E c \in Call : Ahead(c)

(* A file that is cut is being written, or its writing failed. *)
Excused ==
  cache # Unread /\ file \in Cut =>
    cache = Nothing \/ \E c \in Call : task[c] \in {"put", "failed"}

IInv == TypeOK /\ Alone /\ Based /\ Linked /\ Excused
-----------------------------------------------------------------------------
(* What a get returns is a map, and saving changes one entry of it: how    *)
(* Held, Seen and Changed are typed.                                       *)
LEMMA MapsTyped ==
  ASSUME TypeOK
  PROVE  Held \in Map /\ Seen \in Map /\ \A c \in Call : Changed(c) \in Map
BY TokenStoreAssumption DEF TypeOK, Map, Held, Seen, Changed, Nothing

(* The types hold at first. *)
LEMMA InitTyped == Init => TypeOK
BY TokenStoreAssumption DEF Init, TypeOK, Map, Nothing

(* Every step keeps the types, with one step for each action of the store. *)
LEMMA NextTyped == TypeOK /\ [Next]_vars => TypeOK'
<1> SUFFICES ASSUME TypeOK, [Next]_vars PROVE TypeOK'
  OBVIOUS
<1> USE DEF TypeOK, callVars
<1>0. Unread \notin Map /\ Seen \in Map
  BY MapsTyped, TokenStoreAssumption DEF Map
<1>1. ASSUME NEW c \in Call, NEW what \in {"get", "set", "delete"}, Begin(c, what)
      PROVE  TypeOK'
  BY <1>1 DEF Begin
<1>2. ASSUME NEW c \in Call, Load(c) PROVE TypeOK'
  <2>1. Changed(c) \in Map
    BY MapsTyped
  <2> QED BY <1>0, <1>2, <2>1 DEF Load, Kept
<1>3. ASSUME NEW c \in Call, LoadFails(c) PROVE TypeOK'
  BY <1>3 DEF LoadFails
<1>4. ASSUME NEW c \in Call, Open(c) PROVE TypeOK'
  BY <1>4 DEF Open
<1>5. ASSUME NEW c \in Call, Put(c) PROVE TypeOK'
  BY <1>5 DEF Put
<1>6. ASSUME NEW c \in Call, WriteFails(c) PROVE TypeOK'
  BY <1>6 DEF WriteFails
<1>7. ASSUME NEW c \in Call, Save(c) PROVE TypeOK'
  BY <1>0, <1>7 DEF Save, Saved
<1>8. ASSUME NEW c \in Call, SaveFails(c) PROVE TypeOK'
  BY <1>8 DEF SaveFails
<1>9. ASSUME NEW c \in Call, Leave(c) PROVE TypeOK'
  BY <1>9 DEF Leave
<1>10. ASSUME Restart PROVE TypeOK'
  BY <1>10 DEF Restart
<1>11. ASSUME UNCHANGED vars PROVE TypeOK'
  BY <1>11 DEF vars
<1> QED
  BY <1>1, <1>2, <1>3, <1>4, <1>5, <1>6, <1>7, <1>8, <1>9, <1>10, <1>11
  DEF Next, Finished

(* The types hold always, whether calls overlap or not.                    *)
THEOREM TypeCorrect == Spec => []TypeOK
BY InitTyped, NextTyped, PTL DEF Spec
-----------------------------------------------------------------------------
(* The whole invariant holds at first, before any call. *)
LEMMA InitIInv == Init => IInv
BY InitTyped, TokenStoreAssumption
   DEF Init, IInv, Alone, UnderWay, Based, Linked, Excused

(* A call begins when the others are over. *)
LEMMA AloneStep ==
  ASSUME IInv, [Next]_vars, Serial
  PROVE  Alone'
<1> USE DEF IInv, TypeOK, Alone, UnderWay
<1>1. ASSUME NEW c \in Call, NEW what \in {"get", "set", "delete"}, Begin(c, what)
      PROVE  Alone'
  BY <1>1 DEF Begin
<1>2. ASSUME NEW c \in Call, Load(c) PROVE Alone'
  BY <1>2 DEF Load
<1>3. ASSUME NEW c \in Call, LoadFails(c) PROVE Alone'
  BY <1>3 DEF LoadFails
<1>4. ASSUME NEW c \in Call, Open(c) PROVE Alone'
  BY <1>4 DEF Open
<1>5. ASSUME NEW c \in Call, Put(c) PROVE Alone'
  BY <1>5 DEF Put
<1>6. ASSUME NEW c \in Call, WriteFails(c) PROVE Alone'
  BY <1>6 DEF WriteFails
<1>7. ASSUME NEW c \in Call, Save(c) PROVE Alone'
  BY <1>7 DEF Save
<1>8. ASSUME NEW c \in Call, SaveFails(c) PROVE Alone'
  BY <1>8 DEF SaveFails
<1>9. ASSUME NEW c \in Call, Leave(c) PROVE Alone'
  BY <1>9 DEF Leave
<1>10. ASSUME Restart PROVE Alone'
  BY <1>10 DEF Restart
<1>11. ASSUME UNCHANGED vars PROVE Alone'
  BY <1>11 DEF vars
<1> QED
  BY <1>1, <1>2, <1>3, <1>4, <1>5, <1>6, <1>7, <1>8, <1>9, <1>10, <1>11
  DEF Next, Finished

(* Nobody else touches the file or the memory under a call that writes. *)
LEMMA BasedStep ==
  ASSUME IInv, [Next]_vars
  PROVE  Based'
<1> USE DEF IInv, TypeOK, Alone, UnderWay, Based, callVars
<1>1. ASSUME NEW c \in Call, NEW what \in {"get", "set", "delete"}, Begin(c, what)
      PROVE  Based'
  BY <1>1 DEF Begin
<1>2. ASSUME NEW c \in Call, Load(c) PROVE Based'
  <2>1. Seen \in Map /\ (cache # Unread => cache = Seen)
    BY MapsTyped DEF Seen
  <2>2. \A k \in Key \ {key[c]} : Changed(c)[k] = Seen[k]
    BY <2>1, MapsTyped DEF Changed, Map
  <2>3. \A d \in Call \ {c} : pc[d] # "write" /\ task[d] \notin {"open", "put"}
    BY <1>2 DEF Load
  <2> QED BY <1>2, <2>1, <2>2, <2>3 DEF Load, Kept
<1>3. ASSUME NEW c \in Call, LoadFails(c) PROVE Based'
  BY <1>3 DEF LoadFails
<1>4. ASSUME NEW c \in Call, Open(c) PROVE Based'
  BY <1>4 DEF Open
<1>5. ASSUME NEW c \in Call, Put(c) PROVE Based'
  BY <1>5 DEF Put
<1>6. ASSUME NEW c \in Call, WriteFails(c) PROVE Based'
  BY <1>6 DEF WriteFails
<1>7. ASSUME NEW c \in Call, Save(c) PROVE Based'
  <2>1. \A d \in Call \ {c} : pc[d] # "write" /\ task[d] \notin {"open", "put"}
    BY <1>7 DEF Save
  <2> QED BY <1>7, <2>1 DEF Save
<1>8. ASSUME NEW c \in Call, SaveFails(c) PROVE Based'
  BY <1>8 DEF SaveFails
<1>9. ASSUME NEW c \in Call, Leave(c) PROVE Based'
  BY <1>9 DEF Leave
<1>10. ASSUME Restart PROVE Based'
  BY <1>10 DEF Restart
<1>11. ASSUME UNCHANGED vars PROVE Based'
  BY <1>11 DEF vars
<1> QED
  BY <1>1, <1>2, <1>3, <1>4, <1>5, <1>6, <1>7, <1>8, <1>9, <1>10, <1>11
  DEF Next, Finished

(* File and memory part only by a writing, and meet again when its call    *)
(* saves.                                                                  *)
LEMMA LinkedStep ==
  ASSUME IInv, [Next]_vars
  PROVE  Linked'
<1> USE DEF IInv, TypeOK, Linked, Ahead, Cut, callVars
<1>1. ASSUME NEW c \in Call, NEW what \in {"get", "set", "delete"}, Begin(c, what)
      PROVE  Linked'
  BY <1>1 DEF Begin
<1>2. ASSUME NEW c \in Call, Load(c) PROVE Linked'
  BY <1>2 DEF Load, Kept, Seen, Held
<1>3. ASSUME NEW c \in Call, LoadFails(c) PROVE Linked'
  BY <1>3 DEF LoadFails
<1>4. ASSUME NEW c \in Call, Open(c) PROVE Linked'
  BY <1>4 DEF Open
<1>5. ASSUME NEW c \in Call, Put(c) PROVE Linked'
  <2>1. Ahead(c)'
    BY <1>5 DEF Put, Based
  <2> QED BY <2>1
<1>6. ASSUME NEW c \in Call, WriteFails(c) PROVE Linked'
  BY <1>6 DEF WriteFails, Based
<1>7. ASSUME NEW c \in Call, Save(c) PROVE Linked'
  BY <1>7 DEF Save, Saved, Based
<1>8. ASSUME NEW c \in Call, SaveFails(c) PROVE Linked'
  BY <1>8 DEF SaveFails
<1>9. ASSUME NEW c \in Call, Leave(c) PROVE Linked'
  BY <1>9 DEF Leave
<1>10. ASSUME Restart PROVE Linked'
  BY <1>10 DEF Restart
<1>11. ASSUME UNCHANGED vars PROVE Linked'
  BY <1>11 DEF vars
<1> QED
  BY <1>1, <1>2, <1>3, <1>4, <1>5, <1>6, <1>7, <1>8, <1>9, <1>10, <1>11
  DEF Next, Finished

(* A cut file has its call, until a restart or a later call. *)
LEMMA ExcusedStep ==
  ASSUME IInv, [Next]_vars
  PROVE  Excused'
<1> USE DEF IInv, TypeOK, Excused, Cut, callVars
<1>1. ASSUME NEW c \in Call, NEW what \in {"get", "set", "delete"}, Begin(c, what)
      PROVE  Excused'
  BY <1>1 DEF Begin
<1>2. ASSUME NEW c \in Call, Load(c) PROVE Excused'
  BY <1>2 DEF Load, Kept, Seen, Held
<1>3. ASSUME NEW c \in Call, LoadFails(c) PROVE Excused'
  BY <1>3 DEF LoadFails
<1>4. ASSUME NEW c \in Call, Open(c) PROVE Excused'
  BY <1>4 DEF Open
<1>5. ASSUME NEW c \in Call, Put(c) PROVE Excused'
  <2>1. file' = copy[c] /\ copy[c] \notin Cut
    BY <1>5, TokenStoreAssumption DEF Put, Based, Map
  <2> QED BY <2>1
<1>6. ASSUME NEW c \in Call, WriteFails(c) PROVE Excused'
  BY <1>6 DEF WriteFails
<1>7. ASSUME NEW c \in Call, Save(c) PROVE Excused'
  <2>1. file' \notin Cut
    BY <1>7, TokenStoreAssumption DEF Save, Based, Map
  <2> QED BY <2>1
<1>8. ASSUME NEW c \in Call, SaveFails(c) PROVE Excused'
  BY <1>8 DEF SaveFails
<1>9. ASSUME NEW c \in Call, Leave(c) PROVE Excused'
  BY <1>9 DEF Leave
<1>10. ASSUME Restart PROVE Excused'
  BY <1>10 DEF Restart
<1>11. ASSUME UNCHANGED vars PROVE Excused'
  BY <1>11 DEF vars
<1> QED
  BY <1>1, <1>2, <1>3, <1>4, <1>5, <1>6, <1>7, <1>8, <1>9, <1>10, <1>11
  DEF Next, Finished

(* The invariant of calls made one after the other. *)
LEMMA Inductive ==
  ASSUME Serial
  PROVE  Spec => []IInv
<1>1. IInv /\ [Next]_vars => IInv'
  BY NextTyped, AloneStep, BasedStep, LinkedStep, ExcusedStep DEF IInv
<1> QED BY InitIInv, <1>1, PTL DEF Spec
-----------------------------------------------------------------------------
(* "In-memory cache to avoid re-reading file on every access": between     *)
(* calls that do not overlap, file and memory hold the same, but for the   *)
(* cases that CacheIsFile names.                                           *)
THEOREM CacheKept ==
  ASSUME Serial
  PROVE  Spec => []CacheIsFile
<1>1. IInv => CacheIsFile
  <2> SUFFICES ASSUME IInv, cache # Unread, \A c \in Call : ~UnderWay(c)
               PROVE  \/ Held = cache
                      \/ \E c \in Call : pc[c] = "left" /\ file = copy[c]
                      \/ file \in {Torn, Garbage} /\ \E c \in Call : task[c] = "failed"
    BY DEF CacheIsFile
  <2> QED BY DEF IInv, Linked, Excused, Ahead, Cut, UnderWay, Held
<1> QED BY Inductive, <1>1, PTL

(* "Trait for persisting OAuth tokens and DCR client credentials": with    *)
(* calls that do not overlap, what is stored stays, for any number of      *)
(* calls, entries, restarts and callers that leave.                        *)
THEOREM Persistence ==
  ASSUME Serial
  PROVE  Spec => Persists
<1> DEFINE Stays == \A k \in Key : Seen'[k] # Seen[k] =>
       \/ \E c \in Call : key[c] = k /\ pc[c] = "write" /\ task[c] = "over"
       \/ /\ cache' = Unread
          /\ \/ file' \in {Torn, Garbage}
             \/ \E c \in Call : key[c] = k /\ pc[c] = "left"
<1>1. IInv /\ [Next]_vars => Stays
  <2> SUFFICES ASSUME IInv, [Next]_vars PROVE Stays
    OBVIOUS
  <2> USE DEF IInv, TypeOK, callVars
  <2>0. Unread \notin Map /\ Seen \in Map
    BY MapsTyped, TokenStoreAssumption DEF Map
  <2>1. ASSUME NEW c \in Call, NEW what \in {"get", "set", "delete"}, Begin(c, what)
        PROVE  Stays
    BY <2>1 DEF Begin, Seen, Held
  <2>2. ASSUME NEW c \in Call, Load(c) PROVE Stays
    BY <2>0, <2>2 DEF Load, Kept, Seen
  <2>3. ASSUME NEW c \in Call, LoadFails(c) PROVE Stays
    BY <2>3 DEF LoadFails, Seen, Held
  <2>4. ASSUME NEW c \in Call, Open(c) PROVE Stays
    BY <2>4 DEF Open, Seen
  <2>5. ASSUME NEW c \in Call, Put(c) PROVE Stays
    BY <2>5 DEF Put, Seen
  <2>6. ASSUME NEW c \in Call, WriteFails(c) PROVE Stays
    BY <2>6 DEF WriteFails, Seen
  <2>7. ASSUME NEW c \in Call, Save(c) PROVE Stays
    BY <2>0, <2>7 DEF Save, Saved, Seen, Based
  <2>8. ASSUME NEW c \in Call, SaveFails(c) PROVE Stays
    BY <2>8 DEF SaveFails, Seen, Held
  <2>9. ASSUME NEW c \in Call, Leave(c) PROVE Stays
    BY <2>9 DEF Leave, Seen, Held
  <2>10. ASSUME Restart PROVE Stays
    <3>1. CASE file' \in {Torn, Garbage}
      BY <2>10, <3>1 DEF Restart
    <3>2. CASE file' \notin {Torn, Garbage}
      <4>1. file' = file /\ cache' = Unread /\ Seen' = file
        BY <2>10, <3>2 DEF Restart, Seen, Held
      <4>2. CASE cache = Unread
        BY <3>2, <4>1, <4>2 DEF Seen, Held
      <4>3. CASE cache # Unread
        BY <3>2, <4>1, <4>3 DEF Seen, Linked, Ahead, Cut
      <4> QED BY <4>2, <4>3
    <3> QED BY <3>1, <3>2
  <2>11. ASSUME UNCHANGED vars PROVE Stays
    BY <2>11 DEF vars, Seen, Held
  <2> QED
    BY <2>1, <2>2, <2>3, <2>4, <2>5, <2>6, <2>7, <2>8, <2>9, <2>10, <2>11
    DEF Next, Finished
<1>2. IInv /\ [Next]_vars => [Stays]_vars
  BY <1>1
<1>3. Spec => [][Stays]_vars
  BY Inductive, <1>2, PTL DEF Spec
<1> QED BY <1>3 DEF Persists
=============================================================================
