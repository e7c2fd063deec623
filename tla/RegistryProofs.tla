---------------------------- MODULE RegistryProofs ----------------------------
(***************************************************************************)
(* Proofs about Registry, for any names, edits and requests: types and the *)
(* queue of the lock, the server under a request, and what the map, the    *)
(* store and its file have to do with each other.                          *)
(***************************************************************************)
EXTENDS Registry, SequenceTheorems, TLAPS

Waits == Reading \cup Writing
Places == Waits \cup {"idle", "store", "persist", "unstore", "unpersist",
                      "forward", "left", "done"}

(* A queue that holds those of a set, each once. *)
Holds(q, S) ==
  /\ q \in Seq(Handler)
  /\ \A i, j \in 1 .. Len(q) : q[i] = q[j] => i = j
  /\ \A h \in Handler : h \in S <=> \E i \in 1 .. Len(q) : q[i] = h

Waiting == {h \in Handler : pc[h] \in Waits}

(* The handlers, and the line they stand in. *)
Lined ==
  /\ pc \in [Handler -> Places]
  /\ Holds(queue, Waiting)

EntriesTyped ==
  /\ name \in [Handler -> Name \cup {None}]
  /\ live \in [Name -> Edit \cup {None, Config}]
  /\ served \in [Request -> Edit \cup {None, Config}]
  /\ store \in [Name -> Edit \cup {None}]
  /\ disk \in [Name -> Edit \cup {None}] \cup {Torn}
  /\ synced \in BOOLEAN

(* Edits and requests go their own ways, under a name. *)
Placed ==
  /\ \A h \in Handler : pc[h] # "idle" => name[h] \in Name
  /\ \A r \in Request : pc[r] \in {"idle", "route", "forward", "left", "done"}
  /\ \A e \in Edit : pc[e] \notin {"route", "forward"}

LEMMA TypesAre == TypeOK <=> Lined /\ EntriesTyped
BY DEF TypeOK, Lined, EntriesTyped, Holds, Waiting, Places, Waits

-----------------------------------------------------------------------------
(* The queue. *)

LEMMA HoldsAppend ==
  ASSUME NEW S \in SUBSET Handler, NEW q, Holds(q, S), NEW h \in Handler, h \notin S
  PROVE  Holds(Append(q, h), S \cup {h})
<1> DEFINE a == Append(q, h)
<1>1. /\ q \in Seq(Handler) /\ Len(q) \in Nat /\ a \in Seq(Handler)
      /\ Len(a) = Len(q) + 1 /\ a[Len(q) + 1] = h
      /\ \A i \in 1 .. Len(q) : a[i] = q[i]
  BY DEF Holds
<1> HIDE DEF a
<1>2. \A i \in 1 .. Len(q) : q[i] # h
  BY DEF Holds
<1>3. \A i, j \in 1 .. Len(a) : a[i] = a[j] => i = j
  <2> SUFFICES ASSUME NEW i \in 1 .. Len(a), NEW j \in 1 .. Len(a), a[i] = a[j]
               PROVE  i = j
    OBVIOUS
  <2>1. \A k \in 1 .. Len(a) : k \in 1 .. Len(q) \/ k = Len(q) + 1
    BY <1>1
  <2> QED BY <1>1, <1>2, <2>1 DEF Holds
<1>4. \A g \in Handler : g \in S \cup {h} <=> \E i \in 1 .. Len(a) : a[i] = g
  <2>1. 1 .. Len(a) = 1 .. Len(q) \cup {Len(q) + 1}
    BY <1>1
  <2> QED BY <1>1, <2>1 DEF Holds
<1> QED BY <1>1, <1>3, <1>4 DEF Holds, a

(* Without the place i nothing else changes. *)
LEMMA HoldsRemoved ==
  ASSUME NEW S \in SUBSET Handler, NEW q, Holds(q, S), NEW i \in 1 .. Len(q),
         NEW p \in Seq(Handler), Len(p) = Len(q) - 1,
         \A j \in 1 .. Len(q) - 1 : p[j] = IF j < i THEN q[j] ELSE q[j + 1]
  PROVE  Holds(p, S \ {q[i]})
<1>1. q \in Seq(Handler) /\ Len(q) \in Nat
  BY DEF Holds
<1>2. \A j, k \in 1 .. Len(p) : p[j] = p[k] => j = k
  <2> SUFFICES ASSUME NEW j \in 1 .. Len(p), NEW k \in 1 .. Len(p), p[j] = p[k]
               PROVE  j = k
    OBVIOUS
  <2> DEFINE at(l) == IF l < i THEN l ELSE l + 1
  <2>1. \A l \in 1 .. Len(p) : at(l) \in 1 .. Len(q) /\ p[l] = q[at(l)]
    BY <1>1
  <2>2. at(j) = at(k)
    <3>1. at(j) \in 1 .. Len(q) /\ at(k) \in 1 .. Len(q) /\ q[at(j)] = q[at(k)]
      BY <2>1
    <3> HIDE DEF at
    <3> QED BY <3>1 DEF Holds
  <2> QED BY <1>1, <2>2
<1>3. ASSUME NEW g \in Handler
      PROVE  g \in S \ {q[i]} <=> \E j \in 1 .. Len(p) : p[j] = g
  <2>1. ASSUME g \in S \ {q[i]} PROVE \E j \in 1 .. Len(p) : p[j] = g
    <3>1. PICK k \in 1 .. Len(q) : q[k] = g /\ k # i
      BY <2>1 DEF Holds
    <3>2. CASE k < i
      <4>1. k \in 1 .. Len(p) /\ p[k] = g
        BY <1>1, <3>1, <3>2
      <4> QED BY <4>1
    <3>3. CASE k > i
      <4>1. k - 1 \in 1 .. Len(p) /\ p[k - 1] = g
        BY <1>1, <3>1, <3>3
      <4> QED BY <4>1
    <3> QED BY <1>1, <3>1, <3>2, <3>3
  <2>2. ASSUME NEW j \in 1 .. Len(p), p[j] = g PROVE g \in S \ {q[i]}
    <3> DEFINE k == IF j < i THEN j ELSE j + 1
    <3>1. k \in 1 .. Len(q) /\ q[k] = g /\ k # i
      BY <1>1, <2>2
    <3> HIDE DEF k
    <3> QED BY <3>1 DEF Holds
  <2> QED BY <2>1, <2>2
<1> QED BY <1>2, <1>3 DEF Holds

LEMMA HoldsTail ==
  ASSUME NEW S \in SUBSET Handler, NEW q, Holds(q, S), q # <<>>
  PROVE  Holds(Tail(q), S \ {Head(q)}) /\ Head(q) \in S
<1>1. q \in Seq(Handler) /\ 1 \in 1 .. Len(q) /\ Head(q) = q[1]
  BY DEF Holds
<1>2. /\ Tail(q) \in Seq(Handler) /\ Len(Tail(q)) = Len(q) - 1
      /\ \A j \in 1 .. Len(q) - 1 : Tail(q)[j] = IF j < 1 THEN q[j] ELSE q[j + 1]
  BY <1>1
<1>3. Holds(Tail(q), S \ {q[1]})
  BY <1>1, <1>2, HoldsRemoved
<1>4. q[1] \in S
  <2>1. q[1] \in Handler
    BY <1>1
  <2> QED BY <1>1, <2>1 DEF Holds
<1> QED BY <1>1, <1>3, <1>4

LEMMA HoldsWithout ==
  ASSUME Lined, NEW h \in Handler
  PROVE  Holds(Without(h), Waiting \ {h})
<1>1. CASE pc[h] \in Waits
  <2> DEFINE i == CHOOSE k \in 1 .. Len(queue) : queue[k] = h
             p == SubSeq(queue, 1, i - 1) \o SubSeq(queue, i + 1, Len(queue))
  <2>1. i \in 1 .. Len(queue) /\ queue[i] = h /\ queue \in Seq(Handler)
    BY <1>1 DEF Lined, Holds, Waiting
  <2>2. Len(queue) \in Nat /\ \A k \in 1 .. Len(queue) : queue[k] \in Handler
    BY <2>1
  <2> HIDE DEF i
  <2>3. /\ SubSeq(queue, 1, i - 1) \in Seq(Handler)
        /\ Len(SubSeq(queue, 1, i - 1)) = i - 1
        /\ \A k \in 1 .. i - 1 : SubSeq(queue, 1, i - 1)[k] = queue[k]
    <3>1. /\ 1 \in Int /\ i - 1 \in Int /\ \A k \in 1 .. i - 1 : queue[k] \in Handler
      BY <2>1, <2>2
    <3>2. /\ SubSeq(queue, 1, i - 1) \in Seq(Handler)
          /\ Len(SubSeq(queue, 1, i - 1))
               = IF 1 <= i - 1 THEN (i - 1) - 1 + 1 ELSE 0
          /\ \A k \in 1 .. (i - 1) - 1 + 1 :
               SubSeq(queue, 1, i - 1)[k] = queue[1 + k - 1]
      BY <3>1, SubSeqProperties
    <3>3. \A k \in 1 .. i - 1 : k \in 1 .. (i - 1) - 1 + 1 /\ 1 + k - 1 = k
      BY <2>1
    <3> QED BY <2>1, <3>2, <3>3
  <2>4. /\ SubSeq(queue, i + 1, Len(queue)) \in Seq(Handler)
        /\ Len(SubSeq(queue, i + 1, Len(queue))) = Len(queue) - i
        /\ \A k \in 1 .. Len(queue) - i :
             SubSeq(queue, i + 1, Len(queue))[k] = queue[i + k]
    <3>1. /\ i + 1 \in Int /\ Len(queue) \in Int
          /\ \A k \in i + 1 .. Len(queue) : queue[k] \in Handler
      BY <2>1, <2>2
    <3>2. /\ SubSeq(queue, i + 1, Len(queue)) \in Seq(Handler)
          /\ Len(SubSeq(queue, i + 1, Len(queue)))
               = IF i + 1 <= Len(queue) THEN Len(queue) - (i + 1) + 1 ELSE 0
          /\ \A k \in 1 .. Len(queue) - (i + 1) + 1 :
               SubSeq(queue, i + 1, Len(queue))[k] = queue[i + 1 + k - 1]
      BY <3>1, SubSeqProperties
    <3>3. \A k \in 1 .. Len(queue) - i :
            k \in 1 .. Len(queue) - (i + 1) + 1 /\ i + 1 + k - 1 = i + k
      BY <2>1, <2>2
    <3> QED BY <2>1, <2>2, <3>2, <3>3
  <2>5. /\ p \in Seq(Handler) /\ Len(p) = Len(queue) - 1
        /\ \A k \in 1 .. Len(queue) - 1 :
             p[k] = IF k < i THEN queue[k] ELSE queue[k + 1]
    <3>1. /\ p \in Seq(Handler) /\ Len(p) = (i - 1) + (Len(queue) - i)
          /\ \A k \in 1 .. (i - 1) + (Len(queue) - i) :
               p[k] = IF k <= i - 1 THEN SubSeq(queue, 1, i - 1)[k]
                      ELSE SubSeq(queue, i + 1, Len(queue))[k - (i - 1)]
      <4> DEFINE front == SubSeq(queue, 1, i - 1)
                 back == SubSeq(queue, i + 1, Len(queue))
      <4>1. /\ front \in Seq(Handler) /\ Len(front) = i - 1
            /\ back \in Seq(Handler) /\ Len(back) = Len(queue) - i
        BY <2>3, <2>4
      <4> HIDE DEF front, back
      <4>2. /\ front \o back \in Seq(Handler)
            /\ Len(front \o back) = Len(front) + Len(back)
            /\ \A k \in 1 .. Len(front) + Len(back) :
                 (front \o back)[k] = IF k <= Len(front) THEN front[k]
                                      ELSE back[k - Len(front)]
        BY <4>1, ConcatProperties
      <4>3. p = front \o back
        BY DEF front, back
      <4> HIDE DEF p
      <4> QED BY <4>1, <4>2, <4>3 DEF front, back
    <3>2. (i - 1) + (Len(queue) - i) = Len(queue) - 1
      BY <2>1, <2>2
    <3> HIDE DEF p
    <3>3. ASSUME NEW k \in 1 .. Len(queue) - 1
          PROVE  p[k] = IF k < i THEN queue[k] ELSE queue[k + 1]
      <4>1. CASE k < i
        <5>1. k \in 1 .. i - 1 /\ k <= i - 1
          BY <2>1, <2>2, <4>1
        <5> QED BY <2>3, <3>1, <3>2, <4>1, <5>1
      <4>2. CASE ~(k < i)
        <5>1. /\ k - (i - 1) \in 1 .. Len(queue) - i /\ ~(k <= i - 1)
              /\ i + (k - (i - 1)) = k + 1
          BY <2>1, <2>2, <4>2
        <5> QED BY <2>4, <3>1, <3>2, <4>2, <5>1
      <4> QED BY <4>1, <4>2
    <3> QED BY <3>1, <3>2, <3>3
  <2>6. Without(h) = p
    BY <1>1 DEF Without, Seqs!RemoveAt, i, Waits
  <2> HIDE DEF p
  <2>7. Waiting \in SUBSET Handler /\ Holds(queue, Waiting)
    BY DEF Lined, Waiting
  <2> QED BY <2>1, <2>5, <2>6, <2>7, HoldsRemoved
<1>2. CASE pc[h] \notin Waits
  BY <1>2 DEF Without, Waits, Lined, Waiting
<1> QED BY <1>1, <1>2

-----------------------------------------------------------------------------
(* How a handler moves. *)

LEMMA Assumed ==
  /\ None \notin Edit /\ None # Config /\ Edit \cap Request = {}
  /\ Torn \notin [Name -> Edit \cup {None}]
  /\ Handler = Edit \cup Request /\ FromConfig \subseteq Name
BY RegistryAssumption DEF Handler

LEMMA GotoMoves ==
  ASSUME Lined, NEW h \in Handler, pc[h] \notin Waits,
         NEW place \in Places \ Waits, Goto(h, place), UNCHANGED queue
  PROVE  Lined'
<1>1. pc' = [pc EXCEPT ![h] = place] /\ Waiting' = Waiting
  BY DEF Goto, Lined, Waiting
<1> QED BY <1>1 DEF Lined, Holds

LEMMA AwaitMoves ==
  ASSUME Lined, NEW h \in Handler, pc[h] \notin Waits,
         NEW place \in Waits, Await(h, place)
  PROVE  Lined'
<1>1. pc' = [pc EXCEPT ![h] = place] /\ queue' = Append(queue, h)
  BY DEF Await, Goto
<1>2. Waiting' = Waiting \cup {h} /\ h \notin Waiting
  BY <1>1 DEF Lined, Waiting
<1>3. Holds(Append(queue, h), Waiting \cup {h})
  BY <1>2, HoldsAppend DEF Lined, Waiting
<1>4. pc' \in [Handler -> Places]
  BY <1>1 DEF Lined, Places
<1> QED BY <1>1, <1>2, <1>3, <1>4 DEF Lined, Holds

LEMMA ThenMoves ==
  ASSUME Lined, NEW h \in Handler, Locks(h), NEW place \in Places, Then(h, place)
  PROVE  Lined'
<1>1. /\ pc' = [pc EXCEPT ![h] = place] /\ pc' \in [Handler -> Places]
      /\ queue' = IF place \in Waits THEN Append(Tail(queue), h) ELSE Tail(queue)
  BY DEF Lined, Then, Goto, Waits
<1>2. Holds(Tail(queue), Waiting \ {h}) /\ h \in Waiting
  BY HoldsTail DEF Lined, Locks, Waiting
<1>3. CASE place \in Waits
  <2>1. Waiting' = (Waiting \ {h}) \cup {h}
    BY <1>1, <1>2, <1>3 DEF Lined, Waiting
  <2>2. Holds(Append(Tail(queue), h), (Waiting \ {h}) \cup {h})
    BY <1>2, HoldsAppend DEF Waiting
  <2> QED BY <1>1, <1>3, <2>1, <2>2 DEF Lined, Holds
<1>4. CASE place \notin Waits
  <2>1. Waiting' = Waiting \ {h}
    BY <1>1, <1>4 DEF Lined, Waiting
  <2> QED BY <1>1, <1>2, <1>4, <2>1 DEF Lined, Holds
<1> QED BY <1>3, <1>4

LEMMA LeaveMoves ==
  ASSUME Lined, NEW h \in Handler, Goto(h, "left"), queue' = Without(h)
  PROVE  Lined'
<1>1. pc' = [pc EXCEPT ![h] = "left"] /\ Waiting' = Waiting \ {h}
  BY DEF Goto, Lined, Waiting, Waits, Reading, Writing
<1>2. Holds(Without(h), Waiting \ {h}) /\ pc' \in [Handler -> Places]
  BY <1>1, HoldsWithout DEF Lined, Places
<1> QED BY <1>1, <1>2 DEF Lined, Holds

-----------------------------------------------------------------------------
(* The invariant beside the types. *)

(* After a write or read that went well, a restart can load what is stored. *)
FileKept == synced => Loaded(disk) = store

(* Of the edits of a name only one is under way. *)
Alone ==
  \A e, f \in Edit : UnderWay(e) /\ UnderWay(f) /\ name[e] = name[f] => e = f

Tidy(n) == \A e \in Edit : name[e] = n => pc[e] # "left"

Settled(n) ==
  IF store[n] # None THEN live[n] = store[n] ELSE live[n] \in {None, Config}

(* While a name's edit is between the map and the store, they differ in    *)
(* one way only.                                                           *)
Between(e) == pc[e] \in {"register", "store", "unpersist", "unlist"}
Matched(n) ==
  /\ (\A e \in Edit : name[e] = n => ~Between(e)) => Settled(n)
  /\ \A e \in Edit : name[e] = n =>
       /\ pc[e] = "store" => live[n] = e
       /\ pc[e] \in {"unpersist", "unlist"} => store[n] = None

Inv == Lined /\ EntriesTyped /\ Placed /\ ServedWhileLive /\ FileKept
SerialInv == Alone /\ \A n \in Name : Tidy(n) => Matched(n)

-----------------------------------------------------------------------------
(* Types, the line, the servers under the requests, and the file. *)

LEMMA InitInv == Init => Inv /\ SerialInv
<1> SUFFICES ASSUME Init PROVE Inv /\ SerialInv
  OBVIOUS
<1>1. Lined
  <2>1. Waiting = {} /\ pc \in [Handler -> Places]
    BY DEF Init, Waiting, Waits, Reading, Writing, Places
  <2> QED BY <2>1 DEF Init, Lined, Holds
<1>2. EntriesTyped /\ Placed
  BY Assumed DEF Init, EntriesTyped, Placed
<1>3. ServedWhileLive /\ FileKept
  BY Assumed DEF Init, ServedWhileLive, FileKept, Loaded
<1>4. Alone /\ \A n \in Name : Matched(n)
  BY Assumed DEF Init, Alone, UnderWay, Matched, Between, Settled
<1> QED BY <1>1, <1>2, <1>3, <1>4 DEF Inv, SerialInv

(* An edit that goes on disturbs no request, unless it changes the map     *)
(* while one is forwarded, and the file only if it is the one writing.     *)
LEMMA EditMoves ==
  ASSUME Inv, NEW e \in Edit, pc[e] # "idle",
         NEW place \in Places \ {"route", "forward"}, Goto(e, place),
         UNCHANGED <<name, served>>
  PROVE  /\ Placed'
         /\ UNCHANGED live \/ Free => ServedWhileLive'
         /\ UNCHANGED <<store, disk, synced>> => FileKept'
<1>1. /\ pc' = [pc EXCEPT ![e] = place] /\ pc \in [Handler -> Places]
      /\ \A h \in Handler : h # e => pc'[h] = pc[h]
      /\ pc'[e] = place
  BY Assumed DEF Goto, Inv, Lined
<1>2. Placed'
  BY <1>1, Assumed DEF Inv, Placed
<1>3. \A r \in Request : pc'[r] = pc[r]
  BY <1>1, Assumed
<1>4. UNCHANGED live \/ Free => ServedWhileLive'
  BY <1>3 DEF Inv, ServedWhileLive, Free
<1>5. UNCHANGED <<store, disk, synced>> => FileKept'
  BY DEF Inv, FileKept
<1> QED BY <1>2, <1>4, <1>5

LEMMA BeginKeeps ==
  ASSUME Inv, NEW e \in Edit, NEW n \in Name,
         Create(e, n) \/ Update(e, n) \/ Delete(e, n)
  PROVE  Inv'
<1>1. /\ Begin(e, n) /\ e \in Handler /\ pc[e] = "idle" /\ pc[e] \notin Waits
      /\ \E place \in {"check", "remove", "unstore"} : Goto(e, place)
  BY Assumed DEF Create, Update, Delete, Begin, Await, Waits, Reading, Writing
<1>2. Lined'
  <2>1. CASE Create(e, n)
    BY <1>1, <2>1, AwaitMoves DEF Inv, Create, Waits, Reading
  <2>2. CASE Update(e, n)
    BY <1>1, <2>2, AwaitMoves DEF Inv, Update, Waits, Writing
  <2>3. CASE Delete(e, n)
    BY <1>1, <2>3, GotoMoves DEF Inv, Delete, Waits, Reading, Writing, Places
  <2> QED BY <2>1, <2>2, <2>3
<1>3. PICK place \in {"check", "remove", "unstore"} : pc' = [pc EXCEPT ![e] = place]
  BY <1>1 DEF Goto
<1>4. /\ name' = [name EXCEPT ![e] = n] /\ UNCHANGED <<served, live, store, disk, synced>>
      /\ name \in [Handler -> Name \cup {None}] /\ pc \in [Handler -> Places]
  BY <1>1 DEF Begin, Inv, EntriesTyped, Lined
<1>5. \A h \in Handler : h # e => pc'[h] = pc[h] /\ name'[h] = name[h]
  BY <1>3, <1>4
<1>6. pc'[e] = place /\ name'[e] = n
  BY <1>1, <1>3, <1>4
<1>7. EntriesTyped'
  BY <1>4 DEF Inv, EntriesTyped
<1>8. Placed'
  BY <1>5, <1>6, Assumed DEF Inv, Placed
<1>9. ServedWhileLive'
  BY <1>4, <1>5, Assumed DEF Inv, ServedWhileLive
<1>10. FileKept'
  BY <1>4 DEF Inv, FileKept
<1> QED BY <1>2, <1>7, <1>8, <1>9, <1>10 DEF Inv

LEMMA CheckKeeps ==
  ASSUME Inv, NEW e \in Edit, Check(e)
  PROVE  Inv'
<1>1. PICK place \in {"register", "done"} : Then(e, place)
  BY DEF Check
<1>2. /\ Locks(e) /\ pc[e] = "check" /\ place \in Places \ {"route", "forward"}
      /\ e \in Handler /\ Goto(e, place) /\ UNCHANGED <<name, served, live, store, disk, synced>>
  BY <1>1, Assumed DEF Check, Then, Places, Waits, Reading, Writing
<1>3. Lined'
  BY <1>1, <1>2, ThenMoves DEF Inv
<1>4. Placed' /\ ServedWhileLive' /\ FileKept'
  BY <1>2, EditMoves
<1>5. EntriesTyped'
  BY <1>2 DEF Inv, EntriesTyped
<1> QED BY <1>3, <1>4, <1>5 DEF Inv

LEMMA RemoveKeeps ==
  ASSUME Inv, NEW e \in Edit, Remove(e)
  PROVE  Inv'
<1>1. PICK place \in {"register", "left"} : Then(e, place)
  BY DEF Remove
<1>2. /\ Locks(e) /\ pc[e] = "remove" /\ place \in Places \ {"route", "forward"}
      /\ e \in Handler /\ Goto(e, place) /\ UNCHANGED <<name, served, store, disk, synced>>
      /\ Free
  BY <1>1, Assumed DEF Remove, Then, Places, Waits, Reading, Writing, Locks
<1>3. Lined'
  BY <1>1, <1>2, ThenMoves DEF Inv
<1>4. Placed' /\ ServedWhileLive' /\ FileKept'
  BY <1>2, EditMoves
<1>5. EntriesTyped'
  BY <1>2 DEF Inv, EntriesTyped, Remove
<1> QED BY <1>3, <1>4, <1>5 DEF Inv

LEMMA RegisterKeeps ==
  ASSUME Inv, NEW e \in Edit, Register(e)
  PROVE  Inv'
<1>1. /\ Locks(e) /\ pc[e] = "register" /\ "store" \in Places \ {"route", "forward"}
      /\ e \in Handler /\ Then(e, "store") /\ Goto(e, "store")
      /\ UNCHANGED <<name, served, store, disk, synced>> /\ Free
  BY Assumed DEF Register, Then, Places, Writing, Locks
<1>2. Lined'
  BY <1>1, ThenMoves DEF Inv
<1>3. Placed' /\ ServedWhileLive' /\ FileKept'
  BY <1>1, EditMoves
<1>4. EntriesTyped'
  BY <1>1 DEF Inv, EntriesTyped, Register
<1> QED BY <1>2, <1>3, <1>4 DEF Inv

LEMMA StoreKeeps ==
  ASSUME Inv, NEW e \in Edit, Store(e)
  PROVE  Inv'
<1>1. /\ pc[e] = "store" /\ "persist" \in Places \ {"route", "forward"}
      /\ "persist" \notin Waits /\ pc[e] \notin Waits
      /\ e \in Handler /\ Goto(e, "persist") /\ UNCHANGED <<name, served, live, queue>>
  BY Assumed DEF Store, Places, Waits, Reading, Writing
<1>2. Lined'
  BY <1>1, GotoMoves DEF Inv
<1>3. Placed' /\ ServedWhileLive'
  BY <1>1, EditMoves
<1>4. EntriesTyped'
  BY <1>1, Assumed DEF Inv, EntriesTyped, Store, Opens
<1>5. FileKept'
  BY DEF FileKept, Store, Opens
<1> QED BY <1>2, <1>3, <1>4, <1>5 DEF Inv

(* What has been written can be read again. *)
LEMMA PersistKeeps ==
  ASSUME Inv, NEW e \in Edit, Persist(e) \/ Unpersist(e)
  PROVE  Inv'
<1>1. PICK place \in {"lookup", "unlist"} : Await(e, place)
  BY DEF Persist, Unpersist
<1>2. /\ pc[e] \in {"persist", "unpersist"} /\ pc[e] \notin Waits
      /\ place \in Places \ {"route", "forward"} /\ place \in Waits
      /\ e \in Handler /\ Goto(e, place) /\ UNCHANGED <<name, served, live, store>>
      /\ \/ disk' = store /\ synced' = TRUE
         \/ UNCHANGED <<disk, synced>>
  BY <1>1, Assumed DEF Persist, Unpersist, Closes, Await, Places, Waits, Reading, Writing,
     Written
<1>3. Lined'
  BY <1>1, <1>2, AwaitMoves DEF Inv
<1>4. Placed' /\ ServedWhileLive'
  BY <1>2, EditMoves
<1>5. EntriesTyped'
  BY <1>2 DEF Inv, EntriesTyped
<1>6. FileKept'
  BY <1>2, Assumed DEF Inv, EntriesTyped, FileKept, Loaded
<1> QED BY <1>3, <1>4, <1>5, <1>6 DEF Inv

LEMMA LookupKeeps ==
  ASSUME Inv, NEW e \in Edit, Lookup(e)
  PROVE  Inv'
<1>1. /\ Locks(e) /\ pc[e] = "lookup" /\ "done" \in Places \ {"route", "forward"}
      /\ e \in Handler /\ Then(e, "done") /\ Goto(e, "done")
      /\ UNCHANGED <<name, served, live, store, disk, synced>>
  BY Assumed DEF Lookup, Then, Places
<1>2. Lined'
  BY <1>1, ThenMoves DEF Inv
<1>3. Placed' /\ ServedWhileLive' /\ FileKept'
  BY <1>1, EditMoves
<1>4. EntriesTyped'
  BY <1>1 DEF Inv, EntriesTyped
<1> QED BY <1>2, <1>3, <1>4 DEF Inv

LEMMA UnstoreKeeps ==
  ASSUME Inv, NEW e \in Edit, Unstore(e)
  PROVE  Inv'
<1>1. /\ pc[e] = "unstore" /\ pc[e] \notin Waits /\ e \in Handler
      /\ UNCHANGED <<name, served, live, queue>>
      /\ {"done", "unpersist"} \subseteq Places \ (Waits \cup {"route", "forward"})
  BY Assumed DEF Unstore, Places, Waits, Reading, Writing
<1>2. PICK place \in {"done", "unpersist"} : Goto(e, place)
  BY DEF Unstore
<1>3. Lined'
  BY <1>1, <1>2, GotoMoves DEF Inv
<1>4. Placed' /\ ServedWhileLive'
  BY <1>1, <1>2, EditMoves
<1>5. EntriesTyped'
  BY <1>1, Assumed DEF Inv, EntriesTyped, Unstore, Opens
<1>6. FileKept'
  <2>1. CASE UNCHANGED <<store, disk, synced>>
    BY <1>1, <1>2, <2>1, EditMoves
  <2>2. CASE Opens
    BY <2>2 DEF FileKept, Opens
  <2> QED BY <2>1, <2>2 DEF Unstore
<1> QED BY <1>3, <1>4, <1>5, <1>6 DEF Inv

LEMMA UnlistKeeps ==
  ASSUME Inv, NEW e \in Edit, Unlist(e)
  PROVE  Inv'
<1>1. /\ Locks(e) /\ pc[e] = "unlist" /\ "done" \in Places \ {"route", "forward"}
      /\ e \in Handler /\ Then(e, "done") /\ Goto(e, "done")
      /\ UNCHANGED <<name, served, store, disk, synced>> /\ Free
  BY Assumed DEF Unlist, Then, Places, Locks, Writing
<1>2. Lined'
  BY <1>1, ThenMoves DEF Inv
<1>3. Placed' /\ ServedWhileLive' /\ FileKept'
  BY <1>1, EditMoves
<1>4. EntriesTyped'
  BY <1>1 DEF Inv, EntriesTyped, Unlist, Unlisted
<1> QED BY <1>2, <1>3, <1>4 DEF Inv

(* A request changes nothing that the edits know of. *)
LEMMA RequestMoves ==
  ASSUME Inv, NEW r \in Request, NEW place, pc' = [pc EXCEPT ![r] = place],
         UNCHANGED <<store, disk, synced>>
  PROVE  /\ \A h \in Handler : h # r => pc'[h] = pc[h]
         /\ \A e \in Edit : pc'[e] = pc[e]
         /\ r \in Handler /\ pc'[r] = place
         /\ FileKept'
<1>1. pc \in [Handler -> Places] /\ r \in Handler /\ \A e \in Edit : e # r
  BY Assumed DEF Inv, Lined
<1>2. \A h \in Handler : h # r => pc'[h] = pc[h]
  BY <1>1
<1>3. \A e \in Edit : pc'[e] = pc[e]
  BY <1>1, <1>2, Assumed
<1>4. FileKept'
  BY DEF Inv, FileKept
<1> QED BY <1>1, <1>2, <1>3, <1>4

LEMMA AskKeeps ==
  ASSUME Inv, NEW r \in Request, NEW n \in Name, Ask(r, n)
  PROVE  Inv'
<1>1. /\ pc[r] = "idle" /\ pc[r] \notin Waits /\ Await(r, "route") /\ "route" \in Waits
      /\ pc' = [pc EXCEPT ![r] = "route"] /\ name' = [name EXCEPT ![r] = n]
      /\ UNCHANGED <<served, live, store, disk, synced>>
  BY DEF Ask, Await, Goto, Waits, Reading, Writing
<1>2. /\ \A h \in Handler : h # r => pc'[h] = pc[h]
      /\ r \in Handler /\ pc'[r] = "route" /\ FileKept'
  BY <1>1, RequestMoves
<1>3. Lined'
  BY <1>1, <1>2, AwaitMoves DEF Inv
<1>4. EntriesTyped' /\ name'[r] = n /\ \A h \in Handler : h # r => name'[h] = name[h]
  BY <1>1, <1>2 DEF Inv, EntriesTyped
<1>5. Placed' /\ ServedWhileLive'
  BY <1>1, <1>2, <1>4, Assumed DEF Inv, Placed, ServedWhileLive
<1> QED BY <1>2, <1>3, <1>4, <1>5 DEF Inv

LEMMA RouteKeeps ==
  ASSUME Inv, NEW r \in Request, Route(r)
  PROVE  Inv'
<1>1. PICK place \in {"forward", "done"} :
        /\ Then(r, place)
        /\ \/ /\ place = "forward" /\ live[name[r]] # None
              /\ served' = [served EXCEPT ![r] = live[name[r]]]
           \/ place = "done" /\ UNCHANGED served
  BY DEF Route
<1>2. /\ pc[r] = "route" /\ Locks(r) /\ place \in Places
      /\ pc' = [pc EXCEPT ![r] = place] /\ UNCHANGED <<name, live, store, disk, synced>>
  BY <1>1 DEF Route, Then, Goto, Places
<1>3. /\ \A h \in Handler : h # r => pc'[h] = pc[h]
      /\ r \in Handler /\ pc'[r] = place /\ FileKept'
  BY <1>2, RequestMoves
<1>4. Lined'
  BY <1>1, <1>2, <1>3, ThenMoves DEF Inv
<1>5. name[r] \in Name
  BY <1>2, <1>3 DEF Inv, Placed
<1>6. EntriesTyped'
  BY <1>1, <1>2, <1>5 DEF Inv, EntriesTyped
<1>7. Placed'
  BY <1>2, <1>3, Assumed DEF Inv, Placed
<1>8. ServedWhileLive'
  BY <1>1, <1>2, <1>3, Assumed DEF Inv, EntriesTyped, ServedWhileLive
<1> QED BY <1>3, <1>4, <1>6, <1>7, <1>8 DEF Inv

LEMMA AnswerKeeps ==
  ASSUME Inv, NEW r \in Request, Answer(r)
  PROVE  Inv'
<1>1. /\ pc[r] = "forward" /\ pc[r] \notin Waits /\ Goto(r, "done")
      /\ "done" \in Places \ Waits /\ pc' = [pc EXCEPT ![r] = "done"]
      /\ UNCHANGED <<name, served, live, store, disk, queue, synced>>
  BY DEF Answer, Goto, Waits, Reading, Writing, Places
<1>2. /\ \A h \in Handler : h # r => pc'[h] = pc[h]
      /\ r \in Handler /\ pc'[r] = "done" /\ FileKept'
  BY <1>1, RequestMoves
<1>3. Lined'
  BY <1>1, <1>2, GotoMoves DEF Inv
<1>4. EntriesTyped'
  BY <1>1 DEF Inv, EntriesTyped
<1>5. Placed' /\ ServedWhileLive'
  BY <1>1, <1>2, Assumed DEF Inv, Placed, ServedWhileLive
<1> QED BY <1>2, <1>3, <1>4, <1>5 DEF Inv

LEMMA LeaveKeeps ==
  ASSUME Inv, NEW h \in Handler, Leave(h)
  PROVE  Inv'
<1>1. /\ Goto(h, "left") /\ queue' = Without(h) /\ pc' = [pc EXCEPT ![h] = "left"]
      /\ UNCHANGED <<name, served, live, store, disk, synced>>
      /\ pc[h] \notin {"idle", "persist", "unpersist"}
  BY DEF Leave, Goto
<1>2. Lined'
  BY <1>1, LeaveMoves DEF Inv
<1>3. \A g \in Handler : pc'[g] = IF g = h THEN "left" ELSE pc[g]
  BY <1>1 DEF Inv, Lined
<1>4. EntriesTyped'
  BY <1>1 DEF Inv, EntriesTyped
<1>5. Placed' /\ ServedWhileLive'
  BY <1>1, <1>3, Assumed DEF Inv, Placed, ServedWhileLive
<1>6. FileKept'
  BY <1>1 DEF Inv, FileKept
<1> QED BY <1>2, <1>4, <1>5, <1>6 DEF Inv

LEMMA LoadedTyped ==
  ASSUME Inv, NEW file \in {disk, Torn}
  PROVE  /\ Loaded(file) \in [Name -> Edit \cup {None}]
         /\ Served(file) \in [Name -> Edit \cup {None, Config}]
<1>1. Loaded(file) \in [Name -> Edit \cup {None}]
  BY DEF Inv, EntriesTyped, Loaded
<1> QED BY <1>1 DEF Served

LEMMA RestartKeeps ==
  ASSUME Inv, Restart
  PROVE  Inv'
<1>1. /\ \A h \in Handler : pc'[h] = IF pc[h] = "idle" THEN "idle" ELSE "done"
      /\ pc' \in [Handler -> Places] /\ queue' = <<>>
      /\ UNCHANGED <<name, served, disk>>
  BY DEF Restart, Places
<1>2. Lined'
  <2>1. Waiting' = {}
    BY <1>1 DEF Waiting, Waits, Reading, Writing
  <2> QED BY <1>1, <2>1 DEF Lined, Holds
<1>3. PICK file \in {disk, Torn} :
        store' = Loaded(file) /\ live' = Served(file) /\ synced' = (file = disk)
  BY DEF Restart
<1>4. EntriesTyped'
  BY <1>1, <1>3, LoadedTyped DEF Inv, EntriesTyped
<1>5. Placed' /\ ServedWhileLive'
  BY <1>1, Assumed DEF Inv, Placed, ServedWhileLive
<1>6. FileKept'
  BY <1>1, <1>3 DEF FileKept
<1> QED BY <1>2, <1>4, <1>5, <1>6 DEF Inv

LEMMA NextInv == Inv /\ [Next]_vars => Inv'
<1> SUFFICES ASSUME Inv, [Next]_vars PROVE Inv'
  OBVIOUS
<1>1. CASE \E e \in Edit, n \in Name : Create(e, n) \/ Update(e, n) \/ Delete(e, n)
  BY <1>1, BeginKeeps
<1>2. CASE \E r \in Request, n \in Name : Ask(r, n)
  BY <1>2, AskKeeps
<1>3. CASE \E h \in Handler : Continue(h)
  <2>1. PICK h \in Handler : Continue(h)
    BY <1>3
  <2>2. CASE h \in Edit
    BY <2>1, <2>2, CheckKeeps, RemoveKeeps, RegisterKeeps, StoreKeeps, PersistKeeps,
       LookupKeeps, UnstoreKeeps, UnlistKeeps DEF Continue
  <2>3. CASE h \notin Edit
    BY <2>1, <2>3, Assumed, RouteKeeps, AnswerKeeps DEF Continue
  <2> QED BY <2>2, <2>3
<1>4. CASE \E h \in Handler : Leave(h)
  BY <1>4, LeaveKeeps
<1>5. CASE Restart
  BY <1>5, RestartKeeps
<1>6. CASE UNCHANGED vars
  BY <1>6 DEF vars, handlerVars, Inv, Lined, Holds, Waiting, EntriesTyped, Placed,
     ServedWhileLive, FileKept
<1> QED BY <1>1, <1>2, <1>3, <1>4, <1>5, <1>6 DEF Next, Finished

LEMMA InvHolds == Spec => []Inv
BY InitInv, NextInv, PTL DEF Spec

(* Every variable keeps its type, and the line of the lock holds those who *)
(* wait for it, each once, whatever edits, requests, disconnections and    *)
(* restarts there are.                                                     *)
THEOREM TypeCorrect == Spec => []TypeOK
<1>1. Inv => TypeOK
  BY TypesAre DEF Inv
<1> QED BY <1>1, InvHolds, PTL

(* root_handler's read lock keeps every edit away from the server under a  *)
(* request.                                                                *)
THEOREM NoServerGoesUnderARequest == Spec => []ServedWhileLive
<1>1. Inv => ServedWhileLive
  BY DEF Inv
<1> QED BY <1>1, InvHolds, PTL

-----------------------------------------------------------------------------
(* What a restart may lose or bring back. *)

LEMMA ChangeExplained ==
  ASSUME Inv, [Next]_vars, NEW n \in Name, store'[n] # store[n]
  PROVE  \/ \E e \in Edit : name[e] = n /\ ~Writes(e) /\ Writes(e)'
         \/ StoreFree' /\ ~(synced /\ synced')
<1>1. CASE \E e \in Edit, m \in Name : Create(e, m) \/ Update(e, m) \/ Delete(e, m)
  BY <1>1 DEF Create, Update, Delete, Begin
<1>2. CASE \E r \in Request, m \in Name : Ask(r, m)
  BY <1>2 DEF Ask
<1>3. CASE \E h \in Handler : Continue(h)
  <2>1. PICK h \in Handler : Continue(h)
    BY <1>3
  <2>2. CASE h \in Edit
    <3>1. CASE Store(h)
      <4>1. store' = [store EXCEPT ![name[h]] = h] /\ ~Writes(h)
        BY <3>1 DEF Store, Writes
      <4>2. Writes(h)'
        BY <3>1 DEF Store, Goto, Writes, Inv, Lined
      <4>3. name[h] = n
        BY <4>1 DEF Inv, EntriesTyped
      <4> QED BY <2>2, <4>1, <4>2, <4>3
    <3>2. CASE Unstore(h)
      <4>1. /\ store' = [store EXCEPT ![name[h]] = None] /\ ~Writes(h)
            /\ Goto(h, "unpersist")
        BY <3>2 DEF Unstore, Writes
      <4>2. Writes(h)'
        BY <4>1 DEF Goto, Writes, Inv, Lined
      <4>3. name[h] = n
        BY <4>1 DEF Inv, EntriesTyped
      <4> QED BY <2>2, <4>1, <4>2, <4>3
    <3> QED BY <2>1, <2>2, <3>1, <3>2
            DEF Continue, Check, Remove, Register, Persist, Lookup, Unpersist, Unlist
  <2>3. CASE h \notin Edit
    BY <2>1, <2>3 DEF Continue, Route, Answer
  <2> QED BY <2>2, <2>3
<1>4. CASE \E h \in Handler : Leave(h)
  BY <1>4 DEF Leave
<1>5. CASE Restart
  <2>1. StoreFree'
    BY <1>5, Assumed DEF Restart, StoreFree, Writes
  <2>2. synced /\ synced' => store' = store
    BY <1>5 DEF Restart, Inv, FileKept
  <2> QED BY <2>1, <2>2
<1>6. CASE UNCHANGED vars
  BY <1>6 DEF vars
<1> QED BY <1>1, <1>2, <1>3, <1>4, <1>5, <1>6 DEF Next, Finished

(* A server changes in the store by its own edits; a restart leaves every  *)
(* server as it was, if the last write or read of the file went well and   *)
(* so does its own, whatever other edits failed, were dropped or cut off   *)
(* before.                                                                 *)
THEOREM AddedServersStay == Spec => SyncedServersStay
<1>1. Inv /\ [Next]_vars =>
        [\A n \in Name :
           store'[n] # store[n] =>
             \/ \E e \in Edit : name[e] = n /\ ~Writes(e) /\ Writes(e)'
             \/ StoreFree' /\ ~(synced /\ synced')]_vars
  BY ChangeExplained
<1> QED BY <1>1, InvHolds, PTL DEF Spec, SyncedServersStay

-----------------------------------------------------------------------------
(* Edits made one after the other: map and store match. *)

(* The step of one edit can be judged by its own server. *)
LEMMA SerialStep ==
  ASSUME Inv, SerialInv, NEW e \in Edit, UnderWay(e), NEW place \in Places,
         Goto(e, place), UNCHANGED name,
         \A m \in Name : m # name[e] => live'[m] = live[m] /\ store'[m] = store[m],
         Tidy(name[e]) /\ Matched(name[e]) /\ place # "left" =>
           /\ place \notin {"register", "store", "unpersist", "unlist"}
                => Settled(name[e])'
           /\ place = "store" => live'[name[e]] = e
           /\ place \in {"unpersist", "unlist"} => store'[name[e]] = None
  PROVE  SerialInv'
<1>1. /\ pc' = [pc EXCEPT ![e] = place] /\ pc \in [Handler -> Places] /\ e \in Handler
      /\ \A f \in Edit : pc'[f] = IF f = e THEN place ELSE pc[f]
      /\ name[e] \in Name
  BY Assumed DEF Goto, Inv, Lined, Placed, UnderWay
<1>2. Alone'
  <2>1. \A f \in Edit : UnderWay(f)' => UnderWay(f)
    BY <1>1 DEF UnderWay
  <2> QED BY <2>1 DEF SerialInv, Alone
<1>3. ASSUME NEW n \in Name, Tidy(n)' PROVE Matched(n)'
  <2>1. CASE n # name[e]
    <3>1. \A f \in Edit : name[f] = n => pc'[f] = pc[f] /\ (Between(f)' <=> Between(f))
      BY <1>1, <2>1 DEF Between
    <3>2. Tidy(n) /\ live'[n] = live[n] /\ store'[n] = store[n]
      BY <1>3, <2>1, <3>1 DEF Tidy
    <3>3. Matched(n)
      BY <3>2 DEF SerialInv
    <3> QED BY <3>1, <3>2, <3>3 DEF Matched, Settled
  <2>2. CASE n = name[e]
    <3>1. \A f \in Edit : name[f] = n /\ f # e => ~UnderWay(f)
      BY <2>2 DEF SerialInv, Alone
    <3>2. \A f \in Edit : name[f] = n /\ f # e =>
            pc'[f] = pc[f] /\ pc[f] \in {"idle", "left", "done"}
      BY <1>1, <3>1 DEF UnderWay
    <3>3. Tidy(n) /\ pc'[e] = place /\ place # "left"
      BY <1>1, <1>3, <2>2 DEF Tidy, UnderWay
    <3>4. Matched(n)
      BY <3>3 DEF SerialInv
    <3>5. /\ Between(e)' \/ Settled(n)'
          /\ place = "store" => live'[n] = e
          /\ place \in {"unpersist", "unlist"} => store'[n] = None
      BY <2>2, <3>3, <3>4 DEF Between
    <3>6. (\A f \in Edit : (name[f] = n)' => ~Between(f)') => Settled(n)'
      BY <2>2, <3>5
    <3> QED BY <2>2, <3>2, <3>3, <3>5, <3>6 DEF Matched
  <2> QED BY <2>1, <2>2
<1> QED BY <1>2, <1>3 DEF SerialInv

(* Before it has changed anything, an edit finds its server settled. *)
LEMMA SettledBefore ==
  ASSUME SerialInv, NEW e \in Edit, UnderWay(e), ~Between(e), Matched(name[e])
  PROVE  Settled(name[e])
<1>1. \A f \in Edit : name[f] = name[e] => ~Between(f)
  BY DEF SerialInv, Alone, UnderWay, Between
<1> QED BY <1>1 DEF Matched

LEMMA EditSerial ==
  ASSUME Inv, SerialInv, NEW e \in Edit, Continue(e)
  PROVE  SerialInv'
<1> DEFINE n == name[e]
<1>1. UnderWay(e) /\ n \in Name /\ pc[e] # "idle" /\ e # None
  BY Assumed DEF Continue, Check, Remove, Register, Store, Persist, Lookup, Unstore,
     Unpersist, Unlist, UnderWay, Inv, Placed
<1>2. /\ live \in [Name -> Edit \cup {None, Config}] /\ store \in [Name -> Edit \cup {None}]
      /\ UNCHANGED name
  BY DEF Inv, EntriesTyped, Continue, Check, Remove, Register, Store, Persist, Lookup,
     Unstore, Unpersist, Unlist
<1>3. CASE Check(e)
  <2>1. PICK place \in {"register", "done"} : Then(e, place)
    BY <1>3 DEF Check
  <2>2. Goto(e, place) /\ place \in Places /\ UNCHANGED <<name, live, store>> /\ ~Between(e)
    BY <1>3, <2>1 DEF Check, Then, Places, Waits, Writing, Between
  <2>3. Matched(n) => Settled(n)'
    BY <1>1, <2>2, SettledBefore DEF Settled
  <2> QED BY <1>1, <2>1, <2>2, <2>3, SerialStep
<1>4. CASE Remove(e)
  <2>1. PICK place \in {"register", "left"} : Then(e, place)
    BY <1>4 DEF Remove
  <2>2. /\ Goto(e, place) /\ place \in Places /\ UNCHANGED <<name, store>>
        /\ live' = [live EXCEPT ![n] = None]
    BY <1>4, <2>1 DEF Remove, Then, Places, Waits, Writing
  <2> QED BY <1>1, <1>2, <2>1, <2>2, SerialStep
<1>5. CASE Register(e)
  <2>1. /\ Goto(e, "store") /\ "store" \in Places /\ UNCHANGED <<name, store>>
        /\ live' = [live EXCEPT ![n] = e]
    BY <1>5 DEF Register, Then, Places
  <2>2. live'[n] = e
    BY <1>1, <1>2, <2>1
  <2> QED BY <1>1, <1>2, <2>1, <2>2, SerialStep
<1>6. CASE Store(e)
  <2>1. /\ Goto(e, "persist") /\ "persist" \in Places /\ UNCHANGED <<name, live>>
        /\ store' = [store EXCEPT ![n] = e] /\ pc[e] = "store"
    BY <1>6 DEF Store, Places
  <2>2. Matched(n) => live[n] = e
    BY <2>1 DEF Matched
  <2>3. Matched(n) => Settled(n)'
    BY <1>1, <1>2, <2>1, <2>2 DEF Settled
  <2> QED BY <1>1, <1>2, <2>1, <2>3, SerialStep
<1>7. CASE Persist(e)
  <2>1. Goto(e, "lookup") /\ "lookup" \in Places /\ UNCHANGED <<name, live, store>> /\ ~Between(e)
    BY <1>7 DEF Persist, Await, Places, Waits, Reading, Between
  <2>2. Matched(n) => Settled(n)'
    BY <1>1, <2>1, SettledBefore DEF Settled
  <2> QED BY <1>1, <2>1, <2>2, SerialStep
<1>8. CASE Lookup(e)
  <2>1. Goto(e, "done") /\ "done" \in Places /\ UNCHANGED <<name, live, store>> /\ ~Between(e)
    BY <1>8 DEF Lookup, Then, Places, Between
  <2>2. Matched(n) => Settled(n)'
    BY <1>1, <2>1, SettledBefore DEF Settled
  <2> QED BY <1>1, <2>1, <2>2, SerialStep
<1>9. CASE Unstore(e)
  <2>1. ~Between(e) /\ UNCHANGED <<name, live>>
    BY <1>9 DEF Unstore, Between
  <2>2. CASE Goto(e, "done") /\ UNCHANGED store
    <3>1. Matched(n) => Settled(n)'
      BY <1>1, <2>1, <2>2, SettledBefore DEF Settled
    <3> QED BY <1>1, <2>1, <2>2, <3>1, SerialStep DEF Places
  <2>3. CASE Goto(e, "unpersist") /\ store' = [store EXCEPT ![n] = None]
    <3>1. store'[n] = None
      BY <1>1, <1>2, <2>3
    <3> QED BY <1>1, <1>2, <2>1, <2>3, <3>1, SerialStep DEF Places
  <2> QED BY <1>9, <2>2, <2>3 DEF Unstore
<1>10. CASE Unpersist(e)
  <2>1. /\ Goto(e, "unlist") /\ "unlist" \in Places /\ UNCHANGED <<name, live, store>>
        /\ pc[e] = "unpersist"
    BY <1>10 DEF Unpersist, Await, Places, Waits, Writing
  <2>2. Matched(n) => store'[n] = None
    BY <2>1 DEF Matched
  <2> QED BY <1>1, <2>1, <2>2, SerialStep
<1>11. CASE Unlist(e)
  <2>1. /\ Goto(e, "done") /\ "done" \in Places /\ UNCHANGED <<name, store>>
        /\ live' = [live EXCEPT ![n] = None] /\ pc[e] = "unlist"
    BY <1>11 DEF Unlist, Unlisted, Then, Places
  <2>2. Matched(n) => Settled(n)'
    BY <1>1, <1>2, <2>1 DEF Matched, Settled
  <2> QED BY <1>1, <1>2, <2>1, <2>2, SerialStep
<1> QED BY <1>3, <1>4, <1>5, <1>6, <1>7, <1>8, <1>9, <1>10, <1>11 DEF Continue

LEMMA BeginSerial ==
  ASSUME Serial, Inv, SerialInv, NEW e \in Edit, NEW n \in Name,
         Create(e, n) \/ Update(e, n) \/ Delete(e, n)
  PROVE  SerialInv'
<1>1. PICK place \in {"check", "remove", "unstore"} : pc' = [pc EXCEPT ![e] = place]
  BY DEF Create, Update, Delete, Await, Goto
<1>2. /\ pc[e] = "idle" /\ \A f \in Edit : UnderWay(f) => name[f] # n
      /\ name' = [name EXCEPT ![e] = n] /\ UNCHANGED <<live, store>>
  BY DEF Create, Update, Delete, Begin
<1>3. /\ \A f \in Edit : f # e => pc'[f] = pc[f] /\ name'[f] = name[f]
      /\ pc'[e] = place /\ name'[e] = n
  BY <1>1, <1>2, Assumed DEF Inv, Lined, EntriesTyped
<1>4. Alone'
  <2>1. \A f \in Edit : f # e => (UnderWay(f)' <=> UnderWay(f))
    BY <1>3 DEF UnderWay
  <2> QED BY <1>2, <1>3, <2>1 DEF SerialInv, Alone
<1>5. ASSUME NEW m \in Name, Tidy(m)' PROVE Matched(m)'
  <2>1. Tidy(m) /\ Matched(m)
    BY <1>2, <1>3, <1>5 DEF Tidy, SerialInv
  <2>2. ~Between(e) /\ ~Between(e)' /\ \A f \in Edit : f # e => (Between(f)' <=> Between(f))
    BY <1>2, <1>3 DEF Between
  <2>3. Settled(m)' <=> Settled(m)
    BY <1>2 DEF Settled
  <2>4. (\A f \in Edit : name'[f] = m => ~Between(f)') => Settled(m)'
    BY <1>3, <2>1, <2>2, <2>3 DEF Matched
  <2>5. \A f \in Edit : name'[f] = m =>
          /\ pc'[f] = "store" => live'[m] = f
          /\ pc'[f] \in {"unpersist", "unlist"} => store'[m] = None
    BY <1>2, <1>3, <2>1 DEF Matched
  <2> QED BY <2>4, <2>5 DEF Matched
<1> QED BY <1>4, <1>5 DEF SerialInv

(* A step of the requests. *)
LEMMA OthersSerial ==
  ASSUME SerialInv, UNCHANGED <<live, store>>,
         \A e \in Edit : pc'[e] = pc[e] /\ name'[e] = name[e]
  PROVE  SerialInv'
<1>1. Alone'
  BY DEF SerialInv, Alone, UnderWay
<1>2. \A e \in Edit : Between(e)' <=> Between(e)
  BY DEF Between
<1>3. \A n \in Name : Tidy(n)' => Matched(n)'
  BY <1>2 DEF SerialInv, Tidy, Matched, Settled
<1> QED BY <1>1, <1>3 DEF SerialInv

LEMMA LeaveSerial ==
  ASSUME Inv, SerialInv, NEW h \in Handler, Leave(h)
  PROVE  SerialInv'
<1>1. /\ Goto(h, "left") /\ UNCHANGED <<name, live, store>>
      /\ pc[h] \notin {"idle", "left", "done"} /\ "left" \in Places
  BY DEF Leave, Places
<1>2. CASE h \in Edit
  BY <1>1, <1>2, SerialStep DEF UnderWay
<1>3. CASE h \notin Edit
  BY <1>1, <1>3, Assumed, OthersSerial DEF Goto, Inv, Lined
<1> QED BY <1>2, <1>3

LEMMA RestartSerial ==
  ASSUME Inv, SerialInv, Restart
  PROVE  SerialInv'
<1>1. \A e \in Edit : pc'[e] \in {"idle", "done"}
  BY Assumed DEF Restart
<1>2. \A n \in Name : Settled(n)'
  <2>1. PICK file \in {disk, Torn} : store' = Loaded(file) /\ live' = Served(file)
    BY DEF Restart
  <2> QED BY <2>1, LoadedTyped DEF Served, Settled
<1>3. Alone'
  BY <1>1 DEF Alone, UnderWay
<1>4. \A n \in Name : Matched(n)'
  BY <1>1, <1>2 DEF Matched
<1> QED BY <1>3, <1>4 DEF SerialInv

LEMMA NextSerial ==
  ASSUME Serial, Inv, SerialInv, [Next]_vars
  PROVE  SerialInv'
<1>1. CASE \E e \in Edit, n \in Name : Create(e, n) \/ Update(e, n) \/ Delete(e, n)
  BY <1>1, BeginSerial
<1>2. CASE \E r \in Request, n \in Name : Ask(r, n)
  <2>1. PICK r \in Request, n \in Name : Ask(r, n)
    BY <1>2
  <2> QED BY <2>1, Assumed, OthersSerial
          DEF Ask, Await, Goto, Inv, Lined, EntriesTyped
<1>3. CASE \E h \in Handler : Continue(h)
  <2>1. PICK h \in Handler : Continue(h)
    BY <1>3
  <2>2. CASE h \in Edit
    BY <2>1, <2>2, EditSerial
  <2>3. CASE h \notin Edit
    BY <2>1, <2>3, Assumed, OthersSerial
       DEF Continue, Route, Answer, Then, Goto, Inv, Lined
  <2> QED BY <2>2, <2>3
<1>4. CASE \E h \in Handler : Leave(h)
  BY <1>4, LeaveSerial
<1>5. CASE Restart
  BY <1>5, RestartSerial
<1>6. CASE UNCHANGED vars
  BY <1>6, OthersSerial DEF vars, handlerVars
<1> QED BY <1>1, <1>2, <1>3, <1>4, <1>5, <1>6 DEF Next, Finished

(* If the edits of a name are made one after the other, then wherever none *)
(* of them was cut short the map agrees with the store, over disconnected  *)
(* clients, other names' edits and restarts in between.                    *)
THEOREM MapAgreesWithStore ==
  ASSUME Serial
  PROVE  Spec => []Agree
<1>1. SerialInv => Agree
  <2> SUFFICES ASSUME SerialInv, NEW n \in Name,
                      \A e \in Edit : name[e] = n => pc[e] \in {"idle", "done"}
               PROVE  Settled(n)
    BY DEF Agree, Settled
  <2>1. Tidy(n) /\ \A e \in Edit : name[e] = n => ~Between(e)
    BY DEF Tidy, Between
  <2> QED BY <2>1 DEF SerialInv, Matched
<1>2. Inv /\ SerialInv /\ [Next]_vars => SerialInv'
  BY NextSerial
<1> QED BY <1>1, <1>2, InitInv, NextInv, PTL DEF Spec
=============================================================================
