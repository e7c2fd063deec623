------------------------ MODULE StdioUpstreamProofs ------------------------
(***************************************************************************)
(* The safety properties of StdioUpstream hold for any number of requests, *)
(* cancellers and processes.  The inductive invariant is built in stages,  *)
(* each proved from those before it:                                       *)
(*   Typed      the types and the mutex;                                   *)
(*   Distinct   no two requests have the same upstream id;                 *)
(*   Filed      an entry is under its request's id, in its process's table;*)
(*   Piped      what a process read and prints belongs to its requests;    *)
(*   Routed     what is in a channel belongs to the request behind it.     *)
(* Two more come after it: Named, whose id a cancellation has got, and     *)
(* Lines, who left a line unfinished and whose line the child was sent.    *)
(***************************************************************************)
EXTENDS StdioUpstream, TLAPS, SequenceTheorems

(* A request has an upstream id from Number on and a process from Register *)
(* on, until it is done.                                                   *)
InTable == {"writing", "waiting", "streaming", "cancel", "cancelWrite"}

Stages ==
  /\ \A r \in Request : pc[r] \in InTable \cup {"numbered"} => uid[r] \in Id
  /\ \A a \in Actor : pc[a] \in InTable => gen[a] \in Gen
  /\ \A a \in Actor : pc[a] \in {"idle", "ensured", "numbered"} => gen[a] = 0

Typed == TypeOK /\ WriterHoldsCurrent /\ Stages

Distinct ==
  /\ \A r \in Request : pc[r] \in {"idle", "ensured"} => uid[r] = NoId
  /\ \A r \in Request : uid[r] < nextId
  /\ \A r, s \in Request : uid[r] = uid[s] /\ uid[r] # NoId => r = s

Filed ==
  \A g \in Gen, u \in Id, r \in Request :
    pending[g][u] = r => uid[r] = u /\ gen[r] = g

Counted == proc <= spawned /\ \A a \in Actor : gen[a] <= spawned

Belongs(g, u, r) == r \in Request /\ uid[r] = u /\ gen[r] = g

Piped ==
  /\ \A g \in Gen : \A i \in 1 .. Len(stdin[g]) :
       stdin[g][i].kind = "call" => Belongs(g, stdin[g][i].id, stdin[g][i].of)
  /\ \A g \in Gen : \A h \in seen[g] : Belongs(g, h.id, h.of)
  /\ \A g \in Gen : \A i \in 1 .. Len(stdout[g]) :
       stdout[g][i].kind # "call" =>
         [id |-> stdout[g][i].id, of |-> stdout[g][i].of] \in seen[g]

Routed ==
  /\ \A r \in Request : chan[r] # << >> => Listening(r)
  /\ OwnMessagesOnly
  /\ AtMostOneAnswer

(* Only a process that exited has lost its reader. *)
Attended ==
  /\ \A g \in Gen : reader[g] = "done" => child[g] = "exited"
  /\ NoOrphans

(* Answered requests are in no table, cancelled ones not in the current.   *)
Cleaned ==
  \A r \in Request :
    /\ outcome[r] # "none" => pc[r] = "done"
    /\ outcome[r] = "answered" => ~Registered(r)
    /\ pc[r] = "cancelWrite" \/ outcome[r] = "cancelled" =>
         ~(Registered(r) /\ gen[r] = proc)

-----------------------------------------------------------------------------
(* The helpers keep the types. *)

(* Ending an exchange keeps the types of its variables. *)
LEMMA FinishType ==
  ASSUME TypeOK, NEW a \in Actor,
         NEW how \in {"answered", "cancelled", "ended"}, Finish(a, how)
  PROVE  /\ pc' \in [Actor -> Places]
         /\ outcome' \in [Actor -> {"none", "answered", "cancelled", "ended"}]
         /\ chan' \in [Request -> Seq(Message)]
<1>1. << >> \in Seq(Message)
  BY EmptySeq
<1>2. pc' \in [Actor -> Places]
  BY DEF Finish, TypeOK, Places
<1>3. outcome' \in [Actor -> {"none", "answered", "cancelled", "ended"}]
  BY DEF Finish, TypeOK
<1>4. chan' \in [Request -> Seq(Message)]
  BY <1>1 DEF Finish, Hang, TypeOK
<1> QED BY <1>2, <1>3, <1>4

(* Writing a line keeps the types of the pipe. *)
LEMMA PutType ==
  ASSUME TypeOK, NEW g \in Gen, NEW line \in Inbound, Put(g, line)
  PROVE  /\ stdin' \in [Gen -> Seq(Inbound)]
         /\ torn' \in [Gen -> BOOLEAN]
<1>1. Garbage \in Inbound
  BY DEF Garbage, Inbound, NoId
<1>2. (IF torn[g] THEN Garbage ELSE line) \in Inbound
  BY <1>1
<1>3. Append(stdin[g], IF torn[g] THEN Garbage ELSE line) \in Seq(Inbound)
  BY <1>2, AppendProperties DEF TypeOK
<1> QED
  BY <1>3 DEF Put, TypeOK

(* What a writer is about to write is a line a child can be sent. *)
LEMMA LineType ==
  ASSUME Typed, NEW a \in Actor, pc[a] \in {"writing", "cancelWrite"}
  PROVE  Line(a) \in Inbound
<1>1. CASE a \in Request /\ pc[a] = "writing"
  BY <1>1 DEF Line, Inbound, Typed, Stages, InTable
<1>2. CASE ~(a \in Request /\ pc[a] = "writing")
  BY <1>2 DEF Line, Inbound, Typed, TypeOK
<1> QED BY <1>1, <1>2

(* Printing a line keeps the types of the output. *)
LEMMA PrintType ==
  ASSUME TypeOK, NEW g \in Gen, NEW line \in Outbound, PrintLine(g, line)
  PROVE  /\ stdout' \in [Gen -> Seq(Outbound)]
         /\ said' \in Nat
<1>1. Append(stdout[g], line) \in Seq(Outbound)
  BY AppendProperties DEF TypeOK
<1> QED
  BY <1>1 DEF PrintLine, TypeOK

(* A table that loses an entry is a table. *)
LEMMA RemoveType ==
  ASSUME TypeOK, NEW g \in Gen, NEW u
  PROVE  Remove(g, u) \in [Gen -> [Id -> Request \cup {Nobody}]]
<1>1. [pending[g] EXCEPT ![u] = Nobody] \in [Id -> Request \cup {Nobody}]
  BY DEF TypeOK
<1> QED
  BY <1>1 DEF Remove, TypeOK

(* The reader tasks and the children touch no handler's own state. *)
LEMMA EnvironmentFrame ==
  ASSUME NEW g \in Gen, Reader(g) \/ Child(g)
  PROVE  UNCHANGED <<pc, uid, gen, outcome, lock, proc, spawned, live, nextId>>
<1>1. CASE Reader(g)
  BY <1>1 DEF Reader, ReaderAnswer, ReaderNote, ReaderStops, exchangeVars,
              processVars
<1>2. CASE ChildRead(g) \/ ChildCloses(g) \/ ChildExit(g)
  BY <1>2 DEF ChildRead, ChildCloses, ChildExit, exchangeVars, processVars
<1>3. CASE ChildSay(g) \/ ChildCall(g)
  BY <1>3 DEF ChildSay, ChildCall, PrintLine, exchangeVars, processVars
<1> QED BY <1>1, <1>2, <1>3 DEF Child

(* What a step that leaves the handlers' own state alone keeps.            *)
LEMMA HandlersKept ==
  ASSUME Typed, UNCHANGED <<pc, uid, gen, lock, proc>>
  PROVE  WriterHoldsCurrent' /\ Stages'
BY DEF Typed, WriterHoldsCurrent, Stages

(* A handler that moves on inside the table, or out of it, keeps Stages.    *)
LEMMA StagesMove ==
  ASSUME Typed, NEW a \in Actor,
         NEW p \in Places \ {"idle", "ensured", "numbered"},
         pc' = [pc EXCEPT ![a] = p], uid' = uid, gen' = gen,
         p \in InTable => pc[a] \in InTable
  PROVE  Stages'
<1>1. pc \in [Actor -> Places]
  BY DEF Typed, TypeOK
<1>2. ASSUME NEW b \in Actor, pc'[b] \in InTable PROVE pc[b] \in InTable
  BY <1>1, <1>2
<1>3. ASSUME NEW b \in Actor, pc'[b] \in {"idle", "ensured", "numbered"}
      PROVE  pc'[b] = pc[b]
  BY <1>1, <1>3
<1>4. \A r \in Request : pc'[r] \in InTable \cup {"numbered"} => uid'[r] \in Id
  BY <1>2, <1>3 DEF Typed, Stages, Actor
<1>5. \A b \in Actor : pc'[b] \in InTable => gen'[b] \in Gen
  BY <1>2 DEF Typed, Stages
<1>6. \A b \in Actor : pc'[b] \in {"idle", "ensured", "numbered"} => gen'[b] = 0
  BY <1>3 DEF Typed, Stages
<1> QED BY <1>4, <1>5, <1>6 DEF Stages

(* What the reader puts into a channel is a message. *)
LEMMA DeliverType ==
  ASSUME TypeOK, NEW g \in Gen, NEW i \in Nat, stdout[g] # << >>
  PROVE  /\ Tail(stdout[g]) \in Seq(Outbound)
         /\ Head(stdout[g]) \in Outbound
         /\ \A r \in Request :
              Append(chan[r], [Head(stdout[g]) EXCEPT !.id = i]) \in Seq(Message)
<1> DEFINE m == Head(stdout[g])
<1>1. m \in Outbound /\ Tail(stdout[g]) \in Seq(Outbound)
  BY HeadTailProperties DEF TypeOK
<1>2. [m EXCEPT !.id = i] \in Message
  BY <1>1 DEF Outbound, Message, Party
<1>3. \A r \in Request : chan[r] \in Seq(Message)
  BY DEF TypeOK
<1> QED BY <1>1, <1>2, <1>3, AppendProperties

(* The mutex goes from Nobody to an actor and back: while one moves, no    *)
(* other actor is writing.                                                 *)
LEMMA MutexMove ==
  ASSUME TypeOK, WriterHoldsCurrent, NEW a \in Actor, NEW p,
         pc' = [pc EXCEPT ![a] = p], proc' = proc, gen' = gen,
         lock \in {Nobody, a},
         p \in {"writing", "cancelWrite"} => lock' = a /\ proc # 0,
         p # "writing"
  PROVE  WriterHoldsCurrent'
<1>1. pc \in [Actor -> Places] /\ Nobody \notin Actor
  BY ActorAssumption DEF TypeOK
<1>2. ASSUME NEW b \in Actor, b # a PROVE pc'[b] \notin {"writing", "cancelWrite"}
  BY <1>1, <1>2 DEF WriterHoldsCurrent
<1> QED BY <1>1, <1>2 DEF WriterHoldsCurrent

(* The first stage is inductive by itself: one step for every action, and  *)
(* in it one for each of its three parts.                                  *)
LEMMA TypedStep ==
  ASSUME Typed, [Next]_vars
  PROVE  Typed'
<1> USE ActorAssumption, ClientAssumption, BoundAssumption
    DEF vars, exchangeVars, processVars, tableVars, inputVars, outputVars,
        Places, Actor, Gen, Id, NoId
<1>1. ASSUME NEW a \in Actor, EnsureAlive(a) PROVE Typed'
  <2>1. TypeOK'
    BY <1>1 DEF Typed, TypeOK, EnsureAlive,
        Arrives
  <2>2. WriterHoldsCurrent'
    BY <1>1 DEF Typed, TypeOK, WriterHoldsCurrent, EnsureAlive, Arrives
  <2>3. Stages'
    BY <1>1
    DEF Typed, TypeOK, WriterHoldsCurrent, Stages, InTable, EnsureAlive,
        Arrives
  <2> QED BY <2>1, <2>2, <2>3 DEF Typed
<1>2. ASSUME NEW a \in Actor, EnsureSpawn(a) PROVE Typed'
  <2>1. TypeOK'
    <3>1. spawned + 1 \in Gen /\ spawned + 1 \in 0 .. MaxSpawn
      BY <1>2 DEF Typed, TypeOK, EnsureSpawn
    <3>2. /\ child' \in [Gen -> {"none", "running", "deaf", "exited"}]
          /\ reader' \in [Gen -> {"none", "running", "done"}]
          /\ pc' \in [Actor -> Places]
      BY <1>2 DEF Typed, TypeOK, EnsureSpawn
    <3> QED BY <1>2, <3>1, <3>2 DEF Typed, TypeOK, EnsureSpawn
  <2>2. WriterHoldsCurrent'
    BY <1>2
    DEF Typed, TypeOK, WriterHoldsCurrent, EnsureSpawn, Arrives, FoundDead
  <2>3. Stages'
    BY <1>2
    DEF Typed, TypeOK, WriterHoldsCurrent, Stages, InTable, EnsureSpawn, Arrives
  <2> QED BY <2>1, <2>2, <2>3 DEF Typed
<1>3. ASSUME NEW a \in Actor, EnsureFails(a) PROVE Typed'
  <2>1. TypeOK'
    <3>1. 0 \in 0 .. MaxSpawn BY BoundAssumption
    <3>2. /\ pc' \in [Actor -> Places]
          /\ outcome' \in [Actor -> {"none", "answered", "cancelled", "ended"}]
          /\ chan' \in [Request -> Seq(Message)]
      BY <1>3, FinishType DEF Typed, TypeOK, EnsureFails
    <3> QED BY <1>3, <3>1, <3>2 DEF Typed, TypeOK, EnsureFails
  <2>2. WriterHoldsCurrent'
    BY <1>3
    DEF Typed, TypeOK, WriterHoldsCurrent, EnsureFails, Arrives, FoundDead,
        Finish
  <2>3. Stages'
    <3>1. pc' = [pc EXCEPT ![a] = "done"] /\ uid' = uid /\ gen' = gen
      BY <1>3 DEF EnsureFails, Finish
    <3> QED BY <3>1, StagesMove DEF InTable
  <2> QED BY <2>1, <2>2, <2>3 DEF Typed
<1>4. ASSUME NEW a \in Actor, NotAvailable(a) PROVE Typed'
  <2>1. TypeOK'
    BY <1>4, FinishType DEF Typed, TypeOK, NotAvailable
  <2>2. WriterHoldsCurrent'
    BY <1>4 DEF Typed, TypeOK, WriterHoldsCurrent, NotAvailable, Finish
  <2>3. Stages'
    <3>1. pc' = [pc EXCEPT ![a] = "done"] /\ uid' = uid /\ gen' = gen
      BY <1>4 DEF NotAvailable, Finish
    <3> QED BY <3>1, StagesMove DEF InTable
  <2> QED BY <2>1, <2>2, <2>3 DEF Typed
<1>5. ASSUME NEW a \in Actor, Write(a) PROVE Typed'
  <2>1. TypeOK'
    <3>1. proc \in Gen /\ Line(a) \in Inbound
      <4>1. proc \in Gen
        BY <1>5 DEF Typed, TypeOK, WriterHoldsCurrent, Write
      <4>2. Line(a) \in Inbound
        BY <1>5, LineType DEF Write
      <4> QED BY <4>1, <4>2
    <3>2. stdin' \in [Gen -> Seq(Inbound)] /\ torn' \in [Gen -> BOOLEAN]
      BY <1>5, <3>1, PutType DEF Typed, TypeOK, Write
    <3>3. /\ pc' \in [Actor -> Places]
          /\ outcome' \in [Actor -> {"none", "answered", "cancelled", "ended"}]
          /\ chan' \in [Request -> Seq(Message)]
      <4>1. CASE Finish(a, "ended")
        BY <4>1, FinishType DEF Typed
      <4>2. CASE pc' = [pc EXCEPT ![a] = "waiting"] /\ UNCHANGED <<outcome, chan>>
        BY <4>2 DEF Typed, TypeOK
      <4> QED BY <1>5, <4>1, <4>2 DEF Write
    <3> QED
      BY <1>5, <3>2, <3>3
      DEF Typed, TypeOK, Write, HasRoom
  <2>2. WriterHoldsCurrent'
    <3>1. PICK p \in {"waiting", "done"} : pc' = [pc EXCEPT ![a] = p]
      BY <1>5 DEF Write, Finish
    <3>2. lock = a /\ gen' = gen /\ proc' = proc
      BY <1>5 DEF Write, Typed, WriterHoldsCurrent
    <3> QED BY <3>1, <3>2, MutexMove DEF Typed
  <2>3. Stages'
    <3>1. PICK p \in {"waiting", "done"} : pc' = [pc EXCEPT ![a] = p]
      BY <1>5 DEF Write, Finish
    <3>2. pc[a] \in InTable /\ uid' = uid /\ gen' = gen
      BY <1>5 DEF Write, Finish, InTable
    <3> QED BY <3>1, <3>2, StagesMove
  <2> QED BY <2>1, <2>2, <2>3 DEF Typed
<1>6. ASSUME NEW a \in Actor, WriteFails(a) PROVE Typed'
  <2>1. TypeOK'
    BY <1>6, FinishType DEF Typed, TypeOK, WriteFails
  <2>2. WriterHoldsCurrent'
    BY <1>6 DEF Typed, TypeOK, WriterHoldsCurrent, WriteFails, Finish
  <2>3. Stages'
    <3>1. pc' = [pc EXCEPT ![a] = "done"] /\ uid' = uid /\ gen' = gen
      BY <1>6 DEF WriteFails, Finish
    <3> QED BY <3>1, StagesMove DEF InTable
  <2> QED BY <2>1, <2>2, <2>3 DEF Typed
<1>7. ASSUME NEW a \in Actor, Disconnect(a) PROVE Typed'
  <2>1. TypeOK'
    BY <1>7, FinishType DEF Typed, TypeOK, Disconnect
  <2>2. WriterHoldsCurrent'
    BY <1>7 DEF Typed, TypeOK, WriterHoldsCurrent, Disconnect, Finish
  <2>3. Stages'
    <3>1. pc' = [pc EXCEPT ![a] = "done"] /\ uid' = uid /\ gen' = gen
      BY <1>7 DEF Disconnect, Finish
    <3> QED BY <3>1, StagesMove DEF InTable
  <2> QED BY <2>1, <2>2, <2>3 DEF Typed
<1>8. ASSUME NEW a \in Actor, DisconnectWriting(a) PROVE Typed'
  <2>1. TypeOK'
    <3>1. proc \in Gen /\ Line(a) \in Inbound
      <4>1. proc \in Gen
        BY <1>8 DEF Typed, TypeOK, WriterHoldsCurrent, DisconnectWriting
      <4>2. Line(a) \in Inbound
        BY <1>8, LineType DEF DisconnectWriting
      <4> QED BY <4>1, <4>2
    <3>2. stdin' \in [Gen -> Seq(Inbound)] /\ torn' \in [Gen -> BOOLEAN]
      BY <1>8, <3>1, PutType DEF Typed, TypeOK, DisconnectWriting
    <3>3. /\ pc' \in [Actor -> Places]
          /\ outcome' \in [Actor -> {"none", "answered", "cancelled", "ended"}]
          /\ chan' \in [Request -> Seq(Message)]
      BY <1>8, FinishType DEF Typed, TypeOK, DisconnectWriting
    <3> QED
      BY <1>8, <3>2, <3>3
      DEF Typed, TypeOK, Stages, InTable, WriterHoldsCurrent,
          DisconnectWriting, Tears
  <2>2. WriterHoldsCurrent'
    BY <1>8
    DEF Typed, TypeOK, WriterHoldsCurrent, DisconnectWriting, Tears, Finish
  <2>3. Stages'
    <3>1. pc' = [pc EXCEPT ![a] = "done"] /\ uid' = uid /\ gen' = gen
      BY <1>8 DEF DisconnectWriting, Finish
    <3> QED BY <3>1, StagesMove DEF InTable
  <2> QED BY <2>1, <2>2, <2>3 DEF Typed
<1>9. ASSUME NEW r \in Request, Number(r) PROVE Typed'
  <2>1. TypeOK'
    <3>1. nextId \in Id /\ nextId \in Nat /\ nextId' \in 1 .. MaxId + 1
      BY <1>9 DEF Typed, TypeOK, Number, Counter, Id
    <3>2. /\ uid' \in [Actor -> Nat]
          /\ \A q \in Request : uid'[q] \in Id \cup {NoId}
      BY <1>9, <3>1 DEF Typed, TypeOK, Number
    <3>3. pc' \in [Actor -> Places]
      BY <1>9 DEF Typed, TypeOK, Number, Places
    <3>4. UNCHANGED <<gen, outcome, chan, lock, processVars, tableVars,
                      inputVars, outputVars>>
      BY <1>9 DEF Number
    <3> QED
      BY <3>1, <3>2, <3>3, <3>4
      DEF Typed, TypeOK, processVars, tableVars, inputVars, outputVars
  <2>2. WriterHoldsCurrent'
    BY <1>9 DEF Typed, TypeOK, WriterHoldsCurrent, Number, Counter
  <2>3. Stages'
    BY <1>9
    DEF Typed, TypeOK, WriterHoldsCurrent, Stages, InTable, Number, Counter
  <2> QED BY <2>1, <2>2, <2>3 DEF Typed
<1>10. ASSUME NEW r \in Request, Register(r) PROVE Typed'
  <2>1. TypeOK'
    <3>1. proc \in Gen /\ uid[r] \in Id /\ r \in Actor
      BY <1>10 DEF Typed, TypeOK, Stages, Register, Gen, Actor
    <3>2. /\ pc' \in [Actor -> Places]
          /\ gen' \in [Actor -> 0 .. MaxSpawn]
          /\ lock' \in Actor \cup {Nobody}
      BY <1>10, <3>1 DEF Typed, TypeOK, Register, Places
    <3>3. pending' \in [Gen -> [Id -> Request \cup {Nobody}]]
      BY <1>10, <3>1 DEF Typed, TypeOK, Register
    <3>4. UNCHANGED <<uid, outcome, chan, processVars, nextId, reader,
                      inputVars, outputVars>>
      BY <1>10 DEF Register
    <3> QED
      BY <3>2, <3>3, <3>4
      DEF Typed, TypeOK, processVars, inputVars, outputVars
  <2>2. WriterHoldsCurrent'
    BY <1>10 DEF Typed, TypeOK, WriterHoldsCurrent, Register
  <2>3. Stages'
    BY <1>10 DEF Typed, TypeOK, WriterHoldsCurrent, Stages, InTable, Register
  <2> QED BY <2>1, <2>2, <2>3 DEF Typed
<1>11. ASSUME NEW r \in Request, ReceiveAnswer(r) PROVE Typed'
  <2>1. TypeOK'
    BY <1>11, FinishType DEF Typed, TypeOK, ReceiveAnswer,
        Awaits
  <2>2. WriterHoldsCurrent'
    BY <1>11
    DEF Typed, TypeOK, WriterHoldsCurrent, ReceiveAnswer, Awaits, Finish
  <2>3. Stages'
    <3>1. pc' = [pc EXCEPT ![r] = "done"] /\ uid' = uid /\ gen' = gen
      BY <1>11 DEF ReceiveAnswer, Finish
    <3> QED BY <3>1, StagesMove DEF InTable
  <2> QED BY <2>1, <2>2, <2>3 DEF Typed
<1>12. ASSUME NEW r \in Request, ReceiveNote(r) PROVE Typed'
  <2>1. TypeOK'
    <3>1. Tail(chan[r]) \in Seq(Message)
      BY <1>12, HeadTailProperties DEF Typed, TypeOK, ReceiveNote
    <3> QED
      BY <1>12, <3>1
      DEF Typed, TypeOK, ReceiveNote,
          Awaits
  <2>2. WriterHoldsCurrent'
    BY <1>12 DEF Typed, TypeOK, WriterHoldsCurrent, ReceiveNote, Awaits
  <2>3. Stages'
    BY <1>12
    DEF Typed, TypeOK, WriterHoldsCurrent, Stages, InTable, ReceiveNote,
        Awaits
  <2> QED BY <2>1, <2>2, <2>3 DEF Typed
<1>13. ASSUME NEW r \in Request, Closed(r) PROVE Typed'
  <2>1. TypeOK'
    <3>1. /\ pc' \in [Actor -> Places]
          /\ outcome' \in [Actor -> {"none", "answered", "cancelled", "ended"}]
          /\ chan' \in [Request -> Seq(Message)]
      <4>1. CASE pc' = [pc EXCEPT ![r] = "cancel"] /\ UNCHANGED <<outcome, chan>>
        BY <4>1 DEF Typed, TypeOK, Places
      <4>2. CASE Finish(r, "ended")
        BY <4>2, FinishType DEF Typed, Actor
      <4> QED BY <1>13, <4>1, <4>2 DEF Closed
    <3>2. UNCHANGED <<uid, gen, lock, processVars, nextId, tableVars,
                      inputVars, outputVars>>
      BY <1>13 DEF Closed
    <3> QED
      BY <3>1, <3>2
      DEF Typed, TypeOK, processVars, tableVars, inputVars, outputVars
  <2>2. WriterHoldsCurrent'
    <3>1. PICK p \in {"cancel", "done"} : pc' = [pc EXCEPT ![r] = p]
      BY <1>13 DEF Closed, Finish
    <3>2. UNCHANGED <<gen, lock, proc>>
      BY <1>13 DEF Closed, processVars
    <3> QED BY <3>1, <3>2 DEF Typed, TypeOK, WriterHoldsCurrent
  <2>3. Stages'
    <3>1. PICK p \in {"cancel", "done"} : pc' = [pc EXCEPT ![r] = p]
      BY <1>13 DEF Closed, Finish
    <3>2. pc[r] \in InTable /\ uid' = uid /\ gen' = gen
      BY <1>13 DEF Closed, ChannelClosed, Awaits, Finish, InTable
    <3> QED BY <3>1, <3>2, StagesMove
  <2> QED BY <2>1, <2>2, <2>3 DEF Typed
<1>14. ASSUME NEW r \in Request, StreamOpens(r) PROVE Typed'
  <2>1. TypeOK'
    BY <1>14 DEF Typed, TypeOK, StreamOpens
  <2>2. WriterHoldsCurrent'
    BY <1>14 DEF Typed, TypeOK, WriterHoldsCurrent, StreamOpens
  <2>3. Stages'
    <3>1. pc' = [pc EXCEPT ![r] = "streaming"] /\ uid' = uid /\ gen' = gen
      BY <1>14 DEF StreamOpens
    <3>2. pc[r] \in InTable
      BY <1>14 DEF StreamOpens, InTable
    <3> QED BY <3>1, <3>2, StagesMove
  <2> QED BY <2>1, <2>2, <2>3 DEF Typed
<1>15. ASSUME NEW r \in Request, Timeout(r) PROVE Typed'
  <2>1. TypeOK'
    BY <1>15, FinishType DEF Typed, TypeOK, Timeout, Overdue
  <2>2. WriterHoldsCurrent'
    BY <1>15 DEF Typed, TypeOK, WriterHoldsCurrent, Timeout, Overdue, Finish
  <2>3. Stages'
    <3>1. pc' = [pc EXCEPT ![r] = "done"] /\ uid' = uid /\ gen' = gen
      BY <1>15 DEF Timeout, Finish
    <3> QED BY <3>1, StagesMove DEF InTable
  <2> QED BY <2>1, <2>2, <2>3 DEF Typed
<1>16. ASSUME NEW r \in Request, DisconnectStream(r) PROVE Typed'
  <2>1. TypeOK'
    <3>1. << >> \in Seq(Message) BY EmptySeq
    <3> QED
      BY <1>16, <3>1
      DEF Typed, TypeOK, Stages, InTable, WriterHoldsCurrent,
          DisconnectStream, Awaits, Hang
  <2>2. WriterHoldsCurrent'
    BY <1>16 DEF Typed, TypeOK, WriterHoldsCurrent, DisconnectStream, Awaits
  <2>3. Stages'
    <3>1. pc' = [pc EXCEPT ![r] = "cancel"] /\ uid' = uid /\ gen' = gen
      BY <1>16 DEF DisconnectStream
    <3>2. pc[r] \in InTable
      BY <1>16 DEF DisconnectStream, InTable, Awaits
    <3> QED BY <3>1, <3>2, StagesMove
  <2> QED BY <2>1, <2>2, <2>3 DEF Typed
<1>17. ASSUME NEW r \in Request, CancelLock(r) PROVE Typed'
  <2>1. TypeOK'
    <3>1. /\ pc' \in [Actor -> Places]
          /\ outcome' \in [Actor -> {"none", "answered", "cancelled", "ended"}]
          /\ chan' \in [Request -> Seq(Message)]
      <4>1. CASE pc' = [pc EXCEPT ![r] = "cancelWrite"] /\ UNCHANGED <<outcome, chan>>
        BY <4>1 DEF Typed, TypeOK, Places
      <4>2. CASE Finish(r, "cancelled")
        BY <4>2, FinishType DEF Typed, Actor
      <4> QED BY <1>17, <4>1, <4>2 DEF CancelLock
    <3>2. pending' \in [Gen -> [Id -> Request \cup {Nobody}]]
      <4>1. CASE proc # 0 /\ pending' = Remove(proc, uid[r])
        <5>1. proc \in Gen BY <4>1, BoundAssumption DEF Typed, TypeOK
        <5> QED BY <4>1, <5>1, RemoveType DEF Typed
      <4>2. CASE pending' = pending
        BY <4>2 DEF Typed, TypeOK
      <4> QED BY <1>17, <4>1, <4>2 DEF CancelLock
    <3>3. lock' \in Actor \cup {Nobody}
      BY <1>17 DEF Typed, TypeOK, CancelLock, Actor
    <3>4. UNCHANGED <<uid, gen, processVars, nextId, reader, inputVars,
                      outputVars>>
      BY <1>17 DEF CancelLock
    <3> QED
      BY <3>1, <3>2, <3>3, <3>4
      DEF Typed, TypeOK, processVars, inputVars, outputVars
  <2>2. WriterHoldsCurrent'
    <3>1. PICK p \in {"cancelWrite", "done"} :
            /\ pc' = [pc EXCEPT ![r] = p]
            /\ p = "cancelWrite" => lock' = r /\ proc # 0
      BY <1>17 DEF CancelLock, Finish
    <3>2. lock = Nobody /\ gen' = gen /\ proc' = proc
      BY <1>17 DEF CancelLock
    <3> QED BY <3>1, <3>2, MutexMove DEF Typed
  <2>3. Stages'
    <3>1. PICK p \in {"cancelWrite", "done"} : pc' = [pc EXCEPT ![r] = p]
      BY <1>17 DEF CancelLock, Finish
    <3>2. pc[r] \in InTable /\ uid' = uid /\ gen' = gen
      BY <1>17 DEF CancelLock, Finish, InTable
    <3> QED BY <3>1, <3>2, StagesMove
  <2> QED BY <2>1, <2>2, <2>3 DEF Typed
<1>18. ASSUME NEW r \in Request, CancelWrite(r) PROVE Typed'
  <2>1. TypeOK'
    <3>1. proc \in Gen /\ Line(r) \in Inbound
      <4>1. proc \in Gen
        BY <1>18 DEF Typed, TypeOK, WriterHoldsCurrent, CancelWrite
      <4>2. Line(r) \in Inbound
        BY <1>18, LineType DEF CancelWrite
      <4> QED BY <4>1, <4>2
    <3>2. stdin' \in [Gen -> Seq(Inbound)] /\ torn' \in [Gen -> BOOLEAN]
      BY <1>18, <3>1, PutType DEF Typed, TypeOK, CancelWrite
    <3>3. /\ pc' \in [Actor -> Places]
          /\ outcome' \in [Actor -> {"none", "answered", "cancelled", "ended"}]
          /\ chan' \in [Request -> Seq(Message)]
      BY <1>18, FinishType DEF Typed, TypeOK, CancelWrite
    <3> QED
      BY <1>18, <3>2, <3>3
      DEF Typed, TypeOK, CancelWrite,
          HasRoom
  <2>2. WriterHoldsCurrent'
    BY <1>18
    DEF Typed, TypeOK, WriterHoldsCurrent, CancelWrite, HasRoom, Finish
  <2>3. Stages'
    <3>1. pc' = [pc EXCEPT ![r] = "done"] /\ uid' = uid /\ gen' = gen
      BY <1>18 DEF CancelWrite, Finish
    <3> QED BY <3>1, StagesMove DEF InTable
  <2> QED BY <2>1, <2>2, <2>3 DEF Typed
<1>19. ASSUME NEW c \in Canceller, TakeCancel(c) PROVE Typed'
  <2>1. TypeOK'
    <3>1. proc \in Gen
      BY <1>19, BoundAssumption DEF Typed, TypeOK, TakeCancel
    <3>2. pending' \in [Gen -> [Id -> Request \cup {Nobody}]]
      <4>1. CASE \E u \in NamedBy(c) : pending' = Remove(proc, u)
        BY <3>1, <4>1, RemoveType DEF Typed
      <4>2. CASE pending' = pending
        BY <4>2 DEF Typed, TypeOK
      <4> QED BY <1>19, <4>1, <4>2 DEF TakeCancel
    <3>3. /\ uid' \in [Actor -> Nat]
          /\ \A r \in Request : uid'[r] \in Id \cup {NoId}
      <4>1. PICK n \in Nat : uid' = [uid EXCEPT ![c] = n]
        BY <1>19, ClientAssumption DEF TakeCancel, NamedBy
      <4> QED BY <4>1, ActorAssumption DEF Typed, TypeOK
    <3> QED BY <1>19, <3>1, <3>2, <3>3 DEF Typed, TypeOK, TakeCancel
  <2>2. WriterHoldsCurrent'
    BY <1>19 DEF Typed, TypeOK, WriterHoldsCurrent, TakeCancel, NamedBy, Remove
  <2>3. Stages'
    <3>1. /\ gen' = [gen EXCEPT ![c] = proc] /\ proc \in Gen
          /\ pc' = [pc EXCEPT ![c] = "writing"]
      BY <1>19 DEF Typed, TypeOK, TakeCancel
    <3>u. \E u : uid' = [uid EXCEPT ![c] = u]
      BY <1>19, Zenon DEF TakeCancel
    <3>2. /\ pc \in [Actor -> Places] /\ gen \in [Actor -> 0 .. MaxSpawn]
          /\ uid \in [Actor -> Nat]
      BY DEF Typed, TypeOK
    <3>a. \A r \in Request : pc'[r] = pc[r] /\ uid'[r] = uid[r]
      BY <3>1, <3>u, <3>2
    <3>3. \A b \in Actor : b # c => pc'[b] = pc[b] /\ gen'[b] = gen[b]
      BY <3>1, <3>2
    <3>4. pc'[c] = "writing" /\ gen'[c] = proc /\ c \notin Request
      BY <3>1, <3>2
    <3> QED BY <3>1, <3>a, <3>3, <3>4 DEF Typed, Stages, InTable
  <2> QED BY <2>1, <2>2, <2>3 DEF Typed
<1>20. ASSUME NEW g \in Gen, ReaderAnswer(g) PROVE Typed'
  <2>1. TypeOK'
    <3> DEFINE m == Head(stdout[g])
    <3>0. stdout[g] # << >> /\ TypeOK
      BY <1>20 DEF ReaderAnswer, Typed
    <3>1. /\ Tail(stdout[g]) \in Seq(Outbound)
          /\ \A r \in Request :
               Append(chan[r], [m EXCEPT !.id = Src[r]]) \in Seq(Message)
      BY <3>0, DeliverType
    <3>2. chan' \in [Request -> Seq(Message)]
      <4>1. chan \in [Request -> Seq(Message)]
        BY <3>0 DEF TypeOK
      <4>2. ASSUME NEW r \in Request, NEW c \in Seq(Message),
                   chan' = [chan EXCEPT ![r] = c]
            PROVE  chan' \in [Request -> Seq(Message)]
        BY <4>1, <4>2
      <4>3. \/ chan' = chan
            \/ \E r \in Request, c \in Seq(Message) :
                 chan' = [chan EXCEPT ![r] = c]
        BY <1>20, <3>1, <4>1 DEF ReaderAnswer
      <4> QED BY <4>1, <4>2, <4>3
    <3>3. pending' \in [Gen -> [Id -> Request \cup {Nobody}]]
      <4>1. CASE pending' = Remove(g, m.id)
        BY <4>1, RemoveType DEF Typed
      <4>2. CASE pending' = pending
        BY <4>2 DEF Typed, TypeOK
      <4> QED BY <1>20, <4>1, <4>2 DEF ReaderAnswer
    <3>4. stdout' \in [Gen -> Seq(Outbound)]
      BY <1>20, <3>0, <3>1 DEF TypeOK, ReaderAnswer
    <3> QED BY <1>20, <3>2, <3>3, <3>4 DEF Typed, TypeOK, ReaderAnswer
  <2>2. WriterHoldsCurrent' /\ Stages'
    BY <1>20, EnvironmentFrame, HandlersKept DEF Reader
  <2> QED BY <2>1, <2>2 DEF Typed
<1>21. ASSUME NEW g \in Gen, ReaderNote(g) PROVE Typed'
  <2>1. TypeOK'
    <3>0. stdout[g] # << >> /\ TypeOK
      BY <1>21 DEF ReaderNote, Typed
    <3>1. /\ Tail(stdout[g]) \in Seq(Outbound)
          /\ \A r \in Request :
               Append(chan[r], [Head(stdout[g]) EXCEPT !.id = NoId]) \in Seq(Message)
      BY <3>0, DeliverType
    <3>2. chan' \in [Request -> Seq(Message)]
      <4>1. chan \in [Request -> Seq(Message)]
        BY <3>0 DEF TypeOK
      <4>2. ASSUME NEW r \in Request, NEW c \in Seq(Message),
                   chan' = [chan EXCEPT ![r] = c]
            PROVE  chan' \in [Request -> Seq(Message)]
        BY <4>1, <4>2
      <4>3. \/ chan' = chan
            \/ \E r \in Request, c \in Seq(Message) :
                 chan' = [chan EXCEPT ![r] = c]
        BY <1>21, <3>1, <4>1 DEF ReaderNote
      <4> QED BY <4>1, <4>2, <4>3
    <3>3. stdout' \in [Gen -> Seq(Outbound)]
      BY <1>21, <3>0, <3>1 DEF TypeOK, ReaderNote
    <3> QED BY <1>21, <3>2, <3>3 DEF Typed, TypeOK, ReaderNote
  <2>2. WriterHoldsCurrent' /\ Stages'
    BY <1>21, EnvironmentFrame, HandlersKept DEF Reader
  <2> QED BY <2>1, <2>2 DEF Typed
<1>22. ASSUME NEW g \in Gen, ReaderStops(g) PROVE Typed'
  <2>1. TypeOK'
    BY <1>22 DEF Typed, TypeOK, ReaderStops,
        Clear
  <2>2. WriterHoldsCurrent' /\ Stages'
    BY <1>22, EnvironmentFrame, HandlersKept DEF Reader
  <2> QED BY <2>1, <2>2 DEF Typed
<1>23. ASSUME NEW g \in Gen, ChildRead(g) PROVE Typed'
  <2>1. TypeOK'
    <3> DEFINE m == Head(stdin[g])
    <3>1. m \in Inbound /\ Tail(stdin[g]) \in Seq(Inbound)
      BY <1>23, HeadTailProperties DEF Typed, TypeOK, ChildRead
    <3>2. m.kind = "call" => [id |-> m.id, of |-> m.of] \in Heard
      BY <3>1 DEF Inbound, Heard
    <3>3. seen' \in [Gen -> SUBSET Heard]
      BY <1>23, <3>2 DEF Typed, TypeOK, ChildRead
    <3>4. stdin' \in [Gen -> Seq(Inbound)]
      BY <1>23, <3>1 DEF Typed, TypeOK, ChildRead
    <3> QED BY <1>23, <3>3, <3>4 DEF Typed, TypeOK, ChildRead
  <2>2. WriterHoldsCurrent' /\ Stages'
    BY <1>23, EnvironmentFrame, HandlersKept DEF Child
  <2> QED BY <2>1, <2>2 DEF Typed
<1>24. ASSUME NEW g \in Gen, ChildSay(g) PROVE Typed'
  <2>1. TypeOK'
    <3>1. PICK k \in {"resp", "note"}, h \in seen[g] :
           PrintLine(g, [kind |-> k, id |-> h.id, of |-> h.of])
      BY <1>24 DEF ChildSay
    <3>2. [kind |-> k, id |-> h.id, of |-> h.of] \in Outbound
      BY <3>1 DEF Outbound, Typed, TypeOK, Heard
    <3>3. stdout' \in [Gen -> Seq(Outbound)] /\ said' \in Nat
      BY <3>1, <3>2, PrintType DEF Typed
    <3> QED BY <3>1, <3>3 DEF Typed, TypeOK, PrintLine
  <2>2. WriterHoldsCurrent' /\ Stages'
    BY <1>24, EnvironmentFrame, HandlersKept DEF Child
  <2> QED BY <2>1, <2>2 DEF Typed
<1>25. ASSUME NEW g \in Gen, ChildCall(g) PROVE Typed'
  <2>1. TypeOK'
    <3>1. PICK u \in Id : PrintLine(g, [kind |-> "call", id |-> u, of |-> Nobody])
      BY <1>25 DEF ChildCall
    <3>2. [kind |-> "call", id |-> u, of |-> Nobody] \in Outbound
      BY <3>1 DEF Outbound, Typed, TypeOK, Heard
    <3>3. stdout' \in [Gen -> Seq(Outbound)] /\ said' \in Nat
      BY <3>1, <3>2, PrintType DEF Typed
    <3> QED BY <3>1, <3>3 DEF Typed, TypeOK, PrintLine
  <2>2. WriterHoldsCurrent' /\ Stages'
    BY <1>25, EnvironmentFrame, HandlersKept DEF Child
  <2> QED BY <2>1, <2>2 DEF Typed
<1>26. ASSUME NEW g \in Gen, ChildCloses(g) \/ ChildExit(g) PROVE Typed'
  <2>1. TypeOK'
    <3>1. << >> \in Seq(Inbound)
      BY EmptySeq
    <3>2. /\ child' \in [Gen -> {"none", "running", "deaf", "exited"}]
          /\ stdin' \in [Gen -> Seq(Inbound)]
          /\ torn' \in [Gen -> BOOLEAN]
      <4>1. /\ child' = [child EXCEPT ![g] = "deaf"] \/ child' = [child EXCEPT ![g] = "exited"]
            /\ stdin' = [stdin EXCEPT ![g] = << >>]
            /\ torn' = [torn EXCEPT ![g] = FALSE]
        BY <1>26 DEF ChildCloses, ChildExit
      <4>2. child' \in [Gen -> {"none", "running", "deaf", "exited"}]
        BY <4>1 DEF Typed, TypeOK
      <4>3. stdin' \in [Gen -> Seq(Inbound)]
        BY <3>1, <4>1 DEF Typed, TypeOK
      <4>4. torn' \in [Gen -> BOOLEAN]
        BY <4>1 DEF Typed, TypeOK
      <4> QED BY <4>2, <4>3, <4>4
    <3>3. UNCHANGED <<exchangeVars, lock, processVars, nextId, tableVars, seen,
                      stdout, said>>
      BY <1>26 DEF ChildCloses, ChildExit
    <3> QED
      BY <3>2, <3>3 DEF Typed, TypeOK, exchangeVars, processVars, tableVars
  <2>2. WriterHoldsCurrent' /\ Stages'
    BY <1>26, EnvironmentFrame, HandlersKept DEF Child
  <2> QED BY <2>1, <2>2 DEF Typed
<1>27. CASE DropUpstream
  <2>1. TypeOK'
    <3>1. << >> \in Seq(Inbound) BY EmptySeq
    <3>2. /\ child' \in [Gen -> {"none", "running", "deaf", "exited"}]
          /\ stdin' \in [Gen -> Seq(Inbound)]
          /\ torn' \in [Gen -> BOOLEAN]
          /\ proc' \in 0 .. MaxSpawn
      BY <1>27, <3>1, BoundAssumption DEF Typed, TypeOK, DropUpstream
    <3> QED BY <1>27, <3>2 DEF Typed, TypeOK, DropUpstream
  <2>2. WriterHoldsCurrent'
    BY <1>27 DEF Typed, TypeOK, WriterHoldsCurrent, DropUpstream, InForward
  <2>3. Stages'
    BY <1>27
    DEF Typed, TypeOK, WriterHoldsCurrent, Stages, InTable, DropUpstream,
        InForward
  <2> QED BY <2>1, <2>2, <2>3 DEF Typed
<1>28. CASE UNCHANGED vars
  <2>1. TypeOK'
    BY <1>28 DEF Typed, TypeOK, Stages, InTable, WriterHoldsCurrent
  <2>2. WriterHoldsCurrent'
    BY <1>28 DEF Typed, TypeOK, WriterHoldsCurrent
  <2>3. Stages'
    BY <1>28 DEF Typed, TypeOK, WriterHoldsCurrent, Stages, InTable
  <2> QED BY <2>1, <2>2, <2>3 DEF Typed
<1> QED
  BY <1>1, <1>2, <1>3, <1>4, <1>5, <1>6, <1>7, <1>8, <1>9, <1>10, <1>11,
  <1>12, <1>13, <1>14, <1>15, <1>16, <1>17, <1>18, <1>19, <1>20, <1>21,
  <1>22, <1>23, <1>24, <1>25, <1>26, <1>27, <1>28
  DEF Next, Handler, Requester, Leave, Reader, Child, Finished

(* A step that numbers no request, and sends none back to where it has no  *)
(* id yet, keeps the ids apart.                                            *)
LEMMA DistinctKept ==
  ASSUME Distinct, nextId' = nextId,
         \A r \in Request : uid'[r] = uid[r],
         \A r \in Request :
           pc'[r] \in {"idle", "ensured"} => pc[r] \in {"idle", "ensured"}
  PROVE  Distinct'
BY DEF Distinct

(* No step but Number gives a request an id, and none gives one back. *)
LEMMA DistinctStep ==
  ASSUME Typed, Distinct, [Next]_vars
  PROVE  Distinct'
<1> DEFINE Early == {"idle", "ensured"}
<1>0. /\ pc \in [Actor -> Places] /\ uid \in [Actor -> Nat] /\ nextId \in Nat
      /\ Request \subseteq Actor /\ Request \cap Canceller = {}
  BY ActorAssumption, BoundAssumption DEF Typed, TypeOK, Actor
<1>1. ASSUME NEW a \in Actor, Handler(a) PROVE Distinct'
  <2>1. uid' = uid /\ nextId' = nextId
    BY <1>1 DEF Handler, EnsureAlive, EnsureSpawn, EnsureFails, NotAvailable,
                Write, WriteFails
  <2>2. \/ pc[a] = "idle" /\ pc' = [pc EXCEPT ![a] = "ensured"]
        \/ \E p \in {"waiting", "done"} : pc' = [pc EXCEPT ![a] = p]
    BY <1>1 DEF Handler, EnsureAlive, EnsureSpawn, EnsureFails, NotAvailable,
                Write, WriteFails, Finish, Arrives
  <2> QED BY <1>0, <2>1, <2>2, DistinctKept
<1>2. ASSUME NEW a \in Actor, Leave(a) PROVE Distinct'
  <2>1. uid' = uid /\ nextId' = nextId /\ pc' = [pc EXCEPT ![a] = "done"]
    BY <1>2 DEF Leave, Disconnect, DisconnectWriting, Finish
  <2> QED BY <1>0, <2>1, DistinctKept
<1>3. ASSUME NEW r \in Request, Number(r) PROVE Distinct'
  <2>1. /\ uid' = [uid EXCEPT ![r] = nextId] /\ nextId' = nextId + 1
        /\ pc' = [pc EXCEPT ![r] = "numbered"]
    BY <1>3 DEF Number, Counter
  <2>2. \A s \in Request : uid[s] < nextId
    BY DEF Distinct
  <2>3. \A s \in Request : pc'[s] \in {"idle", "ensured"} => uid'[s] = NoId
    BY <1>0, <2>1 DEF Distinct
  <2>4. \A s \in Request : uid'[s] < nextId'
    BY <1>0, <2>1, <2>2
  <2>5. \A s, t \in Request : uid'[s] = uid'[t] /\ uid'[s] # NoId => s = t
    BY <1>0, <2>1, <2>2 DEF Distinct
  <2> QED BY <2>3, <2>4, <2>5 DEF Distinct
<1>4. ASSUME NEW r \in Request, Requester(r) \/ DisconnectStream(r), ~Number(r)
      PROVE  Distinct'
  <2>1. uid' = uid /\ nextId' = nextId
    BY <1>4 DEF Requester, DisconnectStream, Register, ReceiveAnswer,
                ReceiveNote, Closed, StreamOpens, Timeout, CancelLock,
                CancelWrite, exchangeVars
  <2>2. PICK p : pc' = [pc EXCEPT ![r] = p] /\ (p \notin Early \/ p = pc[r])
    <3>1. CASE ReceiveNote(r)
      <4>1. CASE r \in Stream
        <5>1. pc' = [pc EXCEPT ![r] = "streaming"]
          BY <3>1, <4>1 DEF ReceiveNote
        <5>2. "streaming" \notin Early
          OBVIOUS
        <5> QED BY <5>1, <5>2, Zenon
      <4>2. CASE r \notin Stream
        <5>1. pc' = [pc EXCEPT ![r] = pc[r]]
          BY <3>1, <4>2 DEF ReceiveNote
        <5> QED BY <5>1
      <4> QED BY <4>1, <4>2
    <3>2. CASE ~ReceiveNote(r)
      BY <1>4, <3>2 DEF Requester, DisconnectStream, Register, ReceiveAnswer,
                        Closed, StreamOpens, Timeout, CancelLock, CancelWrite,
                        Finish
    <3> QED BY <3>1, <3>2
  <2> QED BY <1>0, <2>1, <2>2, DistinctKept
<1>5. ASSUME NEW c \in Canceller, TakeCancel(c) PROVE Distinct'
  <2>1. /\ \A r \in Request : uid'[r] = uid[r] /\ pc'[r] = pc[r]
        /\ nextId' = nextId
    BY <1>0, <1>5 DEF TakeCancel
  <2> QED BY <2>1, DistinctKept
<1>6. ASSUME NEW g \in Gen, Reader(g) \/ Child(g) PROVE Distinct'
  BY <1>6, EnvironmentFrame, DistinctKept
<1>7. CASE DropUpstream \/ UNCHANGED vars
  BY <1>7, DistinctKept DEF DropUpstream, vars, exchangeVars
<1> QED
  BY <1>1, <1>2, <1>3, <1>4, <1>5, <1>6, <1>7 DEF Next, Finished

(* A request that has registered keeps its id and its process. *)
LEMMA IdsKept ==
  ASSUME Typed, [Next]_vars
  PROVE  \A r \in Request : gen[r] \in Gen =>
           uid'[r] = uid[r] /\ gen'[r] = gen[r]
<1> DEFINE Kept == \A r \in Request : gen[r] \in Gen =>
                     uid'[r] = uid[r] /\ gen'[r] = gen[r]
<1>0. /\ uid \in [Actor -> Nat]
      /\ gen \in [Actor -> 0 .. MaxSpawn]
      /\ \A a \in Actor : pc[a] \in {"idle", "ensured", "numbered"} => gen[a] = 0
  BY DEF Typed, TypeOK, Stages
<1> USE ActorAssumption DEF Actor
<1>1. ASSUME NEW a \in Actor, Handler(a) PROVE Kept
  BY <1>1 DEF Handler, EnsureAlive, EnsureSpawn, EnsureFails, NotAvailable,
              Write, WriteFails
<1>2. ASSUME NEW a \in Actor, Leave(a) PROVE Kept
  BY <1>2 DEF Leave, Disconnect, DisconnectWriting
<1>3. ASSUME NEW r \in Request, Number(r) \/ Register(r) PROVE Kept
  BY <1>0, <1>3 DEF Number, Register, Gen
<1>4. ASSUME NEW r \in Request, Requester(r), ~Number(r), ~Register(r)
      PROVE  Kept
  BY <1>4 DEF Requester, ReceiveAnswer, ReceiveNote, Closed, StreamOpens,
              Timeout, CancelLock, CancelWrite
<1>5. ASSUME NEW r \in Request, DisconnectStream(r) PROVE Kept
  BY <1>5 DEF DisconnectStream
<1>6. ASSUME NEW c \in Canceller, TakeCancel(c) PROVE Kept
  BY <1>0, <1>6 DEF TakeCancel
<1>7. ASSUME NEW g \in Gen, Reader(g) \/ Child(g) PROVE Kept
  BY <1>7, EnvironmentFrame
<1>8. CASE DropUpstream \/ UNCHANGED vars
  BY <1>8 DEF DropUpstream, vars, exchangeVars
<1> QED
  BY <1>1, <1>2, <1>3, <1>4, <1>5, <1>6, <1>7, <1>8 DEF Next, Finished

(* The tables only lose entries, but for the one Register makes. *)
LEMMA NewEntries ==
  ASSUME Typed, [Next]_vars
  PROVE  \A h \in Gen, u \in Id, q \in Request :
           pending'[h][u] = q =>
             \/ pending[h][u] = q
             \/ Register(q) /\ h = proc /\ u = uid[q]
<1> DEFINE Only == \A h \in Gen, u \in Id, q \in Request :
                     pending'[h][u] = q =>
                       \/ pending[h][u] = q
                       \/ Register(q) /\ h = proc /\ u = uid[q]
<1>0. pending \in [Gen -> [Id -> Request \cup {Nobody}]] /\ Nobody \notin Request
  BY ActorAssumption DEF Typed, TypeOK, Actor
<1>a. ASSUME NEW g \in Gen, NEW v, pending' = Remove(g, v) PROVE Only
  BY <1>0, <1>a DEF Remove
<1>b. ASSUME pending' = pending PROVE Only
  BY <1>b
<1>1. ASSUME NEW a \in Actor, Handler(a) \/ Leave(a) PROVE Only
  <2>1. pending' = pending
    BY <1>1 DEF Handler, EnsureAlive, EnsureSpawn, EnsureFails, NotAvailable,
                Write, WriteFails, Leave, Disconnect, DisconnectWriting,
                tableVars
  <2> QED BY <1>b, <2>1
<1>2. ASSUME NEW r \in Request, Register(r) PROVE Only
  BY <1>0, <1>2 DEF Register
<1>3. ASSUME NEW r \in Request, CancelLock(r) PROVE Only
  <2>1. CASE pending' = pending
    BY <1>b, <2>1
  <2>2. CASE proc # 0 /\ pending' = Remove(proc, uid[r])
    <3>1. proc \in Gen
      BY <2>2, BoundAssumption DEF Typed, TypeOK, Gen
    <3> QED BY <1>a, <2>2, <3>1
  <2> QED BY <1>3, <2>1, <2>2 DEF CancelLock
<1>4. ASSUME NEW r \in Request, Requester(r) \/ DisconnectStream(r),
             ~Register(r), ~CancelLock(r)
      PROVE  Only
  <2>1. pending' = pending
    BY <1>4 DEF Requester, Number, ReceiveAnswer, ReceiveNote, Closed,
                StreamOpens, Timeout, CancelWrite, DisconnectStream, tableVars
  <2> QED BY <1>b, <2>1
<1>5. ASSUME NEW c \in Canceller, TakeCancel(c) PROVE Only
  <2>1. proc \in Gen
    BY <1>5, BoundAssumption DEF TakeCancel, Typed, TypeOK, Gen
  <2>2. CASE \E u \in NamedBy(c) : pending' = Remove(proc, u)
    BY <1>a, <2>1, <2>2
  <2>3. CASE pending' = pending
    BY <1>b, <2>3
  <2> QED BY <1>5, <2>2, <2>3 DEF TakeCancel
<1>6. ASSUME NEW g \in Gen, Reader(g) PROVE Only
  <2>1. CASE \E v : pending' = Remove(g, v)
    BY <1>a, <2>1
  <2>2. CASE pending' = Clear(g)
    BY <1>0, <2>2 DEF Clear
  <2>3. CASE pending' = pending
    BY <1>b, <2>3
  <2> QED
    BY <1>6, <2>1, <2>2, <2>3
    DEF Reader, ReaderAnswer, ReaderNote, ReaderStops, tableVars
<1>7. ASSUME NEW g \in Gen, Child(g) PROVE Only
  <2>1. pending' = pending
    BY <1>7 DEF Child, ChildRead, ChildSay, ChildCall, ChildCloses,
                    ChildExit, PrintLine, tableVars
  <2> QED BY <1>b, <2>1
<1>8. CASE DropUpstream \/ UNCHANGED vars
  <2>1. pending' = pending
    BY <1>8 DEF DropUpstream, vars, tableVars
  <2> QED BY <1>b, <2>1
<1> QED
  BY <1>1, <1>2, <1>3, <1>4, <1>5, <1>6, <1>7, <1>8 DEF Next, Finished

(* Processes are counted up: a request's process is never a later one. *)
LEMMA CountedStep ==
  ASSUME Typed, Counted, [Next]_vars
  PROVE  Counted'
<1>0. /\ spawned \in Nat /\ proc \in Nat /\ gen \in [Actor -> 0 .. MaxSpawn]
      /\ \A a \in Actor : gen[a] \in Nat
  BY BoundAssumption DEF Typed, TypeOK
<1> USE ActorAssumption DEF Actor, Counted
<1>1. ASSUME NEW a \in Actor, Handler(a) PROVE Counted'
  BY <1>0, <1>1 DEF Handler, EnsureAlive, EnsureSpawn, EnsureFails,
                    NotAvailable, Write, WriteFails, processVars
<1>2. ASSUME NEW a \in Actor, Leave(a) PROVE Counted'
  BY <1>2 DEF Leave, Disconnect, DisconnectWriting, processVars
<1>3. ASSUME NEW r \in Request, Register(r) PROVE Counted'
  BY <1>0, <1>3 DEF Register, processVars
<1>4. ASSUME NEW r \in Request, Requester(r) \/ DisconnectStream(r),
             ~Register(r)
      PROVE  Counted'
  BY <1>4 DEF Requester, Number, ReceiveAnswer, ReceiveNote, Closed,
              StreamOpens, Timeout, CancelLock, CancelWrite,
              DisconnectStream, processVars
<1>5. ASSUME NEW c \in Canceller, TakeCancel(c) PROVE Counted'
  BY <1>0, <1>5 DEF TakeCancel, processVars
<1>6. ASSUME NEW g \in Gen, Reader(g) \/ Child(g) PROVE Counted'
  BY <1>6, EnvironmentFrame
<1>7. CASE DropUpstream \/ UNCHANGED vars
  BY <1>0, <1>7 DEF DropUpstream, vars, exchangeVars, processVars
<1> QED
  BY <1>1, <1>2, <1>3, <1>4, <1>5, <1>6, <1>7 DEF Next, Finished

(* The entries that stay are filed as they were, and Register files its    *)
(* own under the id and in the table of its request.                       *)
LEMMA FiledStep ==
  ASSUME Typed, Filed, [Next]_vars
  PROVE  Filed'
<1> SUFFICES ASSUME NEW g \in Gen, NEW u \in Id, NEW r \in Request,
                    pending'[g][u] = r
             PROVE  uid'[r] = u /\ gen'[r] = g
  BY DEF Filed
<1>1. CASE pending[g][u] = r
  BY <1>1, IdsKept DEF Filed
<1>2. CASE Register(r) /\ g = proc /\ u = uid[r]
  BY <1>2 DEF Register, Typed, TypeOK, Actor
<1> QED
  BY <1>1, <1>2, NewEntries

-----------------------------------------------------------------------------
(* Where the elements of a longer and of a shorter sequence come from. *)
LEMMA AppendElements ==
  ASSUME NEW S, NEW s \in Seq(S), NEW e \in S
  PROVE  /\ Append(s, e) \in Seq(S)
         /\ Len(Append(s, e)) = Len(s) + 1
         /\ \A i \in 1 .. Len(Append(s, e)) :
              \/ i \in 1 .. Len(s) /\ Append(s, e)[i] = s[i]
              \/ i = Len(s) + 1 /\ Append(s, e)[i] = e
<1>1. Len(s) \in Nat
  BY LenProperties
<1> QED BY <1>1, AppendProperties

(* The elements of a tail, one place on in the whole sequence. *)
LEMMA TailElements ==
  ASSUME NEW S, NEW s \in Seq(S), s # << >>
  PROVE  /\ Tail(s) \in Seq(S)
         /\ Len(Tail(s)) = Len(s) - 1
         /\ Len(s) >= 1 /\ Head(s) = s[1]
         /\ \A i \in 1 .. Len(Tail(s)) :
              i + 1 \in 1 .. Len(s) /\ Tail(s)[i] = s[i + 1]
<1>1. Len(s) \in Nat /\ Len(s) # 0
  BY LenProperties, EmptySeq
<1> QED BY <1>1, HeadTailProperties

(* A line that belongs to a request goes on to, whatever happens. *)
LEMMA BelongsKept ==
  ASSUME Typed, [Next]_vars, NEW g \in Gen, NEW u, NEW r, Belongs(g, u, r)
  PROVE  r \in Request /\ uid'[r] = u /\ gen'[r] = g
BY IdsKept DEF Belongs

(* A line on stdin was there before, or is garbage, or is the line of the  *)
(* actor that holds the mutex, written to the current process.             *)

Writing == {"writing", "cancelWrite"}

Written(g, line) ==
  \E a \in Actor : /\ pc[a] \in Writing /\ pc'[a] \notin Writing
                   /\ g = proc /\ line = Line(a)

(* No step puts anything else on the pipe. *)
LEMMA NewLines ==
  ASSUME Typed, [Next]_vars, NEW h \in Gen, NEW i \in 1 .. Len(stdin'[h])
  PROVE  \/ \E j \in 1 .. Len(stdin[h]) : stdin'[h][i] = stdin[h][j]
         \/ stdin'[h][i] = Garbage
         \/ Written(h, stdin'[h][i])
<1> DEFINE Known == \/ \E j \in 1 .. Len(stdin[h]) : stdin'[h][i] = stdin[h][j]
                    \/ stdin'[h][i] = Garbage
                    \/ Written(h, stdin'[h][i])
<1>0. stdin \in [Gen -> Seq(Inbound)] /\ pc \in [Actor -> Places]
  BY DEF Typed, TypeOK
<1>a. ASSUME stdin'[h] = stdin[h] PROVE Known
  BY <1>a
<1>b. ASSUME stdin'[h] = << >> PROVE Known
  BY <1>b, EmptySeq
<1>c. ASSUME NEW a \in Actor, pc[a] \in Writing, pc'[a] \notin Writing,
             Put(proc, Line(a))
      PROVE  Known
  <2>1. CASE h # proc
    <3>1. stdin'[h] = stdin[h]
      BY <1>0, <1>c, <2>1 DEF Put
    <3> QED BY <1>a, <3>1
  <2>2. CASE h = proc
    <3> DEFINE line == IF torn[proc] THEN Garbage ELSE Line(a)
    <3>1. line \in Inbound
      BY <1>c, LineType DEF Garbage, Inbound, NoId, Writing
    <3>2. stdin'[h] = Append(stdin[h], line)
      BY <1>0, <1>c, <2>2 DEF Put
    <3>3. \/ \E j \in 1 .. Len(stdin[h]) : stdin'[h][i] = stdin[h][j]
          \/ stdin'[h][i] = line
      BY <1>0, <3>1, <3>2, AppendElements
    <3> QED BY <1>c, <2>2, <3>3 DEF Written
  <2> QED BY <2>1, <2>2
<1>1. ASSUME NEW a \in Actor, Handler(a) PROVE Known
  <2>1. CASE Write(a)
    BY <1>0, <1>c, <2>1 DEF Write, Finish, Writing
  <2>2. CASE ~Write(a)
    <3>1. stdin' = stdin
      BY <1>1, <2>2 DEF Handler, EnsureAlive, EnsureSpawn, EnsureFails,
                        NotAvailable, WriteFails, inputVars
    <3> QED BY <1>a, <3>1
  <2> QED BY <2>1, <2>2
<1>2. ASSUME NEW a \in Actor, Leave(a) PROVE Known
  <2>1. CASE pc[a] = "writing" /\ Finish(a, "ended") /\ Put(proc, Line(a))
    BY <1>0, <1>c, <2>1 DEF Finish, Writing
  <2>2. CASE stdin' = stdin
    BY <1>a, <2>2
  <2> QED
    BY <1>2, <2>1, <2>2 DEF Leave, Disconnect, DisconnectWriting, inputVars
<1>3. ASSUME NEW r \in Request, Requester(r) \/ DisconnectStream(r) PROVE Known
  <2>1. CASE CancelWrite(r) /\ Put(proc, Line(r))
    BY <1>0, <1>c, <2>1 DEF CancelWrite, Finish, Actor, Writing
  <2>2. CASE stdin' = stdin
    BY <1>a, <2>2
  <2> QED
    BY <1>3, <2>1, <2>2
    DEF Requester, DisconnectStream, Number, Register, ReceiveAnswer,
        ReceiveNote, Closed, StreamOpens, Timeout, CancelLock, CancelWrite,
        inputVars
<1>4. ASSUME NEW c \in Canceller, TakeCancel(c) PROVE Known
  BY <1>a, <1>4 DEF TakeCancel, inputVars
<1>5. ASSUME NEW g \in Gen, Reader(g) PROVE Known
  <2>1. stdin' = stdin
    BY <1>5 DEF Reader, ReaderAnswer, ReaderNote, ReaderStops, inputVars
  <2> QED BY <1>a, <2>1
<1>6. ASSUME NEW g \in Gen, Child(g) PROVE Known
  <2>1. CASE ChildRead(g)
    <3>1. CASE h # g
      BY <1>0, <1>a, <2>1, <3>1 DEF ChildRead
    <3>2. CASE h = g
      <4>1. stdin[h] # << >> /\ stdin'[h] = Tail(stdin[h])
        BY <1>0, <2>1, <3>2 DEF ChildRead
      <4> QED BY <1>0, <4>1, TailElements
    <3> QED BY <3>1, <3>2
  <2>2. CASE ChildCloses(g) \/ ChildExit(g)
    <3>1. stdin'[h] = stdin[h] \/ stdin'[h] = << >>
      BY <1>0, <2>2 DEF ChildCloses, ChildExit
    <3> QED BY <1>a, <1>b, <3>1
  <2>3. CASE ChildSay(g) \/ ChildCall(g)
    <3>1. stdin' = stdin
      BY <2>3 DEF ChildSay, ChildCall, PrintLine, inputVars
    <3> QED BY <1>a, <3>1
  <2> QED BY <1>6, <2>1, <2>2, <2>3 DEF Child
<1>7. CASE DropUpstream
  <2>1. stdin'[h] = stdin[h] \/ stdin'[h] = << >>
    BY <1>7 DEF DropUpstream
  <2> QED BY <1>a, <1>b, <2>1
<1>8. CASE UNCHANGED vars
  BY <1>a, <1>8 DEF vars, inputVars
<1> QED
  BY <1>1, <1>2, <1>3, <1>4, <1>5, <1>6, <1>7, <1>8 DEF Next, Finished

(* What a process has read it has read from its stdin, and it forgets      *)
(* nothing.                                                                *)
LEMMA NewlyRead ==
  ASSUME Typed, [Next]_vars, NEW h \in Gen
  PROVE  /\ seen[h] \subseteq seen'[h]
         /\ \A x \in seen'[h] :
              \/ x \in seen[h]
              \/ \E j \in 1 .. Len(stdin[h]) :
                   /\ stdin[h][j].kind = "call"
                   /\ x.id = stdin[h][j].id /\ x.of = stdin[h][j].of
<1> DEFINE Known == /\ seen[h] \subseteq seen'[h]
                    /\ \A x \in seen'[h] :
                         \/ x \in seen[h]
                         \/ \E j \in 1 .. Len(stdin[h]) :
                              /\ stdin[h][j].kind = "call"
                              /\ x.id = stdin[h][j].id /\ x.of = stdin[h][j].of
<1>0. /\ stdin \in [Gen -> Seq(Inbound)]
      /\ seen \in [Gen -> SUBSET Heard]
  BY DEF Typed, TypeOK
<1>a. ASSUME seen' = seen PROVE Known
  BY <1>a
<1>1. ASSUME NEW a \in Actor, Handler(a) \/ Leave(a) PROVE Known
  <2>1. seen' = seen
    BY <1>1 DEF Handler, EnsureAlive, EnsureSpawn, EnsureFails, NotAvailable,
                Write, WriteFails, Leave, Disconnect, DisconnectWriting,
                outputVars
  <2> QED BY <1>a, <2>1
<1>2. ASSUME NEW r \in Request, Requester(r) \/ DisconnectStream(r) PROVE Known
  <2>1. seen' = seen
    BY <1>2 DEF Requester, DisconnectStream, Number, Register, ReceiveAnswer,
                ReceiveNote, Closed, StreamOpens, Timeout, CancelLock,
                CancelWrite, outputVars
  <2> QED BY <1>a, <2>1
<1>3. ASSUME NEW g \in Gen, ChildRead(g) PROVE Known
  <2>1. CASE h # g
    BY <1>0, <1>3, <2>1 DEF ChildRead
  <2>2. CASE h = g
    <3>1. /\ stdin[h] # << >>
          /\ seen'[h] = seen[h]
             \/ /\ Head(stdin[h]).kind = "call"
                /\ seen'[h] = seen[h] \cup
                     {[id |-> Head(stdin[h]).id, of |-> Head(stdin[h]).of]}
      BY <1>0, <1>3, <2>2 DEF ChildRead
    <3>2. Len(stdin[h]) \in Nat /\ Len(stdin[h]) >= 1 /\ Head(stdin[h]) = stdin[h][1]
      BY <1>0, <3>1, TailElements, LenProperties
    <3> QED BY <3>1, <3>2
  <2> QED BY <2>1, <2>2
<1>4. ASSUME NEW g \in Gen, Reader(g) \/ Child(g), ~ChildRead(g) PROVE Known
  <2>1. seen' = seen
    BY <1>4 DEF Reader, ReaderAnswer, ReaderNote, ReaderStops, Child, ChildSay,
                ChildCall, ChildCloses, ChildExit, PrintLine
  <2> QED BY <1>a, <2>1
<1>5. ASSUME NEW c \in Canceller, TakeCancel(c) PROVE Known
  BY <1>a, <1>5 DEF TakeCancel, outputVars
<1>6. CASE DropUpstream \/ UNCHANGED vars
  <2>1. seen' = seen
    BY <1>6 DEF DropUpstream, vars, outputVars
  <2> QED BY <1>a, <2>1
<1> QED
  BY <1>1, <1>2, <1>3, <1>4, <1>5, <1>6 DEF Next, Finished

(* What a process prints under a request's id it prints for a request it   *)
(* has read.                                                               *)
LEMMA NewlyPrinted ==
  ASSUME Typed, [Next]_vars, NEW h \in Gen, NEW i \in 1 .. Len(stdout'[h])
  PROVE  \/ \E j \in 1 .. Len(stdout[h]) : stdout'[h][i] = stdout[h][j]
         \/ stdout'[h][i].kind = "call" /\ ServerCalls
         \/ /\ stdout'[h][i].kind # "call"
            /\ \E x \in seen[h] :
                 stdout'[h][i].id = x.id /\ stdout'[h][i].of = x.of
<1> DEFINE Known ==
      \/ \E j \in 1 .. Len(stdout[h]) : stdout'[h][i] = stdout[h][j]
      \/ stdout'[h][i].kind = "call" /\ ServerCalls
      \/ /\ stdout'[h][i].kind # "call"
         /\ \E x \in seen[h] :
              stdout'[h][i].id = x.id /\ stdout'[h][i].of = x.of
<1>0. /\ stdout \in [Gen -> Seq(Outbound)]
      /\ seen \in [Gen -> SUBSET Heard]
  BY DEF Typed, TypeOK
<1>a. ASSUME stdout'[h] = stdout[h] PROVE Known
  BY <1>a
<1>b. ASSUME NEW g \in Gen, NEW line \in Outbound, PrintLine(g, line),
             \/ line.kind = "call" /\ ServerCalls
             \/ /\ line.kind # "call"
                /\ \E x \in seen[g] : line.id = x.id /\ line.of = x.of
      PROVE  Known
  <2>1. CASE h # g
    <3>1. stdout'[h] = stdout[h]
      BY <1>0, <1>b, <2>1 DEF PrintLine
    <3> QED BY <1>a, <3>1
  <2>2. CASE h = g
    <3>1. stdout'[h] = Append(stdout[h], line)
      BY <1>0, <1>b, <2>2 DEF PrintLine
    <3>2. \/ \E j \in 1 .. Len(stdout[h]) : stdout'[h][i] = stdout[h][j]
          \/ stdout'[h][i] = line
      BY <1>0, <3>1, AppendElements
    <3> QED BY <1>b, <2>2, <3>2
  <2> QED BY <2>1, <2>2
<1>c. ASSUME NEW g \in Gen, stdout[g] # << >>,
             stdout' = [stdout EXCEPT ![g] = Tail(@)]
      PROVE  Known
  <2>1. CASE h # g
    BY <1>0, <1>a, <1>c, <2>1
  <2>2. CASE h = g
    <3>1. stdout[h] # << >> /\ stdout'[h] = Tail(stdout[h])
      BY <1>0, <1>c, <2>2
    <3> QED BY <1>0, <3>1, TailElements
  <2> QED BY <2>1, <2>2
<1>1. ASSUME NEW a \in Actor, Handler(a) \/ Leave(a) PROVE Known
  <2>1. stdout' = stdout
    BY <1>1 DEF Handler, EnsureAlive, EnsureSpawn, EnsureFails, NotAvailable,
                Write, WriteFails, Leave, Disconnect, DisconnectWriting,
                outputVars
  <2> QED BY <1>a, <2>1
<1>2. ASSUME NEW r \in Request, Requester(r) \/ DisconnectStream(r) PROVE Known
  <2>1. stdout' = stdout
    BY <1>2 DEF Requester, DisconnectStream, Number, Register, ReceiveAnswer,
                ReceiveNote, Closed, StreamOpens, Timeout, CancelLock,
                CancelWrite, outputVars
  <2> QED BY <1>a, <2>1
<1>3. ASSUME NEW c \in Canceller, TakeCancel(c) PROVE Known
  BY <1>a, <1>3 DEF TakeCancel, outputVars
<1>4. ASSUME NEW g \in Gen, Reader(g) PROVE Known
  <2>1. CASE ReaderAnswer(g) \/ ReaderNote(g)
    BY <1>c, <2>1 DEF ReaderAnswer, ReaderNote
  <2>2. CASE ReaderStops(g)
    <3>1. stdout'[h] = stdout[h] \/ stdout'[h] = << >>
      BY <1>0, <2>2 DEF ReaderStops
    <3>2. stdout'[h] # << >>
      BY EmptySeq
    <3> QED BY <1>a, <3>1, <3>2
  <2> QED BY <1>4, <2>1, <2>2 DEF Reader
<1>5. ASSUME NEW g \in Gen, Child(g) PROVE Known
  <2>1. CASE ChildSay(g)
    <3>1. PICK k \in {"resp", "note"}, x \in seen[g] :
            PrintLine(g, [kind |-> k, id |-> x.id, of |-> x.of])
      BY <2>1 DEF ChildSay
    <3>2. [kind |-> k, id |-> x.id, of |-> x.of] \in Outbound
      BY <1>0, <3>1 DEF Outbound, Heard
    <3> QED BY <1>b, <3>1, <3>2
  <2>2. CASE ChildCall(g)
    <3>1. PICK u \in Id : PrintLine(g, [kind |-> "call", id |-> u, of |-> Nobody])
      BY <2>2 DEF ChildCall
    <3>2. [kind |-> "call", id |-> u, of |-> Nobody] \in Outbound /\ ServerCalls
      BY <2>2, <3>1 DEF Outbound, ChildCall
    <3> QED BY <1>b, <3>1, <3>2
  <2>3. CASE ChildRead(g) \/ ChildCloses(g) \/ ChildExit(g)
    <3>1. stdout' = stdout
      BY <2>3 DEF ChildRead, ChildCloses, ChildExit
    <3> QED BY <1>a, <3>1
  <2> QED BY <1>5, <2>1, <2>2, <2>3 DEF Child
<1>6. CASE DropUpstream \/ UNCHANGED vars
  <2>1. stdout' = stdout
    BY <1>6 DEF DropUpstream, vars, outputVars
  <2> QED BY <1>a, <2>1
<1> QED
  BY <1>1, <1>2, <1>3, <1>4, <1>5, <1>6 DEF Next, Finished

(* Everything on the pipes of a process belongs to a request that          *)
(* registered with it.                                                     *)
LEMMA PipedStep ==
  ASSUME Typed, Piped, [Next]_vars
  PROVE  Piped'
<1>0. /\ stdin \in [Gen -> Seq(Inbound)]
      /\ seen \in [Gen -> SUBSET Heard]
      /\ stdout \in [Gen -> Seq(Outbound)]
  BY DEF Typed, TypeOK
<1>1. ASSUME NEW g \in Gen, NEW i \in 1 .. Len(stdin'[g]),
             stdin'[g][i].kind = "call"
      PROVE  /\ stdin'[g][i].of \in Request
             /\ uid'[stdin'[g][i].of] = stdin'[g][i].id
             /\ gen'[stdin'[g][i].of] = g
  <2> DEFINE line == stdin'[g][i]
  <2>1. CASE \E j \in 1 .. Len(stdin[g]) : line = stdin[g][j]
    <3>1. Belongs(g, line.id, line.of)
      BY <1>1, <2>1 DEF Piped
    <3> QED BY <3>1, BelongsKept
  <2>2. CASE line = Garbage
    BY <1>1, <2>2 DEF Garbage
  <2>3. CASE Written(g, line)
    <3>1. PICK a \in Actor : /\ pc[a] \in {"writing", "cancelWrite"}
                             /\ g = proc /\ line = Line(a)
      BY <2>3 DEF Written, Writing
    <3>2. a \in Request /\ pc[a] = "writing" /\ line.id = uid[a] /\ line.of = a
      BY <1>1, <3>1 DEF Line
    <3>3. gen[a] = g
      BY <3>1, <3>2 DEF Typed, WriterHoldsCurrent
    <3>4. Belongs(g, line.id, line.of)
      BY <3>2, <3>3 DEF Belongs
    <3> QED BY <3>4, BelongsKept
  <2> QED BY <2>1, <2>2, <2>3, NewLines
<1>2. ASSUME NEW g \in Gen, NEW x \in seen'[g]
      PROVE  x.of \in Request /\ uid'[x.of] = x.id /\ gen'[x.of] = g
  <2>1. Belongs(g, x.id, x.of)
    BY <1>2, NewlyRead DEF Piped
  <2> QED BY <2>1, BelongsKept
<1>3. ASSUME NEW g \in Gen, NEW i \in 1 .. Len(stdout'[g]),
             stdout'[g][i].kind # "call"
      PROVE  [id |-> stdout'[g][i].id, of |-> stdout'[g][i].of] \in seen'[g]
  <2> DEFINE line == stdout'[g][i]
  <2>1. [id |-> line.id, of |-> line.of] \in seen[g]
    <3>1. CASE \E j \in 1 .. Len(stdout[g]) : line = stdout[g][j]
      BY <1>3, <3>1 DEF Piped
    <3>2. CASE \E x \in seen[g] : line.id = x.id /\ line.of = x.of
      BY <1>0, <3>2 DEF Heard
    <3> QED BY <1>3, <3>1, <3>2, NewlyPrinted
  <2> QED BY <2>1, NewlyRead
<1> QED BY <1>1, <1>2, <1>3 DEF Piped, Belongs

-----------------------------------------------------------------------------
(* What a step does to the channel of q: nothing, hang it up, take its     *)
(* first message, or deliver the first line of a process that has q in its *)
(* table under the id of the line.                                         *)

Delivered(g, q) ==
  LET m == Head(stdout[g]) IN
  /\ stdout[g] # << >> /\ Listening(q) /\ pc' = pc
  /\ m.id \in Id => pending[g][m.id] = q
  /\ chan'[q] = Append(chan[q],
       [m EXCEPT !.id = IF m.kind = "note" THEN NoId ELSE Src[q]])
  /\ m.kind # "note" /\ m.id \in Id => pending'[g][m.id] = Nobody

(* There is nothing else that a step does to a channel. *)
LEMMA NewMessages ==
  ASSUME Typed, [Next]_vars, NEW q \in Request
  PROVE  \/ chan'[q] = << >>
         \/ chan'[q] = chan[q] /\ (Listening(q) => Listening(q)')
         \/ chan[q] # << >> /\ chan'[q] = Tail(chan[q]) /\ Listening(q)'
         \/ \E g \in Gen : Delivered(g, q)
<1> DEFINE Known ==
      \/ chan'[q] = << >>
      \/ chan'[q] = chan[q] /\ (Listening(q) => Listening(q)')
      \/ chan[q] # << >> /\ chan'[q] = Tail(chan[q]) /\ Listening(q)'
      \/ \E g \in Gen : Delivered(g, q)
<1>0. /\ pc \in [Actor -> Places] /\ chan \in [Request -> Seq(Message)]
      /\ pending \in [Gen -> [Id -> Request \cup {Nobody}]]
  BY DEF Typed, TypeOK
<1>a. ASSUME NEW a \in Actor, NEW how, Finish(a, how) PROVE Known
  <2>1. CASE a = q
    BY <1>a, <2>1 DEF Finish, Hang
  <2>2. CASE a # q
    BY <1>0, <1>a, <2>2, ActorAssumption DEF Finish, Hang, Listening, Actor
  <2> QED BY <2>1, <2>2
<1>b. ASSUME chan'[q] = chan[q], pc'[q] = pc[q] \/ Listening(q)' \/ ~Listening(q)
      PROVE  Known
  BY <1>b DEF Listening
<1> USE DEF Actor
<1>1. ASSUME NEW a \in Actor, Handler(a) PROVE Known
  <2>1. CASE EnsureAlive(a) \/ EnsureSpawn(a)
    BY <1>0, <1>b, <2>1 DEF EnsureAlive, EnsureSpawn, Arrives, Listening
  <2>2. CASE EnsureFails(a) \/ NotAvailable(a) \/ WriteFails(a)
    BY <1>a, <2>2 DEF EnsureFails, NotAvailable, WriteFails
  <2>3. CASE Write(a)
    <3>1. CASE Finish(a, "ended")
      BY <1>a, <3>1
    <3>2. CASE pc' = [pc EXCEPT ![a] = "waiting"] /\ chan' = chan
      BY <1>0, <1>b, <3>2 DEF Listening
    <3> QED BY <2>3, <3>1, <3>2 DEF Write
  <2> QED BY <1>1, <2>1, <2>2, <2>3 DEF Handler
<1>2. ASSUME NEW a \in Actor, Leave(a) PROVE Known
  BY <1>2, <1>a DEF Leave, Disconnect, DisconnectWriting
<1>3. ASSUME NEW r \in Request, Requester(r) PROVE Known
  <2>1. CASE Number(r) \/ Register(r) \/ StreamOpens(r)
    BY <1>0, <1>b, <2>1 DEF Number, Register, StreamOpens, Listening
  <2>2. CASE ReceiveAnswer(r) \/ Timeout(r) \/ CancelWrite(r)
    BY <1>a, <2>2 DEF ReceiveAnswer, Timeout, CancelWrite
  <2>3. CASE ReceiveNote(r)
    <3>1. CASE r = q
      BY <1>0, <2>3, <3>1 DEF ReceiveNote, Awaits, Listening
    <3>2. CASE r # q
      BY <1>0, <2>3, <3>2 DEF ReceiveNote, Listening
    <3> QED BY <3>1, <3>2
  <2>4. CASE Closed(r)
    <3>1. CASE Finish(r, "ended")
      BY <1>a, <3>1
    <3>2. CASE pc' = [pc EXCEPT ![r] = "cancel"] /\ chan' = chan
      BY <1>0, <2>4, <3>2 DEF Closed, ChannelClosed, Listening
    <3> QED BY <2>4, <3>1, <3>2 DEF Closed
  <2>5. CASE CancelLock(r)
    <3>1. CASE Finish(r, "cancelled")
      BY <1>a, <3>1
    <3>2. CASE pc' = [pc EXCEPT ![r] = "cancelWrite"] /\ chan' = chan
      BY <1>0, <1>b, <2>5, <3>2 DEF CancelLock, Listening
    <3> QED BY <2>5, <3>1, <3>2 DEF CancelLock
  <2> QED BY <1>3, <2>1, <2>2, <2>3, <2>4, <2>5 DEF Requester
<1>4. ASSUME NEW r \in Request, DisconnectStream(r) PROVE Known
  BY <1>0, <1>4 DEF DisconnectStream, Hang, Listening
<1>5. ASSUME NEW c \in Canceller, TakeCancel(c) PROVE Known
  BY <1>0, <1>5, <1>b, ActorAssumption DEF TakeCancel
<1>6. ASSUME NEW g \in Gen, Reader(g) PROVE Known
  <2> DEFINE m == Head(stdout[g])
  <2>0. pc' = pc
    BY <1>6, EnvironmentFrame
  <2>1. CASE ReaderStops(g)
    BY <2>0, <2>1, <1>b DEF ReaderStops, exchangeVars
  <2>2. CASE ReaderAnswer(g)
    <3>1. CASE chan' = chan
      BY <1>b, <2>0, <3>1
    <3>2. ASSUME NEW r \in Request, pending[g][m.id] = r,
                 pending' = Remove(g, m.id),
                 chan' = [chan EXCEPT ![r] =
                   IF Listening(r) THEN Append(@, [m EXCEPT !.id = Src[r]]) ELSE @]
          PROVE  Known
      <4>1. CASE r # q \/ ~Listening(r)
        <5>1. chan'[q] = chan[q]
          BY <1>0, <3>2, <4>1
        <5> QED BY <1>b, <2>0, <5>1
      <4>2. CASE r = q /\ Listening(r)
        <5>1. m.id \in Id => pending'[g][m.id] = Nobody
          BY <1>0, <3>2 DEF Remove
        <5>2. m.kind # "note" /\ stdout[g] # << >>
          BY <2>2 DEF ReaderAnswer
        <5>3. chan'[q] = Append(chan[q], [m EXCEPT !.id = Src[q]])
          BY <1>0, <3>2, <4>2
        <5> QED BY <2>0, <3>2, <4>2, <5>1, <5>2, <5>3 DEF Delivered
      <4> QED BY <4>1, <4>2
    <3> QED BY <2>2, <3>1, <3>2 DEF ReaderAnswer
  <2>3. CASE ReaderNote(g)
    <3>1. CASE chan' = chan
      BY <1>b, <2>0, <3>1
    <3>2. ASSUME NEW r \in Request, pending[g][m.id] = r,
                 chan' = [chan EXCEPT ![r] =
                   IF Listening(r) THEN Append(@, [m EXCEPT !.id = NoId]) ELSE @]
          PROVE  Known
      <4>1. CASE r # q \/ ~Listening(r)
        <5>1. chan'[q] = chan[q]
          BY <1>0, <3>2, <4>1
        <5> QED BY <1>b, <2>0, <5>1
      <4>2. CASE r = q /\ Listening(r)
        <5>1. m.kind = "note" /\ stdout[g] # << >>
          BY <2>3 DEF ReaderNote
        <5>2. chan'[q] = Append(chan[q], [m EXCEPT !.id = NoId])
          BY <1>0, <3>2, <4>2
        <5> QED BY <2>0, <3>2, <4>2, <5>1, <5>2 DEF Delivered
      <4> QED BY <4>1, <4>2
    <3> QED BY <2>3, <3>1, <3>2 DEF ReaderNote
  <2> QED BY <1>6, <2>1, <2>2, <2>3 DEF Reader
<1>7. ASSUME NEW g \in Gen, Child(g) PROVE Known
  <2>1. chan' = chan
    BY <1>7 DEF Child, ChildRead, ChildSay, ChildCall, ChildCloses,
                    ChildExit, PrintLine, exchangeVars
  <2> QED BY <1>7, <1>b, <2>1, EnvironmentFrame
<1>8. CASE DropUpstream \/ UNCHANGED vars
  BY <1>8, <1>b DEF DropUpstream, vars, exchangeVars
<1> QED
  BY <1>1, <1>2, <1>3, <1>4, <1>5, <1>6, <1>7, <1>8 DEF Next, Finished

(* Only Register puts a request into a table. *)
LEMMA StaysOut ==
  ASSUME Typed, Filed, [Next]_vars, NEW r \in Request,
         ~Registered(r), ~Register(r)
  PROVE  ~Registered(r)'
<1> SUFFICES ASSUME gen'[r] \in Gen, uid'[r] \in Id,
                    pending'[gen'[r]][uid'[r]] = r
             PROVE  FALSE
  BY DEF Registered
<1>1. pending[gen'[r]][uid'[r]] = r
  BY NewEntries
<1>2. uid[r] = uid'[r] /\ gen[r] = gen'[r]
  BY <1>1 DEF Filed
<1> QED BY <1>1, <1>2 DEF Registered

(* What the reader delivers is for the request behind the channel: the     *)
(* entry it followed was filed by that request, whose line the process had *)
(* read; an answer leaves the table with its entry, so it is the last.     *)
LEMMA RoutedStep ==
  ASSUME Typed, Distinct, Filed, Piped, Routed, [Next]_vars
  PROVE  Routed'
<1>0. /\ chan \in [Request -> Seq(Message)]
      /\ stdout \in [Gen -> Seq(Outbound)]
      /\ Src \in [Request -> Nat \ {NoId}]
  BY ClientAssumption DEF Typed, TypeOK
<1> SUFFICES ASSUME NEW r \in Request
             PROVE  /\ chan'[r] # << >> => Listening(r)'
                    /\ \A i \in 1 .. Len(chan'[r]) :
                         /\ OwnMessage(r, chan[r][i])'
                         /\ chan'[r][i].id = Src[r] =>
                              i = Len(chan'[r]) /\ ~Registered(r)'
  BY DEF Routed, OwnMessagesOnly, AtMostOneAnswer
<1> DEFINE Goal == /\ chan'[r] # << >> => Listening(r)'
                   /\ \A i \in 1 .. Len(chan'[r]) :
                        /\ OwnMessage(r, chan[r][i])'
                        /\ chan'[r][i].id = Src[r] =>
                             i = Len(chan'[r]) /\ ~Registered(r)'
<1>1. ASSUME Listening(r)
      PROVE  gen[r] \in Gen /\ uid[r] \in Id /\ uid'[r] = uid[r] /\ gen'[r] = gen[r]
  <2>1. gen[r] \in Gen /\ uid[r] \in Id
    BY <1>1 DEF Listening, Typed, Stages, InTable, Actor
  <2> QED BY <2>1, IdsKept
<1>2. ASSUME chan[r] # << >>
      PROVE  /\ Listening(r) /\ ~Register(r)
             /\ \A i \in 1 .. Len(chan[r]) :
                  /\ chan[r][i].kind \in {"resp", "call"} => chan[r][i].id = Src[r]
                  /\ chan[r][i].kind \in {"resp", "note"} =>
                       /\ chan[r][i].of = r
                       /\ [id |-> uid'[r], of |-> r] \in seen'[gen'[r]]
                  /\ chan[r][i].id = Src[r] => i = Len(chan[r]) /\ ~Registered(r)'
  <2>1. Listening(r) /\ ~Register(r)
    BY <1>2 DEF Routed, Listening, Register
  <2>2. ~Registered(r) => ~Registered(r)'
    BY <2>1, StaysOut
  <2>3. \A x \in seen[gen[r]] : x \in seen'[gen'[r]]
    BY <1>1, <2>1, NewlyRead
  <2>4. uid'[r] = uid[r]
    BY <1>1, <2>1
  <2> QED
    BY <2>1, <2>2, <2>3, <2>4
    DEF Routed, OwnMessagesOnly, OwnMessage, AtMostOneAnswer
<1>3. CASE chan'[r] = << >>
  BY <1>3, EmptySeq
<1>4. CASE chan'[r] = chan[r] /\ (Listening(r) => Listening(r)')
  <2>1. CASE chan[r] = << >>
    BY <1>3, <1>4, <2>1
  <2>2. CASE chan[r] # << >>
    BY <1>2, <1>4, <2>2 DEF OwnMessage
  <2> QED BY <2>1, <2>2
<1>5. CASE chan[r] # << >> /\ chan'[r] = Tail(chan[r]) /\ Listening(r)'
  <2>1. /\ Len(Tail(chan[r])) = Len(chan[r]) - 1
        /\ Len(chan[r]) \in Nat
        /\ \A i \in 1 .. Len(Tail(chan[r])) :
             i + 1 \in 1 .. Len(chan[r]) /\ Tail(chan[r])[i] = chan[r][i + 1]
    BY <1>0, <1>5, TailElements, LenProperties
  <2>2. ASSUME NEW i \in 1 .. Len(chan'[r])
        PROVE  /\ OwnMessage(r, chan[r][i])'
               /\ chan'[r][i].id = Src[r] =>
                    i = Len(chan'[r]) /\ ~Registered(r)'
    <3>1. i + 1 \in 1 .. Len(chan[r]) /\ chan'[r][i] = chan[r][i + 1]
      BY <1>5, <2>1
    <3>2. OwnMessage(r, chan[r][i])'
      BY <1>2, <1>5, <3>1 DEF OwnMessage
    <3>3. chan'[r][i].id = Src[r] =>
            i + 1 = Len(chan[r]) /\ ~Registered(r)'
      BY <1>2, <1>5, <3>1
    <3>4. i \in Nat /\ (i + 1 = Len(chan[r]) => i = Len(chan'[r]))
      BY <1>5, <2>1
    <3> QED BY <3>2, <3>3, <3>4
  <2> QED BY <1>5, <2>2
<1>6. ASSUME NEW g \in Gen, Delivered(g, r) PROVE Goal
  <2> DEFINE m == Head(stdout[g])
             new == [m EXCEPT !.id = IF m.kind = "note" THEN NoId ELSE Src[r]]
  <2>1. m \in Outbound /\ m = stdout[g][1] /\ 1 \in 1 .. Len(stdout[g])
    BY <1>0, <1>6, TailElements, LenProperties DEF Delivered
  <2>2. m.id \in Id /\ pending[g][m.id] = r
    BY <1>6, <2>1 DEF Delivered, Outbound
  <2>3. Listening(r) /\ Listening(r)'
    BY <1>6 DEF Delivered, Listening
  <2>4. /\ uid[r] = m.id /\ gen[r] = g /\ uid'[r] = m.id /\ gen'[r] = g
    BY <1>1, <2>2, <2>3 DEF Filed
  <2>5. Registered(r)
    BY <2>2, <2>4 DEF Registered
  <2>6. new \in Message
    BY <2>1, ClientAssumption DEF Outbound, Message, Party, Id, NoId
  <2>7. new.id = Src[r] => ~Registered(r)'
    <3>1. CASE m.kind = "note"
      BY <1>0, <2>1, <3>1 DEF Outbound
    <3>2. CASE m.kind # "note"
      <4>1. pending'[g][m.id] = Nobody
        BY <1>6, <2>2, <3>2 DEF Delivered
      <4> QED BY <2>4, <4>1, ActorAssumption DEF Registered, Actor
    <3> QED BY <3>1, <3>2
  <2>8. m.kind # "call" => m.of = r /\ [id |-> uid'[r], of |-> r] \in seen'[gen'[r]]
    <3> SUFFICES ASSUME m.kind # "call"
                 PROVE  m.of = r /\ [id |-> uid'[r], of |-> r] \in seen'[gen'[r]]
      OBVIOUS
    <3>1. [id |-> m.id, of |-> m.of] \in seen[g]
      BY <2>1 DEF Piped
    <3>2. m.of \in Request /\ uid[m.of] = m.id
      BY <3>1 DEF Piped, Belongs
    <3>3. m.of = r
      BY <2>2, <2>4, <3>2 DEF Distinct, Id, NoId
    <3>4. [id |-> m.id, of |-> m.of] \in seen'[g]
      BY <3>1, NewlyRead
    <3> QED BY <2>4, <3>3, <3>4
  <2>9. /\ new.kind = m.kind /\ new.of = m.of
        /\ m.kind \in {"resp", "call"} => new.id = Src[r]
    BY <2>1 DEF Outbound
  <2>10. /\ Len(chan'[r]) = Len(chan[r]) + 1
         /\ \A i \in 1 .. Len(chan'[r]) :
              \/ i \in 1 .. Len(chan[r]) /\ chan'[r][i] = chan[r][i]
              \/ i = Len(chan[r]) + 1 /\ chan'[r][i] = new
    BY <1>0, <1>6, <2>6, AppendElements DEF Delivered
  <2>11. ASSUME NEW i \in 1 .. Len(chan'[r]), i \in 1 .. Len(chan[r]),
                chan'[r][i] = chan[r][i]
         PROVE  OwnMessage(r, chan[r][i])' /\ chan'[r][i].id # Src[r]
    <3>1. chan[r] # << >>
      BY <2>11, EmptySeq
    <3>2. chan[r][i].id # Src[r]
      BY <2>5, <2>11 DEF Routed, AtMostOneAnswer
    <3> QED BY <1>2, <2>11, <3>1, <3>2 DEF OwnMessage
  <2>12. ASSUME NEW i \in 1 .. Len(chan'[r]), i = Len(chan[r]) + 1,
                chan'[r][i] = new
         PROVE  OwnMessage(r, chan[r][i])'
    BY <2>8, <2>9, <2>12 DEF OwnMessage
  <2> QED BY <2>3, <2>7, <2>10, <2>11, <2>12
<1> QED BY <1>3, <1>4, <1>5, <1>6, NewMessages

-----------------------------------------------------------------------------
(* A request begins to wait by writing its line to a running process, and  *)
(* waits on in the same table.                                             *)
LEMMA BeginsToAwait ==
  ASSUME Typed, [Next]_vars, NEW q \in Request, Awaits(q)'
  PROVE  \/ Awaits(q)
         \/ Write(q) /\ UNCHANGED <<reader, child>>
<1> DEFINE Known == \/ Awaits(q)
                    \/ Write(q) /\ UNCHANGED <<reader, child>>
<1>0. pc \in [Actor -> Places]
  BY DEF Typed, TypeOK
<1> USE <1>0, ActorAssumption DEF Awaits, Actor
<1>1. ASSUME NEW a \in Actor, Handler(a) PROVE Known
  <2>1. CASE Write(a)
    BY <2>1 DEF Write, Finish, tableVars, outputVars
  <2>2. CASE ~Write(a)
    BY <1>1, <2>2 DEF Handler, EnsureAlive, EnsureSpawn, EnsureFails,
                      NotAvailable, WriteFails, Finish
  <2> QED BY <2>1, <2>2
<1>2. ASSUME NEW a \in Actor, Leave(a) PROVE Known
  BY <1>2 DEF Leave, Disconnect, DisconnectWriting, Finish
<1>3. ASSUME NEW r \in Request, Requester(r) \/ DisconnectStream(r) PROVE Known
  BY <1>3 DEF Requester, DisconnectStream, Number, Register, ReceiveAnswer,
              ReceiveNote, Closed, StreamOpens, Timeout, CancelLock,
              CancelWrite, Finish
<1>4. ASSUME NEW c \in Canceller, TakeCancel(c) PROVE Known
  BY <1>4 DEF TakeCancel
<1>5. ASSUME NEW g \in Gen, Reader(g) \/ Child(g) PROVE Known
  BY <1>5, EnvironmentFrame
<1>6. CASE DropUpstream \/ UNCHANGED vars
  BY <1>6 DEF DropUpstream, vars, exchangeVars
<1> QED
  BY <1>1, <1>2, <1>3, <1>4, <1>5, <1>6 DEF Next, Finished

(* A reader ends in ReaderStops, and only a spawn starts a process.        *)
LEMMA ReaderEnds ==
  ASSUME Typed, [Next]_vars, NEW h \in Gen
  PROVE  /\ reader'[h] = "done" => reader[h] = "done" \/ ReaderStops(h)
         /\ child'[h] # "exited" /\ child[h] = "exited" => reader'[h] = "running"
<1> DEFINE Known ==
      /\ reader'[h] = "done" => reader[h] = "done" \/ ReaderStops(h)
      /\ child'[h] # "exited" /\ child[h] = "exited" => reader'[h] = "running"
<1>0. /\ reader \in [Gen -> {"none", "running", "done"}]
      /\ child \in [Gen -> {"none", "running", "deaf", "exited"}]
  BY DEF Typed, TypeOK
<1>a. ASSUME reader' = reader, child' = child PROVE Known
  BY <1>a
<1>1. ASSUME NEW a \in Actor, Handler(a) \/ Leave(a) PROVE Known
  <2>1. CASE EnsureSpawn(a)
    BY <1>0, <2>1 DEF EnsureSpawn
  <2>2. CASE ~EnsureSpawn(a)
    <3>1. reader' = reader /\ child' = child
      BY <1>1, <2>2 DEF Handler, EnsureAlive, EnsureFails, NotAvailable, Write,
                        WriteFails, Leave, Disconnect, DisconnectWriting,
                        tableVars, outputVars
    <3> QED BY <1>a, <3>1
  <2> QED BY <2>1, <2>2
<1>2. ASSUME NEW r \in Request, Requester(r) \/ DisconnectStream(r) PROVE Known
  <2>1. reader' = reader /\ child' = child
    BY <1>2 DEF Requester, DisconnectStream, Number, Register, ReceiveAnswer,
                ReceiveNote, Closed, StreamOpens, Timeout, CancelLock,
                CancelWrite, tableVars, outputVars
  <2> QED BY <1>a, <2>1
<1>3. ASSUME NEW c \in Canceller, TakeCancel(c) PROVE Known
  BY <1>a, <1>3 DEF TakeCancel, outputVars
<1>4. ASSUME NEW g \in Gen, Reader(g) PROVE Known
  BY <1>0, <1>4 DEF Reader, ReaderAnswer, ReaderNote, ReaderStops, tableVars
<1>5. ASSUME NEW g \in Gen, Child(g) PROVE Known
  BY <1>0, <1>5 DEF Child, ChildRead, ChildSay, ChildCall, ChildCloses,
                    ChildExit, PrintLine, tableVars
<1>6. CASE DropUpstream
  BY <1>0, <1>6 DEF DropUpstream, tableVars
<1>7. CASE UNCHANGED vars
  BY <1>a, <1>7 DEF vars, tableVars, outputVars
<1> QED
  BY <1>1, <1>2, <1>3, <1>4, <1>5, <1>6, <1>7 DEF Next, Finished

(* With readers that end only after their processes, the last registration *)
(* in a table comes before the table is emptied.                           *)
LEMMA AttendedStep ==
  ASSUME Typed, Filed, Attended, ~ReaderMayStop, [Next]_vars
  PROVE  Attended'
<1>0. /\ child \in [Gen -> {"none", "running", "deaf", "exited"}]
      /\ reader \in [Gen -> {"none", "running", "done"}]
      /\ pending \in [Gen -> [Id -> Request \cup {Nobody}]]
      /\ Nobody \notin Request
  BY ActorAssumption DEF Typed, TypeOK, Actor
<1>1. ASSUME NEW g \in Gen, reader'[g] = "done" PROVE child'[g] = "exited"
  <2>1. child[g] = "exited"
    BY <1>1, ReaderEnds DEF Attended, ReaderStops
  <2> QED BY <1>1, <2>1, ReaderEnds
<1>2. ASSUME NEW r \in Request, Awaits(r)', reader'[gen'[r]] = "done",
             Registered(r)'
      PROVE  FALSE
  <2>1. pc[r] \in InTable /\ gen[r] \in Gen
    <3>1. pc[r] \in InTable
      BY <1>2, BeginsToAwait DEF Write, Awaits, InTable
    <3> QED BY <3>1 DEF Typed, Stages, Actor
  <2>2. gen'[r] = gen[r] /\ uid'[r] = uid[r]
    BY <2>1, IdsKept
  <2>3. Registered(r)
    BY <1>2, <2>1, StaysOut DEF Register, InTable
  <2>4. CASE ReaderStops(gen[r])
    <3>1. pending'[gen[r]][uid[r]] = Nobody
      BY <1>0, <2>1, <2>3, <2>4 DEF ReaderStops, Clear, Registered
    <3> QED BY <1>0, <1>2, <2>2, <3>1 DEF Registered
  <2>5. CASE reader[gen[r]] = "done"
    <3>1. ~Awaits(r)
      BY <2>3, <2>5 DEF Attended, NoOrphans
    <3>2. pc[r] = "writing" /\ child[proc] = "running"
      BY <1>2, <3>1, BeginsToAwait DEF Write, HasRoom
    <3>3. gen[r] = proc
      BY <3>2 DEF Typed, WriterHoldsCurrent, Actor
    <3> QED BY <2>1, <2>5, <3>2, <3>3 DEF Attended
  <2> QED BY <1>2, <2>1, <2>2, <2>4, <2>5, ReaderEnds
<1> QED BY <1>1, <1>2 DEF Attended, NoOrphans

-----------------------------------------------------------------------------
(* How a request comes to its end, and how the current process is replaced. *)
LEMMA Endings ==
  ASSUME Typed, [Next]_vars, NEW q \in Request,
         outcome[q] # "none" => pc[q] = "done"
  PROVE  /\ outcome'[q] # "none" => pc'[q] = "done"
         /\ outcome'[q] = "answered" =>
              outcome[q] = "answered" \/ ReceiveAnswer(q)
         /\ pc'[q] = "cancelWrite" \/ outcome'[q] = "cancelled" =>
              \/ proc' = 0
              \/ proc' = proc /\ pending' = Remove(proc, uid[q])
              \/ pc[q] = "cancelWrite" \/ outcome[q] = "cancelled"
<1> DEFINE Known ==
      /\ outcome'[q] # "none" => pc'[q] = "done"
      /\ outcome'[q] = "answered" =>
           outcome[q] = "answered" \/ ReceiveAnswer(q)
      /\ pc'[q] = "cancelWrite" \/ outcome'[q] = "cancelled" =>
           \/ proc' = 0
           \/ proc' = proc /\ pending' = Remove(proc, uid[q])
           \/ pc[q] = "cancelWrite" \/ outcome[q] = "cancelled"
<1>0. /\ pc \in [Actor -> Places]
      /\ outcome \in [Actor -> {"none", "answered", "cancelled", "ended"}]
  BY DEF Typed, TypeOK
<1> USE <1>0, ActorAssumption DEF Actor
<1>a. ASSUME pc' = pc, outcome' = outcome PROVE Known
  BY <1>a
<1>b. ASSUME NEW a \in Actor, Finish(a, "ended") PROVE Known
  BY <1>b DEF Finish
<1>1. ASSUME NEW a \in Actor, Handler(a) PROVE Known
  <2>1. CASE EnsureAlive(a) \/ EnsureSpawn(a)
    BY <2>1 DEF EnsureAlive, EnsureSpawn, Arrives
  <2>2. CASE EnsureFails(a) \/ NotAvailable(a) \/ WriteFails(a)
    BY <1>b, <2>2 DEF EnsureFails, NotAvailable, WriteFails
  <2>3. CASE Write(a)
    BY <1>b, <2>3 DEF Write
  <2> QED BY <1>1, <2>1, <2>2, <2>3 DEF Handler
<1>2. ASSUME NEW a \in Actor, Leave(a) PROVE Known
  BY <1>b, <1>2 DEF Leave, Disconnect, DisconnectWriting
<1>3. ASSUME NEW r \in Request, Requester(r) \/ DisconnectStream(r) PROVE Known
  <2>1. CASE Timeout(r)
    BY <1>b, <2>1 DEF Timeout
  <2>2. CASE Closed(r)
    <3>1. CASE Finish(r, "ended")
      BY <1>b, <3>1
    <3>2. CASE pc' = [pc EXCEPT ![r] = "cancel"] /\ outcome' = outcome
      BY <2>2, <3>2 DEF Closed, ChannelClosed, Awaits
    <3> QED BY <2>2, <3>1, <3>2 DEF Closed
  <2>3. CASE CancelLock(r)
    BY <2>3 DEF CancelLock, Finish, processVars
  <2>4. CASE CancelWrite(r) \/ ReceiveAnswer(r)
    BY <2>4 DEF CancelWrite, ReceiveAnswer, Finish
  <2>5. CASE Number(r) \/ Register(r) \/ ReceiveNote(r) \/ StreamOpens(r)
             \/ DisconnectStream(r)
    BY <2>5 DEF Number, Register, ReceiveNote, StreamOpens, DisconnectStream,
                Awaits
  <2> QED BY <1>3, <2>1, <2>2, <2>3, <2>4, <2>5 DEF Requester
<1>4. ASSUME NEW c \in Canceller, TakeCancel(c) PROVE Known
  BY <1>4 DEF TakeCancel
<1>5. ASSUME NEW g \in Gen, Reader(g) \/ Child(g) PROVE Known
  BY <1>5, <1>a, EnvironmentFrame
<1>6. CASE DropUpstream \/ UNCHANGED vars
  BY <1>6, <1>a DEF DropUpstream, vars, exchangeVars
<1> QED
  BY <1>1, <1>2, <1>3, <1>4, <1>5, <1>6 DEF Next, Finished

(* Only EnsureSpawn brings a new current process, one nobody has used. *)
LEMMA Replaced ==
  ASSUME Typed, [Next]_vars
  PROVE  proc' = proc \/ proc' = 0 \/ proc' = spawned + 1
<1>1. ASSUME NEW a \in Actor, Handler(a) \/ Leave(a)
      PROVE  proc' = proc \/ proc' = 0 \/ proc' = spawned + 1
  BY <1>1 DEF Handler, EnsureAlive, EnsureSpawn, EnsureFails, NotAvailable,
              Write, WriteFails, Leave, Disconnect, DisconnectWriting,
              processVars
<1>2. ASSUME NEW r \in Request, Requester(r) \/ DisconnectStream(r)
      PROVE  proc' = proc
  BY <1>2 DEF Requester, DisconnectStream, Number, Register, ReceiveAnswer,
              ReceiveNote, Closed, StreamOpens, Timeout, CancelLock,
              CancelWrite, processVars
<1>3. ASSUME NEW c \in Canceller, TakeCancel(c) PROVE proc' = proc
  BY <1>3 DEF TakeCancel, processVars
<1>4. ASSUME NEW g \in Gen, Reader(g) \/ Child(g) PROVE proc' = proc
  BY <1>4, EnvironmentFrame
<1>5. CASE DropUpstream \/ UNCHANGED vars
  BY <1>5 DEF DropUpstream, vars, processVars
<1> QED
  BY <1>1, <1>2, <1>3, <1>4, <1>5 DEF Next, Finished

(* A table a request has left it does not enter again, and a process that  *)
(* replaces another begins with an empty table.                            *)
LEMMA CleanedStep ==
  ASSUME Typed, Filed, Counted, Routed, Cleaned, [Next]_vars
  PROVE  Cleaned'
<1> SUFFICES ASSUME NEW r \in Request
             PROVE  /\ outcome'[r] # "none" => pc'[r] = "done"
                    /\ outcome'[r] = "answered" => ~Registered(r)'
                    /\ pc'[r] = "cancelWrite" \/ outcome'[r] = "cancelled" =>
                         ~(Registered(r)' /\ gen'[r] = proc')
  BY DEF Cleaned
<1>0. /\ pending \in [Gen -> [Id -> Request \cup {Nobody}]]
      /\ gen \in [Actor -> 0 .. MaxSpawn] /\ spawned \in Nat /\ proc \in Nat
      /\ Nobody \notin Request
  BY ActorAssumption, BoundAssumption DEF Typed, TypeOK, Actor
<1>1. outcome[r] # "none" => pc[r] = "done"
  BY DEF Cleaned
<1>2. outcome'[r] # "none" => pc'[r] = "done"
  BY <1>1, Endings
<1>3. ASSUME outcome'[r] = "answered" PROVE ~Registered(r)'
  <2>1. CASE outcome[r] = "answered"
    <3>1. ~Registered(r) /\ ~Register(r)
      BY <1>1, <2>1 DEF Cleaned, Register
    <3> QED BY <3>1, StaysOut
  <2>2. CASE ReceiveAnswer(r)
    <3>1. /\ chan[r] # << >> /\ chan \in [Request -> Seq(Message)]
          /\ Head(chan[r]).id = Src[r]
      BY <2>2 DEF ReceiveAnswer, Typed, TypeOK
    <3>2. Head(chan[r]) = chan[r][1] /\ 1 \in 1 .. Len(chan[r])
      BY <3>1, TailElements, LenProperties
    <3>3. ~Registered(r) /\ ~Register(r)
      BY <2>2, <3>1, <3>2
      DEF Routed, AtMostOneAnswer, ReceiveAnswer, Awaits, Register
    <3> QED BY <3>3, StaysOut
  <2> QED BY <1>1, <1>3, <2>1, <2>2, Endings
<1>4. ASSUME pc'[r] = "cancelWrite" \/ outcome'[r] = "cancelled",
             Registered(r)', gen'[r] = proc'
      PROVE  FALSE
  <2>1. gen'[r] \in Gen /\ uid'[r] \in Id /\ pending'[gen'[r]][uid'[r]] = r
    BY <1>4 DEF Registered
  <2>2. CASE proc' = 0
    BY <1>4, <2>1, <2>2 DEF Gen
  <2>3. ASSUME ~Register(r)
        PROVE  /\ Registered(r) /\ gen[r] \in Gen
               /\ gen'[r] = gen[r] /\ uid'[r] = uid[r]
    <3>1. Registered(r) /\ gen[r] \in Gen
      BY <1>4, <2>3, StaysOut DEF Registered
    <3> QED BY <3>1, IdsKept
  <2>4. CASE proc' = proc /\ pending' = Remove(proc, uid[r])
    <3>1. ~Register(r)
      BY <1>1, <1>4 DEF Register, Typed, TypeOK, Actor
    <3>2. proc \in Gen /\ uid[r] \in Id /\ gen'[r] = proc /\ uid'[r] = uid[r]
      BY <1>4, <2>1, <2>3, <2>4, <3>1
    <3>3. pending'[proc][uid[r]] = Nobody
      BY <1>0, <2>4, <3>2 DEF Remove
    <3> QED BY <1>0, <2>1, <3>2, <3>3
  <2>5. CASE pc[r] = "cancelWrite" \/ outcome[r] = "cancelled"
    <3>1. Registered(r) /\ gen[r] \in Gen /\ gen'[r] = gen[r]
      BY <1>1, <2>3, <2>5 DEF Register
    <3>2. gen[r] # proc
      BY <2>5, <3>1 DEF Cleaned
    <3>3. gen[r] <= spawned /\ gen[r] \in Nat
      BY <3>1 DEF Counted, Gen, Actor
    <3> QED BY <1>0, <1>4, <2>2, <3>1, <3>2, <3>3, Replaced
  <2> QED BY <1>1, <1>4, <2>2, <2>4, <2>5, Endings
<1> QED BY <1>2, <1>3, <1>4

-----------------------------------------------------------------------------
(* The invariant, and the theorems that follow from it. *)

IInv == Typed /\ Distinct /\ Filed /\ Counted /\ Piped /\ Routed /\ Cleaned

(* The invariant holds before the first request... *)
LEMMA InitIInv ==
  ASSUME Init
  PROVE  IInv
<1> USE ActorAssumption, ClientAssumption, BoundAssumption
<1>1. TypeOK
  <2>1. << >> \in Seq(Message) /\ << >> \in Seq(Inbound) /\ << >> \in Seq(Outbound)
    BY EmptySeq
  <2>2. 0 \in 0 .. MaxSpawn /\ 1 \in 1 .. MaxId + 1
    OBVIOUS
  <2> QED
    BY <2>1, <2>2 DEF Init, TypeOK, Places, NoId, Actor
<1>2. WriterHoldsCurrent /\ Stages
  BY DEF Init, WriterHoldsCurrent, Stages, InTable, Actor
<1>3. Distinct
  BY DEF Init, Distinct, Actor, NoId
<1>4. Filed /\ Counted
  BY DEF Init, Filed, Counted, Actor
<1>5. Piped
  <2>1. \A g \in Gen : Len(stdin[g]) = 0 /\ Len(stdout[g]) = 0 /\ seen[g] = {}
    BY EmptySeq DEF Init
  <2> QED BY <2>1 DEF Piped
<1>6. Routed
  <2>1. \A r \in Request : chan[r] = << >> /\ Len(chan[r]) = 0
    BY EmptySeq DEF Init
  <2> QED BY <2>1 DEF Routed, OwnMessagesOnly, AtMostOneAnswer
<1>7. Cleaned
  BY DEF Init, Cleaned, Actor
<1> QED BY <1>1, <1>2, <1>3, <1>4, <1>5, <1>6, <1>7 DEF IInv, Typed

(* ... is kept by every step, stage by stage... *)
LEMMA NextIInv ==
  ASSUME IInv, [Next]_vars
  PROVE  IInv'
BY TypedStep, DistinctStep, FiledStep, CountedStep, PipedStep, RoutedStep,
   CleanedStep DEF IInv

(* ... and therefore holds always. *)
LEMMA Inductive == Spec => []IInv
<1>1. Init => IInv
  BY InitIInv
<1>2. IInv /\ [Next]_vars => IInv'
  BY NextIInv
<1> QED BY <1>1, <1>2, PTL DEF Spec

(* Every variable keeps its type, for any number of requests, cancellers   *)
(* and processes.                                                          *)
THEOREM TypeCorrect == Spec => []TypeOK
<1>1. IInv => TypeOK
  BY DEF IInv, Typed
<1> QED BY <1>1, Inductive, PTL

(* No line is ever written into another: a writer holds the mutex and      *)
(* writes to the current process.                                          *)
THEOREM ExclusiveWriting == Spec => []WriterHoldsCurrent
<1>1. IInv => WriterHoldsCurrent
  BY DEF IInv, Typed
<1> QED BY <1>1, Inductive, PTL

(* Multiplexing never hands one client's answer or progress to another.    *)
THEOREM Isolation == Spec => []OwnMessagesOnly
<1>1. IInv => OwnMessagesOnly
  BY DEF IInv, Routed
<1> QED BY <1>1, Inductive, PTL

(* Whatever the child prints, a request gets one message with its id.      *)
THEOREM SingleAnswer == Spec => []AtMostOneAnswer
<1>1. IInv => AtMostOneAnswer
  BY DEF IInv, Routed
<1> QED BY <1>1, Inductive, PTL

(* Requests that were answered and streams that were cancelled leave the   *)
(* table of the current process.                                           *)
THEOREM CleanEnd == Spec => []NoEntryLeft
<1>1. IInv => NoEntryLeft
  <2> SUFFICES ASSUME IInv, NEW r \in Request, NEW u \in Id, proc # 0,
                      outcome[r] \in {"answered", "cancelled"},
                      pending[proc][u] = r
               PROVE  FALSE
    BY DEF NoEntryLeft
  <2>1. proc \in Gen
    BY BoundAssumption DEF IInv, Typed, TypeOK, Gen
  <2>2. Registered(r) /\ gen[r] = proc
    BY <2>1 DEF IInv, Filed, Registered
  <2> QED BY <2>2 DEF IInv, Cleaned
<1> QED BY <1>1, Inductive, PTL

(* If a reader ends only when its process has exited, no request is left   *)
(* waiting in a table whose reader is gone.                                *)
THEOREM EveryWaiterWoken ==
  ASSUME ~ReaderMayStop
  PROVE  Spec => []NoOrphans
<1>1. Init => Attended
  BY ActorAssumption DEF Init, Attended, NoOrphans, Awaits, Actor
<1>2. IInv /\ Attended /\ [Next]_vars => Attended'
  BY AttendedStep DEF IInv
<1>3. Attended => NoOrphans
  BY DEF Attended
<1> QED BY <1>1, <1>2, <1>3, Inductive, PTL DEF Spec

-----------------------------------------------------------------------------
(* Entries of waiting requests: who takes them out. *)
LEMMA EntryTaken ==
  ASSUME Typed, Distinct, Filed, [Next]_vars, NEW q \in Request,
         Registered(q), Awaits(q), ~Registered(q)'
  PROVE  \/ \E g \in Gen, m \in Outbound :
              /\ m.id = uid[q] /\ m.kind \in {"resp", "call"}
              /\ chan'[q] = Append(chan[q], [m EXCEPT !.id = Src[q]])
         \/ Takes(q)
         \/ reader[gen[q]] = "running" /\ reader'[gen[q]] = "done"
<1> DEFINE h == gen[q]
           u == uid[q]
           Known ==
             \/ \E g \in Gen, m \in Outbound :
                  /\ m.id = uid[q] /\ m.kind \in {"resp", "call"}
                  /\ chan'[q] = Append(chan[q], [m EXCEPT !.id = Src[q]])
             \/ Takes(q)
             \/ reader[gen[q]] = "running" /\ reader'[gen[q]] = "done"
<1>0. /\ pending \in [Gen -> [Id -> Request \cup {Nobody}]]
      /\ reader \in [Gen -> {"none", "running", "done"}]
      /\ chan \in [Request -> Seq(Message)]
      /\ stdout \in [Gen -> Seq(Outbound)]
      /\ pc \in [Actor -> Places]
      /\ Nobody \notin Request
  BY ActorAssumption DEF Typed, TypeOK, Actor
<1>1. h \in Gen /\ u \in Id /\ pending[h][u] = q
  BY DEF Registered
<1>2. gen'[q] = h /\ uid'[q] = u
  BY <1>1, IdsKept
<1>3. pending'[h][u] # q
  BY <1>1, <1>2 DEF Registered
<1>a. pending' # pending
  BY <1>1, <1>3
<1>4. ASSUME NEW a \in Actor, Handler(a) \/ Leave(a) PROVE Known
  BY <1>a, <1>4 DEF Handler, EnsureAlive, EnsureSpawn, EnsureFails,
                NotAvailable, Write, WriteFails, Leave, Disconnect,
                DisconnectWriting, tableVars
<1>5. ASSUME NEW r \in Request, Requester(r) \/ DisconnectStream(r) PROVE Known
  <2>1. CASE Register(r)
    <3>1. proc = h /\ uid[r] = u
      BY <1>0, <1>1, <1>3, <2>1 DEF Register
    <3>2. r = q
      BY <1>1, <3>1 DEF Distinct, Id, NoId
    <3> QED BY <2>1, <3>2 DEF Register, Awaits
  <2>2. CASE CancelLock(r)
    <3>1. proc = h /\ uid[r] = u
      BY <1>0, <1>1, <1>3, <1>a, <2>2 DEF CancelLock, Remove
    <3>2. r = q
      BY <1>1, <3>1 DEF Distinct, Id, NoId
    <3> QED BY <2>2, <3>2 DEF CancelLock, Awaits
  <2>3. CASE ~Register(r) /\ ~CancelLock(r)
    BY <1>a, <1>5, <2>3
    DEF Requester, DisconnectStream, Number, ReceiveAnswer, ReceiveNote,
        Closed, StreamOpens, Timeout, CancelWrite, tableVars
  <2> QED BY <2>1, <2>2, <2>3
<1>6. ASSUME NEW c \in Canceller, TakeCancel(c) PROVE Known
  <2>1. PICK v \in NamedBy(c) : pending' = Remove(proc, v)
    BY <1>6, <1>a DEF TakeCancel
  <2>2. v = u /\ proc = h
    BY <1>0, <1>1, <1>3, <2>1 DEF Remove
  <2>3. Src[Target[c]] = Src[q]
    BY <1>1, <2>1, <2>2 DEF NamedBy
  <2>4. pc[c] = "ensured" /\ pc'[c] = "writing"
    BY <1>0, <1>6 DEF TakeCancel, Actor
  <2> QED BY <2>3, <2>4 DEF Takes
<1>7. ASSUME NEW g \in Gen, Reader(g) PROVE Known
  <2>1. CASE ReaderAnswer(g)
    <3> DEFINE m == Head(stdout[g])
    <3>1. m \in Outbound /\ m.kind \in {"resp", "call"}
      BY <1>0, <2>1, TailElements, LenProperties, HeadTailProperties DEF ReaderAnswer
    <3>2. PICK r \in Request :
            /\ pending[g][m.id] = r
            /\ pending' = Remove(g, m.id)
            /\ chan' = [chan EXCEPT ![r] =
                 IF Listening(r) THEN Append(@, [m EXCEPT !.id = Src[r]]) ELSE @]
      BY <1>a, <2>1 DEF ReaderAnswer
    <3>3. g = h /\ m.id = u
      BY <1>0, <1>1, <1>3, <3>2 DEF Remove
    <3>4. r = q /\ Listening(q)
      BY <1>1, <3>2, <3>3 DEF Awaits, Listening
    <3>5. chan'[q] = Append(chan[q], [m EXCEPT !.id = Src[q]])
      BY <1>0, <3>2, <3>4
    <3> QED BY <3>1, <3>3, <3>5
  <2>2. CASE ReaderNote(g)
    BY <1>a, <2>2 DEF ReaderNote, tableVars
  <2>3. CASE ReaderStops(g)
    <3>1. g = h
      BY <1>0, <1>1, <1>3, <2>3 DEF ReaderStops, Clear
    <3> QED BY <1>0, <1>1, <2>3, <3>1 DEF ReaderStops
  <2> QED BY <1>7, <2>1, <2>2, <2>3 DEF Reader
<1>8. ASSUME NEW g \in Gen, Child(g) PROVE Known
  BY <1>a, <1>8 DEF Child, ChildRead, ChildSay, ChildCall, ChildCloses,
                    ChildExit, PrintLine, tableVars
<1>9. CASE DropUpstream \/ UNCHANGED vars
  BY <1>a, <1>9 DEF DropUpstream, vars, tableVars
<1> QED
  BY <1>4, <1>5, <1>6, <1>7, <1>8, <1>9 DEF Next, Finished

(* A waiting request leaves the table only for a reason of its own: its    *)
(* answer, a cancellation of its client id, or the end of its reader.      *)
THEOREM LeavesForAReason == Spec => EntryLeaves
<1> DEFINE Step ==
      \A r \in Request :
        Registered(r) /\ Awaits(r) /\ Awaits(r)' /\ ~Registered(r)' =>
          \/ Len(chan'[r]) = Len(chan[r]) + 1 /\ chan'[r][Len(chan'[r])].id = Src[r]
          \/ Takes(r)
          \/ reader[gen[r]] = "running" /\ reader'[gen[r]] = "done"
<1>1. IInv /\ [Next]_vars => Step
  <2> SUFFICES ASSUME IInv, [Next]_vars, NEW r \in Request,
                      Registered(r), Awaits(r), ~Registered(r)',
                      ~Takes(r),
                      ~(reader[gen[r]] = "running" /\ reader'[gen[r]] = "done")
               PROVE  /\ Len(chan'[r]) = Len(chan[r]) + 1
                      /\ chan'[r][Len(chan'[r])].id = Src[r]
    OBVIOUS
  <2>1. PICK m \in Outbound : chan'[r] = Append(chan[r], [m EXCEPT !.id = Src[r]])
    BY EntryTaken DEF IInv
  <2>2. [m EXCEPT !.id = Src[r]] \in Message /\ [m EXCEPT !.id = Src[r]].id = Src[r]
    BY ClientAssumption DEF Outbound, Message, Party
  <2>3. chan[r] \in Seq(Message)
    BY DEF IInv, Typed, TypeOK
  <2> QED BY <2>1, <2>2, <2>3, AppendElements, AppendProperties, LenProperties
<1>2. IInv /\ [Next]_vars => [Step]_vars
  BY <1>1
<1> QED BY <1>2, Inductive, PTL DEF Spec, EntryLeaves

-----------------------------------------------------------------------------
(* The bridge implements RequestExchange, if no child sends requests of    *)
(* its own: a request of the server's is delivered as an answer.           *)

NoCalls ==
  /\ \A g \in Gen : \A i \in 1 .. Len(stdout[g]) : stdout[g][i].kind # "call"
  /\ \A r \in Request : \A i \in 1 .. Len(chan[r]) : chan[r][i].kind # "call"

(* Children that send no requests print none, and none is delivered. *)
LEMMA NoCallsStep ==
  ASSUME Typed, NoCalls, ~ServerCalls, [Next]_vars
  PROVE  NoCalls'
<1>0. /\ chan \in [Request -> Seq(Message)]
      /\ stdout \in [Gen -> Seq(Outbound)]
  BY DEF Typed, TypeOK
<1>1. ASSUME NEW g \in Gen, NEW i \in 1 .. Len(stdout'[g])
      PROVE  stdout'[g][i].kind # "call"
  BY NewlyPrinted DEF NoCalls
<1>2. ASSUME NEW r \in Request, NEW i \in 1 .. Len(chan'[r])
      PROVE  chan'[r][i].kind # "call"
  <2>1. CASE chan'[r] = << >>
    BY <2>1, EmptySeq
  <2>2. CASE chan'[r] = chan[r]
    BY <2>2 DEF NoCalls
  <2>3. CASE chan[r] # << >> /\ chan'[r] = Tail(chan[r])
    BY <1>0, <2>3, TailElements DEF NoCalls
  <2>4. ASSUME NEW g \in Gen, Delivered(g, r) PROVE chan'[r][i].kind # "call"
    <3> DEFINE m == Head(stdout[g])
               new == [m EXCEPT !.id = IF m.kind = "note" THEN NoId ELSE Src[r]]
    <3>1. m \in Outbound /\ m = stdout[g][1] /\ 1 \in 1 .. Len(stdout[g])
      BY <1>0, <2>4, TailElements, LenProperties DEF Delivered
    <3>2. new \in Message /\ new.kind = m.kind
      BY <3>1, ClientAssumption DEF Outbound, Message, Party, Id, NoId
    <3>3. m.kind # "call"
      BY <3>1 DEF NoCalls
    <3>4. chan'[r] = Append(chan[r], new)
      BY <2>4 DEF Delivered
    <3>5. \/ i \in 1 .. Len(chan[r]) /\ chan'[r][i] = chan[r][i]
          \/ chan'[r][i] = new
      BY <1>0, <3>2, <3>4, AppendElements
    <3> QED BY <3>2, <3>3, <3>5 DEF NoCalls
  <2> QED BY <2>1, <2>2, <2>3, <2>4, NewMessages
<1> QED BY <1>1, <1>2 DEF NoCalls

(* Only a child that reads a line hears of another request. *)
LEMMA SameHeard ==
  ASSUME Typed, Piped, [Next]_vars, seen' = seen
  PROVE  {r \in Request : HasHeard(r)}' = {r \in Request : HasHeard(r)}
<1> SUFFICES ASSUME NEW r \in Request PROVE HasHeard(r)' <=> HasHeard(r)
  OBVIOUS
<1>1. ASSUME NEW g \in Gen, [id |-> uid[r], of |-> r] \in seen[g]
      PROVE  uid'[r] = uid[r]
  <2>1. gen[r] = g
    BY <1>1 DEF Piped, Belongs
  <2> QED BY <2>1, IdsKept
<1>2. ASSUME NEW g \in Gen, [id |-> uid'[r], of |-> r] \in seen[g]
      PROVE  uid'[r] = uid[r]
  BY <1>2 DEF Piped, Belongs
<1> QED BY <1>1, <1>2 DEF HasHeard

(* A step of the bridge opens, hears, answers or ends one exchange, or is  *)
(* none of the promise's business.                                         *)
LEMMA PromiseStep ==
  ASSUME IInv, NoCalls, [Next]_vars
  PROVE  [Promise!Next]_(Promise!xvars)
<1> DEFINE phase == [r \in Request |-> Phase(r)]
           heard == {r \in Request : HasHeard(r)}
           Goal  == [Promise!Next]_(Promise!xvars)
<1>0. /\ pc \in [Actor -> Places]
      /\ outcome \in [Actor -> {"none", "answered", "cancelled", "ended"}]
      /\ Request \subseteq Actor
  BY DEF IInv, Typed, TypeOK, Actor
<1>a. ASSUME phase' = phase, heard' = heard PROVE Goal
  BY <1>a DEF Promise!xvars
<1>b. ASSUME pc' = pc, outcome' = outcome, seen' = seen PROVE Goal
  <2>1. phase' = phase
    BY <1>b DEF Phase
  <2> QED BY <1>a, <1>b, <2>1, SameHeard DEF IInv
<1>c. ASSUME NEW a \in Actor, NEW p, p \notin {"idle", "done"}, pc[a] # "done",
             pc' = [pc EXCEPT ![a] = p], outcome' = outcome, seen' = seen
      PROVE  Goal
  <2>1. heard' = heard
    BY <1>c, SameHeard DEF IInv
  <2>2. CASE a \in Request /\ pc[a] = "idle"
    <3>1. phase[a] = "idle" /\ phase' = [phase EXCEPT ![a] = "open"]
      BY <1>0, <1>c, <2>2 DEF Phase
    <3> QED BY <2>1, <2>2, <3>1 DEF Promise!Next, Promise!Open
  <2>3. CASE ~(a \in Request /\ pc[a] = "idle")
    <3>1. phase' = phase
      BY <1>0, <1>c, <2>3 DEF Phase
    <3> QED BY <1>a, <2>1, <3>1
  <2> QED BY <2>2, <2>3
<1>d. ASSUME NEW a \in Actor, NEW how \in {"ended", "cancelled"}, Finish(a, how),
             pc[a] # "done", seen' = seen
      PROVE  Goal
  <2>1. heard' = heard
    BY <1>d, SameHeard DEF IInv
  <2>2. CASE a \in Request
    <3>1. phase' = [phase EXCEPT ![a] = "ended"] /\ phase[a] \in {"idle", "open"}
      BY <1>0, <1>d, <2>2 DEF Phase, Finish
    <3> QED BY <2>1, <2>2, <3>1 DEF Promise!Next, Promise!Refuse, Promise!End
  <2>3. CASE a \notin Request
    <3>1. phase' = phase
      BY <1>0, <1>d, <2>3 DEF Phase, Finish
    <3> QED BY <1>a, <2>1, <3>1
  <2> QED BY <2>2, <2>3
<1>1. ASSUME NEW a \in Actor, Handler(a) PROVE Goal
  <2>0. seen' = seen
    BY <1>1 DEF Handler, EnsureAlive, EnsureSpawn, EnsureFails, NotAvailable,
                Write, WriteFails, outputVars
  <2>1. CASE EnsureAlive(a) \/ EnsureSpawn(a)
    BY <1>c, <2>0, <2>1 DEF EnsureAlive, EnsureSpawn, Arrives
  <2>2. CASE EnsureFails(a) \/ NotAvailable(a) \/ WriteFails(a)
    BY <1>d, <2>0, <2>2 DEF EnsureFails, NotAvailable, WriteFails, Arrives
  <2>3. CASE Write(a)
    BY <1>c, <1>d, <2>0, <2>3 DEF Write
  <2> QED BY <1>1, <2>1, <2>2, <2>3 DEF Handler
<1>2. ASSUME NEW a \in Actor, Leave(a) PROVE Goal
  BY <1>2, <1>d DEF Leave, Disconnect, DisconnectWriting, outputVars
<1>3. ASSUME NEW r \in Request, ReceiveAnswer(r) PROVE Goal
  <2> DEFINE m == Head(chan[r])
  <2>0. /\ seen' = seen /\ Finish(r, "answered")
        /\ chan[r] # << >> /\ chan[r] \in Seq(Message)
        /\ pc[r] \in {"waiting", "streaming"}
    BY <1>3 DEF ReceiveAnswer, Awaits, outputVars, IInv, Typed, TypeOK
  <2>1. m \in Message /\ m = chan[r][1] /\ 1 \in 1 .. Len(chan[r])
    BY <2>0, TailElements, HeadTailProperties, LenProperties
  <2>2. m.kind \in {"resp", "note"}
    BY <2>1 DEF NoCalls, Message
  <2>3. [id |-> uid[r], of |-> r] \in seen[gen[r]]
    BY <2>1, <2>2 DEF IInv, Routed, OwnMessagesOnly, OwnMessage
  <2>4. gen[r] \in Gen
    BY <1>0, <2>0 DEF IInv, Typed, Stages, InTable
  <2>5. r \in heard
    BY <2>3, <2>4 DEF HasHeard
  <2>6. phase[r] = "open" /\ phase' = [phase EXCEPT ![r] = "answered"]
    BY <1>0, <2>0 DEF Phase, Finish
  <2>7. heard' = heard
    BY <2>0, SameHeard DEF IInv
  <2> QED BY <2>5, <2>6, <2>7 DEF Promise!Next, Promise!Answer
<1>4. ASSUME NEW r \in Request, Requester(r) \/ DisconnectStream(r),
             ~ReceiveAnswer(r)
      PROVE  Goal
  <2>0. seen' = seen
    BY <1>4 DEF Requester, DisconnectStream, Number, Register, ReceiveNote,
                Closed, StreamOpens, Timeout, CancelLock, CancelWrite,
                outputVars
  <2>1. CASE Number(r) \/ Register(r) \/ StreamOpens(r) \/ DisconnectStream(r)
    BY <1>0, <1>c, <2>0, <2>1
    DEF Number, Register, StreamOpens, DisconnectStream, Awaits
  <2>2. CASE ReceiveNote(r)
    <3>1. pc' = [pc EXCEPT ![r] = IF r \in Stream THEN "streaming" ELSE pc[r]]
          /\ outcome' = outcome /\ pc[r] \in {"waiting", "streaming"}
      BY <2>2 DEF ReceiveNote, Awaits
    <3>2. (IF r \in Stream THEN "streaming" ELSE pc[r]) \notin {"idle", "done"}
      BY <3>1
    <3> QED BY <1>0, <1>c, <2>0, <3>1, <3>2
  <2>3. CASE Closed(r)
    BY <1>0, <1>c, <1>d, <2>0, <2>3 DEF Closed, ChannelClosed, Awaits
  <2>4. CASE Timeout(r) \/ CancelWrite(r)
    BY <1>0, <1>d, <2>0, <2>4 DEF Timeout, Overdue, CancelWrite
  <2>5. CASE CancelLock(r)
    BY <1>0, <1>c, <1>d, <2>0, <2>5 DEF CancelLock
  <2> QED BY <1>4, <2>1, <2>2, <2>3, <2>4, <2>5 DEF Requester
<1>5. ASSUME NEW c \in Canceller, TakeCancel(c) PROVE Goal
  BY <1>5, <1>c DEF TakeCancel, outputVars, Actor
<1>6. ASSUME NEW g \in Gen, ChildRead(g) PROVE Goal
  <2> DEFINE m == Head(stdin[g])
  <2>0. pc' = pc /\ outcome' = outcome /\ uid' = uid
    BY <1>6 DEF ChildRead, exchangeVars
  <2>1. phase' = phase
    BY <2>0 DEF Phase
  <2>2. CASE seen' = seen
    BY <1>b, <2>0, <2>2
  <2>3. CASE /\ m.kind = "call"
             /\ seen' = [seen EXCEPT ![g] = @ \cup {[id |-> m.id, of |-> m.of]}]
    <3>1. stdin[g] # << >> /\ stdin[g] \in Seq(Inbound) /\ seen \in [Gen -> SUBSET Heard]
      BY <1>6 DEF ChildRead, IInv, Typed, TypeOK
    <3>2. m = stdin[g][1] /\ 1 \in 1 .. Len(stdin[g])
      BY <3>1, TailElements, LenProperties
    <3>3. m.of \in Request /\ uid[m.of] = m.id /\ gen[m.of] = g
      BY <2>3, <3>2 DEF IInv, Piped, Belongs
    <3>4. heard' = heard \cup {m.of}
      BY <2>0, <2>3, <3>1, <3>3 DEF HasHeard
    <3>5. pc[m.of] # "idle"
      BY <1>0, <3>3 DEF IInv, Typed, Stages, Gen
    <3>6. phase[m.of] # "idle"
      BY <3>3, <3>5 DEF Phase
    <3> QED BY <2>1, <3>3, <3>4, <3>6 DEF Promise!Next, Promise!Hear
  <2> QED BY <1>6, <2>2, <2>3 DEF ChildRead
<1>7. ASSUME NEW g \in Gen, Reader(g) \/ Child(g), ~ChildRead(g) PROVE Goal
  <2>1. seen' = seen
    BY <1>7 DEF Reader, ReaderAnswer, ReaderNote, ReaderStops, Child, ChildSay,
                ChildCall, ChildCloses, ChildExit, PrintLine
  <2> QED BY <1>7, <1>b, <2>1, EnvironmentFrame
<1>8. CASE DropUpstream \/ UNCHANGED vars
  BY <1>8, <1>b DEF DropUpstream, vars, exchangeVars, outputVars
<1> QED
  BY <1>1, <1>2, <1>3, <1>4, <1>5, <1>6, <1>7, <1>8 DEF Next, Finished

(* Seen from its clients, the bridge is a RequestExchange: every request is *)
(* opened and closed once, and answered only by a process that read it.    *)
THEOREM Refinement ==
  ASSUME ~ServerCalls
  PROVE  Spec => KeepsPromise
<1>1. Init => Promise!Init
  BY ActorAssumption DEF Init, Promise!Init, Phase, HasHeard, Actor
<1>2. Init => NoCalls
  <2>1. Init => /\ \A g \in Gen : Len(stdout[g]) = 0
                /\ \A r \in Request : Len(chan[r]) = 0
    BY EmptySeq DEF Init
  <2> QED BY <2>1 DEF NoCalls
<1>3. IInv /\ NoCalls /\ [Next]_vars => NoCalls'
  BY NoCallsStep DEF IInv
<1>4. IInv /\ NoCalls /\ [Next]_vars => [Promise!Next]_(Promise!xvars)
  BY PromiseStep
<1> QED
  BY <1>1, <1>2, <1>3, <1>4, Inductive, PTL
  DEF Spec, KeepsPromise, Promise!Spec

-----------------------------------------------------------------------------
(* Cancellations: the id a canceller got from the table was, and stays,    *)
(* the id of a request with the client id it names; else it is that id.    *)

Named(c) ==
  gen[c] # 0 =>
    \/ \E s \in Request : /\ gen[s] \in Gen /\ uid[s] = uid[c] /\ uid[c] # NoId
                          /\ Src[s] = Src[Target[c]]
    \/ uid[c] = Src[Target[c]]

(* A canceller gets its id and its process in TakeCancel. *)
LEMMA CancellerKept ==
  ASSUME Typed, [Next]_vars, NEW c \in Canceller, ~TakeCancel(c)
  PROVE  uid'[c] = uid[c] /\ gen'[c] = gen[c]
<1> DEFINE Same == uid'[c] = uid[c] /\ gen'[c] = gen[c]
<1>0. /\ c \in Actor /\ c \notin Request
      /\ uid \in [Actor -> Nat] /\ gen \in [Actor -> 0 .. MaxSpawn]
  BY ActorAssumption DEF Typed, TypeOK, Actor
<1>1. ASSUME NEW a \in Actor, Handler(a) PROVE Same
  BY <1>1 DEF Handler, EnsureAlive, EnsureSpawn, EnsureFails, NotAvailable,
              Write, WriteFails
<1>2. ASSUME NEW a \in Actor, Leave(a) PROVE Same
  BY <1>2 DEF Leave, Disconnect, DisconnectWriting
<1>3. ASSUME NEW r \in Request, Number(r) \/ Register(r) PROVE Same
  <2>1. c # r
    BY <1>0
  <2> QED BY <1>0, <1>3, <2>1 DEF Number, Register
<1>4. ASSUME NEW r \in Request, Requester(r) \/ DisconnectStream(r),
             ~Number(r), ~Register(r)
      PROVE  Same
  BY <1>4 DEF Requester, ReceiveAnswer, ReceiveNote, Closed, StreamOpens,
              Timeout, CancelLock, CancelWrite, DisconnectStream
<1>5. ASSUME NEW d \in Canceller, TakeCancel(d) PROVE Same
  <2>1. c # d
    BY <1>5
  <2> QED BY <1>0, <1>5, <2>1 DEF TakeCancel
<1>6. ASSUME NEW g \in Gen, Reader(g) \/ Child(g) PROVE Same
  BY <1>6, EnvironmentFrame
<1>7. CASE DropUpstream \/ UNCHANGED vars
  BY <1>7 DEF DropUpstream, vars, exchangeVars
<1> QED
  BY <1>1, <1>2, <1>3, <1>4, <1>5, <1>6, <1>7 DEF Next, Finished

LEMMA NamedStep ==
  ASSUME IInv, [Next]_vars, NEW c \in Canceller, Named(c)
  PROVE  Named(c)'
<1>0. /\ Request \subseteq Actor /\ c \in Actor
      /\ proc \in 0 .. MaxSpawn /\ MaxSpawn \in Nat
      /\ uid \in [Actor -> Nat] /\ gen \in [Actor -> 0 .. MaxSpawn]
  BY BoundAssumption DEF IInv, Typed, TypeOK, Actor
<1>1. \A s \in Request : gen[s] \in Gen => uid'[s] = uid[s] /\ gen'[s] = gen[s]
  BY <1>0, IdsKept DEF IInv
<1>2. CASE ~TakeCancel(c)
  <2>1. uid'[c] = uid[c] /\ gen'[c] = gen[c]
    BY <1>2, CancellerKept DEF IInv
  <2> QED BY <1>1, <2>1 DEF Named
<1>3. CASE TakeCancel(c)
  <2>1. proc \in Gen
    BY <1>0, <1>3 DEF TakeCancel, Gen
  <2>2. CASE \E u \in NamedBy(c) : uid' = [uid EXCEPT ![c] = u]
    <3>1. PICK u \in NamedBy(c) : uid' = [uid EXCEPT ![c] = u]
      BY <2>2
    <3>2. PICK s \in Request : pending[proc][u] = s /\ Src[s] = Src[Target[c]]
      BY <2>1 DEF NamedBy, IInv, Typed, TypeOK
    <3>3. uid[s] = u /\ gen[s] = proc
      BY <2>1, <3>2 DEF IInv, Filed, NamedBy
    <3>4. uid'[c] = u /\ u # NoId
      BY <1>0, <3>1 DEF NamedBy, Id, NoId
    <3> QED BY <1>1, <2>1, <3>2, <3>3, <3>4 DEF Named
  <2>3. CASE uid' = [uid EXCEPT ![c] = Src[Target[c]]]
    BY <1>0, <2>3 DEF Named
  <2> QED BY <1>3, <2>2, <2>3 DEF TakeCancel
<1> QED BY <1>2, <1>3

(* What a client's cancellation names to the child is a request with the   *)
(* client id it named, or that id itself, whatever ids the clients choose  *)
(* and however the requests, guards and processes come and go.             *)
THEOREM CancelsTheNamed == Spec => []CancelsNamed
<1> DEFINE All == \A c \in Canceller : Named(c)
<1>1. Init => All
  BY DEF Init, Named, Actor
<1>2. IInv /\ All /\ [Next]_vars => All'
  BY NamedStep
<1>3. ASSUME IInv, All PROVE CancelsNamed
  <2> SUFFICES ASSUME NEW c \in Canceller, NEW r \in Request, gen[c] # 0,
                      gen[r] = gen[c], uid[c] = uid[r], uid[c] # Src[Target[c]]
               PROVE  Src[r] = Src[Target[c]]
    BY DEF CancelsNamed
  <2>1. PICK s \in Request : uid[s] = uid[c] /\ uid[c] # NoId /\ Src[s] = Src[Target[c]]
    BY <1>3 DEF Named
  <2>2. s = r
    BY <1>3, <2>1 DEF IInv, Distinct
  <2> QED BY <2>1, <2>2
<1> HIDE DEF All
<1> QED BY <1>1, <1>2, <1>3, Inductive, PTL DEF Spec
-----------------------------------------------------------------------------
(* The lines: what a running child has not read of them is in its pipe, a  *)
(* torn one excepted, and there only is one if somebody tore it.           *)

Unsent == \A r \in Request : pc[r] = "writing" => ~Sent(r)
TornBy == \A g \in Gen : torn[g] => \E a \in Actor : Tore(a, g)

Lines == Unsent /\ TornBy /\ WaitersWereSent

(* An exchange that is over stays as it is. *)
LEMMA OverStays ==
  ASSUME Typed, [Next]_vars, NEW b \in Actor, pc[b] = "done"
  PROVE  /\ pc'[b] = "done" /\ outcome'[b] = outcome[b]
         /\ uid'[b] = uid[b] /\ gen'[b] = gen[b]
<1> DEFINE Same == /\ pc'[b] = "done" /\ outcome'[b] = outcome[b]
                   /\ uid'[b] = uid[b] /\ gen'[b] = gen[b]
<1>0. /\ pc \in [Actor -> Places] /\ Actor = Request \cup Canceller
      /\ outcome \in [Actor -> {"none", "answered", "cancelled", "ended"}]
      /\ uid \in [Actor -> Nat] /\ gen \in [Actor -> 0 .. MaxSpawn]
  BY DEF Typed, TypeOK, Actor
<1>a. ASSUME UNCHANGED <<pc, outcome, uid, gen>> PROVE Same
  BY <1>a
<1>b. ASSUME NEW a \in Actor, a # b, NEW place, pc' = [pc EXCEPT ![a] = place],
             outcome' = outcome, UNCHANGED <<uid, gen>>
      PROVE  Same
  BY <1>0, <1>b
<1>c. ASSUME NEW a \in Actor, a # b, NEW how, Finish(a, how), UNCHANGED <<uid, gen>>
      PROVE  Same
  BY <1>0, <1>c DEF Finish
<1>1. ASSUME NEW a \in Actor, Handler(a) PROVE Same
  <2>1. CASE EnsureAlive(a) \/ EnsureSpawn(a)
    BY <1>b, <2>1 DEF EnsureAlive, EnsureSpawn, Arrives
  <2>2. CASE EnsureFails(a) \/ NotAvailable(a) \/ WriteFails(a)
    BY <1>c, <2>2 DEF EnsureFails, NotAvailable, WriteFails, Arrives
  <2>3. CASE Write(a)
    <3>1. a # b /\ UNCHANGED <<uid, gen>>
      BY <2>3 DEF Write
    <3> QED BY <1>b, <1>c, <2>3, <3>1 DEF Write
  <2> QED BY <1>1, <2>1, <2>2, <2>3 DEF Handler
<1>2. ASSUME NEW a \in Actor, Leave(a) PROVE Same
  BY <1>c, <1>2 DEF Leave, Disconnect, DisconnectWriting
<1>3. ASSUME NEW r \in Request, Requester(r) \/ DisconnectStream(r) PROVE Same
  <2>0. r \in Actor
    BY <1>0
  <2>1. CASE Timeout(r) \/ ReceiveAnswer(r)
    BY <1>c, <2>0, <2>1 DEF Timeout, Overdue, ReceiveAnswer, Awaits
  <2>2. CASE Closed(r)
    <3>1. r # b /\ UNCHANGED <<uid, gen>>
      BY <2>2 DEF Closed, ChannelClosed, Awaits
    <3> QED BY <1>b, <1>c, <2>0, <2>2, <3>1 DEF Closed
  <2>3. CASE CancelLock(r)
    <3>1. r # b /\ UNCHANGED <<uid, gen>>
      BY <2>3 DEF CancelLock
    <3> QED BY <1>b, <1>c, <2>0, <2>3, <3>1 DEF CancelLock
  <2>4. CASE CancelWrite(r)
    BY <1>c, <2>0, <2>4 DEF CancelWrite
  <2>5. CASE Number(r) \/ Register(r)
    BY <1>0, <2>0, <2>5 DEF Number, Register
  <2>6. CASE ReceiveNote(r) \/ StreamOpens(r) \/ DisconnectStream(r)
    BY <1>0, <2>0, <2>6 DEF ReceiveNote, StreamOpens, DisconnectStream, Awaits
  <2> QED BY <1>3, <2>1, <2>2, <2>3, <2>4, <2>5, <2>6 DEF Requester
<1>4. ASSUME NEW c \in Canceller, TakeCancel(c) PROVE Same
  BY <1>0, <1>4 DEF TakeCancel
<1>5. ASSUME NEW g \in Gen, Reader(g) \/ Child(g) PROVE Same
  BY <1>5, <1>a, EnvironmentFrame
<1>6. CASE DropUpstream \/ UNCHANGED vars
  BY <1>6, <1>a DEF DropUpstream, vars, exchangeVars
<1> QED
  BY <1>1, <1>2, <1>3, <1>4, <1>5, <1>6 DEF Next, Finished

(* A request on the pipe of a child that goes on running stays there, or   *)
(* the child reads it.                                                     *)
LEMMA LineGoesOn ==
  ASSUME Typed, [Next]_vars, NEW h \in Gen, child'[h] = "running",
         NEW i \in 1 .. Len(stdin[h]), stdin[h][i].kind = "call"
  PROVE  \/ \E j \in 1 .. Len(stdin'[h]) : stdin'[h][j] = stdin[h][i]
         \/ [id |-> stdin[h][i].id, of |-> stdin[h][i].of] \in seen'[h]
<1> DEFINE Known == \/ \E j \in 1 .. Len(stdin'[h]) : stdin'[h][j] = stdin[h][i]
                    \/ [id |-> stdin[h][i].id, of |-> stdin[h][i].of] \in seen'[h]
<1>0. /\ stdin \in [Gen -> Seq(Inbound)] /\ seen \in [Gen -> SUBSET Heard]
      /\ child \in [Gen -> {"none", "running", "deaf", "exited"}]
      /\ \A a \in Actor : pc[a] \in Writing => Line(a) \in Inbound
  BY LineType DEF Typed, TypeOK, Writing
<1>a. ASSUME stdin'[h] = stdin[h] PROVE Known
  BY <1>a
<1>c. ASSUME NEW a \in Actor, pc[a] \in Writing, Put(proc, Line(a))
      PROVE  Known
  <2>1. CASE h # proc
    <3>1. stdin'[h] = stdin[h]
      BY <1>0, <1>c, <2>1 DEF Put
    <3> QED BY <1>a, <3>1
  <2>2. CASE h = proc
    <3> DEFINE line == IF torn[proc] THEN Garbage ELSE Line(a)
    <3>1. line \in Inbound
      BY <1>0, <1>c DEF Garbage, Inbound, NoId
    <3>2. stdin'[h] = Append(stdin[h], line)
      BY <1>0, <1>c, <2>2 DEF Put
    <3>3. stdin[h] \in Seq(Inbound)
      BY <1>0
    <3> HIDE DEF line
    <3>4. i \in 1 .. Len(stdin'[h]) /\ stdin'[h][i] = stdin[h][i]
      BY <3>1, <3>2, <3>3, LenProperties, AppendProperties
    <3> QED BY <3>4
  <2> QED BY <2>1, <2>2
<1>1. ASSUME NEW a \in Actor, Handler(a) \/ Leave(a) PROVE Known
  <2>1. CASE pc[a] = "writing" /\ Put(proc, Line(a))
    BY <1>c, <2>1 DEF Writing
  <2>2. CASE stdin' = stdin
    BY <1>a, <2>2
  <2> QED
    BY <1>1, <2>1, <2>2
    DEF Handler, EnsureAlive, EnsureSpawn, EnsureFails, NotAvailable, Write,
        WriteFails, Leave, Disconnect, DisconnectWriting, inputVars
<1>2. ASSUME NEW r \in Request, Requester(r) \/ DisconnectStream(r) PROVE Known
  <2>1. CASE CancelWrite(r) /\ Put(proc, Line(r))
    BY <1>c, <2>1 DEF CancelWrite, Actor, Writing
  <2>2. CASE stdin' = stdin
    BY <1>a, <2>2
  <2> QED
    BY <1>2, <2>1, <2>2
    DEF Requester, DisconnectStream, Number, Register, ReceiveAnswer,
        ReceiveNote, Closed, StreamOpens, Timeout, CancelLock, CancelWrite,
        inputVars
<1>3. ASSUME NEW c \in Canceller, TakeCancel(c) PROVE Known
  BY <1>a, <1>3 DEF TakeCancel, inputVars
<1>4. ASSUME NEW g \in Gen, Reader(g) PROVE Known
  <2>1. stdin' = stdin
    BY <1>4 DEF Reader, ReaderAnswer, ReaderNote, ReaderStops, inputVars
  <2> QED BY <1>a, <2>1
<1>5. ASSUME NEW g \in Gen, ChildRead(g) PROVE Known
  <2>1. CASE h # g
    BY <1>0, <1>a, <1>5, <2>1 DEF ChildRead
  <2>2. CASE h = g
    <3>1. /\ stdin[h] # << >> /\ stdin'[h] = Tail(stdin[h])
          /\ Head(stdin[h]).kind = "call" =>
               [id |-> Head(stdin[h]).id, of |-> Head(stdin[h]).of] \in seen'[h]
      BY <1>0, <1>5, <2>2 DEF ChildRead
    <3>2. stdin[h] \in Seq(Inbound)
      BY <1>0
    <3>3. Head(stdin[h]) = stdin[h][1] /\ Len(stdin[h]) \in Nat
      BY <3>1, <3>2, TailElements, LenProperties
    <3>4. CASE i = 1
      BY <3>1, <3>3, <3>4
    <3>5. CASE i # 1
      <4>1. i - 1 \in 1 .. Len(Tail(stdin[h])) /\ Tail(stdin[h])[i - 1] = stdin[h][i - 1 + 1]
        BY <3>1, <3>2, <3>3, <3>5, TailElements
      <4>2. i - 1 + 1 = i
        BY <3>3
      <4> QED BY <3>1, <4>1, <4>2
    <3> QED BY <3>4, <3>5
  <2> QED BY <2>1, <2>2
<1>6. ASSUME NEW g \in Gen, Child(g), ~ChildRead(g) PROVE Known
  <2>1. stdin'[h] = stdin[h]
    BY <1>0, <1>6 DEF Child, ChildSay, ChildCall, ChildCloses, ChildExit,
                      PrintLine, inputVars
  <2> QED BY <1>a, <2>1
<1>7. CASE DropUpstream
  <2>1. stdin'[h] = stdin[h]
    BY <1>0, <1>7 DEF DropUpstream
  <2> QED BY <1>a, <2>1
<1>8. CASE UNCHANGED vars
  BY <1>a, <1>8 DEF vars, inputVars
<1> QED
  BY <1>1, <1>2, <1>3, <1>4, <1>5, <1>6, <1>7, <1>8 DEF Next, Finished

(* Nothing starts a process anew that somebody has registered with. *)
LEMMA RanBefore ==
  ASSUME Typed, Counted, [Next]_vars, NEW b \in Actor, gen[b] \in Gen,
         child'[gen[b]] = "running"
  PROVE  child[gen[b]] = "running"
<1> DEFINE h == gen[b]
           Ran == child[h] = "running"
<1>0. /\ child \in [Gen -> {"none", "running", "deaf", "exited"}]
      /\ h \in Gen /\ h # spawned + 1
  BY DEF Typed, TypeOK, Counted, Gen
<1>a. ASSUME child' = child PROVE Ran
  BY <1>a
<1>1. ASSUME NEW a \in Actor, Handler(a) PROVE Ran
  <2>1. CASE EnsureSpawn(a)
    BY <1>0, <2>1 DEF EnsureSpawn
  <2>2. CASE ~EnsureSpawn(a)
    <3>1. child' = child
      BY <1>1, <2>2 DEF Handler, EnsureAlive, EnsureFails, NotAvailable, Write,
                        WriteFails, outputVars
    <3> QED BY <1>a, <3>1
  <2> QED BY <2>1, <2>2
<1>2. ASSUME NEW a \in Actor, Leave(a) PROVE Ran
  BY <1>2 DEF Leave, Disconnect, DisconnectWriting, outputVars
<1>3. ASSUME NEW r \in Request, Requester(r) \/ DisconnectStream(r) PROVE Ran
  <2>1. child' = child
    BY <1>3 DEF Requester, DisconnectStream, Number, Register, ReceiveAnswer,
                ReceiveNote, Closed, StreamOpens, Timeout, CancelLock,
                CancelWrite, outputVars
  <2> QED BY <1>a, <2>1
<1>4. ASSUME NEW c \in Canceller, TakeCancel(c) PROVE Ran
  BY <1>4 DEF TakeCancel, outputVars
<1>5. ASSUME NEW g \in Gen, ChildCloses(g) \/ ChildExit(g) PROVE Ran
  BY <1>0, <1>5 DEF ChildCloses, ChildExit
<1>6. ASSUME NEW g \in Gen, Reader(g) \/ Child(g), ~ChildCloses(g), ~ChildExit(g)
      PROVE  Ran
  <2>1. child' = child
    BY <1>6 DEF Reader, ReaderAnswer, ReaderNote, ReaderStops, Child, ChildRead,
                ChildSay, ChildCall, PrintLine
  <2> QED BY <1>a, <2>1
<1>7. CASE DropUpstream
  BY <1>0, <1>7 DEF DropUpstream
<1>8. CASE UNCHANGED vars
  BY <1>8 DEF vars, outputVars
<1> QED
  BY <1>1, <1>2, <1>3, <1>4, <1>5, <1>6, <1>7, <1>8 DEF Next, Finished

(* What a line of a request is made of. *)
LEMMA CallLine ==
  ASSUME NEW e \in Inbound, e.kind = "call"
  PROVE  e = [kind |-> "call", id |-> e.id, of |-> e.of]
BY DEF Inbound

(* A request a running child was sent stays sent. *)
LEMMA SentKept ==
  ASSUME Typed, [Next]_vars, NEW r \in Request, gen[r] \in Gen,
         child'[gen[r]] = "running", Sent(r)
  PROVE  Sent(r)'
<1> DEFINE h == gen[r]
           e == [kind |-> "call", id |-> uid[r], of |-> r]
           x == [id |-> uid[r], of |-> r]
<1>0. stdin \in [Gen -> Seq(Inbound)] /\ uid'[r] = uid[r] /\ gen'[r] = h /\ h \in Gen
  BY IdsKept DEF Typed, TypeOK
<1>1. CASE x \in seen[h]
  <2>1. x \in seen'[h]
    BY <1>0, <1>1, NewlyRead
  <2> QED BY <1>0, <2>1 DEF Sent
<1>2. CASE \E i \in 1 .. Len(stdin[h]) : stdin[h][i] = e
  <2>1. PICK i \in 1 .. Len(stdin[h]) : stdin[h][i] = e
    BY <1>2
  <2>2. e.kind = "call" /\ e.id = uid[r] /\ e.of = r
    OBVIOUS
  <2>3. \/ \E j \in 1 .. Len(stdin'[h]) : stdin'[h][j] = stdin[h][i]
        \/ [id |-> stdin[h][i].id, of |-> stdin[h][i].of] \in seen'[h]
    BY <1>0, <2>1, <2>2, LineGoesOn
  <2>4. \/ \E j \in 1 .. Len(stdin'[h]) : stdin'[h][j] = e
        \/ x \in seen'[h]
    BY <2>1, <2>2, <2>3
  <2> QED BY <1>0, <2>4 DEF Sent
<1> QED BY <1>1, <1>2 DEF Sent

(* A request is sent by the end of its own writing. *)
LEMMA SentBy ==
  ASSUME Typed, Piped, [Next]_vars, NEW r \in Request, gen'[r] \in Gen, Sent(r)'
  PROVE  \/ Sent(r) /\ gen[r] = gen'[r]
         \/ pc[r] = "writing" /\ pc'[r] \notin Writing
<1> DEFINE h == gen'[r]
           e == [kind |-> "call", id |-> uid'[r], of |-> r]
           x == [id |-> uid'[r], of |-> r]
           Known == \/ Sent(r) /\ gen[r] = h
                    \/ pc[r] = "writing" /\ pc'[r] \notin Writing
<1>0. /\ stdin \in [Gen -> Seq(Inbound)] /\ h \in Gen
      /\ x.id = uid'[r] /\ x.of = r
      /\ e.kind = "call" /\ e.id = uid'[r] /\ e.of = r
  BY DEF Typed, TypeOK
<1>1. ASSUME x \in seen[h] PROVE Known
  <2>1. uid[r] = uid'[r] /\ gen[r] = h
    BY <1>0, <1>1 DEF Piped, Belongs
  <2> QED BY <1>1, <2>1 DEF Sent
<1>2. ASSUME NEW j \in 1 .. Len(stdin[h]), stdin[h][j] = e PROVE Known
  <2>1. Belongs(h, stdin[h][j].id, stdin[h][j].of)
    BY <1>0, <1>2 DEF Piped
  <2>2. uid[r] = uid'[r] /\ gen[r] = h
    BY <1>0, <1>2, <2>1 DEF Belongs
  <2>3. stdin[gen[r]][j] = [kind |-> "call", id |-> uid[r], of |-> r]
    BY <1>2, <2>2
  <2> QED BY <2>2, <2>3 DEF Sent
<1>3. CASE x \in seen'[h]
  <2>1. \/ x \in seen[h]
        \/ \E j \in 1 .. Len(stdin[h]) :
             /\ stdin[h][j].kind = "call"
             /\ x.id = stdin[h][j].id /\ x.of = stdin[h][j].of
    BY <1>0, <1>3, NewlyRead
  <2>2. CASE \E j \in 1 .. Len(stdin[h]) :
               /\ stdin[h][j].kind = "call"
               /\ x.id = stdin[h][j].id /\ x.of = stdin[h][j].of
    <3>1. PICK j \in 1 .. Len(stdin[h]) :
            /\ stdin[h][j].kind = "call"
            /\ x.id = stdin[h][j].id /\ x.of = stdin[h][j].of
      BY <2>2
    <3>2. stdin[h][j] \in Inbound
      BY <1>0
    <3>3. stdin[h][j].id = uid'[r] /\ stdin[h][j].of = r
      BY <1>0, <3>1
    <3>4. stdin[h][j] =
            [kind |-> "call", id |-> stdin[h][j].id, of |-> stdin[h][j].of]
      BY <3>1, <3>2, CallLine, Zenon
    <3>5. stdin[h][j] = e
      BY <3>3, <3>4
    <3> QED BY <1>2, <3>5
  <2> QED BY <1>1, <2>1, <2>2
<1>4. CASE \E i \in 1 .. Len(stdin'[h]) : stdin'[h][i] = e
  <2>1. PICK i \in 1 .. Len(stdin'[h]) : stdin'[h][i] = e
    BY <1>4
  <2>2. \/ \E j \in 1 .. Len(stdin[h]) : stdin'[h][i] = stdin[h][j]
        \/ stdin'[h][i] = Garbage
        \/ Written(h, stdin'[h][i])
    BY <1>0, NewLines
  <2>3. CASE \E j \in 1 .. Len(stdin[h]) : stdin'[h][i] = stdin[h][j]
    BY <1>2, <2>1, <2>3
  <2>4. e # Garbage
    <3>1. Garbage.kind = "garbage"
      BY DEF Garbage
    <3> QED BY <1>0, <3>1
  <2>5. CASE Written(h, e)
    <3>1. PICK a \in Actor : pc[a] \in Writing /\ pc'[a] \notin Writing /\ e = Line(a)
      BY <2>5 DEF Written
    <3>2. Line(a).kind = "call"
      BY <1>0, <3>1
    <3>3. a \in Request /\ pc[a] = "writing"
      BY <3>2 DEF Line
    <3>4. Line(a).of = a
      BY <3>3 DEF Line
    <3> QED BY <1>0, <3>1, <3>3, <3>4
  <2> QED BY <2>1, <2>2, <2>3, <2>4, <2>5
<1> QED BY <1>3, <1>4 DEF Sent

(* Who spoiled a pipe will have spoiled it. *)
LEMMA ToreKept ==
  ASSUME Typed, Piped, [Next]_vars, NEW a \in Actor, NEW g \in Gen, Tore(a, g)
  PROVE  Tore(a, g)'
<1>1. /\ pc'[a] = "done" /\ outcome'[a] = "ended" /\ gen'[a] = g /\ a \in Large
      /\ pc[a] = "done"
  BY OverStays DEF Tore
<1>2. ASSUME a \in Request, Sent(a)' PROVE FALSE
  <2>1. Sent(a)
    BY <1>1, <1>2, SentBy
  <2> QED BY <1>2, <2>1 DEF Tore
<1> QED BY <1>1, <1>2 DEF Tore

(* A request begins to write when it gets its process. *)
LEMMA BeginsToWrite ==
  ASSUME Typed, [Next]_vars, NEW q \in Request, pc'[q] = "writing"
  PROVE  pc[q] \in {"writing", "numbered"}
<1> DEFINE Known == pc[q] \in {"writing", "numbered"}
<1>0. pc \in [Actor -> Places]
  BY DEF Typed, TypeOK
<1> USE <1>0, ActorAssumption DEF Actor
<1>1. ASSUME NEW a \in Actor, Handler(a) PROVE Known
  BY <1>1 DEF Handler, EnsureAlive, EnsureSpawn, EnsureFails, NotAvailable,
              Write, WriteFails, Finish
<1>2. ASSUME NEW a \in Actor, Leave(a) PROVE Known
  BY <1>2 DEF Leave, Disconnect, DisconnectWriting, Finish
<1>3. ASSUME NEW r \in Request, Requester(r) \/ DisconnectStream(r) PROVE Known
  BY <1>3 DEF Requester, DisconnectStream, Number, Register, ReceiveAnswer,
              ReceiveNote, Closed, StreamOpens, Timeout, CancelLock,
              CancelWrite, Finish
<1>4. ASSUME NEW c \in Canceller, TakeCancel(c) PROVE Known
  BY <1>4 DEF TakeCancel
<1>5. ASSUME NEW g \in Gen, Reader(g) \/ Child(g) PROVE Known
  BY <1>5, EnvironmentFrame
<1>6. CASE DropUpstream \/ UNCHANGED vars
  BY <1>6 DEF DropUpstream, vars, exchangeVars
<1> QED
  BY <1>1, <1>2, <1>3, <1>4, <1>5, <1>6 DEF Next, Finished

(* A line is torn by an actor with a long one that goes away in it. *)
LEMMA Tearing ==
  ASSUME Typed, [Next]_vars, NEW g \in Gen, torn'[g]
  PROVE  \/ torn[g]
         \/ \E a \in Actor : /\ pc[a] = "writing" /\ a \in Large /\ g = proc
                             /\ Finish(a, "ended")
                             /\ UNCHANGED <<stdin, seen, uid, gen>>
<1> DEFINE Known ==
      \/ torn[g]
      \/ \E a \in Actor : /\ pc[a] = "writing" /\ a \in Large /\ g = proc
                          /\ Finish(a, "ended")
                          /\ UNCHANGED <<stdin, seen, uid, gen>>
<1>0. torn \in [Gen -> BOOLEAN]
  BY DEF Typed, TypeOK
<1>a. ASSUME UNCHANGED torn PROVE Known
  BY <1>a
<1>b. ASSUME NEW a \in Actor, Put(proc, Line(a)) PROVE Known
  BY <1>0, <1>b DEF Put
<1>1. ASSUME NEW a \in Actor, Handler(a) PROVE Known
  BY <1>1, <1>a, <1>b DEF Handler, EnsureAlive, EnsureSpawn, EnsureFails,
                          NotAvailable, Write, WriteFails, inputVars
<1>2. ASSUME NEW a \in Actor, Leave(a) PROVE Known
  <2>1. CASE UNCHANGED torn \/ Put(proc, Line(a))
    BY <1>a, <1>b, <2>1
  <2>2. CASE /\ DisconnectWriting(a) /\ Tears(a) /\ UNCHANGED stdin
             /\ torn' = [torn EXCEPT ![proc] = TRUE]
    BY <1>0, <2>2 DEF DisconnectWriting, Tears, outputVars
  <2> QED BY <1>2, <2>1, <2>2 DEF Leave, Disconnect, DisconnectWriting, inputVars
<1>3. ASSUME NEW r \in Request, Requester(r) \/ DisconnectStream(r) PROVE Known
  <2>1. UNCHANGED torn \/ Put(proc, Line(r))
    BY <1>3 DEF Requester, DisconnectStream, Number, Register, ReceiveAnswer,
                ReceiveNote, Closed, StreamOpens, Timeout, CancelLock,
                CancelWrite, inputVars
  <2> QED BY <1>a, <1>b, <2>1 DEF Actor
<1>4. ASSUME NEW c \in Canceller, TakeCancel(c) PROVE Known
  BY <1>a, <1>4 DEF TakeCancel, inputVars
<1>5. ASSUME NEW h \in Gen, Reader(h) PROVE Known
  <2>1. UNCHANGED torn
    BY <1>5 DEF Reader, ReaderAnswer, ReaderNote, ReaderStops, inputVars
  <2> QED BY <1>a, <2>1
<1>6. ASSUME NEW h \in Gen, Child(h) PROVE Known
  <2>1. UNCHANGED torn \/ torn' = [torn EXCEPT ![h] = FALSE]
    BY <1>6 DEF Child, ChildRead, ChildSay, ChildCall, ChildCloses, ChildExit,
                PrintLine, inputVars
  <2> QED BY <1>0, <1>a, <2>1
<1>7. CASE DropUpstream
  BY <1>7 DEF DropUpstream
<1>8. CASE UNCHANGED vars
  BY <1>a, <1>8 DEF vars, inputVars
<1> QED
  BY <1>1, <1>2, <1>3, <1>4, <1>5, <1>6, <1>7, <1>8 DEF Next, Finished

(* The line of a request still writing is nowhere. *)
LEMMA UnsentStep ==
  ASSUME Typed, Typed', Piped, Unsent, [Next]_vars
  PROVE  Unsent'
<1> SUFFICES ASSUME NEW r \in Request, pc'[r] = "writing", Sent(r)'
             PROVE  FALSE
  BY DEF Unsent
<1>1. gen'[r] \in Gen /\ r \in Actor /\ 0 \notin Gen
  BY DEF Typed, Stages, InTable, Actor, Gen
<1>2. Sent(r) /\ gen[r] \in Gen
  BY <1>1, SentBy DEF Writing
<1>3. pc[r] # "writing"
  BY <1>2 DEF Unsent
<1>4. pc[r] = "numbered"
  BY <1>3, BeginsToWrite
<1> QED BY <1>1, <1>2, <1>4 DEF Typed, Stages

(* Every torn line has somebody that tore it. *)
LEMMA TornByStep ==
  ASSUME Typed, Piped, Unsent, TornBy, [Next]_vars
  PROVE  TornBy'
<1> SUFFICES ASSUME NEW g \in Gen, torn'[g]
             PROVE  \E a \in Actor : Tore(a, g)'
  BY DEF TornBy
<1>1. CASE torn[g]
  BY <1>1, ToreKept DEF TornBy
<1>2. CASE ~torn[g]
  <2>1. PICK a \in Actor : /\ pc[a] = "writing" /\ a \in Large /\ g = proc
                           /\ Finish(a, "ended")
                           /\ UNCHANGED <<stdin, seen, uid, gen>>
    BY <1>2, Tearing
  <2>2. gen[a] = g
    BY <2>1 DEF Typed, WriterHoldsCurrent
  <2>3. pc'[a] = "done" /\ outcome'[a] = "ended"
    BY <2>1 DEF Finish, Typed, TypeOK
  <2>4. a \in Request => ~Sent(a)'
    BY <2>1 DEF Sent, Unsent
  <2>5. Tore(a, g)'
    BY <2>1, <2>2, <2>3, <2>4 DEF Tore
  <2> QED BY <2>5
<1> QED BY <1>1, <1>2

(* Whoever begins to wait was sent, or its line was glued to a torn one,   *)
(* and that goes on to be so while the child runs.                         *)
LEMMA WaitersStep ==
  ASSUME Typed, Counted, Piped, Lines, [Next]_vars
  PROVE  WaitersWereSent'
<1> SUFFICES ASSUME NEW r \in Request, Awaits(r)', child'[gen'[r]] = "running"
             PROVE  Sent(r)' \/ \E a \in Actor : Tore(a, gen[r])'
  BY DEF WaitersWereSent
<1>0. r \in Actor /\ Request \subseteq Actor
  BY DEF Actor
<1>1. CASE Awaits(r)
  <2>1. gen[r] \in Gen
    BY <1>0, <1>1 DEF Awaits, Typed, Stages, InTable
  <2>2. gen'[r] = gen[r]
    BY <2>1, IdsKept
  <2>3. child[gen[r]] = "running"
    BY <1>0, <2>1, <2>2, RanBefore
  <2>4. Sent(r) \/ \E a \in Actor : Tore(a, gen[r])
    BY <1>1, <2>3 DEF Lines, WaitersWereSent
  <2>5. CASE \E a \in Actor : Tore(a, gen[r])
    <3>1. PICK h \in Gen : h = gen[r]
      BY <2>1
    <3>2. PICK a \in Actor : Tore(a, h)
      BY <2>5, <3>1
    <3>3. Tore(a, h)'
      BY <3>2, ToreKept
    <3> QED BY <2>2, <3>1, <3>3 DEF Tore
  <2> QED BY <2>1, <2>2, <2>4, <2>5, SentKept
<1>2. CASE Write(r)
  <2>1. /\ proc \in Gen /\ gen[r] = proc /\ pc[r] = "writing"
        /\ gen' = gen /\ uid' = uid
    BY <1>0, <1>2 DEF Write, Typed, TypeOK, WriterHoldsCurrent, Stages, InTable
  <2>2. CASE torn[proc]
    <3>1. PICK h \in Gen : h = proc
      BY <2>1
    <3>2. PICK a \in Actor : Tore(a, h)
      BY <2>2, <3>1 DEF Lines, TornBy
    <3>3. Tore(a, h)' /\ gen'[r] = h
      BY <2>1, <3>1, <3>2, ToreKept
    <3> QED BY <3>3 DEF Tore
  <2>3. CASE ~torn[proc]
    <3> DEFINE line == Line(r)
               n == Len(stdin[proc]) + 1
    <3>1. line \in Inbound /\ stdin[proc] \in Seq(Inbound)
      BY <1>0, <2>1, LineType DEF Typed, TypeOK, Writing
    <3>2. line = [kind |-> "call", id |-> uid[r], of |-> r]
      BY <2>1 DEF Line
    <3>3. stdin'[proc] = Append(stdin[proc], line)
      BY <1>2, <2>1, <2>3 DEF Write, Put, Typed, TypeOK
    <3> HIDE DEF line
    <3>4. n \in 1 .. Len(stdin'[proc]) /\ stdin'[proc][n] = line
      BY <3>1, <3>3, AppendProperties, LenProperties
    <3> HIDE DEF n
    <3>5. Sent(r)'
      BY <2>1, <3>2, <3>4 DEF Sent
    <3> QED BY <3>5
  <2> QED BY <2>2, <2>3
<1> QED BY <1>1, <1>2, BeginsToAwait

(* Who waits for a running child was sent to it, unless a client that went *)
(* away in the middle of a long line spoiled the pipe: for any number of   *)
(* requests, any ids and any lengths of their lines.                       *)
THEOREM WaitersHeard == Spec => []WaitersWereSent
<1>1. Init => Lines
  <2>1. ASSUME Init PROVE Unsent /\ TornBy /\ WaitersWereSent
    BY <2>1 DEF Init, Unsent, TornBy, WaitersWereSent, Awaits, Actor
  <2> QED BY <2>1 DEF Lines
<1>2. IInv /\ Lines /\ [Next]_vars => Lines'
  BY NextIInv, UnsentStep, TornByStep, WaitersStep DEF IInv, Lines
<1>3. Lines => WaitersWereSent
  BY DEF Lines
<1> QED BY <1>1, <1>2, <1>3, Inductive, PTL DEF Spec
=============================================================================
