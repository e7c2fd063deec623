---------------------------- MODULE StdioUpstream ----------------------------
(***************************************************************************)
(* The stdio transport of the proxy (proxy/stdio_upstream.rs): many HTTP   *)
(* handlers share one child process.  Each handler makes sure the child    *)
(* runs, takes an id of the upstream's counter, registers itself in the    *)
(* pending table of the current process, writes one line to its stdin and  *)
(* waits on a channel; one reader task per process gives every line of     *)
(* stdout to the request whose id it carries.                              *)
(*                                                                         *)
(* An actor is one HTTP exchange: a request, plain or answered by an event *)
(* stream, or a notifications/cancelled a client posts.  A process that    *)
(* replaces an exited one is a new generation; the table, the pipes and    *)
(* the reader belong to a generation and outlive its place in `process`.   *)
(*                                                                         *)
(* Next to some operators stands a variant with a mistake in it (Remove    *)
(* and RemoveForgotten): no specification uses it, it is there to show     *)
(* that the properties notice the mistake.                                 *)
(***************************************************************************)
EXTENDS Integers, Sequences, FiniteSets

CONSTANTS
  Request,       \* HTTP posts of a JSON-RPC request
  Stream,        \* those answered as an event stream (stream_response)
  Canceller,     \* HTTP posts of notifications/cancelled
  Large,         \* the actors whose line exceeds the stdin buffer
  Nobody,        \* no actor
  Src,           \* the JSON-RPC id the client chose for each request
  Target,        \* the request each canceller means to cancel
  MaxSpawn,      \* bound on the processes started
  MaxId,         \* bound on the ids taken
  PipeCap,       \* lines the stdin pipe holds before a flush waits
  MaxSay,        \* bound on the lines the children print
  ReaderMayStop, \* may a reader stop while its child runs?
  StatusMayFail, \* may try_wait fail?
  ServerCalls    \* may a child send requests of its own?

Actor == Request \cup Canceller
Gen   == 1 .. MaxSpawn
Id    == 1 .. MaxId
NoId  == 0

ASSUME ActorAssumption ==
  /\ Stream \subseteq Request
  /\ Large \subseteq Actor
  /\ Request \cap Canceller = {}
  /\ Nobody \notin Actor

ASSUME ClientAssumption ==
  /\ Src \in [Request -> Nat \ {NoId}]
  /\ Target \in [Canceller -> Request]

ASSUME BoundAssumption ==
  /\ MaxSpawn \in Nat /\ MaxId \in Nat /\ MaxSay \in Nat
  /\ PipeCap \in Nat \ {0}
  /\ ReaderMayStop \in BOOLEAN /\ StatusMayFail \in BOOLEAN
  /\ ServerCalls \in BOOLEAN

VARIABLES
  pc,       \* pc[a]: where the handler of a is
  uid,      \* uid[a]: the id a's line carries to the child
  gen,      \* gen[a]: the process a registered with, 0 before
  outcome,  \* outcome[a]: how the exchange ended
  chan,     \* chan[r]: the channel from the reader to request r
  lock,     \* who holds the mutex around `process`
  proc,     \* the current process, 0 for None
  spawned,  \* processes started so far
  nextId,   \* next_request_id
  live,     \* the upstream is still registered with the proxy
  pending,  \* pending[g][u]: the request registered under id u, or Nobody
  reader,   \* reader[g]: the reader task of process g
  child,    \* child[g]: the process itself
  stdin,    \* stdin[g]: lines written and not yet read by the child
  torn,     \* torn[g]: the last bytes written to stdin end inside a line
  seen,     \* seen[g]: the requests the child has read, with their ids
  stdout,   \* stdout[g]: lines printed and not yet read by the reader
  said      \* lines printed so far

exchangeVars == <<pc, uid, gen, outcome, chan>>
processVars  == <<proc, spawned, live>>
tableVars    == <<pending, reader>>
inputVars    == <<stdin, torn>>
outputVars   == <<child, seen, stdout, said>>
vars == <<exchangeVars, lock, processVars, nextId, tableVars, inputVars,
          outputVars>>

-----------------------------------------------------------------------------
(* The lines on the pipes and the messages in the channels: `id` is the    *)
(* JSON-RPC id, or the one a notification names, and `of` the request whose *)
(* parameters a line carries or that a line was printed for.               *)

Party    == Request \cup {Nobody}
Heard    == [id : Id, of : Request]
Inbound  == [kind : {"call"}, id : Id, of : Request] \cup
            [kind : {"cancel", "garbage"}, id : Nat, of : {Nobody}]
Outbound == [kind : {"resp", "note"}, id : Id, of : Request] \cup
            [kind : {"call"}, id : Id, of : {Nobody}]
Message  == [kind : {"resp", "note", "call"}, id : Nat, of : Party]

Places == {"idle", "ensured", "numbered", "writing", "waiting", "streaming",
           "cancel", "cancelWrite", "done"}

(* The client is still there to receive on the channel. *)
Listening(r) == pc[r] \in {"writing", "waiting", "streaming"}

Registered(r) == gen[r] \in Gen /\ uid[r] \in Id /\ pending[gen[r]][uid[r]] = r

(* The table of every process without the entry for id u in that of g, and *)
(* without any entry in that of g.                                         *)
RemoveForgotten(g, u) == pending
Remove(g, u) == [pending EXCEPT ![g][u] = Nobody]

ClearForgotten(g) == pending
ClearShared(g) == [h \in Gen |-> [u \in Id |-> Nobody]]
Clear(g) == [pending EXCEPT ![g] = [u \in Id |-> Nobody]]

(* What actor a writes: its request under the id it was given, or a        *)
(* notifications/cancelled that names the id uid[a].                       *)
LineNotRemapped(a) ==
  IF a \in Request /\ pc[a] = "writing"
  THEN [kind |-> "call", id |-> Src[a], of |-> a]
  ELSE [kind |-> "cancel", id |-> uid[a], of |-> Nobody]

Line(a) ==
  IF a \in Request /\ pc[a] = "writing"
  THEN [kind |-> "call", id |-> uid[a], of |-> a]
  ELSE [kind |-> "cancel", id |-> uid[a], of |-> Nobody]

Garbage == [kind |-> "garbage", id |-> NoId, of |-> Nobody]

(* A line appended to the pipe of process g, glued to the rest of a torn   *)
(* one if there is any: no parser accepts the result.                      *)
PutUnflushed(g, line) == UNCHANGED inputVars
Put(g, line) ==
  /\ stdin' = [stdin EXCEPT ![g] = Append(@, IF torn[g] THEN Garbage ELSE line)]
  /\ torn' = [torn EXCEPT ![g] = FALSE]

(* A child that closed its stdin goes on running, but reads nothing. *)
Runs(g) == child[g] \in {"running", "deaf"}
HasRoom(g) == child[g] = "running" /\ Len(stdin[g]) < PipeCap

(* The receiving end of r's channel is dropped with whatever is in it. *)
Hang(a) == chan' = [r \in Request |-> IF r = a THEN <<>> ELSE chan[r]]

(* The exchange is over: answered, cancelled by its guard, or ended by an  *)
(* error, an acknowledgement without a body or the client's leaving.       *)
Finish(a, how) ==
  /\ pc' = [pc EXCEPT ![a] = "done"]
  /\ outcome' = [outcome EXCEPT ![a] = how]
  /\ Hang(a)

-----------------------------------------------------------------------------
Init ==
  /\ pc = [a \in Actor |-> "idle"]
  /\ uid = [a \in Actor |-> NoId]
  /\ gen = [a \in Actor |-> 0]
  /\ outcome = [a \in Actor |-> "none"]
  /\ chan = [r \in Request |-> <<>>]
  /\ lock = Nobody /\ proc = 0 /\ spawned = 0 /\ live = TRUE
  /\ nextId = 1
  /\ pending = [g \in Gen |-> [u \in Id |-> Nobody]]
  /\ reader = [g \in Gen |-> "none"]
  /\ child = [g \in Gen |-> "none"]
  /\ stdin = [g \in Gen |-> <<>>]
  /\ torn = [g \in Gen |-> FALSE]
  /\ seen = [g \in Gen |-> {}]
  /\ stdout = [g \in Gen |-> <<>>]
  /\ said = 0

-----------------------------------------------------------------------------
(* ensure_process: under the lock, one step without an await inside.       *)

ArrivesUnlocked(a) == pc[a] = "idle" /\ live
Arrives(a) == pc[a] = "idle" /\ live /\ lock = Nobody

FoundDead == proc # 0 => child[proc] = "exited" \/ StatusMayFail

EnsureAlive(a) ==
  /\ Arrives(a)
  /\ proc # 0 /\ Runs(proc)
  /\ pc' = [pc EXCEPT ![a] = "ensured"]
  /\ UNCHANGED <<uid, gen, outcome, chan, lock, processVars, nextId,
                 tableVars, inputVars, outputVars>>

EnsureSpawn(a) ==
  /\ Arrives(a) /\ FoundDead
  /\ spawned < MaxSpawn
  /\ spawned' = spawned + 1
  /\ proc' = spawned + 1
  /\ child' = [child EXCEPT ![spawned + 1] = "running"]
  /\ reader' = [reader EXCEPT ![spawned + 1] = "running"]
  /\ pc' = [pc EXCEPT ![a] = "ensured"]
  /\ UNCHANGED <<uid, gen, outcome, chan, lock, live, nextId, pending,
                 inputVars, seen, stdout, said>>

(* The spawn fails: the exited process is already gone from `process`. *)
EnsureFails(a) ==
  /\ Arrives(a) /\ FoundDead
  /\ proc' = 0
  /\ Finish(a, "ended")
  /\ UNCHANGED <<uid, gen, lock, spawned, live, nextId, tableVars,
                 inputVars, outputVars>>

-----------------------------------------------------------------------------
(* forward: the body is read and parsed, the id is taken outside the lock. *)

CounterNotAdvanced == nextId
Counter == nextId + 1

Number(r) ==
  /\ pc[r] = "ensured" /\ nextId <= MaxId
  /\ uid' = [uid EXCEPT ![r] = nextId]
  /\ nextId' = Counter
  /\ pc' = [pc EXCEPT ![r] = "numbered"]
  /\ UNCHANGED <<gen, outcome, chan, lock, processVars, tableVars, inputVars,
                 outputVars>>

(* Takes the lock and enters the table of the process it finds there. *)
Register(r) ==
  /\ pc[r] = "numbered" /\ lock = Nobody /\ proc # 0
  /\ lock' = r
  /\ gen' = [gen EXCEPT ![r] = proc]
  /\ pending' = [pending EXCEPT ![proc][uid[r]] = r]
  /\ pc' = [pc EXCEPT ![r] = "writing"]
  /\ UNCHANGED <<uid, outcome, chan, processVars, nextId, reader, inputVars,
                 outputVars>>

NamedByAnyone(c) == {u \in Id : pending[proc][u] # Nobody}
NamedBy(c) == {u \in Id : /\ pending[proc][u] # Nobody
                          /\ Src[pending[proc][u]] = Src[Target[c]]}

(* A client's notifications/cancelled: some entry with the id the client   *)
(* names leaves the table and the line names its upstream id; with no such *)
(* entry the line keeps the client's id.                                   *)
TakeCancel(c) ==
  /\ pc[c] = "ensured" /\ lock = Nobody /\ proc # 0
  /\ lock' = c
  /\ gen' = [gen EXCEPT ![c] = proc]
  /\ \/ \E u \in NamedBy(c) :
          /\ pending' = Remove(proc, u)
          /\ uid' = [uid EXCEPT ![c] = u]
     \/ /\ NamedBy(c) = {}
        /\ uid' = [uid EXCEPT ![c] = Src[Target[c]]]
        /\ UNCHANGED pending
  /\ pc' = [pc EXCEPT ![c] = "writing"]
  /\ UNCHANGED <<outcome, chan, processVars, nextId, reader, inputVars,
                 outputVars>>

(* The lock is taken and `process` is None: a respawn failed meanwhile. *)
NotAvailable(a) ==
  /\ pc[a] = IF a \in Request THEN "numbered" ELSE "ensured"
  /\ lock = Nobody /\ proc = 0
  /\ Finish(a, "ended")
  /\ UNCHANGED <<uid, gen, lock, processVars, nextId, tableVars,
                 inputVars, outputVars>>

Write(a) ==
  /\ pc[a] = "writing" /\ HasRoom(proc)
  /\ Put(proc, Line(a))
  /\ lock' = Nobody
  /\ \/ /\ a \in Request
        /\ pc' = [pc EXCEPT ![a] = "waiting"]
        /\ UNCHANGED <<outcome, chan>>
     \/ a \in Canceller /\ Finish(a, "ended")
  /\ UNCHANGED <<uid, gen, processVars, nextId, tableVars, outputVars>>

(* The pipe is broken, also under a child that runs; the entry stays in the *)
(* table.                                                                  *)
WriteFails(a) ==
  /\ pc[a] = "writing" /\ child[proc] # "running"
  /\ lock' = Nobody
  /\ Finish(a, "ended")
  /\ UNCHANGED <<uid, gen, processVars, nextId, tableVars, inputVars,
                 outputVars>>

-----------------------------------------------------------------------------
(* forward: waiting for the answer. *)

Awaits(r) == pc[r] \in {"waiting", "streaming"}

ReceiveAnswer(r) ==
  /\ Awaits(r) /\ chan[r] # <<>>
  /\ Head(chan[r]).id = Src[r]
  /\ Finish(r, "answered")
  /\ UNCHANGED <<uid, gen, lock, processVars, nextId, tableVars, inputVars,
                 outputVars>>

(* A message without the id: a plain request drops it and goes on waiting, *)
(* a stream that was not open yet is opened by it.                         *)
ReceiveNote(r) ==
  /\ Awaits(r) /\ chan[r] # <<>>
  /\ Head(chan[r]).id # Src[r]
  /\ chan' = [chan EXCEPT ![r] = Tail(@)]
  /\ pc' = [pc EXCEPT ![r] = IF r \in Stream THEN "streaming" ELSE @]
  /\ UNCHANGED <<uid, gen, outcome, lock, processVars, nextId, tableVars,
                 inputVars, outputVars>>

(* recv is None: the sender left the table and the channel is empty. *)
ChannelClosedUnlessOpen(r) ==
  pc[r] = "waiting" /\ chan[r] = <<>> /\ ~Registered(r)
ChannelClosed(r) == Awaits(r) /\ chan[r] = <<>> /\ ~Registered(r)

(* A stream that ends so has not completed and its guard cancels it. *)
Closed(r) ==
  /\ ChannelClosed(r)
  /\ \/ /\ r \in Stream
        /\ pc' = [pc EXCEPT ![r] = "cancel"]
        /\ UNCHANGED <<outcome, chan>>
     \/ r \notin Stream /\ Finish(r, "ended")
  /\ UNCHANGED <<uid, gen, lock, processVars, nextId, tableVars,
                 inputVars, outputVars>>

(* One second without a message opens the stream. *)
StreamOpens(r) ==
  /\ pc[r] = "waiting" /\ r \in Stream
  /\ pc' = [pc EXCEPT ![r] = "streaming"]
  /\ UNCHANGED <<uid, gen, outcome, chan, lock, processVars, nextId,
                 tableVars, inputVars, outputVars>>

(* Thirty seconds without the answer end a plain request. *)
OverdueWhenNotified(r) ==
  pc[r] = "waiting" /\ r \notin Stream /\ chan[r] # <<>>
Overdue(r) == pc[r] = "waiting" /\ r \notin Stream

Timeout(r) ==
  /\ Overdue(r)
  /\ Finish(r, "ended")
  /\ UNCHANGED <<uid, gen, lock, processVars, nextId, tableVars,
                 inputVars, outputVars>>

-----------------------------------------------------------------------------
(* The client goes away and the handler's future, or the body of its       *)
(* stream, is dropped where it stands.                                     *)

Disconnect(a) ==
  /\ \/ pc[a] \in {"ensured", "numbered"}
     \/ pc[a] = "waiting" /\ a \notin Stream
  /\ Finish(a, "ended")
  /\ UNCHANGED <<uid, gen, lock, processVars, nextId, tableVars,
                 inputVars, outputVars>>

Tears(a) == a \in Large

(* While the line is being written: nothing, all or, if the line does not  *)
(* fit the buffer, a part of it is left for the pipe.                      *)
DisconnectWriting(a) ==
  /\ pc[a] = "writing"
  /\ \/ UNCHANGED inputVars
     \/ child[proc] = "running" /\ Put(proc, Line(a))
     \/ /\ Tears(a) /\ child[proc] = "running"
        /\ torn' = [torn EXCEPT ![proc] = TRUE]
        /\ UNCHANGED stdin
  /\ lock' = Nobody
  /\ Finish(a, "ended")
  /\ UNCHANGED <<uid, gen, processVars, nextId, tableVars, outputVars>>

DisconnectStream(r) ==
  /\ Awaits(r) /\ r \in Stream
  /\ pc' = [pc EXCEPT ![r] = "cancel"]
  /\ Hang(r)
  /\ UNCHANGED <<uid, gen, outcome, lock, processVars, nextId,
                 tableVars, inputVars, outputVars>>

(* The task StdioCancelGuard spawns: it locks whatever process is current, *)
(* removes the entry there and tells that process to cancel.               *)
CancelLock(r) ==
  /\ pc[r] = "cancel" /\ lock = Nobody
  /\ \/ /\ proc # 0
        /\ lock' = r
        /\ pending' = Remove(proc, uid[r])
        /\ pc' = [pc EXCEPT ![r] = "cancelWrite"]
        /\ UNCHANGED <<outcome, chan>>
     \/ /\ proc = 0
        /\ Finish(r, "cancelled")
        /\ UNCHANGED <<lock, pending>>
  /\ UNCHANGED <<uid, gen, processVars, nextId, reader, inputVars,
                 outputVars>>

CancelWrite(r) ==
  /\ pc[r] = "cancelWrite"
  /\ \/ HasRoom(proc) /\ Put(proc, Line(r))
     \/ child[proc] # "running" /\ UNCHANGED inputVars
  /\ lock' = Nobody
  /\ Finish(r, "cancelled")
  /\ UNCHANGED <<uid, gen, processVars, nextId, tableVars, outputVars>>

-----------------------------------------------------------------------------
(* The reader task of process g. *)

(* A line with an id is the answer of the request registered under it: the *)
(* entry is removed, the id is set back to the client's.                   *)
ReaderAnswer(g) ==
  /\ reader[g] = "running" /\ stdout[g] # <<>>
  /\ LET m == Head(stdout[g]) IN
     /\ m.kind \in {"resp", "call"}
     /\ \/ \E r \in Request :
             /\ pending[g][m.id] = r
             /\ pending' = Remove(g, m.id)
             /\ chan' = [chan EXCEPT ![r] =
                  IF Listening(r)
                  THEN Append(@, [m EXCEPT !.id = Src[r]])
                  ELSE @]
        \/ pending[g][m.id] = Nobody /\ UNCHANGED <<pending, chan>>
  /\ stdout' = [stdout EXCEPT ![g] = Tail(@)]
  /\ UNCHANGED <<pc, uid, gen, outcome, lock, processVars, nextId, reader,
                 inputVars, child, seen, said>>

(* A notification goes to the request its progress token or subscription   *)
(* id names, which stays registered.                                       *)
ReaderNote(g) ==
  /\ reader[g] = "running" /\ stdout[g] # <<>>
  /\ LET m == Head(stdout[g]) IN
     /\ m.kind = "note"
     /\ \/ \E r \in Request :
             /\ pending[g][m.id] = r
             /\ chan' = [chan EXCEPT ![r] =
                  IF Listening(r)
                  THEN Append(@, [m EXCEPT !.id = NoId])
                  ELSE @]
        \/ pending[g][m.id] = Nobody /\ UNCHANGED chan
  /\ stdout' = [stdout EXCEPT ![g] = Tail(@)]
  /\ UNCHANGED <<pc, uid, gen, outcome, lock, processVars, nextId, tableVars,
                 inputVars, child, seen, said>>

(* End of stdout, or a read error while the child still runs: the reader   *)
(* empties the table once and is never started again for this process; the *)
(* read end of the pipe is closed with it.                                 *)
ReaderStops(g) ==
  /\ reader[g] = "running"
  /\ ReaderMayStop \/ (child[g] = "exited" /\ stdout[g] = <<>>)
  /\ reader' = [reader EXCEPT ![g] = "done"]
  /\ pending' = Clear(g)
  /\ stdout' = [stdout EXCEPT ![g] = <<>>]
  /\ UNCHANGED <<exchangeVars, lock, processVars, nextId, inputVars, child,
                 seen, said>>

-----------------------------------------------------------------------------
(* The child: any program that reads its lines in order and answers, in    *)
(* any order and any number of times, requests it has read.  What it has   *)
(* not read when it exits is lost.                                         *)

ChildRead(g) ==
  /\ child[g] = "running" /\ stdin[g] # <<>>
  /\ LET m == Head(stdin[g]) IN
     seen' = IF m.kind = "call"
             THEN [seen EXCEPT ![g] = @ \cup {[id |-> m.id, of |-> m.of]}]
             ELSE seen
  /\ stdin' = [stdin EXCEPT ![g] = Tail(@)]
  /\ UNCHANGED <<exchangeVars, lock, processVars, nextId, tableVars, torn,
                 child, stdout, said>>

PrintLine(g, line) ==
  /\ Runs(g) /\ reader[g] = "running" /\ said < MaxSay
  /\ said' = said + 1
  /\ stdout' = [stdout EXCEPT ![g] = Append(@, line)]
  /\ UNCHANGED <<exchangeVars, lock, processVars, nextId, tableVars,
                 inputVars, child, seen>>

ChildSay(g) ==
  \E k \in {"resp", "note"}, h \in seen[g] :
    PrintLine(g, [kind |-> k, id |-> h.id, of |-> h.of])

(* A request of the server's own carries an id of the server's choice. *)
ChildCall(g) ==
  /\ ServerCalls
  /\ \E u \in Id : PrintLine(g, [kind |-> "call", id |-> u, of |-> Nobody])

(* The child closes its stdin, or exits and closes everything. *)
ChildCloses(g) ==
  /\ child[g] = "running"
  /\ child' = [child EXCEPT ![g] = "deaf"]
  /\ stdin' = [stdin EXCEPT ![g] = <<>>]
  /\ torn' = [torn EXCEPT ![g] = FALSE]
  /\ UNCHANGED <<exchangeVars, lock, processVars, nextId, tableVars, seen,
                 stdout, said>>

ChildExit(g) ==
  /\ Runs(g)
  /\ child' = [child EXCEPT ![g] = "exited"]
  /\ stdin' = [stdin EXCEPT ![g] = <<>>]
  /\ torn' = [torn EXCEPT ![g] = FALSE]
  /\ UNCHANGED <<exchangeVars, lock, processVars, nextId, tableVars, seen,
                 stdout, said>>

-----------------------------------------------------------------------------
(* The upstream leaves the proxy's map.  Handlers in forward keep it alive; *)
(* open streams and the tasks of their guards do not.                      *)

InForward(a) == pc[a] \in {"ensured", "numbered", "writing", "waiting"}

DropUpstream ==
  /\ live /\ lock = Nobody
  /\ \A a \in Actor : ~InForward(a)
  /\ live' = FALSE
  /\ proc' = 0
  /\ child' = [g \in Gen |-> IF g = proc THEN "exited" ELSE child[g]]
  /\ stdin' = [g \in Gen |-> IF g = proc THEN <<>> ELSE stdin[g]]
  /\ torn' = [g \in Gen |-> g # proc /\ torn[g]]
  /\ UNCHANGED <<exchangeVars, lock, spawned, nextId, tableVars, seen,
                 stdout, said>>

(* Every exchange is over and none can begin: the system may stop. *)
Finished ==
  /\ ~live /\ \A a \in Actor : pc[a] \in {"idle", "done"}
  /\ UNCHANGED vars

-----------------------------------------------------------------------------
Handler(a) ==
  \/ EnsureAlive(a) \/ EnsureSpawn(a) \/ EnsureFails(a)
  \/ NotAvailable(a) \/ Write(a) \/ WriteFails(a)

Requester(r) ==
  \/ Number(r) \/ Register(r)
  \/ ReceiveAnswer(r) \/ ReceiveNote(r) \/ Closed(r)
  \/ StreamOpens(r) \/ Timeout(r)
  \/ CancelLock(r) \/ CancelWrite(r)

Leave(a) == Disconnect(a) \/ DisconnectWriting(a)

Reader(g) == ReaderAnswer(g) \/ ReaderNote(g) \/ ReaderStops(g)

Child(g) ==
  \/ ChildRead(g) \/ ChildSay(g) \/ ChildCall(g)
  \/ ChildCloses(g) \/ ChildExit(g)

Next ==
  \/ \E a \in Actor : Handler(a) \/ Leave(a)
  \/ \E r \in Request : Requester(r) \/ DisconnectStream(r)
  \/ \E c \in Canceller : TakeCancel(c)
  \/ \E g \in Gen : Reader(g) \/ Child(g)
  \/ DropUpstream
  \/ Finished

Spec == Init /\ [][Next]_vars

(***************************************************************************)
(* What runs by itself: the handlers and the tasks they spawn, which the   *)
(* runtime schedules and whose timers fire, the reader tasks, and a child  *)
(* that goes on reading its stdin.  Nothing makes a client arrive or leave *)
(* or a child print or exit.                                               *)
(***************************************************************************)
Continues(a) == pc[a] # "idle" /\ Handler(a)

Fairness ==
  /\ \A a \in Actor : WF_vars(Continues(a))
  /\ \A r \in Request : WF_vars(Requester(r))
  /\ \A c \in Canceller : WF_vars(TakeCancel(c))
  /\ \A g \in Gen : WF_vars(Reader(g)) /\ WF_vars(ChildRead(g))

FairSpec == Spec /\ Fairness

-----------------------------------------------------------------------------
(* Properties. *)

(* Every variable keeps its type.                                          *)
TypeOK ==
  /\ pc \in [Actor -> Places]
  /\ uid \in [Actor -> Nat] /\ \A r \in Request : uid[r] \in Id \cup {NoId}
  /\ gen \in [Actor -> 0 .. MaxSpawn]
  /\ outcome \in [Actor -> {"none", "answered", "cancelled", "ended"}]
  /\ chan \in [Request -> Seq(Message)]
  /\ lock \in Actor \cup {Nobody}
  /\ proc \in 0 .. MaxSpawn /\ spawned \in 0 .. MaxSpawn
  /\ nextId \in 1 .. MaxId + 1
  /\ live \in BOOLEAN
  /\ pending \in [Gen -> [Id -> Request \cup {Nobody}]]
  /\ reader \in [Gen -> {"none", "running", "done"}]
  /\ child \in [Gen -> {"none", "running", "deaf", "exited"}]
  /\ stdin \in [Gen -> Seq(Inbound)]
  /\ torn \in [Gen -> BOOLEAN]
  /\ seen \in [Gen -> SUBSET Heard]
  /\ stdout \in [Gen -> Seq(Outbound)]
  /\ said \in Nat

(* However many requests with whatever client ids share the child, and     *)
(* however often it is replaced, what the reader hands to a request was    *)
(* printed for that request, by the process it registered with and that    *)
(* has read it, and an answer carries the client's own id again.           *)
OwnMessage(r, m) ==
  /\ m.kind \in {"resp", "call"} => m.id = Src[r]
  /\ m.kind \in {"resp", "note"} =>
       m.of = r /\ [id |-> uid[r], of |-> r] \in seen[gen[r]]

OwnMessagesOnly ==
  \A r \in Request : \A i \in 1 .. Len(chan[r]) : OwnMessage(r, chan[r][i])

(* A child may answer twice, late, or call back under a used id: a request *)
(* still gets one message with its id at most, the last of its channel,    *)
(* and after it the request is in no table.                                *)
AtMostOneAnswer ==
  \A r \in Request : \A i \in 1 .. Len(chan[r]) :
    chan[r][i].id = Src[r] => i = Len(chan[r]) /\ ~Registered(r)

(* Two lines are never interleaved: whoever is between the first and the   *)
(* last byte of a line holds the mutex, so it is alone, and the process it *)
(* writes to is the current one, for a request the one it registered with. *)
WriterHoldsCurrent ==
  \A a \in Actor : pc[a] \in {"writing", "cancelWrite"} =>
    /\ lock = a /\ proc # 0
    /\ pc[a] = "writing" => gen[a] = proc

(* Giving up is clean: a request that was answered, or a stream whose      *)
(* guard has run, is registered in the current process no more.            *)
NoEntryLeft ==
  \A r \in Request : outcome[r] \in {"answered", "cancelled"} /\ proc # 0 =>
    \A u \in Id : pending[proc][u] # r

(* While a request waits, it leaves the table only because its answer went *)
(* into its channel, a canceller named its client id, or its reader ended; *)
(* no step of another request, of a guard or of a later process does it.   *)
Takes(r) == \E c \in Canceller : /\ pc[c] = "ensured" /\ pc'[c] = "writing"
                                 /\ Src[Target[c]] = Src[r]

EntryLeaves ==
  [][\A r \in Request :
       Registered(r) /\ Awaits(r) /\ Awaits(r)' /\ ~Registered(r)' =>
         \/ Len(chan'[r]) = Len(chan[r]) + 1 /\ chan'[r][Len(chan'[r])].id = Src[r]
         \/ Takes(r)
         \/ reader[gen[r]] = "running" /\ reader'[gen[r]] = "done"]_vars

(* "Wake in-flight HTTP requests if the subprocess exits or its stdout     *)
(* closes": once the reader of its process is done, no request waits on an *)
(* entry that nobody is left to remove.                                    *)
NoOrphans ==
  \A r \in Request :
    Awaits(r) /\ reader[gen[r]] = "done" => ~Registered(r)

(* A client's cancellation names, to the child, its own request or none:   *)
(* never the request of somebody else.                                     *)
CancelsOwn ==
  \A c \in Canceller, r \in Request :
    gen[c] # 0 /\ gen[r] = gen[c] /\ uid[c] = uid[r] => r = Target[c]

(* Whatever ids the clients choose, and whatever is answered, given up or  *)
(* restarted before the cancellation takes the lock: if the child is told  *)
(* to cancel a request, that request has the client id the cancellation    *)
(* named, or that id itself, found in no entry, is its upstream id.        *)
CancelsNamed ==
  \A c \in Canceller, r \in Request :
    gen[c] # 0 /\ gen[r] = gen[c] /\ uid[c] = uid[r] =>
      Src[r] = Src[Target[c]] \/ uid[c] = Src[Target[c]]

(* The line of r is in the pipe of its process or has been read from it.   *)
Sent(r) ==
  \/ [id |-> uid[r], of |-> r] \in seen[gen[r]]
  \/ \E i \in 1 .. Len(stdin[gen[r]]) :
       stdin[gen[r]][i] = [kind |-> "call", id |-> uid[r], of |-> r]

(* a left the handler with its long line unfinished in the pipe of g. *)
Tore(a, g) ==
  /\ a \in Large /\ gen[a] = g /\ pc[a] = "done" /\ outcome[a] = "ended"
  /\ a \in Request => ~Sent(a)

(* Who waits for a running child is waiting for a line that this child has *)
(* read or will read, whole and under the id of the table, unless a client *)
(* that went away in the middle of a long line spoiled it: a write that    *)
(* fails, a dropped handler and a restart leave nobody waiting for nothing. *)
WaitersWereSent ==
  \A r \in Request :
    Awaits(r) /\ child[gen[r]] = "running" =>
      Sent(r) \/ \E a \in Actor : Tore(a, gen[r])

(* The bridge keeps its promise: seen from a client, every exchange is one *)
(* of RequestExchange, answered only after the child received the request. *)
Phase(r) == IF pc[r] = "idle" THEN "idle"
            ELSE IF pc[r] # "done" THEN "open"
            ELSE IF outcome[r] = "answered" THEN "answered" ELSE "ended"

HasHeard(r) == \E g \in Gen : [id |-> uid[r], of |-> r] \in seen[g]

Promise == INSTANCE RequestExchange
             WITH phase <- [r \in Request |-> Phase(r)],
                  heard <- {r \in Request : HasHeard(r)}

KeepsPromise == Promise!Spec

(* A plain request that was begun ends, if the child reads its stdin.      *)
CallsEnd ==
  \A r \in Request \ Stream : pc[r] # "idle" ~> pc[r] = "done"

(* A stream ends once its process has exited, which removing the upstream  *)
(* from the proxy brings about, and once its client has given it up.       *)
StreamsEnd ==
  \A r \in Stream, g \in Gen :
    \/ pc[r] = "cancel"
    \/ pc[r] = "streaming" /\ gen[r] = g /\ child[g] = "exited"
    ~> pc[r] = "done"
=============================================================================
