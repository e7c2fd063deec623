------------------------------ MODULE Registry ------------------------------
(***************************************************************************)
(* The servers behind the proxy (proxy/mod.rs, settings.rs, main.rs): the  *)
(* map of upstreams that requests are routed by, the store of the servers  *)
(* added over the settings API with its file, the handlers that create,    *)
(* update and delete servers, the requests, and restarts of the proxy.     *)
(*                                                                         *)
(* The map is behind a fair read-write lock.  root_handler looks its       *)
(* upstream up in the condition of an `if let', whose temporaries live as  *)
(* long as its body: a request keeps the read lock until it is answered.   *)
(* A handler waits for the lock in `queue'; every other use of it is one   *)
(* step, which has no await in it.                                         *)
(*                                                                         *)
(* An edit stands for the configuration it carries.  Operators named after *)
(* another with a mistake added serve to show that the properties notice   *)
(* it.                                                                     *)
(***************************************************************************)
EXTENDS Integers, Sequences

Seqs == INSTANCE SequencesExt

CONSTANTS
  Name,        \* valid names of servers, none of them reserved
  FromConfig,  \* the names of the upstreams in the configuration file
  Edit,        \* requests to create, update or delete a server
  Request,     \* requests to the servers
  None,        \* no entry
  Config,      \* the upstream that the configuration file describes
  Torn,        \* what a file holds whose writing was interrupted
  Serial       \* are the edits of a name made one after the other?

ASSUME RegistryAssumption ==
  /\ FromConfig \subseteq Name
  /\ Edit \cap Request = {}
  /\ None \notin Edit \cup {Config} /\ Config \notin Edit
  /\ Torn \notin [Name -> Edit \cup {None}]
  /\ Serial \in BOOLEAN

Handler == Edit \cup Request

VARIABLES
  pc,     \* pc[h]: where handler h is
  name,   \* name[h]: the server it is about
  live,   \* the map of upstreams
  served, \* served[r]: the upstream request r is forwarded by
  store,  \* the servers added over the API, in memory
  disk,   \* the same in servers.json
  queue,  \* the handlers that wait for the lock on the map
  synced  \* history: did the last write or read of the file end well?

handlerVars == <<pc, name, served>>
vars == <<handlerVars, live, store, disk, queue, synced>>

Init ==
  /\ pc = [h \in Handler |-> "idle"]
  /\ name = [h \in Handler |-> None]
  /\ live = [n \in Name |-> IF n \in FromConfig THEN Config ELSE None]
  /\ served = [r \in Request |-> None]
  /\ store = [n \in Name |-> None] /\ disk = store /\ synced = TRUE
  /\ queue = <<>>

-----------------------------------------------------------------------------
(* The lock on the map: first come, first served, and a writer waits for   *)
(* the requests that are being forwarded.                                  *)

Reading == {"check", "lookup", "route"}
Writing == {"remove", "register", "unlist"}

Goto(h, place) == pc' = [pc EXCEPT ![h] = place]

Await(h, place) == Goto(h, place) /\ queue' = Append(queue, h)

FreeAlways == TRUE
Free == \A r \in Request : pc[r] # "forward"

Locks(h) ==
  /\ queue # <<>> /\ h = Head(queue)
  /\ pc[h] \in Writing => Free

(* h has had the lock, and goes on to a place without or with a lock.      *)
Then(h, place) ==
  /\ Goto(h, place)
  /\ queue' = IF place \in Reading \cup Writing
              THEN Append(Tail(queue), h) ELSE Tail(queue)

UnderWay(e) == pc[e] \notin {"idle", "left", "done"}

-----------------------------------------------------------------------------
(* The edits. *)

Begin(e, n) ==
  /\ pc[e] = "idle"
  /\ Serial => \A f \in Edit : UnderWay(f) => name[f] # n
  /\ name' = [name EXCEPT ![e] = n]
  /\ UNCHANGED <<served, live, store, disk, synced>>

Create(e, n) == Begin(e, n) /\ Await(e, "check")
Update(e, n) == Begin(e, n) /\ Await(e, "remove")
Delete(e, n) == Begin(e, n) /\ Goto(e, "unstore") /\ UNCHANGED queue

(* create_server refuses a name that is in use.  Before it waits for the   *)
(* lock again, it makes the HTTP client of the upstream; that may fail.    *)
Check(e) ==
  /\ pc[e] = "check" /\ Locks(e)
  /\ \/ live[name[e]] # None /\ Then(e, "done")
     \/ live[name[e]] = None /\ (Then(e, "register") \/ Then(e, "done"))
  /\ UNCHANGED <<name, served, live, store, disk, synced>>

(* update_server takes the upstream out first, whoever put it there, and   *)
(* gives up without it when the client cannot be made.                     *)
Remove(e) ==
  /\ pc[e] = "remove" /\ Locks(e)
  /\ live' = [live EXCEPT ![name[e]] = None]
  /\ Then(e, "register") \/ Then(e, "left")
  /\ UNCHANGED <<name, served, store, disk, synced>>

Register(e) ==
  /\ pc[e] = "register" /\ Locks(e)
  /\ live' = [live EXCEPT ![name[e]] = e]
  /\ Then(e, "store")
  /\ UNCHANGED <<name, served, store, disk, synced>>

(* The store writes its file before its own lock is released.  Until the   *)
(* writing is over, the file is what it was or was cut off.                *)
Writes(e) == pc[e] \in {"persist", "unpersist"}
StoreFree == \A e \in Edit : ~Writes(e)

Opens == disk' \in {disk, Torn} /\ synced' = FALSE

Store(e) ==
  /\ pc[e] = "store" /\ StoreFree
  /\ store' = [store EXCEPT ![name[e]] = e]
  /\ Opens
  /\ Goto(e, "persist")
  /\ UNCHANGED <<name, served, live, queue>>

WrittenBefore(e) == [store EXCEPT ![name[e]] = None]
Written(e) == store

(* A failure to make the directory or to write is logged, and the edit     *)
(* goes on as if nothing had happened.                                     *)
Closes(e) ==
  \/ disk' = Written(e) /\ synced' = TRUE
  \/ UNCHANGED <<disk, synced>>

Persist(e) ==
  /\ pc[e] = "persist"
  /\ Closes(e)
  /\ Await(e, "lookup")
  /\ UNCHANGED <<name, served, live, store>>

(* The upstream is looked up for the refresh of its tools, which goes on   *)
(* in the background when the edit is answered.                            *)
Lookup(e) ==
  /\ pc[e] = "lookup" /\ Locks(e)
  /\ Then(e, "done")
  /\ UNCHANGED <<name, served, live, store, disk, synced>>

(* delete_server knows the servers in the store only. *)
Unstore(e) ==
  /\ pc[e] = "unstore" /\ StoreFree
  /\ \/ /\ store[name[e]] = None
        /\ Goto(e, "done")
        /\ UNCHANGED <<store, disk, synced>>
     \/ /\ store[name[e]] # None
        /\ store' = [store EXCEPT ![name[e]] = None]
        /\ Opens
        /\ Goto(e, "unpersist")
  /\ UNCHANGED <<name, served, live, queue>>

Unpersist(e) ==
  /\ pc[e] = "unpersist"
  /\ Closes(e)
  /\ Await(e, "unlist")
  /\ UNCHANGED <<name, served, live, store>>

UnlistedForgotten(e) == live
Unlisted(e) == [live EXCEPT ![name[e]] = None]

Unlist(e) ==
  /\ pc[e] = "unlist" /\ Locks(e)
  /\ live' = Unlisted(e)
  /\ Then(e, "done")
  /\ UNCHANGED <<name, served, store, disk, synced>>

-----------------------------------------------------------------------------
(* The requests, by root_handler. *)

Ask(r, n) ==
  /\ pc[r] = "idle"
  /\ name' = [name EXCEPT ![r] = n]
  /\ Await(r, "route")
  /\ UNCHANGED <<served, live, store, disk, synced>>

Route(r) ==
  /\ pc[r] = "route" /\ Locks(r)
  /\ \/ /\ live[name[r]] # None
        /\ served' = [served EXCEPT ![r] = live[name[r]]]
        /\ Then(r, "forward")
     \/ /\ live[name[r]] = None
        /\ Then(r, "done") /\ UNCHANGED served
  /\ UNCHANGED <<name, live, store, disk, synced>>

Answer(r) ==
  /\ pc[r] = "forward"
  /\ Goto(r, "done")
  /\ UNCHANGED <<name, served, live, store, disk, queue, synced>>

-----------------------------------------------------------------------------
WithoutForgotten(h) == queue
Without(h) ==
  IF pc[h] \in Reading \cup Writing
  THEN Seqs!RemoveAt(queue, CHOOSE i \in 1 .. Len(queue) : queue[i] = h)
  ELSE queue

(* The client disconnects: the handler is dropped at an await, anywhere    *)
(* but in the writing of the file.                                         *)
Leave(h) ==
  /\ pc[h] \notin {"idle", "persist", "unpersist", "left", "done"}
  /\ Goto(h, "left")
  /\ queue' = Without(h)
  /\ UNCHANGED <<name, served, live, store, disk, synced>>

(* A file that cannot be read or does not parse is taken for an empty one. *)
Loaded(file) == IF file = Torn THEN [n \in Name |-> None] ELSE file

(* The upstreams of the configuration, then the stored ones, in one map;   *)
(* their clients are taken to be made as they were when they were added.   *)
Served(file) ==
  [n \in Name |-> IF Loaded(file)[n] # None THEN Loaded(file)[n]
                  ELSE IF n \in FromConfig THEN Config ELSE None]

(* The proxy stops or crashes, and starts again; it may fail to read the   *)
(* file.                                                                   *)
Restart ==
  /\ \E file \in {disk, Torn} :
       /\ store' = Loaded(file) /\ live' = Served(file)
       /\ synced' = (file = disk)
  /\ pc' = [h \in Handler |-> IF pc[h] = "idle" THEN "idle" ELSE "done"]
  /\ queue' = <<>>
  /\ UNCHANGED <<name, served, disk>>

Continue(h) ==
  IF h \in Edit
  THEN \/ Check(h) \/ Remove(h) \/ Register(h)
       \/ Store(h) \/ Persist(h) \/ Lookup(h)
       \/ Unstore(h) \/ Unpersist(h) \/ Unlist(h)
  ELSE Route(h) \/ Answer(h)

Finished ==
  /\ \A h \in Handler : pc[h] \in {"left", "done"}
  /\ UNCHANGED vars

Next ==
  \/ \E e \in Edit, n \in Name : Create(e, n) \/ Update(e, n) \/ Delete(e, n)
  \/ \E r \in Request, n \in Name : Ask(r, n)
  \/ \E h \in Handler : Continue(h) \/ Leave(h)
  \/ Restart
  \/ Finished

Spec == Init /\ [][Next]_vars

(* The runtime goes on with every handler, and every server answers or its *)
(* client gives up.                                                        *)
FairSpec == Spec /\ \A h \in Handler : WF_vars(Continue(h))

-----------------------------------------------------------------------------
(* Properties. *)

(* Every variable keeps its type; the queue holds those who wait, once, in *)
(* whatever order they came and left.                                      *)
TypeOK ==
  /\ pc \in [Handler -> Reading \cup Writing \cup
               {"idle", "store", "persist", "unstore", "unpersist",
                "forward", "left", "done"}]
  /\ name \in [Handler -> Name \cup {None}]
  /\ live \in [Name -> Edit \cup {None, Config}]
  /\ served \in [Request -> Edit \cup {None, Config}]
  /\ store \in [Name -> Edit \cup {None}]
  /\ disk \in [Name -> Edit \cup {None}] \cup {Torn}
  /\ synced \in BOOLEAN
  /\ queue \in Seq(Handler)
  /\ \A i, j \in 1 .. Len(queue) : queue[i] = queue[j] => i = j
  /\ \A h \in Handler :
       pc[h] \in Reading \cup Writing <=> \E i \in 1 .. Len(queue) : queue[i] = h

(* While a request is forwarded its upstream is the one in the map: no     *)
(* edit replaces or deletes a server under a request.                      *)
ServedWhileLive ==
  \A r \in Request :
    pc[r] = "forward" => served[r] # None /\ live[name[r]] = served[r]

(* When the edits of a name are over, and none of them was cut short, the  *)
(* server in the map is the one in the store, with that configuration; a   *)
(* name that is not stored has the configured upstream or none.            *)
Agree ==
  \A n \in Name :
    (\A e \in Edit : name[e] = n => pc[e] \in {"idle", "done"}) =>
      IF store[n] # None THEN live[n] = store[n] ELSE live[n] \in {None, Config}

(* An edit changes the store for its own server alone.  Else the store     *)
(* changes by a restart only, and by none after a write or read of the     *)
(* file that went well, unless the restart cannot read it: an added server *)
(* stays and a deleted one stays away, whoever else is edited.             *)
SyncedServersStay ==
  [][\A n \in Name :
       store'[n] # store[n] =>
         \/ \E e \in Edit : name[e] = n /\ ~Writes(e) /\ Writes(e)'
         \/ StoreFree' /\ ~(synced /\ synced')]_vars

(* If the servers answer, every edit and every request comes to its end    *)
(* (each runs once, so in the end nothing is under way).                   *)
AllEnd == <>[](\A h \in Handler : pc[h] \in {"idle", "left", "done"})

(* "Whether this upstream was loaded from the config file (not editable    *)
(* via UI)": while the proxy runs, such an upstream stays what it is.      *)
NotEditable ==
  [][\A n \in Name : live[n] = Config => live'[n] = Config]_vars
=============================================================================
