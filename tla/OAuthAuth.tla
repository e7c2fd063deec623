------------------------------ MODULE OAuthAuth ------------------------------
(***************************************************************************)
(* The OAuth strategy of one upstream (auth/oauth.rs): the proxied         *)
(* requests share one access token behind a read-write lock; the one that  *)
(* finds it missing or expired holds the lock while it discovers the       *)
(* server, finds or registers the client, refreshes the token or leads the *)
(* user through the browser, and stores what must survive a restart.       *)
(*                                                                         *)
(* Around it: an authorization server that rotates refresh tokens as it    *)
(* likes, a user with old browser tabs, a token storage that may fail, HTTP *)
(* clients that disconnect (the handler's future is dropped at an await),  *)
(* and restarts of the proxy.                                              *)
(*                                                                         *)
(* Clients of the server are numbered, and so are its grants: grant n is   *)
(* access token n and, if the server gives one with it, refresh token n.   *)
(* Every request goes through ensure_token once, so nothing else bounds    *)
(* the numbers.  Operators named after another with a mistake added serve  *)
(* to show that the properties notice it.                                  *)
(***************************************************************************)
EXTENDS OAuthDiscovery

CONSTANTS
  Handler,     \* the requests to the upstream
  Nobody,      \* no request
  Configured   \* is the client id given by the configuration?

ASSUME OAuthAssumption ==
  /\ Nobody \notin Handler
  /\ Configured \in BOOLEAN

None == 0

VARIABLES
  faults,    \* may calls fail, clients leave, the proxy crash anywhere?
  pc,        \* pc[h]: where request h is
  tok,       \* tok[h]: the access token it was given
  lock,      \* who has the write lock on the state below
  metadata,  \* the server's metadata are known
  client,    \* client_credentials
  access,    \* access_token
  fresh,     \* expires_at has not passed
  refresh,   \* refresh_token
  reply,     \* the server's answer to the holder of the lock
  code,      \* the flow whose code the holder received
  store,     \* the token storage: the client and the refresh token
  clients,   \* clients the server has registered
  owner,     \* owner[n]: the client of grant n
  honoured,  \* the refresh tokens the server accepts
  flows,     \* authorization flows begun
  tabs       \* flows whose browser tab the user has not finished

requestVars == <<pc, tok>>
tokenVars   == <<access, fresh>>
flowVars    == <<reply, code>>
serverVars  == <<clients, owner, honoured>>
browserVars == <<flows, tabs>>
vars == <<faults, requestVars, lock, metadata, client, tokenVars, refresh, flowVars,
          store, serverVars, browserVars>>

NoReply == [at |-> None, rt |-> None]

(* The stages of ensure_token under the write lock. *)
Stage == {"discover", "client", "register", "storeClient", "load", "refresh",
          "refreshed", "fallback", "authorize", "browse", "exchange",
          "exchanged"}

Init ==
  /\ faults \in BOOLEAN
  /\ pc = [h \in Handler |-> "idle"]
  /\ tok = [h \in Handler |-> None]
  /\ lock = Nobody /\ metadata = FALSE /\ client = None
  /\ access = None /\ fresh = FALSE /\ refresh = None
  /\ reply = NoReply /\ code = 0
  /\ store = [client |-> None, refresh |-> None]
  /\ clients = IF Configured THEN 1 ELSE 0
  /\ owner = <<>> /\ honoured = {}
  /\ flows = 0 /\ tabs = {}

-----------------------------------------------------------------------------
Goto(h, place) == pc' = [pc EXCEPT ![h] = place]

(* ensure_token returns: with a token, or with an error. *)
ReleasedNever == lock
Released == Nobody

Give(h, t) ==
  /\ Goto(h, "ready")
  /\ tok' = [tok EXCEPT ![h] = t]
  /\ lock' = Released

Fail(h) ==
  /\ Goto(h, "done")
  /\ lock' = Released
  /\ reply' = NoReply /\ code' = 0
  /\ UNCHANGED tok

Usable == access # None /\ fresh

(* The check under the read lock. *)
Begin(h) ==
  /\ pc[h] = "idle" /\ lock = Nobody
  /\ \/ Usable /\ Give(h, access)
     \/ ~Usable /\ Goto(h, "queued") /\ UNCHANGED <<tok, lock>>
  /\ UNCHANGED <<metadata, client, tokenVars, refresh, flowVars, store,
                 serverVars, browserVars>>

StillUsableSkipped == FALSE
StillUsable == Usable

(* The write lock, and the check again. *)
Enter(h) ==
  /\ pc[h] = "queued" /\ lock = Nobody
  /\ \/ StillUsable /\ Give(h, access)
     \/ ~StillUsable /\ Goto(h, "discover") /\ lock' = h /\ UNCHANGED tok
  /\ UNCHANGED <<metadata, client, tokenVars, refresh, flowVars, store,
                 serverVars, browserVars>>

(* The metadata that are in memory, or what one world or the other lets be  *)
(* discovered.                                                              *)
Discover(h) ==
  /\ pc[h] = "discover"
  /\ \/ /\ metadata \/ Discoverable
        /\ metadata' = TRUE /\ Goto(h, "client")
        /\ UNCHANGED <<tok, lock, flowVars>>
     \/ faults /\ ~metadata /\ Fail(h) /\ UNCHANGED metadata
  /\ UNCHANGED <<client, tokenVars, refresh, store, serverVars, browserVars>>

-----------------------------------------------------------------------------
(* The client: in memory, configured, stored by an earlier run, or new.    *)

FindClient(h) ==
  /\ pc[h] = "client"
  /\ \/ /\ client # None \/ Configured \/ store.client # None
        /\ client' = IF client # None THEN client
                     ELSE IF Configured THEN 1 ELSE store.client
        /\ Goto(h, "load")
        /\ UNCHANGED <<tok, lock, flowVars>>
     \/ /\ client = None /\ ~Configured /\ store.client = None
        /\ Goto(h, "register")
        /\ UNCHANGED <<tok, lock, client, flowVars>>
     \/ faults /\ client = None /\ Fail(h) /\ UNCHANGED client
  /\ UNCHANGED <<metadata, tokenVars, refresh, store, serverVars, browserVars>>

(* Dynamic client registration; the server may do it and the answer be lost. *)
RegisterClient(h) ==
  /\ pc[h] = "register"
  /\ \/ clients' = clients + 1 /\ Goto(h, "storeClient")
        /\ UNCHANGED <<tok, lock, flowVars>>
     \/ faults /\ clients' \in {clients, clients + 1} /\ Fail(h)
  /\ UNCHANGED <<metadata, client, tokenVars, refresh, store, owner, honoured,
                 browserVars>>

WithClientForgotten == store
WithClient == [store EXCEPT !.client = clients]

StoreClient(h) ==
  /\ pc[h] = "storeClient"
  /\ \/ /\ store' = WithClient /\ client' = clients
        /\ Goto(h, "load")
        /\ UNCHANGED <<tok, lock, flowVars>>
     \/ faults /\ Fail(h) /\ UNCHANGED <<store, client>>
  /\ UNCHANGED <<metadata, tokenVars, refresh, serverVars, browserVars>>

-----------------------------------------------------------------------------
(* The refresh token. *)

LoadableNever == None
Loadable == store.refresh

LoadRefresh(h) ==
  /\ pc[h] = "load"
  /\ \/ /\ refresh # None \/ Loadable # None
        /\ refresh' = IF refresh # None THEN refresh ELSE Loadable
        /\ Goto(h, "refresh")
        /\ UNCHANGED <<tok, lock, flowVars>>
     \/ /\ refresh = None /\ Loadable = None
        /\ Goto(h, "authorize")
        /\ UNCHANGED <<tok, lock, refresh, flowVars>>
     \/ faults /\ refresh = None /\ Fail(h) /\ UNCHANGED refresh
  /\ UNCHANGED <<metadata, client, tokenVars, store, serverVars, browserVars>>

(* The server issues the next grant; the refresh token it may come with    *)
(* replaces the one that was spent.  It answers with them.                 *)
Issue(spent, with) ==
  /\ owner' = Append(owner, client)
  /\ honoured' = IF with THEN (honoured \ {spent}) \cup {Len(owner) + 1}
                 ELSE honoured
  /\ UNCHANGED clients

Grant(spent) ==
  LET n == Len(owner) + 1 IN
  \E with \in BOOLEAN :
    /\ Issue(spent, with)
    /\ reply' = [at |-> n, rt |-> IF with THEN n ELSE None]

(* The server accepts the token or not; or the call fails on its way there *)
(* or, after the server has spent the token, on its way back.              *)
Refresh(h) ==
  /\ pc[h] = "refresh"
  /\ \/ refresh \in honoured /\ Grant(refresh) /\ Goto(h, "refreshed")
     \/ faults /\ refresh \in honoured /\ Grant(refresh) /\ Goto(h, "fallback")
     \/ /\ faults \/ refresh \notin honoured
        /\ Goto(h, "fallback")
        /\ UNCHANGED <<serverVars, reply>>
  /\ UNCHANGED <<tok, lock, metadata, client, tokenVars, refresh, code, store,
                 browserVars>>

(* The new token is cached, and the refresh token if there is one.  A      *)
(* lifetime of zero makes a token that has already expired.                *)
Install(h) ==
  /\ access' = reply.at
  /\ fresh' \in BOOLEAN
  /\ refresh' = IF reply.rt # None THEN reply.rt ELSE refresh
  /\ Give(h, reply.at)
  /\ reply' = NoReply /\ code' = 0

WithRefreshForgotten == store
WithRefresh == IF reply.rt = None THEN store
               ELSE [store EXCEPT !.refresh = reply.rt]

(* The end of refresh_access_token: a failure to store is a failure to     *)
(* refresh.                                                                *)
StoreRefreshed(h) ==
  /\ pc[h] = "refreshed"
  /\ \/ store' = WithRefresh /\ Install(h)
     \/ /\ faults /\ reply.rt # None
        /\ Goto(h, "fallback")
        /\ UNCHANGED <<tok, lock, tokenVars, refresh, flowVars, store>>
  /\ UNCHANGED <<metadata, client, serverVars, browserVars>>

(* The refresh failed: the token is dropped, and deleted if that succeeds. *)
WithoutRefresh == [store EXCEPT !.refresh = None]

Fallback(h) ==
  /\ pc[h] = "fallback"
  /\ refresh' = None
  /\ store' = WithoutRefresh \/ (faults /\ UNCHANGED store)
  /\ reply' = NoReply
  /\ Goto(h, "authorize")
  /\ UNCHANGED <<tok, lock, metadata, client, tokenVars, code, serverVars,
                 browserVars>>

-----------------------------------------------------------------------------
(* The authorization code flow. *)

Authorize(h) ==
  /\ pc[h] = "authorize"
  /\ \/ /\ flows' = flows + 1 /\ tabs' = tabs \cup {flows + 1}
        /\ Goto(h, "browse")
        /\ UNCHANGED <<tok, lock, flowVars>>
     \/ faults /\ Fail(h) /\ UNCHANGED browserVars
  /\ UNCHANGED <<metadata, client, tokenVars, refresh, store, serverVars>>

AnyState(f) == TRUE
StateFits(f) == f = flows

(* One connection comes to the listener: the user finishes one of the tabs *)
(* (or refuses), or something else calls.  The state must be the flow's.   *)
Callback(h) ==
  /\ pc[h] = "browse"
  /\ \/ \E f \in tabs :
          /\ tabs' = tabs \ {f}
          /\ \/ /\ StateFits(f)
                /\ code' = f /\ Goto(h, "exchange")
                /\ UNCHANGED <<tok, lock, reply>>
             \/ (faults \/ ~StateFits(f)) /\ Fail(h)
     \/ faults /\ Fail(h) /\ UNCHANGED tabs
  /\ UNCHANGED <<metadata, client, tokenVars, refresh, store, serverVars, flows>>

(* The code is exchanged for a grant; or the call fails on its way there   *)
(* or, after the server has issued the grant, on its way back.             *)
Exchange(h) ==
  /\ pc[h] = "exchange"
  /\ \/ /\ Grant(None) /\ Goto(h, "exchanged")
        /\ UNCHANGED <<tok, lock, code>>
     \/ /\ faults /\ Fail(h)
        /\ UNCHANGED serverVars \/ \E with \in BOOLEAN : Issue(None, with)
  /\ UNCHANGED <<metadata, client, tokenVars, refresh, store, browserVars>>

StoreGranted(h) ==
  /\ pc[h] = "exchanged"
  /\ \/ store' = WithRefresh /\ Install(h)
     \/ /\ faults /\ reply.rt # None /\ Fail(h)
        /\ UNCHANGED <<tokenVars, refresh, store>>
  /\ UNCHANGED <<metadata, client, serverVars, browserVars>>

-----------------------------------------------------------------------------
(* The request is forwarded with its token; a 401 evicts the cached one,   *)
(* whichever that is by now.                                               *)

Forward(h) ==
  /\ pc[h] = "ready"
  /\ Goto(h, "done") \/ Goto(h, "rejected")
  /\ UNCHANGED <<tok, lock, metadata, client, tokenVars, refresh, flowVars,
                 store, serverVars, browserVars>>

EvictedNever == access
Evicted == None

HandleUnauthorized(h) ==
  /\ pc[h] = "rejected" /\ lock = Nobody
  /\ access' = Evicted /\ fresh' = (fresh /\ Evicted # None)
  /\ Goto(h, "done")
  /\ UNCHANGED <<tok, lock, metadata, client, refresh, flowVars, store,
                 serverVars, browserVars>>

-----------------------------------------------------------------------------
(* What a call to the storage may have done when its caller is gone. *)
Unfinished(h) ==
  {store} \cup
  (CASE pc[h] = "storeClient" -> {WithClient}
     [] pc[h] \in {"refreshed", "exchanged"} -> {WithRefresh}
     [] pc[h] = "fallback" -> {WithoutRefresh}
     [] OTHER -> {})

(* The client disconnects: the handler is dropped at an await.  The stale  *)
(* refresh token left the memory before its deletion was awaited.          *)
Disconnect(h) ==
  /\ faults /\ pc[h] \notin {"idle", "done"}
  /\ Goto(h, "done")
  /\ IF pc[h] \in Stage
     THEN /\ lock' = Released /\ reply' = NoReply /\ code' = 0
          /\ store' \in Unfinished(h)
          /\ refresh' = IF pc[h] = "fallback" THEN None ELSE refresh
     ELSE UNCHANGED <<lock, flowVars, store, refresh>>
  /\ UNCHANGED <<tok, metadata, client, tokenVars, serverVars, browserVars>>

(* The proxy is stopped, or crashes, and starts again: only the storage    *)
(* and the rest of the world remain.                                       *)
Restart ==
  /\ faults \/ lock = Nobody
  /\ store' \in IF lock = Nobody THEN {store} ELSE Unfinished(lock)
  /\ pc' = [h \in Handler |-> IF pc[h] = "idle" THEN "idle" ELSE "done"]
  /\ lock' = Nobody /\ metadata' = FALSE /\ client' = None
  /\ access' = None /\ fresh' = FALSE /\ refresh' = None
  /\ reply' = NoReply /\ code' = 0
  /\ UNCHANGED <<tok, serverVars, browserVars>>

(* expires_at passes. *)
Expire ==
  /\ fresh /\ fresh' = FALSE
  /\ UNCHANGED <<requestVars, lock, metadata, client, access, refresh,
                 flowVars, store, serverVars, browserVars>>

(* The server stops accepting a refresh token. *)
Revoke ==
  /\ \E n \in honoured : honoured' = honoured \ {n}
  /\ UNCHANGED <<requestVars, lock, metadata, client, tokenVars, refresh,
                 flowVars, store, clients, owner, browserVars>>

Finished ==
  /\ \A h \in Handler : pc[h] = "done"
  /\ UNCHANGED vars

EnsureToken(h) ==
  \/ Discover(h) \/ FindClient(h) \/ RegisterClient(h) \/ StoreClient(h)
  \/ LoadRefresh(h) \/ Refresh(h) \/ StoreRefreshed(h) \/ Fallback(h)
  \/ Authorize(h) \/ Callback(h) \/ Exchange(h) \/ StoreGranted(h)

Continue(h) ==
  Enter(h) \/ EnsureToken(h) \/ Forward(h) \/ HandleUnauthorized(h)

Next ==
  /\ \/ \E h \in Handler : Begin(h) \/ Continue(h) \/ Disconnect(h)
     \/ Restart \/ Expire \/ Revoke
     \/ Finished
  /\ UNCHANGED faults

Spec == Init /\ [][Next]_vars

(* The runtime goes on with some handler that can go on, the server and    *)
(* the storage answer, and the user finishes the browser tabs.             *)
FairSpec ==
  Spec /\ WF_vars(\E h \in Handler : Continue(h) /\ UNCHANGED faults)

-----------------------------------------------------------------------------
(* Properties. *)

Grants == 0 .. Len(owner)

RequestsTyped ==
  /\ pc \in [Handler -> Stage \cup {"idle", "queued", "ready", "rejected",
                                    "done"}]
  /\ tok \in [Handler -> Grants]

LockHeld ==
  /\ lock \in Handler \cup {Nobody}
  /\ \A h \in Handler : lock = h <=> pc[h] \in Stage

StateTyped ==
  /\ metadata \in BOOLEAN /\ fresh \in BOOLEAN
  /\ client \in 0 .. clients
  /\ access \in Grants /\ refresh \in Grants
  /\ reply \in [at : Grants, rt : Grants]
  /\ store \in [client : 0 .. clients, refresh : Grants]

WorldTyped ==
  /\ clients \in Nat
  /\ owner \in Seq(1 .. clients) /\ honoured \subseteq 1 .. Len(owner)
  /\ flows \in Nat /\ tabs \subseteq 1 .. flows /\ code \in 0 .. flows

(* Every variable keeps its type, and the write lock is held by the request *)
(* that is at a stage under it, by no other and by none that left: a       *)
(* failed, finished or dropped fetch never keeps it.                       *)
TypeOK == RequestsTyped /\ LockHeld /\ StateTyped /\ WorldTyped

(* A refresh token is only ever used with the client it was issued to,     *)
(* however often the proxy crashes between registering a client, storing   *)
(* it, and storing the tokens it gets with it.                             *)
TokenOfClient ==
  /\ client # None /\ refresh # None => owner[refresh] = client
  /\ store.refresh # None =>
       owner[store.refresh] = IF Configured THEN 1 ELSE store.client
  /\ \A h \in Handler : pc[h] = "refresh" =>
       client # None /\ refresh # None /\ owner[refresh] = client

(* The code that is exchanged comes from the flow that waits for it, not   *)
(* from the tab of a flow whose request was given up.                      *)
ExchangesOwnCode ==
  \A h \in Handler : pc[h] = "exchange" => code = flows /\ lock = h

(* The strategy is a CredentialCache: one fetch at a time, none while a    *)
(* usable token is cached, no rejected or replaced token given out again.  *)
Cache == INSTANCE CredentialCache
           WITH Token <- Nat, cached <- access,
                fetcher <- lock, got <- tok

IsCache == Cache!Spec

(* Without failures, the refresh token the server accepts is the stored    *)
(* one: a rotation, a revocation or a restart between requests never costs *)
(* the proxy its authorization.                                            *)
NoLoss == ~faults /\ lock = Nobody => honoured \subseteq {store.refresh}

(* ... and the user is asked only when the server accepts none.            *)
AskedOnlyIfNeeded ==
  ~faults => \A h \in Handler : pc[h] = "browse" => honoured = {}

(* "Clear stale refresh token": the stored refresh token is deleted only   *)
(* when the server no longer accepts it.                                   *)
OnlyStaleCleared ==
  [][store.refresh # None /\ store'.refresh = None =>
       store.refresh \notin honoured]_vars

(* Whatever world the metadata were discovered in, they are those of the   *)
(* upstream: a document for its URL or a path above it, never of one that  *)
(* only begins alike, which lists the configured server, from the first    *)
(* place that has anything; the server's own document is the first there   *)
(* is at its locations; and both are found when they are there.            *)
MetadataOurs == metadata => DiscoveryRight

(* ... and the challenge that may have pointed to them was read as it was   *)
(* written, with whatever commas, quotes and other schemes it had in it.   *)
ChallengeRead == metadata => ChallengesRight

(* If the user finishes what is opened for her, every request ends, also   *)
(* those that wait behind the one that holds the lock.                     *)
RequestsEnd == <>[](\A h \in Handler : pc[h] \in {"idle", "done"})
=============================================================================
