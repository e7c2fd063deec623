-------------------------- MODULE OAuthAuthProofs --------------------------
(***************************************************************************)
(* Proofs about OAuthAuth, for any number of requests and with every       *)
(* failure: the type invariant, that refresh tokens are used with the      *)
(* client they were issued to, that a flow exchanges its own code, and     *)
(* that the strategy implements CredentialCache; and without failures,     *)
(* that the authorization is kept and the user asked only when it is       *)
(* needed.                                                                 *)
(*                                                                         *)
(* The inductive invariant Inv adds to the types what a request knows at   *)
(* its stage under the lock.  Its heart is Registered: every grant the     *)
(* server ever issued belongs to one client, the configured one or the     *)
(* stored one, because a client is stored before it is used.  Kept, which  *)
(* failures break, says where the refresh token is that the server accepts. *)
(***************************************************************************)
EXTENDS OAuthAuth, TLAPS

(* The client that refresh tokens in the storage belong to. *)
Ours == IF Configured THEN 1 ELSE store.client

(* Only that client is ever used, and only that client has grants. *)
Registered ==
  /\ Configured => clients = 1
  /\ client # None => client = Ours
  /\ \A n \in 1 .. Len(owner) : owner[n] = Ours

(* What ensure_token established on its way to the stage. *)
Staged ==
  \A h \in Handler :
    /\ pc[h] \in {"register", "storeClient"} =>
         ~Configured /\ client = None /\ store.client = None
    /\ pc[h] = "storeClient" => clients # None
    /\ pc[h] \in Stage \ {"discover", "client", "register", "storeClient"} =>
         client # None
    /\ pc[h] = "refresh" => refresh # None

(* A new grant is newer than every token in use; a request that fetches   *)
(* has no token yet.                                                       *)
Answered ==
  \A h \in Handler :
    /\ pc[h] \in Stage \cup {"idle", "queued"} => tok[h] = None
    /\ pc[h] \in {"refreshed", "exchanged"} =>
         /\ reply.at = Len(owner) /\ reply.at # None
         /\ access < reply.at /\ \A k \in Handler : tok[k] < reply.at

(* The code to be exchanged is the newest flow's. *)
OwnCode == \A h \in Handler : pc[h] = "exchange" => code = flows

(* The inductive invariant. *)
Inv == TypeOK /\ Registered /\ Staged /\ Answered /\ OwnCode

(* A sequence over a set is one over a larger set. *)
LEMMA SeqLarger ==
  ASSUME NEW S, NEW T, S \subseteq T, NEW s \in Seq(S)
  PROVE  s \in Seq(T)
  OBVIOUS

(* What Append returns. *)
LEMMA Appended ==
  ASSUME NEW S, NEW s \in Seq(S), NEW e \in S
  PROVE  /\ Append(s, e) \in Seq(S)
         /\ Len(Append(s, e)) = Len(s) + 1
         /\ Append(s, e)[Len(s) + 1] = e
         /\ \A n \in 1 .. Len(s) : Append(s, e)[n] = s[n]
  OBVIOUS

(* The server's grant: its client, its number, its refresh token... *)
LEMMA Issuing ==
  ASSUME Inv, client # None, NEW spent, NEW with \in BOOLEAN, Issue(spent, with)
  PROVE  /\ clients' = clients /\ owner' \in Seq(1 .. clients)
         /\ Len(owner) \in Nat /\ Len(owner') = Len(owner) + 1
         /\ honoured' \subseteq 1 .. Len(owner')
         /\ owner'[Len(owner')] = client
         /\ \A n \in 1 .. Len(owner) : owner'[n] = owner[n]
<1>1. client \in 1 .. clients
  BY DEF Inv, TypeOK, StateTyped, WorldTyped, None
<1>2. owner \in Seq(1 .. clients) /\ honoured \subseteq 1 .. Len(owner)
  BY DEF Inv, TypeOK, WorldTyped
<1>3. owner' = Append(owner, client) /\ clients' = clients
  BY DEF Issue
<1>4. /\ Append(owner, client) \in Seq(1 .. clients)
      /\ Len(Append(owner, client)) = Len(owner) + 1
      /\ Append(owner, client)[Len(owner) + 1] = client
      /\ \A n \in 1 .. Len(owner) : Append(owner, client)[n] = owner[n]
  BY <1>1, <1>2, Appended
<1>5. Len(owner) \in Nat
  BY <1>2
<1>6. honoured' = IF with THEN (honoured \ {spent}) \cup {Len(owner) + 1}
                  ELSE honoured
  BY DEF Issue
<1>7. honoured' \subseteq 1 .. Len(owner')
  <2>1. /\ 1 .. Len(owner) \subseteq 1 .. Len(owner')
        /\ Len(owner) + 1 \in 1 .. Len(owner')
    BY <1>3, <1>4, <1>5
  <2> QED BY <1>2, <1>6, <2>1
<1> QED BY <1>3, <1>4, <1>5, <1>7

(* ... and its answer. *)
LEMMA Granting ==
  ASSUME Inv, client # None, NEW spent, Grant(spent)
  PROVE  /\ clients' = clients /\ owner' \in Seq(1 .. clients)
         /\ Len(owner') = Len(owner) + 1
         /\ honoured' \subseteq 1 .. Len(owner')
         /\ owner'[Len(owner')] = client
         /\ \A n \in 1 .. Len(owner) : owner'[n] = owner[n]
         /\ reply' \in [at : Grants', rt : Grants'] /\ reply'.at = Len(owner')
<1>1. PICK with \in BOOLEAN :
        /\ Issue(spent, with)
        /\ reply' = [at |-> Len(owner) + 1,
                     rt |-> IF with THEN Len(owner) + 1 ELSE None]
  BY DEF Grant
<1>2. Len(owner) \in Nat /\ Len(owner') = Len(owner) + 1
  BY <1>1, Issuing
<1>3. reply' \in [at : Grants', rt : Grants'] /\ reply'.at = Len(owner')
  BY <1>1, <1>2 DEF Grants, None
<1> QED BY <1>1, <1>3, Issuing

(* An unfinished call of the storage leaves it well typed; it changes the *)
(* client only if nothing was granted yet.                                *)
LEMMA Unfinishing ==
  ASSUME Inv, NEW h \in Handler, NEW s \in Unfinished(h)
  PROVE  /\ s \in [client : 0 .. clients, refresh : Grants]
         /\ \/ s.client = store.client
            \/ ~Configured /\ client = None /\ Len(owner) = 0
<1> USE DEF Inv, TypeOK
<1>1. CASE s = store
  BY <1>1 DEF StateTyped
<1>2. CASE pc[h] = "storeClient" /\ s = WithClient
  <2>1. s \in [client : 0 .. clients, refresh : Grants]
    BY <1>2 DEF StateTyped, WorldTyped, WithClient
  <2>2. ~Configured /\ client = None /\ store.client = None
    BY <1>2 DEF Staged
  <2>3. \A n \in 1 .. Len(owner) : owner[n] = None /\ owner[n] \in 1 .. clients
    BY <2>2 DEF Registered, Ours, WorldTyped
  <2>4. Len(owner) = 0
    BY <2>3 DEF WorldTyped, None
  <2> QED BY <2>1, <2>2, <2>4
<1>3. CASE s = WithRefresh
  BY <1>3 DEF StateTyped, WithRefresh
<1>4. CASE s = WithoutRefresh
  <2>1. None \in Grants
    BY DEF WorldTyped, Grants, None
  <2> QED BY <1>4, <2>1 DEF StateTyped, WithoutRefresh
<1> QED BY <1>1, <1>2, <1>3, <1>4 DEF Unfinished

-----------------------------------------------------------------------------
(* Every action keeps the invariant: one lemma per action. *)

(* The check under the read lock. *)
LEMMA BeginKeeps ==
  ASSUME Inv, NEW h \in Handler, Begin(h)
  PROVE  Inv'
<1> USE OAuthAssumption DEF Inv, TypeOK
<1>1. RequestsTyped'
  <2>1. Grants' = Grants
    BY DEF Begin, serverVars, Grants
  <2>2. pc' \in {[pc EXCEPT ![h] = "ready"], [pc EXCEPT ![h] = "queued"]}
    BY DEF Begin, Give, Goto
  <2>3. tok' \in {tok, [tok EXCEPT ![h] = access]}
    BY DEF Begin, Give
  <2> QED BY <2>1, <2>2, <2>3 DEF RequestsTyped, StateTyped, Stage
<1>2. LockHeld'
  BY DEF Begin, Give, Goto, Released, requestVars, RequestsTyped, LockHeld,
         Stage
<1>3. StateTyped'
  BY DEF Begin, Give, tokenVars, flowVars, serverVars, None, StateTyped,
         WorldTyped, Grants
<1>4. WorldTyped'
  BY DEF Begin, Give, flowVars, serverVars, browserVars, WorldTyped
<1>5. Registered'
  BY DEF Begin, serverVars, None, Registered, Ours, StateTyped, WorldTyped,
         Staged, Stage
<1>6. Staged'
  BY DEF Begin, Give, Goto, requestVars, serverVars, None, Staged, LockHeld,
         RequestsTyped, Stage
<1>7. Answered'
  BY DEF Begin, Give, Goto, requestVars, tokenVars, flowVars, serverVars,
         Answered, LockHeld, RequestsTyped, Stage
<1>8. OwnCode'
  BY DEF Begin, Give, Goto, requestVars, flowVars, browserVars, OwnCode,
         LockHeld, RequestsTyped, Stage
<1> QED BY <1>1, <1>2, <1>3, <1>4, <1>5, <1>6, <1>7, <1>8

(* The check under the write lock. *)
LEMMA EnterKeeps ==
  ASSUME Inv, NEW h \in Handler, Enter(h)
  PROVE  Inv'
<1> USE OAuthAssumption DEF Inv, TypeOK
<1>1. RequestsTyped'
  <2>1. Grants' = Grants
    BY DEF Enter, serverVars, Grants
  <2>2. pc' \in {[pc EXCEPT ![h] = "ready"], [pc EXCEPT ![h] = "discover"]}
    BY DEF Enter, Give, Goto
  <2>3. tok' \in {tok, [tok EXCEPT ![h] = access]}
    BY DEF Enter, Give
  <2> QED BY <2>1, <2>2, <2>3 DEF RequestsTyped, StateTyped, Stage
<1>2. LockHeld'
  BY DEF Enter, Give, Goto, Released, requestVars, RequestsTyped, LockHeld,
         Stage
<1>3. StateTyped'
  BY DEF Enter, Give, tokenVars, flowVars, serverVars, None, StateTyped,
         WorldTyped, Grants
<1>4. WorldTyped'
  BY DEF Enter, Give, flowVars, serverVars, browserVars, WorldTyped
<1>5. Registered'
  BY DEF Enter, serverVars, None, Registered, Ours, StateTyped, WorldTyped,
         Staged, Stage
<1>6. Staged'
  BY DEF Enter, Give, Goto, requestVars, serverVars, None, Staged, LockHeld,
         RequestsTyped, Stage
<1>7. Answered'
  BY DEF Enter, Give, Goto, requestVars, tokenVars, flowVars, serverVars,
         Answered, LockHeld, RequestsTyped, Stage
<1>8. OwnCode'
  BY DEF Enter, Give, Goto, requestVars, flowVars, browserVars, OwnCode,
         LockHeld, RequestsTyped, Stage
<1> QED BY <1>1, <1>2, <1>3, <1>4, <1>5, <1>6, <1>7, <1>8

(* Discovery changes nothing but the metadata. *)
LEMMA DiscoverKeeps ==
  ASSUME Inv, NEW h \in Handler, Discover(h)
  PROVE  Inv'
<1> USE OAuthAssumption DEF Inv, TypeOK
<1>1. RequestsTyped'
  BY DEF Discover, Fail, Goto, requestVars, tokenVars, serverVars,
         RequestsTyped, StateTyped, WorldTyped, Grants, Stage
<1>2. LockHeld'
  BY DEF Discover, Fail, Goto, Released, requestVars, RequestsTyped, LockHeld,
         Stage
<1>3. StateTyped'
  <2>1. reply' \in [at : Grants, rt : Grants]
    BY DEF Discover, Fail, NoReply, flowVars, None, StateTyped, WorldTyped,
           Grants
  <2> QED BY <2>1 DEF Discover, tokenVars, serverVars, StateTyped, Grants
<1>4. WorldTyped'
  BY DEF Discover, Fail, flowVars, serverVars, browserVars, WorldTyped
<1>5. Registered'
  BY DEF Discover, Fail, serverVars, None, Registered, Ours, StateTyped,
         WorldTyped, Staged, Stage
<1>6. Staged'
  BY DEF Discover, Fail, Goto, requestVars, serverVars, None, Staged,
         LockHeld, RequestsTyped, Stage
<1>7. Answered'
  BY DEF Discover, Fail, Goto, requestVars, tokenVars, flowVars, serverVars,
         Answered, LockHeld, RequestsTyped, Stage
<1>8. OwnCode'
  BY DEF Discover, Fail, Goto, requestVars, flowVars, browserVars, OwnCode,
         LockHeld, RequestsTyped, Stage
<1> QED BY <1>1, <1>2, <1>3, <1>4, <1>5, <1>6, <1>7, <1>8

(* The client found in memory, configuration or storage is Ours. *)
LEMMA FindClientKeeps ==
  ASSUME Inv, NEW h \in Handler, FindClient(h)
  PROVE  Inv'
<1> USE OAuthAssumption DEF Inv, TypeOK
<1>1. RequestsTyped'
  BY DEF FindClient, Fail, Goto, requestVars, tokenVars, serverVars,
         RequestsTyped, StateTyped, WorldTyped, Grants, Stage
<1>2. LockHeld'
  BY DEF FindClient, Fail, Goto, Released, requestVars, RequestsTyped,
         LockHeld, Stage
<1>3. StateTyped'
  <2>1. reply' \in [at : Grants, rt : Grants]
    BY DEF FindClient, Fail, NoReply, flowVars, None, StateTyped, WorldTyped,
           Grants
  <2>2. client' \in 0 .. clients
    BY DEF FindClient, Registered, StateTyped, WorldTyped
  <2> QED BY <2>1, <2>2
             DEF FindClient, tokenVars, serverVars, StateTyped, Grants
<1>4. WorldTyped'
  BY DEF FindClient, Fail, flowVars, serverVars, browserVars, WorldTyped
<1>5. Registered'
  BY DEF FindClient, Fail, serverVars, None, Registered, Ours, StateTyped,
         WorldTyped, Staged, Stage
<1>6. Staged'
  BY DEF FindClient, Fail, Goto, requestVars, serverVars, None, Staged,
         LockHeld, RequestsTyped, Stage
<1>7. Answered'
  BY DEF FindClient, Fail, Goto, requestVars, tokenVars, flowVars, serverVars,
         Answered, LockHeld, RequestsTyped, Stage
<1>8. OwnCode'
  BY DEF FindClient, Fail, Goto, requestVars, flowVars, browserVars, OwnCode,
         LockHeld, RequestsTyped, Stage
<1> QED BY <1>1, <1>2, <1>3, <1>4, <1>5, <1>6, <1>7, <1>8

(* The number of the new client is the server's count of them. *)
LEMMA RegisterClientKeeps ==
  ASSUME Inv, NEW h \in Handler, RegisterClient(h)
  PROVE  Inv'
<1> USE OAuthAssumption DEF Inv, TypeOK
<1>1. RequestsTyped'
  BY DEF RegisterClient, Fail, Goto, requestVars, tokenVars, serverVars,
         RequestsTyped, StateTyped, WorldTyped, Grants, Stage
<1>2. LockHeld'
  BY DEF RegisterClient, Fail, Goto, Released, requestVars, RequestsTyped,
         LockHeld, Stage
<1>3. StateTyped'
  BY SeqLarger DEF RegisterClient, Fail, NoReply, tokenVars, flowVars,
         serverVars, None, StateTyped, WorldTyped, Grants
<1>4. WorldTyped'
  BY SeqLarger DEF RegisterClient, Fail, flowVars, serverVars, browserVars,
         WorldTyped
<1>5. Registered'
  BY SeqLarger DEF RegisterClient, Fail, serverVars, None, Registered, Ours,
         StateTyped, WorldTyped, Staged, Stage
<1>6. Staged'
  BY DEF RegisterClient, Fail, Goto, Released, None, Staged, LockHeld,
         RequestsTyped, WorldTyped, Stage
<1>7. Answered'
  BY DEF RegisterClient, Fail, Goto, requestVars, tokenVars, flowVars,
         serverVars, Answered, LockHeld, RequestsTyped, Stage
<1>8. OwnCode'
  BY DEF RegisterClient, Fail, Goto, requestVars, flowVars, browserVars,
         OwnCode, LockHeld, RequestsTyped, Stage
<1> QED BY <1>1, <1>2, <1>3, <1>4, <1>5, <1>6, <1>7, <1>8

(* Nothing was granted before a client is stored, so Ours may change. *)
LEMMA StoreClientKeeps ==
  ASSUME Inv, NEW h \in Handler, StoreClient(h)
  PROVE  Inv'
<1> USE OAuthAssumption DEF Inv, TypeOK
<1>1. RequestsTyped'
  BY DEF StoreClient, Fail, Goto, requestVars, tokenVars, serverVars,
         RequestsTyped, StateTyped, WorldTyped, Grants, Stage
<1>2. LockHeld'
  BY DEF StoreClient, Fail, Goto, Released, requestVars, RequestsTyped,
         LockHeld, Stage
<1>3. StateTyped'
  <2>1. store' \in [client : 0 .. clients, refresh : Grants]
    BY DEF StoreClient, WithClient, StateTyped, WorldTyped
  <2>2. client' \in 0 .. clients
    BY DEF StoreClient, StateTyped, WorldTyped
  <2>3. reply' \in [at : Grants, rt : Grants]
    BY DEF StoreClient, Fail, NoReply, None, flowVars, StateTyped, WorldTyped,
           Grants
  <2> QED BY <2>1, <2>2, <2>3
             DEF StoreClient, serverVars, tokenVars, StateTyped, Grants
<1>4. WorldTyped'
  BY DEF StoreClient, Fail, flowVars, serverVars, browserVars, WorldTyped
<1>5. Registered'
  BY DEF StoreClient, Fail, WithClient, serverVars, None, Registered, Ours,
         StateTyped, WorldTyped, Staged, Stage
<1>6. Staged'
  BY DEF StoreClient, Fail, Goto, WithClient, requestVars, serverVars, None,
         Staged, LockHeld, RequestsTyped, Stage
<1>7. Answered'
  BY DEF StoreClient, Fail, Goto, requestVars, tokenVars, flowVars,
         serverVars, Answered, LockHeld, RequestsTyped, Stage
<1>8. OwnCode'
  BY DEF StoreClient, Fail, Goto, requestVars, flowVars, browserVars, OwnCode,
         LockHeld, RequestsTyped, Stage
<1> QED BY <1>1, <1>2, <1>3, <1>4, <1>5, <1>6, <1>7, <1>8

(* A stored refresh token has its type. *)
LEMMA LoadRefreshKeeps ==
  ASSUME Inv, NEW h \in Handler, LoadRefresh(h)
  PROVE  Inv'
<1> USE OAuthAssumption DEF Inv, TypeOK
<1>1. RequestsTyped'
  BY DEF LoadRefresh, Fail, Goto, requestVars, tokenVars, serverVars,
         RequestsTyped, StateTyped, WorldTyped, Grants, Stage
<1>2. LockHeld'
  BY DEF LoadRefresh, Fail, Goto, Released, requestVars, RequestsTyped,
         LockHeld, Stage
<1>3. StateTyped'
  BY DEF LoadRefresh, Fail, NoReply, Loadable, tokenVars, flowVars,
         serverVars, None, StateTyped, WorldTyped, Grants
<1>4. WorldTyped'
  BY DEF LoadRefresh, Fail, flowVars, serverVars, browserVars, WorldTyped
<1>5. Registered'
  BY DEF LoadRefresh, Fail, serverVars, None, Registered, Ours, StateTyped,
         WorldTyped, Staged, Stage
<1>6. Staged'
  BY DEF LoadRefresh, Fail, Goto, requestVars, serverVars, None, Staged,
         LockHeld, RequestsTyped, Stage
<1>7. Answered'
  BY DEF LoadRefresh, Fail, Goto, requestVars, tokenVars, flowVars,
         serverVars, Answered, LockHeld, RequestsTyped, Stage
<1>8. OwnCode'
  BY DEF LoadRefresh, Fail, Goto, requestVars, flowVars, browserVars, OwnCode,
         LockHeld, RequestsTyped, Stage
<1> QED BY <1>1, <1>2, <1>3, <1>4, <1>5, <1>6, <1>7, <1>8

(* A grant on the way from one stage to the next, for both of its uses. *)
LEMMA GrantKeeps ==
  ASSUME Inv, NEW h \in Handler, NEW place \in Stage,
         \/ pc[h] = "refresh" /\ place \in {"refreshed", "fallback"}
         \/ pc[h] = "exchange" /\ place = "exchanged",
         NEW spent, Grant(spent), Goto(h, place),
         UNCHANGED <<tok, lock, metadata, client, tokenVars, refresh, code,
                     store, browserVars>>
  PROVE  Inv'
<1> USE OAuthAssumption DEF Inv, TypeOK
<1>1. client # None
  BY DEF Staged, Stage
<1>2. /\ clients' = clients /\ owner' \in Seq(1 .. clients)
      /\ Len(owner') = Len(owner) + 1
      /\ honoured' \subseteq 1 .. Len(owner')
      /\ owner'[Len(owner')] = client
      /\ \A n \in 1 .. Len(owner) : owner'[n] = owner[n]
      /\ reply' \in [at : Grants', rt : Grants'] /\ reply'.at = Len(owner')
  BY <1>1, Granting
<1>3. /\ Len(owner) \in Nat /\ Grants \subseteq Grants'
      /\ \A n \in Grants : n < Len(owner')
  BY <1>2 DEF WorldTyped, Grants
<1>4. RequestsTyped'
  BY <1>3 DEF RequestsTyped, Goto
<1>5. LockHeld'
  BY DEF LockHeld, RequestsTyped, Goto, Stage
<1>6. StateTyped'
  <2>1. store' \in [client : 0 .. clients', refresh : Grants']
    BY <1>2, <1>3 DEF StateTyped
  <2> QED BY <2>1, <1>2, <1>3 DEF StateTyped, tokenVars
<1>7. WorldTyped'
  BY <1>2 DEF WorldTyped, browserVars
<1>8. Registered'
  <2>1. Ours' = Ours /\ client = Ours
    BY <1>1 DEF Registered, Ours
  <2>2. \A n \in 1 .. Len(owner') : n \in 1 .. Len(owner) \/ n = Len(owner')
    BY <1>2, <1>3
  <2> QED BY <2>1, <2>2, <1>2 DEF Registered
<1>9. Staged'
  BY DEF Staged, LockHeld, RequestsTyped, Stage, Goto
<1>10. Answered'
  <2>1. access' < reply'.at /\ \A k \in Handler : tok'[k] < reply'.at
    BY <1>2, <1>3 DEF StateTyped, RequestsTyped, tokenVars
  <2>2. reply'.at # None
    BY <1>2, <1>3 DEF None
  <2>3. \A k \in Handler : pc'[k] \in Stage \cup {"idle", "queued"} =>
          pc[k] \in Stage \cup {"idle", "queued"}
    BY DEF RequestsTyped, Goto, Stage
  <2> QED BY <2>1, <2>2, <2>3, <1>2 DEF Answered
<1>11. OwnCode'
  BY DEF OwnCode, LockHeld, RequestsTyped, Stage, Goto, browserVars
<1> QED BY <1>4, <1>5, <1>6, <1>7, <1>8, <1>9, <1>10, <1>11

(* The token is refreshed or the request falls back. *)
LEMMA RefreshKeeps ==
  ASSUME Inv, NEW h \in Handler, Refresh(h)
  PROVE  Inv'
<1> USE OAuthAssumption DEF Inv, TypeOK
<1>1. CASE Grant(refresh)
  BY <1>1, GrantKeeps DEF Refresh, Stage
<1>2. CASE Goto(h, "fallback") /\ UNCHANGED <<serverVars, reply>>
  <2> USE <1>2 DEF Refresh, Goto, serverVars, browserVars, tokenVars
  <2>1. RequestsTyped'
    BY DEF RequestsTyped, Stage, Grants
  <2>2. LockHeld'
    BY DEF LockHeld, RequestsTyped, Stage
  <2>3. StateTyped'
    BY DEF StateTyped, Grants
  <2>4. WorldTyped'
    BY DEF WorldTyped
  <2>5. Registered'
    BY DEF Registered, Ours
  <2>6. Staged'
    BY DEF Staged, RequestsTyped, Stage
  <2>7. Answered'
    BY DEF Answered, RequestsTyped, Stage
  <2>8. OwnCode'
    BY DEF OwnCode, RequestsTyped
  <2> QED BY <2>1, <2>2, <2>3, <2>4, <2>5, <2>6, <2>7, <2>8
<1> QED BY <1>1, <1>2 DEF Refresh

(* The refreshed tokens are stored and cached. *)
LEMMA StoreRefreshedKeeps ==
  ASSUME Inv, NEW h \in Handler, StoreRefreshed(h)
  PROVE  Inv'
<1> USE OAuthAssumption DEF Inv, TypeOK
<1>1. RequestsTyped'
  BY DEF StoreRefreshed, Install, Give, Goto, WithRefresh, requestVars,
         tokenVars, serverVars, RequestsTyped, StateTyped, WorldTyped, Grants,
         Stage
<1>2. LockHeld'
  BY DEF StoreRefreshed, Install, Give, Goto, Released, requestVars,
         RequestsTyped, LockHeld, Stage
<1>3. StateTyped'
  BY DEF StoreRefreshed, Install, Give, NoReply, WithRefresh, tokenVars,
         flowVars, serverVars, None, StateTyped, WorldTyped, Grants
<1>4. WorldTyped'
  BY DEF StoreRefreshed, Install, Give, flowVars, serverVars, browserVars,
         WorldTyped
<1>5. Registered'
  BY DEF StoreRefreshed, WithRefresh, serverVars, None, Registered, Ours,
         StateTyped, WorldTyped, Staged, Stage
<1>6. Staged'
  BY DEF StoreRefreshed, Install, Give, Goto, WithRefresh, requestVars,
         serverVars, None, Staged, LockHeld, RequestsTyped, Stage
<1>7. Answered'
  BY DEF StoreRefreshed, Install, Give, Goto, requestVars, tokenVars,
         flowVars, serverVars, Answered, LockHeld, RequestsTyped, Stage
<1>8. OwnCode'
  BY DEF StoreRefreshed, Install, Give, Goto, requestVars, flowVars,
         browserVars, OwnCode, LockHeld, RequestsTyped, Stage
<1> QED BY <1>1, <1>2, <1>3, <1>4, <1>5, <1>6, <1>7, <1>8

(* The refresh token is dropped. *)
LEMMA FallbackKeeps ==
  ASSUME Inv, NEW h \in Handler, Fallback(h)
  PROVE  Inv'
<1> USE OAuthAssumption DEF Inv, TypeOK
<1>1. RequestsTyped'
  BY DEF Fallback, Goto, requestVars, tokenVars, serverVars, RequestsTyped,
         StateTyped, WorldTyped, Grants, Stage
<1>2. LockHeld'
  BY DEF Fallback, Goto, requestVars, RequestsTyped, LockHeld, Stage
<1>3. StateTyped'
  BY DEF Fallback, NoReply, WithoutRefresh, tokenVars, flowVars, serverVars,
         None, StateTyped, WorldTyped, Grants
<1>4. WorldTyped'
  BY DEF Fallback, flowVars, serverVars, browserVars, WorldTyped
<1>5. Registered'
  BY DEF Fallback, WithoutRefresh, serverVars, None, Registered, Ours,
         StateTyped, WorldTyped, Staged, Stage
<1>6. Staged'
  BY DEF Fallback, Goto, WithoutRefresh, requestVars, serverVars, None,
         Staged, LockHeld, RequestsTyped, Stage
<1>7. Answered'
  BY DEF Fallback, Goto, requestVars, tokenVars, flowVars, serverVars,
         Answered, LockHeld, RequestsTyped, Stage
<1>8. OwnCode'
  BY DEF Fallback, Goto, requestVars, flowVars, browserVars, OwnCode,
         LockHeld, RequestsTyped, Stage
<1> QED BY <1>1, <1>2, <1>3, <1>4, <1>5, <1>6, <1>7, <1>8

(* A flow gets the next number. *)
LEMMA AuthorizeKeeps ==
  ASSUME Inv, NEW h \in Handler, Authorize(h)
  PROVE  Inv'
<1> USE OAuthAssumption DEF Inv, TypeOK
<1>1. RequestsTyped'
  BY DEF Authorize, Fail, Goto, requestVars, tokenVars, serverVars,
         RequestsTyped, StateTyped, WorldTyped, Grants, Stage
<1>2. LockHeld'
  BY DEF Authorize, Fail, Goto, Released, requestVars, RequestsTyped,
         LockHeld, Stage
<1>3. StateTyped'
  BY DEF Authorize, Fail, NoReply, tokenVars, flowVars, serverVars, None,
         StateTyped, WorldTyped, Grants
<1>4. WorldTyped'
  <2>1. clients' \in Nat
    BY DEF Authorize, Fail, flowVars, serverVars, browserVars, WorldTyped
  <2>2. owner' \in Seq(1 .. clients')
    BY DEF Authorize, Fail, flowVars, serverVars, browserVars, WorldTyped
  <2>3. honoured' \subseteq 1 .. Len(owner')
    BY DEF Authorize, Fail, flowVars, serverVars, browserVars, WorldTyped
  <2>4. flows' \in Nat
    BY DEF Authorize, Fail, flowVars, serverVars, browserVars, WorldTyped
  <2>5. tabs' \subseteq 1 .. flows' /\ code' \in 0 .. flows'
    <3>1. /\ flows \in Nat /\ tabs \subseteq 1 .. flows
          /\ 1 .. flows \subseteq 1 .. flows + 1 /\ flows + 1 \in 1 .. flows + 1
      BY DEF WorldTyped
    <3>2. CASE flows' = flows + 1 /\ tabs' = tabs \cup {flows + 1}
      BY <3>1, <3>2 DEF Authorize, Fail, flowVars, WorldTyped
    <3>3. CASE UNCHANGED browserVars
      BY <3>1, <3>3 DEF Authorize, Fail, flowVars, browserVars, WorldTyped
    <3> QED BY <3>2, <3>3 DEF Authorize
  <2> QED BY <2>1, <2>2, <2>3, <2>4, <2>5 DEF WorldTyped
<1>5. Registered'
  BY DEF Authorize, Fail, serverVars, None, Registered, Ours, StateTyped,
         WorldTyped, Staged, Stage
<1>6. Staged'
  BY DEF Authorize, Fail, Goto, requestVars, serverVars, None, Staged,
         LockHeld, RequestsTyped, Stage
<1>7. Answered'
  BY DEF Authorize, Fail, Goto, requestVars, tokenVars, flowVars, serverVars,
         Answered, LockHeld, RequestsTyped, Stage
<1>8. OwnCode'
  BY DEF Authorize, Fail, Goto, requestVars, flowVars, browserVars, OwnCode,
         LockHeld, RequestsTyped, Stage
<1> QED BY <1>1, <1>2, <1>3, <1>4, <1>5, <1>6, <1>7, <1>8

(* A callback that fits carries the code of the newest flow. *)
LEMMA CallbackKeeps ==
  ASSUME Inv, NEW h \in Handler, Callback(h)
  PROVE  Inv'
<1> USE OAuthAssumption DEF Inv, TypeOK
<1>1. RequestsTyped'
  BY DEF Callback, Fail, Goto, requestVars, tokenVars, serverVars,
         RequestsTyped, StateTyped, WorldTyped, Grants, Stage
<1>2. LockHeld'
  BY DEF Callback, Fail, Goto, Released, requestVars, RequestsTyped, LockHeld,
         Stage
<1>3. StateTyped'
  BY DEF Callback, Fail, NoReply, tokenVars, flowVars, serverVars, None,
         StateTyped, WorldTyped, Grants
<1>4. WorldTyped'
  <2>1. clients' \in Nat
    BY DEF Callback, Fail, StateFits, flowVars, serverVars, browserVars,
           WorldTyped
  <2>2. owner' \in Seq(1 .. clients')
    BY DEF Callback, Fail, StateFits, flowVars, serverVars, browserVars,
           WorldTyped
  <2>3. honoured' \subseteq 1 .. Len(owner')
    BY DEF Callback, Fail, StateFits, flowVars, serverVars, browserVars,
           WorldTyped
  <2>4. flows' \in Nat
    BY DEF Callback, Fail, StateFits, flowVars, serverVars, browserVars,
           WorldTyped
  <2>5. tabs' \subseteq 1 .. flows' /\ code' \in 0 .. flows'
    <3>1. tabs' \subseteq tabs /\ code' \in tabs \cup {0, code}
      BY DEF Callback, Fail
    <3> QED BY <3>1 DEF Callback, WorldTyped
  <2> QED BY <2>1, <2>2, <2>3, <2>4, <2>5 DEF WorldTyped
<1>5. Registered'
  BY DEF Callback, Fail, serverVars, None, Registered, Ours, StateTyped,
         WorldTyped, Staged, Stage
<1>6. Staged'
  BY DEF Callback, Fail, Goto, requestVars, serverVars, None, Staged,
         LockHeld, RequestsTyped, Stage
<1>7. Answered'
  BY DEF Callback, Fail, Goto, requestVars, tokenVars, flowVars, serverVars,
         Answered, LockHeld, RequestsTyped, Stage
<1>8. OwnCode'
  BY DEF Callback, Fail, Goto, StateFits, requestVars, flowVars, browserVars,
         OwnCode, LockHeld, RequestsTyped, Stage
<1> QED BY <1>1, <1>2, <1>3, <1>4, <1>5, <1>6, <1>7, <1>8

(* The code is exchanged for a grant, or the request fails, and the grant  *)
(* it did not hear of is of the same client.                               *)
LEMMA ExchangeKeeps ==
  ASSUME Inv, NEW h \in Handler, Exchange(h)
  PROVE  Inv'
<1> USE OAuthAssumption DEF Inv, TypeOK
<1>1. CASE Grant(None) /\ Goto(h, "exchanged") /\ UNCHANGED <<tok, lock, code>>
  BY <1>1, GrantKeeps DEF Exchange, Stage
<1>2. CASE Fail(h) /\ (UNCHANGED serverVars \/ \E with \in BOOLEAN : Issue(None, with))
  <2>0. /\ clients' = clients /\ owner' \in Seq(1 .. clients)
        /\ Len(owner) \in Nat /\ Len(owner) <= Len(owner')
        /\ honoured' \subseteq 1 .. Len(owner')
        /\ \A n \in 1 .. Len(owner') :
             \/ n \in 1 .. Len(owner) /\ owner'[n] = owner[n]
             \/ owner'[n] = client
    <3>1. CASE UNCHANGED serverVars
      BY <3>1 DEF serverVars, WorldTyped
    <3>2. CASE \E with \in BOOLEAN : Issue(None, with)
      <4>1. client # None
        BY DEF Exchange, Staged, Stage
      <4>2. /\ clients' = clients /\ owner' \in Seq(1 .. clients)
            /\ Len(owner) \in Nat /\ Len(owner') = Len(owner) + 1
            /\ honoured' \subseteq 1 .. Len(owner')
            /\ owner'[Len(owner')] = client
            /\ \A n \in 1 .. Len(owner) : owner'[n] = owner[n]
        BY <3>2, <4>1, Issuing
      <4> QED BY <4>2
    <3> QED BY <1>2, <3>1, <3>2
  <2>a. Grants \subseteq Grants' /\ client # None /\ client = Ours
    BY <2>0 DEF Grants, Exchange, Staged, Stage, Registered
  <2>b. \A m, n \in Nat : m <= n => 1 .. m \subseteq 1 .. n
    OBVIOUS
  <2> USE <1>2 DEF Exchange, Fail, Goto, Released, NoReply, browserVars, tokenVars
  <2>1. RequestsTyped'
    BY <2>a DEF RequestsTyped
  <2>2. LockHeld'
    BY DEF LockHeld, RequestsTyped, Stage
  <2>3. StateTyped'
    <3>1. reply' \in [at : Grants', rt : Grants']
      BY <2>0, <2>a DEF Grants, None
    <3>2. store' \in [client : 0 .. clients', refresh : Grants']
      BY <2>0, <2>a DEF StateTyped
    <3> QED BY <2>0, <2>a, <3>1, <3>2 DEF StateTyped
  <2>4. WorldTyped'
    BY <2>0 DEF WorldTyped
  <2>5. Registered'
    BY <2>0, <2>a DEF Registered, Ours
  <2>6. Staged'
    BY DEF Staged, RequestsTyped, Stage
  <2>7. Answered'
    BY DEF Answered, RequestsTyped, LockHeld, Stage
  <2>8. OwnCode'
    BY DEF OwnCode, RequestsTyped, LockHeld, Stage
  <2> QED BY <2>1, <2>2, <2>3, <2>4, <2>5, <2>6, <2>7, <2>8
<1> QED BY <1>1, <1>2 DEF Exchange

(* The granted tokens are stored and cached. *)
LEMMA StoreGrantedKeeps ==
  ASSUME Inv, NEW h \in Handler, StoreGranted(h)
  PROVE  Inv'
<1> USE OAuthAssumption DEF Inv, TypeOK
<1>1. RequestsTyped'
  BY DEF StoreGranted, Install, Give, Fail, Goto, WithRefresh, requestVars,
         tokenVars, serverVars, RequestsTyped, StateTyped, WorldTyped, Grants,
         Stage
<1>2. LockHeld'
  BY DEF StoreGranted, Install, Give, Fail, Goto, Released, requestVars,
         RequestsTyped, LockHeld, Stage
<1>3. StateTyped'
  <2>1. reply' \in [at : Grants, rt : Grants]
    BY DEF StoreGranted, Install, Fail, NoReply, None, StateTyped, WorldTyped,
           Grants
  <2>2. store' \in [client : 0 .. clients, refresh : Grants]
    BY DEF StoreGranted, WithRefresh, StateTyped
  <2>3. access' \in Grants /\ refresh' \in Grants /\ fresh' \in BOOLEAN
    BY DEF StoreGranted, Install, tokenVars, StateTyped
  <2> QED BY <2>1, <2>2, <2>3 DEF StoreGranted, serverVars, StateTyped, Grants
<1>4. WorldTyped'
  BY DEF StoreGranted, Install, Give, Fail, flowVars, serverVars, browserVars,
         WorldTyped
<1>5. Registered'
  BY DEF StoreGranted, Fail, WithRefresh, serverVars, None, Registered, Ours,
         StateTyped, WorldTyped, Staged, Stage
<1>6. Staged'
  BY DEF StoreGranted, Install, Give, Fail, Goto, WithRefresh, requestVars,
         serverVars, None, Staged, LockHeld, RequestsTyped, Stage
<1>7. Answered'
  BY DEF StoreGranted, Install, Give, Fail, Goto, requestVars, tokenVars,
         flowVars, serverVars, Answered, LockHeld, RequestsTyped, Stage
<1>8. OwnCode'
  BY DEF StoreGranted, Install, Give, Fail, Goto, requestVars, flowVars,
         browserVars, OwnCode, LockHeld, RequestsTyped, Stage
<1> QED BY <1>1, <1>2, <1>3, <1>4, <1>5, <1>6, <1>7, <1>8

(* Forwarding leaves the strategy alone. *)
LEMMA ForwardKeeps ==
  ASSUME Inv, NEW h \in Handler, Forward(h)
  PROVE  Inv'
<1> USE OAuthAssumption DEF Inv, TypeOK
<1>1. RequestsTyped'
  BY DEF Forward, Goto, requestVars, tokenVars, serverVars, RequestsTyped,
         StateTyped, WorldTyped, Grants, Stage
<1>2. LockHeld'
  BY DEF Forward, Goto, requestVars, RequestsTyped, LockHeld, Stage
<1>3. StateTyped'
  BY DEF Forward, tokenVars, flowVars, serverVars, None, StateTyped,
         WorldTyped, Grants
<1>4. WorldTyped'
  BY DEF Forward, flowVars, serverVars, browserVars, WorldTyped
<1>5. Registered'
  BY DEF Forward, serverVars, None, Registered, Ours, StateTyped, WorldTyped,
         Staged, Stage
<1>6. Staged'
  BY DEF Forward, Goto, requestVars, serverVars, None, Staged, LockHeld,
         RequestsTyped, Stage
<1>7. Answered'
  BY DEF Forward, Goto, requestVars, tokenVars, flowVars, serverVars,
         Answered, LockHeld, RequestsTyped, Stage
<1>8. OwnCode'
  BY DEF Forward, Goto, requestVars, flowVars, browserVars, OwnCode, LockHeld,
         RequestsTyped, Stage
<1> QED BY <1>1, <1>2, <1>3, <1>4, <1>5, <1>6, <1>7, <1>8

(* An eviction empties the cache. *)
LEMMA HandleUnauthorizedKeeps ==
  ASSUME Inv, NEW h \in Handler, HandleUnauthorized(h)
  PROVE  Inv'
<1> USE OAuthAssumption DEF Inv, TypeOK
<1>1. RequestsTyped'
  BY DEF HandleUnauthorized, Goto, requestVars, tokenVars, serverVars,
         RequestsTyped, StateTyped, WorldTyped, Grants, Stage
<1>2. LockHeld'
  BY DEF HandleUnauthorized, Goto, requestVars, RequestsTyped, LockHeld, Stage
<1>3. StateTyped'
  BY DEF HandleUnauthorized, Evicted, tokenVars, flowVars, serverVars, None,
         StateTyped, WorldTyped, Grants
<1>4. WorldTyped'
  BY DEF HandleUnauthorized, flowVars, serverVars, browserVars, WorldTyped
<1>5. Registered'
  BY DEF HandleUnauthorized, serverVars, None, Registered, Ours, StateTyped,
         WorldTyped, Staged, Stage
<1>6. Staged'
  BY DEF HandleUnauthorized, Goto, requestVars, serverVars, None, Staged,
         LockHeld, RequestsTyped, Stage
<1>7. Answered'
  BY DEF HandleUnauthorized, Goto, Evicted, requestVars, tokenVars, flowVars,
         serverVars, None, Answered, LockHeld, RequestsTyped, StateTyped,
         WorldTyped, Grants, Stage
<1>8. OwnCode'
  BY DEF HandleUnauthorized, Goto, requestVars, flowVars, browserVars,
         OwnCode, LockHeld, RequestsTyped, Stage
<1> QED BY <1>1, <1>2, <1>3, <1>4, <1>5, <1>6, <1>7, <1>8

(* A dropped handler releases the lock wherever it was. *)
LEMMA DisconnectKeeps ==
  ASSUME Inv, NEW h \in Handler, Disconnect(h)
  PROVE  Inv'
<1> USE OAuthAssumption DEF Inv, TypeOK
<1>1. RequestsTyped'
  BY DEF Disconnect, Goto, requestVars, tokenVars, serverVars, RequestsTyped,
         StateTyped, WorldTyped, Grants, Stage
<1>2. LockHeld'
  BY DEF Disconnect, Goto, Released, requestVars, RequestsTyped, LockHeld,
         Stage
<1>3. StateTyped'
  <2>1. store' \in [client : 0 .. clients, refresh : Grants]
    BY Unfinishing DEF Disconnect, StateTyped
  <2>2. refresh' \in Grants /\ None \in Grants
    BY DEF Disconnect, StateTyped, WorldTyped, Grants, None
  <2> QED BY <2>1, <2>2 DEF Disconnect, NoReply, tokenVars, flowVars,
                            serverVars, StateTyped, Grants
<1>4. WorldTyped'
  BY DEF Disconnect, flowVars, serverVars, browserVars, WorldTyped
<1>5. Registered'
  BY Unfinishing DEF Disconnect, serverVars, None, Registered, Ours,
         StateTyped, WorldTyped, Staged, Stage
<1>6. Staged'
  BY DEF Disconnect, Goto, requestVars, serverVars, None, Staged, LockHeld,
         RequestsTyped, Stage
<1>7. Answered'
  BY DEF Disconnect, Goto, requestVars, tokenVars, flowVars, serverVars,
         Answered, LockHeld, RequestsTyped, Stage
<1>8. OwnCode'
  BY DEF Disconnect, Goto, requestVars, flowVars, browserVars, OwnCode,
         LockHeld, RequestsTyped, Stage
<1> QED BY <1>1, <1>2, <1>3, <1>4, <1>5, <1>6, <1>7, <1>8

(* A restart forgets everything but the storage. *)
LEMMA RestartKeeps ==
  ASSUME Inv, Restart
  PROVE  Inv'
<1> USE OAuthAssumption DEF Inv, TypeOK
<1>0. \/ store' = store
      \/ /\ store' \in [client : 0 .. clients, refresh : Grants]
         /\ \/ store'.client = store.client
            \/ ~Configured /\ client = None /\ Len(owner) = 0
  <2>1. CASE lock = Nobody
    BY <2>1 DEF Restart
  <2>2. CASE lock \in Handler /\ store' \in Unfinished(lock)
    BY <2>2, Unfinishing
  <2> QED BY <2>1, <2>2 DEF Restart, LockHeld
<1>1. RequestsTyped'
  BY DEF Restart, Goto, requestVars, tokenVars, serverVars, RequestsTyped,
         StateTyped, WorldTyped, Grants, Stage
<1>2. LockHeld'
  BY DEF Restart, Goto, Released, requestVars, RequestsTyped, LockHeld, Stage
<1>3. StateTyped'
  <2>1. metadata' \in BOOLEAN /\ fresh' \in BOOLEAN
    BY Unfinishing DEF Restart, NoReply, tokenVars, flowVars, serverVars,
           None, StateTyped, WorldTyped, Grants
  <2>2. client' \in 0 .. clients'
    BY Unfinishing DEF Restart, NoReply, tokenVars, flowVars, serverVars,
           None, StateTyped, WorldTyped, Grants
  <2>3. access' \in Grants' /\ refresh' \in Grants'
    BY Unfinishing DEF Restart, NoReply, tokenVars, flowVars, serverVars,
           None, StateTyped, WorldTyped, Grants
  <2>4. reply' \in [at : Grants', rt : Grants']
    BY Unfinishing DEF Restart, NoReply, tokenVars, flowVars, serverVars,
           None, StateTyped, WorldTyped, Grants
  <2>5. store' \in [client : 0 .. clients', refresh : Grants']
    <3>1. store' \in [client : 0 .. clients, refresh : Grants]
      BY <1>0 DEF StateTyped
    <3> QED BY <3>1 DEF Restart, serverVars, Grants
  <2> QED BY <2>1, <2>2, <2>3, <2>4, <2>5 DEF StateTyped
<1>4. WorldTyped'
  BY DEF Restart, flowVars, serverVars, browserVars, WorldTyped
<1>5. Registered'
  <2>1. Ours' = Ours \/ Len(owner) = 0
    BY <1>0 DEF Ours
  <2> QED BY <2>1 DEF Registered, Restart, serverVars
<1>6. Staged'
  BY DEF Restart, Goto, requestVars, serverVars, None, Staged, LockHeld,
         RequestsTyped, Stage
<1>7. Answered'
  BY DEF Restart, Goto, requestVars, tokenVars, flowVars, serverVars, None,
         Answered, LockHeld, RequestsTyped, StateTyped, WorldTyped, Grants,
         Stage
<1>8. OwnCode'
  BY DEF Restart, Goto, requestVars, flowVars, browserVars, OwnCode, LockHeld,
         RequestsTyped, Stage
<1> QED BY <1>1, <1>2, <1>3, <1>4, <1>5, <1>6, <1>7, <1>8

(* Expiry changes one flag. *)
LEMMA ExpireKeeps ==
  ASSUME Inv, Expire
  PROVE  Inv'
<1> USE OAuthAssumption DEF Inv, TypeOK
<1>1. RequestsTyped'
  BY DEF Expire, requestVars, tokenVars, serverVars, RequestsTyped,
         StateTyped, WorldTyped, Grants, Stage
<1>2. LockHeld'
  BY DEF Expire, requestVars, RequestsTyped, LockHeld, Stage
<1>3. StateTyped'
  BY DEF Expire, tokenVars, flowVars, serverVars, None, StateTyped,
         WorldTyped, Grants
<1>4. WorldTyped'
  BY DEF Expire, flowVars, serverVars, browserVars, WorldTyped
<1>5. Registered'
  BY DEF Expire, serverVars, None, Registered, Ours, StateTyped, WorldTyped,
         Staged, Stage
<1>6. Staged'
  BY DEF Expire, requestVars, serverVars, None, Staged, LockHeld,
         RequestsTyped, Stage
<1>7. Answered'
  BY DEF Expire, requestVars, tokenVars, flowVars, serverVars, Answered,
         LockHeld, RequestsTyped, Stage
<1>8. OwnCode'
  BY DEF Expire, requestVars, flowVars, browserVars, OwnCode, LockHeld,
         RequestsTyped, Stage
<1> QED BY <1>1, <1>2, <1>3, <1>4, <1>5, <1>6, <1>7, <1>8

(* The server forgets a refresh token. *)
LEMMA RevokeKeeps ==
  ASSUME Inv, Revoke
  PROVE  Inv'
<1> USE OAuthAssumption DEF Inv, TypeOK
<1>1. RequestsTyped'
  BY DEF Revoke, requestVars, tokenVars, serverVars, RequestsTyped,
         StateTyped, WorldTyped, Grants, Stage
<1>2. LockHeld'
  BY DEF Revoke, requestVars, RequestsTyped, LockHeld, Stage
<1>3. StateTyped'
  BY DEF Revoke, tokenVars, flowVars, serverVars, None, StateTyped,
         WorldTyped, Grants
<1>4. WorldTyped'
  BY DEF Revoke, flowVars, serverVars, browserVars, WorldTyped
<1>5. Registered'
  BY DEF Revoke, serverVars, None, Registered, Ours, StateTyped, WorldTyped,
         Staged, Stage
<1>6. Staged'
  BY DEF Revoke, requestVars, serverVars, None, Staged, LockHeld,
         RequestsTyped, Stage
<1>7. Answered'
  BY DEF Revoke, requestVars, tokenVars, flowVars, serverVars, Answered,
         LockHeld, RequestsTyped, Stage
<1>8. OwnCode'
  BY DEF Revoke, requestVars, flowVars, browserVars, OwnCode, LockHeld,
         RequestsTyped, Stage
<1> QED BY <1>1, <1>2, <1>3, <1>4, <1>5, <1>6, <1>7, <1>8

-----------------------------------------------------------------------------
(* The invariant holds initially. *)
LEMMA InitInv ==
  ASSUME Init
  PROVE  Inv
<1> USE OAuthAssumption DEF Init
<1>1. Len(owner) = 0 /\ clients \in Nat /\ owner \in Seq(1 .. clients)
  OBVIOUS
<1>2. RequestsTyped /\ LockHeld
  BY <1>1 DEF RequestsTyped, LockHeld, Grants, None, Stage
<1>3. StateTyped
  <2>1. 0 \in 0 .. clients /\ 0 \in Grants
    BY <1>1 DEF Grants
  <2> QED BY <2>1 DEF StateTyped, NoReply, None
<1>4. WorldTyped
  BY <1>1 DEF WorldTyped
<1>5. Registered
  BY <1>1 DEF Registered, None
<1>6. Staged /\ Answered /\ OwnCode
  BY DEF Staged, Answered, OwnCode, Stage
<1> QED BY <1>2, <1>3, <1>4, <1>5, <1>6 DEF Inv, TypeOK

(* Every step keeps the invariant. *)
LEMMA NextInv ==
  ASSUME Inv, [Next]_vars
  PROVE  Inv'
<1>1. ASSUME NEW h \in Handler, Begin(h)
      PROVE  Inv'
  BY <1>1, BeginKeeps
<1>2. ASSUME NEW h \in Handler, Continue(h)
      PROVE  Inv'
  <2>1. ASSUME EnsureToken(h)
        PROVE  Inv'
    BY <2>1, DiscoverKeeps, FindClientKeeps, RegisterClientKeeps,
       StoreClientKeeps, LoadRefreshKeeps, RefreshKeeps, StoreRefreshedKeeps,
       FallbackKeeps, AuthorizeKeeps, CallbackKeeps, ExchangeKeeps,
       StoreGrantedKeeps
       DEF EnsureToken
  <2> QED BY <1>2, <2>1, EnterKeeps, ForwardKeeps, HandleUnauthorizedKeeps
             DEF Continue
<1>3. ASSUME NEW h \in Handler, Disconnect(h)
      PROVE  Inv'
  BY <1>3, DisconnectKeeps
<1>4. ASSUME Restart \/ Expire \/ Revoke
      PROVE  Inv'
  BY <1>4, RestartKeeps, ExpireKeeps, RevokeKeeps
<1>5. ASSUME UNCHANGED vars
      PROVE  Inv'
  BY <1>5
     DEF vars, requestVars, tokenVars, flowVars, serverVars, browserVars, Inv,
         TypeOK, RequestsTyped, LockHeld, StateTyped, WorldTyped, Grants,
         Registered, Ours, Staged, Answered, OwnCode
<1> QED BY <1>1, <1>2, <1>3, <1>4, <1>5 DEF Next, Finished

(* The invariant holds in every behaviour. *)
THEOREM Invariance == Spec => []Inv
<1>1. Init => Inv
  BY InitInv
<1>2. Inv /\ [Next]_vars => Inv'
  BY NextInv
<1> QED BY <1>1, <1>2, PTL DEF Spec

(* Types, and the write lock with the one request that is under it. *)
THEOREM TypeCorrect == Spec => []TypeOK
<1>1. Inv => TypeOK
  BY DEF Inv
<1> QED BY <1>1, Invariance, PTL

(* However the proxy crashes, fails or is left between its calls, a refresh *)
(* token is used with the client it was issued to.                         *)
THEOREM RefreshTokensOfClient == Spec => []TokenOfClient
<1>1. ASSUME Inv
      PROVE  TokenOfClient
  <2>1. \A n \in Grants : n # None => owner[n] = Ours
    BY <1>1 DEF Inv, TypeOK, WorldTyped, Registered, Grants, None
  <2>2. refresh \in Grants /\ store.refresh \in Grants
    BY <1>1 DEF Inv, TypeOK, StateTyped
  <2>3. client # None => client = Ours
    BY <1>1 DEF Inv, Registered
  <2>4. \A h \in Handler :
          pc[h] = "refresh" => client # None /\ refresh # None
    BY <1>1 DEF Inv, Staged, Stage
  <2> QED BY <2>1, <2>2, <2>3, <2>4 DEF TokenOfClient, Ours
<1> QED BY <1>1, Invariance, PTL

(* The code of an abandoned tab is never exchanged. *)
THEOREM CodesOfOwnFlow == Spec => []ExchangesOwnCode
<1>1. Inv => ExchangesOwnCode
  BY DEF Inv, TypeOK, LockHeld, OwnCode, ExchangesOwnCode, Stage
<1> QED BY <1>1, Invariance, PTL

(* Every step is a step of the cache, or leaves it alone. *)
LEMMA ImplementsStep ==
  ASSUME Inv, [Next]_vars
  PROVE  [Cache!Next]_Cache!cvars
<1> USE OAuthAssumption DEF Inv, TypeOK, RequestsTyped, LockHeld, Stage
<1> DEFINE C == [Cache!Next]_Cache!cvars
<1>1. ASSUME NEW h \in Handler, Begin(h)
      PROVE  C
  <2>1. CASE Usable /\ Give(h, access)
    <3>1. Cache!Hit(h)
      BY <1>1, <2>1 DEF Begin, Give, Goto, Released, Cache!Hit, Cache!Usable,
         Usable, Answered, tokenVars
    <3> QED BY <3>1 DEF Cache!Next
  <2>2. CASE UNCHANGED <<tok, lock>>
    BY <1>1, <2>2 DEF Begin, Cache!cvars, tokenVars
  <2> QED BY <1>1, <2>1, <2>2 DEF Begin
<1>2. ASSUME NEW h \in Handler, Enter(h)
      PROVE  C
  <2>1. CASE StillUsable /\ Give(h, access)
    <3>1. Cache!Hit(h)
      BY <1>2, <2>1 DEF Enter, Give, Goto, Released, StillUsable, Cache!Hit,
         Cache!Usable, Usable, Answered, tokenVars
    <3> QED BY <3>1 DEF Cache!Next
  <2>2. CASE ~StillUsable /\ lock' = h /\ UNCHANGED tok
    <3>1. Cache!Fetch(h)
      BY <1>2, <2>2 DEF Enter, StillUsable, Cache!Fetch, Cache!Usable, Usable,
         Answered, tokenVars
    <3> QED BY <3>1 DEF Cache!Next
  <2> QED BY <1>2, <2>1, <2>2 DEF Enter
<1>3. ASSUME NEW h \in Handler, Fail(h), UNCHANGED tokenVars, lock = h
      PROVE  C
  <2>1. Cache!GiveUp(h)
    BY <1>3 DEF Fail, Released, Cache!GiveUp, tokenVars
  <2> QED BY <2>1 DEF Cache!Next
<1>4. ASSUME NEW h \in Handler, Install(h), lock = h,
             pc[h] \in {"refreshed", "exchanged"}
      PROVE  C
  <2>1. /\ reply.at # None /\ access < reply.at
        /\ \A k \in Handler : tok[k] < reply.at
    BY <1>4 DEF Answered
  <2>2. access' = reply.at /\ tok' = [tok EXCEPT ![h] = reply.at]
    BY <1>4 DEF Install, Give
  <2>3. access' \in Nat /\ access' # None /\ access' # access
    BY <2>1, <2>2 DEF StateTyped, Grants, WorldTyped, None
  <2>4. access' \notin {tok[k] : k \in Handler}
    BY <2>1, <2>2 DEF StateTyped, Grants, WorldTyped
  <2>5. Cache!Fetched(h)
    BY <1>4, <2>2, <2>3, <2>4 DEF Install, Give, Released, Cache!Fetched
  <2> QED BY <2>5 DEF Cache!Next
<1>5. ASSUME NEW h \in Handler, EnsureToken(h)
      PROVE  C
  <2>1. lock = h
    BY <1>5 DEF EnsureToken, Discover, FindClient, RegisterClient,
           StoreClient,
       LoadRefresh, Refresh, StoreRefreshed, Fallback, Authorize, Callback,
       Exchange, StoreGranted
  <2>2. \/ UNCHANGED <<tok, lock, access, fresh>>
        \/ Fail(h) /\ UNCHANGED tokenVars
        \/ Install(h) /\ pc[h] \in {"refreshed", "exchanged"}
    BY <1>5 DEF EnsureToken, Discover, FindClient, RegisterClient,
           StoreClient,
       LoadRefresh, Refresh, StoreRefreshed, Fallback, Authorize, Callback,
       Exchange, StoreGranted, tokenVars
  <2> QED BY <1>3, <1>4, <2>1, <2>2 DEF Cache!cvars
<1>6. ASSUME NEW h \in Handler, Forward(h)
      PROVE  C
  BY <1>6 DEF Forward, tokenVars, Cache!cvars
<1>7. ASSUME NEW h \in Handler, HandleUnauthorized(h)
      PROVE  C
  <2>1. Cache!Evict
    BY <1>7 DEF HandleUnauthorized, Evicted, Cache!Evict
  <2> QED BY <2>1 DEF Cache!Next
<1>8. ASSUME NEW h \in Handler, Disconnect(h)
      PROVE  C
  <2>1. CASE pc[h] \in Stage
    <3>1. Cache!GiveUp(h)
      BY <1>8, <2>1 DEF Disconnect, Released, Cache!GiveUp, tokenVars
    <3> QED BY <3>1 DEF Cache!Next
  <2>2. CASE pc[h] \notin Stage
    BY <1>8, <2>2 DEF Disconnect, Cache!cvars, tokenVars
  <2> QED BY <2>1, <2>2
<1>9. ASSUME Restart
      PROVE  C
  <2>1. Cache!Restart
    BY <1>9 DEF Restart, Cache!Restart
  <2> QED BY <2>1 DEF Cache!Next
<1>10. ASSUME Expire
       PROVE  C
  <2>1. Cache!Ages
    BY <1>10 DEF Expire, Cache!Ages, requestVars
  <2> QED BY <2>1 DEF Cache!Next
<1>11. ASSUME Revoke \/ UNCHANGED vars
       PROVE  C
  BY <1>11 DEF Revoke, vars, requestVars, tokenVars, Cache!cvars
<1> QED BY <1>1, <1>2, <1>5, <1>6, <1>7, <1>8, <1>9, <1>10, <1>11
           DEF Next, Continue, Finished

(* OAuthAuth implements CredentialCache: single flight, no fetch while a    *)
(* token is usable, none given out that was evicted or replaced.           *)
THEOREM ImplementsCache == Spec => IsCache
<1>1. Init => Cache!Init
  BY DEF Init, Cache!Init
<1>2. Inv /\ [Next]_vars => [Cache!Next]_Cache!cvars
  BY ImplementsStep
<1> QED BY <1>1, <1>2, Invariance, PTL DEF Spec, IsCache, Cache!Spec

-----------------------------------------------------------------------------
(* Without failures.  The server accepts one refresh token at most, and it *)
(* is the stored one, but while a newer one is on its way to the storage;  *)
(* on the way to the browser there is none.                                *)

Asking == {"authorize", "browse", "exchange"}
Granted == {"refreshed", "exchanged"}

NewestRefresh == IF reply.rt # None THEN reply.rt ELSE store.refresh

Kept ==
  /\ honoured \subseteq {NewestRefresh}
  /\ refresh \in {None, store.refresh}
  /\ reply.rt # None => \E h \in Handler : pc[h] \in Granted
  /\ \A h \in Handler :
       /\ pc[h] \in {"refresh", "refreshed"} => refresh = store.refresh
       /\ pc[h] \in Asking \cup {"fallback"} => honoured = {}
       /\ pc[h] \in Asking \cup {"exchanged"} =>
            refresh = None /\ store.refresh = None

KeptIfSound == ~faults => Kept

(* A step that leaves the tokens alone, of a request that does not go to   *)
(* the browser or to a refresh by it.                                      *)
LEMMA KeptElsewhere ==
  ASSUME Inv, Kept, NEW h \in Handler, NEW place, Goto(h, place),
         pc[h] \notin Granted,
         UNCHANGED <<refresh, reply, store, honoured>>,
         /\ place \in {"refresh", "refreshed"} => refresh = store.refresh
         /\ place \in Asking \cup {"fallback"} => honoured = {}
         /\ place \in Asking \cup {"exchanged"} =>
              refresh = None /\ store.refresh = None
  PROVE  Kept'
<1>1. /\ pc' = [pc EXCEPT ![h] = place] /\ pc'[h] = place
      /\ \A g \in Handler : g # h => pc'[g] = pc[g]
  BY DEF Goto, Inv, TypeOK, RequestsTyped
<1>2. /\ NewestRefresh' = NewestRefresh
      /\ reply'.rt # None => \E g \in Handler : pc'[g] \in Granted
  BY <1>1 DEF NewestRefresh, Kept
<1>3. \A g \in Handler :
       /\ pc'[g] \in {"refresh", "refreshed"} => refresh' = store'.refresh
       /\ pc'[g] \in Asking \cup {"fallback"} => honoured' = {}
       /\ pc'[g] \in Asking \cup {"exchanged"} =>
            refresh' = None /\ store'.refresh = None
  BY <1>1 DEF Kept
<1> QED BY <1>1, <1>2, <1>3 DEF Kept

(* The lock is with one request: what holds for it holds for all.          *)
LEMMA KeptByHolder ==
  ASSUME Inv, NEW h \in Handler, lock = h, NEW place, Goto(h, place),
         honoured' \subseteq {NewestRefresh'},
         refresh' \in {None, store'.refresh},
         /\ reply'.rt # None => place \in Granted
         /\ place \in {"refresh", "refreshed"} => refresh' = store'.refresh
         /\ place \in Asking \cup {"fallback"} => honoured' = {}
         /\ place \in Asking \cup {"exchanged"} =>
              refresh' = None /\ store'.refresh = None
  PROVE  Kept'
<1>1. /\ pc' = [pc EXCEPT ![h] = place] /\ pc'[h] = place
      /\ \A g \in Handler : g # h => pc'[g] = pc[g] /\ pc[g] \notin Stage
  BY DEF Goto, Inv, TypeOK, RequestsTyped, LockHeld
<1> QED BY <1>1 DEF Kept, Granted, Asking, Stage

LEMMA EnsureKept ==
  ASSUME ~faults, Inv, Kept, NEW h \in Handler, EnsureToken(h)
  PROVE  Kept'
<1> USE DEF Granted, Asking
<1>1. /\ lock = h /\ pc[h] \in Stage
      /\ reply \in [at : Grants, rt : Grants]
      /\ store \in [client : 0 .. clients, refresh : Grants]
      /\ honoured \subseteq 1 .. Len(owner) /\ None \notin honoured
      /\ \A g \in Handler : pc[g] \in Stage => g = h
  BY DEF Inv, TypeOK, LockHeld, StateTyped, WorldTyped, None, EnsureToken, Stage,
         Discover, FindClient, RegisterClient, StoreClient, LoadRefresh, Refresh,
         StoreRefreshed, Fallback, Authorize, Callback, Exchange, StoreGranted
<1>2. pc[h] \notin Granted => reply.rt = None
  BY <1>1 DEF Kept, Stage
<1>3. CASE Discover(h)
  <2>1. pc[h] = "discover" /\ UNCHANGED <<refresh, reply, store, honoured>>
        /\ Goto(h, "client")
    BY <1>3 DEF Discover, flowVars, serverVars
  <2> QED BY <2>1, KeptElsewhere
<1>4. CASE FindClient(h)
  <2>1. pc[h] = "client" /\ UNCHANGED <<refresh, reply, store, honoured>>
        /\ \E place \in {"load", "register"} : Goto(h, place)
    BY <1>4 DEF FindClient, flowVars, serverVars
  <2> QED BY <2>1, KeptElsewhere
<1>5. CASE RegisterClient(h)
  <2>1. pc[h] = "register" /\ UNCHANGED <<refresh, reply, store, honoured>>
        /\ Goto(h, "storeClient")
    BY <1>5 DEF RegisterClient, flowVars
  <2> QED BY <2>1, KeptElsewhere
<1>6. CASE StoreClient(h)
  <2>1. /\ pc[h] = "storeClient" /\ UNCHANGED <<refresh, reply, honoured>>
        /\ Goto(h, "load") /\ store' = WithClient
    BY <1>6 DEF StoreClient, flowVars, serverVars
  <2>2. store'.refresh = store.refresh
    BY <1>1, <2>1 DEF WithClient
  <2> QED BY <1>1, <1>2, <2>1, <2>2, KeptByHolder DEF Kept, NewestRefresh
<1>7. CASE LoadRefresh(h)
  <2>1. pc[h] = "load" /\ UNCHANGED <<reply, store, honoured>>
    BY <1>7 DEF LoadRefresh, flowVars, serverVars
  <2>2. CASE /\ Goto(h, "refresh") /\ (refresh # None \/ Loadable # None)
             /\ refresh' = IF refresh # None THEN refresh ELSE Loadable
    <3>1. refresh' = store.refresh
      BY <2>2 DEF Loadable, Kept
    <3> QED BY <1>1, <1>2, <2>1, <2>2, <3>1, KeptByHolder DEF Kept, NewestRefresh
  <2>3. CASE /\ Goto(h, "authorize") /\ UNCHANGED refresh
             /\ refresh = None /\ Loadable = None
    <3>1. honoured = {}
      BY <1>1, <1>2, <2>1, <2>3 DEF Kept, NewestRefresh, Loadable
    <3> QED BY <2>1, <2>3, <3>1, KeptElsewhere DEF Loadable
  <2> QED BY <1>7, <2>2, <2>3 DEF LoadRefresh
<1>8. CASE Refresh(h)
  <2>1. /\ pc[h] = "refresh" /\ UNCHANGED <<refresh, store>>
        /\ refresh = store.refresh
    BY <1>8 DEF Refresh, Kept
  <2>2. CASE refresh \in honoured /\ Grant(refresh) /\ Goto(h, "refreshed")
    <3>1. PICK with \in BOOLEAN :
            /\ honoured' = IF with THEN (honoured \ {refresh}) \cup {Len(owner) + 1}
                           ELSE honoured
            /\ reply' = [at |-> Len(owner) + 1,
                         rt |-> IF with THEN Len(owner) + 1 ELSE None]
      BY <2>2 DEF Grant, Issue
    <3>2. Len(owner) + 1 # None
      BY DEF Inv, TypeOK, WorldTyped, None
    <3>3. honoured \ {refresh} = {}
      BY <1>2, <2>1 DEF Kept, NewestRefresh
    <3>4. honoured' \subseteq {NewestRefresh'}
      BY <1>2, <2>1, <3>1, <3>2, <3>3 DEF Kept, NewestRefresh
    <3> QED BY <1>1, <2>1, <2>2, <3>4, KeptByHolder
  <2>3. CASE /\ refresh \notin honoured /\ Goto(h, "fallback")
             /\ UNCHANGED <<serverVars, reply>>
    <3>1. honoured = {}
      BY <1>2, <2>1, <2>3 DEF Kept, NewestRefresh
    <3> QED BY <2>1, <2>3, <3>1, KeptElsewhere DEF serverVars
  <2> QED BY <1>8, <2>2, <2>3 DEF Refresh
<1>9. CASE StoreRefreshed(h)
  <2>1. /\ pc[h] = "refreshed" /\ store' = WithRefresh /\ Goto(h, "ready")
        /\ refresh' = IF reply.rt # None THEN reply.rt ELSE refresh
        /\ reply' = NoReply /\ UNCHANGED honoured /\ refresh = store.refresh
    BY <1>9 DEF StoreRefreshed, Install, Give, serverVars, Kept
  <2>2. store'.refresh = NewestRefresh /\ refresh' = NewestRefresh
    BY <1>1, <2>1 DEF WithRefresh, NewestRefresh
  <2>3. honoured' \subseteq {NewestRefresh'} /\ reply'.rt = None
    BY <2>1, <2>2 DEF Kept, NewestRefresh, NoReply
  <2> QED BY <1>1, <2>1, <2>2, <2>3, KeptByHolder
<1>10. CASE Fallback(h)
  <2>1. /\ pc[h] = "fallback" /\ refresh' = None /\ store' = WithoutRefresh
        /\ reply' = NoReply /\ Goto(h, "authorize") /\ UNCHANGED honoured
        /\ honoured = {}
    BY <1>10 DEF Fallback, serverVars, Kept
  <2>2. store'.refresh = None /\ reply'.rt = None
    BY <1>1, <2>1 DEF WithoutRefresh, NoReply
  <2> QED BY <1>1, <2>1, <2>2, KeptByHolder
<1>11. CASE Authorize(h)
  <2>1. /\ pc[h] = "authorize" /\ UNCHANGED <<refresh, reply, store, honoured>>
        /\ Goto(h, "browse")
    BY <1>11 DEF Authorize, flowVars, serverVars
  <2>2. honoured = {} /\ refresh = None /\ store.refresh = None
    BY <2>1 DEF Kept
  <2> QED BY <2>1, <2>2, KeptElsewhere
<1>12. CASE Callback(h)
  <2>1. pc[h] = "browse" /\ UNCHANGED <<refresh, store, honoured>>
    BY <1>12 DEF Callback, serverVars
  <2>2. honoured = {} /\ refresh = None /\ store.refresh = None
    BY <2>1 DEF Kept
  <2>3. \/ Goto(h, "exchange") /\ UNCHANGED reply
        \/ Goto(h, "done") /\ reply' = NoReply
    BY <1>12 DEF Callback, Fail
  <2>4. reply'.rt = None
    BY <1>2, <2>1, <2>3 DEF NoReply
  <2> QED BY <1>1, <2>1, <2>2, <2>3, <2>4, KeptByHolder
<1>13. CASE Exchange(h)
  <2>1. /\ pc[h] = "exchange" /\ UNCHANGED <<refresh, store>> /\ Grant(None)
        /\ Goto(h, "exchanged")
    BY <1>13 DEF Exchange
  <2>2. honoured = {} /\ refresh = None /\ store.refresh = None
    BY <2>1 DEF Kept
  <2>3. PICK with \in BOOLEAN :
          /\ honoured' = IF with THEN (honoured \ {None}) \cup {Len(owner) + 1}
                         ELSE honoured
          /\ reply' = [at |-> Len(owner) + 1,
                       rt |-> IF with THEN Len(owner) + 1 ELSE None]
    BY <2>1 DEF Grant, Issue
  <2>4. Len(owner) + 1 # None
    BY DEF Inv, TypeOK, WorldTyped, None
  <2>5. honoured' \subseteq {NewestRefresh'}
    BY <2>2, <2>3, <2>4 DEF NewestRefresh
  <2> QED BY <1>1, <2>1, <2>2, <2>5, KeptByHolder
<1>14. CASE StoreGranted(h)
  <2>1. /\ pc[h] = "exchanged" /\ store' = WithRefresh /\ Goto(h, "ready")
        /\ refresh' = IF reply.rt # None THEN reply.rt ELSE refresh
        /\ reply' = NoReply /\ UNCHANGED honoured /\ refresh = store.refresh
    BY <1>14 DEF StoreGranted, Install, Give, serverVars, Kept
  <2>2. store'.refresh = NewestRefresh /\ refresh' = NewestRefresh
    BY <1>1, <2>1 DEF WithRefresh, NewestRefresh
  <2>3. honoured' \subseteq {NewestRefresh'} /\ reply'.rt = None
    BY <2>1, <2>2 DEF Kept, NewestRefresh, NoReply
  <2> QED BY <1>1, <2>1, <2>2, <2>3, KeptByHolder
<1> QED BY <1>3, <1>4, <1>5, <1>6, <1>7, <1>8, <1>9, <1>10, <1>11, <1>12, <1>13,
           <1>14 DEF EnsureToken

LEMMA NextKept ==
  ASSUME Inv, KeptIfSound, [Next]_vars
  PROVE  KeptIfSound'
<1> SUFFICES ASSUME ~faults, Kept, UNCHANGED faults PROVE Kept'
  BY DEF KeptIfSound, Next, Finished, vars
<1> USE DEF Granted, Asking
<1>1. CASE \E h \in Handler : Begin(h)
  <2>1. PICK h \in Handler : Begin(h)
    BY <1>1
  <2>2. /\ pc[h] = "idle" /\ UNCHANGED <<refresh, reply, store, honoured>>
        /\ \E place \in {"ready", "queued"} : Goto(h, place)
    BY <2>1 DEF Begin, Give, flowVars, serverVars
  <2> QED BY <2>2, KeptElsewhere
<1>2. CASE \E h \in Handler : Continue(h)
  <2>1. PICK h \in Handler : Continue(h)
    BY <1>2
  <2>2. CASE Enter(h) \/ Forward(h) \/ HandleUnauthorized(h)
    <3>1. /\ pc[h] \notin Granted /\ UNCHANGED <<refresh, reply, store, honoured>>
          /\ \E place \in {"ready", "discover", "done", "rejected"} : Goto(h, place)
      BY <2>2 DEF Enter, Forward, HandleUnauthorized, Give, flowVars, serverVars
    <3> QED BY <3>1, KeptElsewhere
  <2> QED BY <2>1, <2>2, EnsureKept DEF Continue
<1>3. CASE \E h \in Handler : Disconnect(h)
  BY <1>3 DEF Disconnect
<1>4. CASE Restart
  <2>1. lock = Nobody /\ \A h \in Handler : pc[h] \notin Stage
    BY <1>4, OAuthAssumption DEF Restart, Inv, TypeOK, LockHeld
  <2>2. reply.rt = None
    BY <2>1 DEF Kept, Stage
  <2>3. /\ UNCHANGED <<store, honoured>> /\ refresh' = None /\ reply' = NoReply
        /\ \A h \in Handler : pc'[h] \in {"idle", "done"}
    BY <1>4, <2>1 DEF Restart, serverVars
  <2> QED BY <2>2, <2>3 DEF Kept, NewestRefresh, NoReply
<1>5. CASE Expire
  BY <1>5 DEF Expire, requestVars, flowVars, serverVars, Kept, NewestRefresh
<1>6. CASE Revoke
  <2>1. honoured' \subseteq honoured /\ UNCHANGED <<pc, refresh, reply, store>>
    BY <1>6 DEF Revoke, requestVars, flowVars
  <2> QED BY <2>1 DEF Kept, NewestRefresh
<1>7. CASE UNCHANGED vars
  BY <1>7 DEF vars, requestVars, flowVars, serverVars, Kept, NewestRefresh
<1> QED BY <1>1, <1>2, <1>3, <1>4, <1>5, <1>6, <1>7 DEF Next, Finished

LEMMA KeptHolds == Spec => []KeptIfSound
<1>1. Init => KeptIfSound
  BY DEF Init, KeptIfSound, Kept, NewestRefresh, NoReply, Granted, Asking
<1>2. Inv /\ KeptIfSound /\ [Next]_vars => KeptIfSound'
  BY NextKept
<1> QED BY <1>1, <1>2, Invariance, PTL DEF Spec

(* Without failures, no rotation, revocation or restart between requests   *)
(* costs the proxy its authorization: a refresh token that the server      *)
(* accepts is the stored one.                                              *)
THEOREM AuthorizationKept == Spec => []NoLoss
<1>1. ASSUME Inv, KeptIfSound PROVE NoLoss
  <2> SUFFICES ASSUME ~faults, lock = Nobody
               PROVE  honoured \subseteq {store.refresh}
    BY DEF NoLoss
  <2>1. \A h \in Handler : pc[h] \notin Granted
    BY <1>1, OAuthAssumption DEF Inv, TypeOK, LockHeld, Granted, Stage
  <2> QED BY <1>1, <2>1 DEF KeptIfSound, Kept, NewestRefresh
<1> QED BY <1>1, Invariance, KeptHolds, PTL

(* ... and the browser opens only when the server accepts none.            *)
THEOREM UserAskedOnlyIfNeeded == Spec => []AskedOnlyIfNeeded
<1>1. KeptIfSound => AskedOnlyIfNeeded
  BY DEF KeptIfSound, Kept, AskedOnlyIfNeeded, Asking
<1> QED BY <1>1, KeptHolds, PTL

=============================================================================
