---------------------------- MODULE ServingProofs ----------------------------
(***************************************************************************)
(* Proofs about Serving, for any names, servers, profiles, requests and    *)
(* refreshes: types, confinement by profiles, and what the cache holds.    *)
(***************************************************************************)
EXTENDS Serving, TLAPS

Served == {"forward", "cache", "answer"}

(* What a request has at each place. *)
Targeted(r) ==
  /\ pc[r] = "idle" => req[r] = Blank
  /\ pc[r] # "idle" => req[r].target \in Name

(* A profile has let the request through. *)
Admitted(r) == pc[r] \in Served => ~Refused(r)

(* It has one of its server's pages, and shows what the profile leaves.     *)
Answered(r) ==
  /\ pc[r] \in {"cache", "answer"} => req[r].page \in PagesOf(req[r].server)
  /\ pc[r] = "answer" => req[r].shown = Shown(r)
  /\ pc[r] # "answer" => req[r].shown = {}

CachedListed == \A n \in Name : cache[n] # None => cache[n] \in AnyPage

Inv ==
  /\ TypeOK /\ CachedListed
  /\ \A r \in Request : Targeted(r) /\ Admitted(r) /\ Answered(r)

RequestRecord ==
  [first : Name \cup {None}, via : Allowance \cup {None},
   target : Name \cup {None}, want : Want, server : Server \cup {None},
   page : SUBSET Tool, shown : SUBSET Tool]

-----------------------------------------------------------------------------
(* Pages. *)

LEMMA PagesAreTools ==
  ASSUME NEW s \in Server
  PROVE  /\ PagesOf(s) \subseteq SUBSET Tool /\ PagesOf(s) \subseteq AnyPage
         /\ Head(Pages[s]) \in PagesOf(s)
<1>1. Pages[s] \in Seq(SUBSET Tool) /\ Pages[s] # <<>>
  BY ServingAssumption
<1>2. PagesOf(s) \subseteq AnyPage
  BY DEF AnyPage
<1>3. PagesOf(s) \subseteq SUBSET Tool
  BY <1>1 DEF PagesOf
<1>4. 1 \in DOMAIN Pages[s] /\ Head(Pages[s]) = Pages[s][1]
  BY <1>1
<1> QED BY <1>2, <1>3, <1>4 DEF PagesOf

LEMMA BlankIsRequest ==
  /\ Blank \in RequestRecord /\ Blank.shown = {} /\ Blank.via = None
BY DEF Blank, RequestRecord, Want

-----------------------------------------------------------------------------
(* The steps of a request. *)

(* What a step of request r leaves right: its own record and place. *)
Own(r) ==
  /\ pc'[r] \in {"idle", "lookup"} \cup Served /\ req'[r] \in RequestRecord
  /\ pc'[r] \in Served => /\ req'[r].server # None
                          /\ upstream[req'[r].target] = req'[r].server
  /\ Targeted(r)' /\ Admitted(r)' /\ Answered(r)'

Only(r) ==
  /\ pc' = [pc EXCEPT ![r] = pc'[r]] /\ req' = [req EXCEPT ![r] = req'[r]]
  /\ UNCHANGED <<upstream, profile, job>>

(* A request that a step is not about keeps what it has. *)
LEMMA RequestKept ==
  ASSUME Inv, NEW q \in Request, pc'[q] = pc[q], req'[q] = req[q]
  PROVE  Targeted(q)' /\ Admitted(q)' /\ Answered(q)'
<1>1. Targeted(q)'
  BY DEF Inv, Targeted, Blank
<1>2. Admitted(q)'
  BY DEF Inv, Admitted, Served, Refused, Allowed
<1>3. Answered(q)'
  BY DEF Inv, Answered, Shown, Allowed, PagesOf
<1> QED BY <1>1, <1>2, <1>3

LEMMA RequestStep ==
  ASSUME Inv, NEW r \in Request, Only(r), Own(r),
         cache' \in [Name -> (SUBSET Tool) \cup {None}], CachedListed'
  PROVE  Inv'
<1>1. \A q \in Request : q # r => pc'[q] = pc[q] /\ req'[q] = req[q]
  BY DEF Inv, TypeOK, Only
<1>2. TypeOK'
  BY <1>1 DEF Inv, TypeOK, Only, Own, RequestRecord, Served
<1>3. \A q \in Request : q # r => Targeted(q)' /\ Admitted(q)' /\ Answered(q)'
  BY <1>1, RequestKept
<1> QED BY <1>2, <1>3 DEF Inv, Own

LEMMA ArriveRight ==
  ASSUME Inv, NEW r \in Request, NEW first \in Name,
         NEW second \in Name \cup {None}, NEW want \in Want,
         Arrive(r, first, second, want)
  PROVE  Inv'
<1> DEFINE new == [Blank EXCEPT !.first = first, !.via = profile[first],
                     !.want = want,
                     !.target = IF profile[first] = None THEN first ELSE second]
<1>1. pc'[r] = "lookup" /\ req'[r] = new /\ Only(r) /\ cache' = cache
  BY DEF Inv, TypeOK, Arrive, Goto, Only
<1>2. new \in RequestRecord /\ new.target \in Name /\ new.shown = {}
  BY DEF Inv, TypeOK, Arrive, Blank, RequestRecord
<1>3. Own(r)
  BY <1>1, <1>2 DEF Own, Served, Targeted, Admitted, Answered
<1> QED BY <1>1, <1>3, RequestStep DEF Inv, TypeOK, CachedListed

LEMMA LeaveRight ==
  ASSUME Inv, NEW r \in Request, Leave(r), UNCHANGED <<upstream, profile, cache, job>>
  PROVE  Inv'
<1>1. pc'[r] = "idle" /\ req'[r] = Blank /\ Only(r)
  BY DEF Inv, TypeOK, Leave, Goto, Only
<1>2. Own(r)
  BY <1>1, BlankIsRequest DEF Own, Served, Targeted, Admitted, Answered
<1> QED BY <1>1, <1>2, RequestStep DEF Inv, TypeOK, CachedListed

LEMMA LookupRight ==
  ASSUME Inv, NEW r \in Request, Lookup(r)
  PROVE  Inv'
<1> DEFINE s == upstream[req[r].target]
<1>1. CASE Leave(r)
  BY <1>1, LeaveRight DEF Lookup
<1>2. CASE /\ s # None /\ ~Refused(r) /\ Goto(r, "forward")
           /\ req' = [req EXCEPT ![r].server = s]
  <2>1. /\ pc'[r] = "forward" /\ req'[r] = [req[r] EXCEPT !.server = s]
        /\ Only(r) /\ cache' = cache
    BY <1>2 DEF Inv, TypeOK, Lookup, Goto, Only
  <2>2. req[r] \in RequestRecord /\ req[r].target \in Name /\ req[r].shown = {}
    BY DEF Inv, TypeOK, RequestRecord, Targeted, Answered, Lookup
  <2>3. /\ req'[r] \in RequestRecord /\ req'[r].server = s
        /\ req'[r].target = req[r].target /\ req'[r].shown = {}
        /\ req'[r].via = req[r].via /\ req'[r].want = req[r].want
    BY <2>1, <2>2 DEF Inv, TypeOK, RequestRecord
  <2>4. Own(r)
    BY <1>2, <2>1, <2>2, <2>3
       DEF Own, Served, Targeted, Admitted, Answered, Refused, Allowed
  <2> QED BY <2>1, <2>4, RequestStep DEF Inv, TypeOK, CachedListed
<1> QED BY <1>1, <1>2 DEF Lookup

LEMMA RespondRight ==
  ASSUME Inv, NEW r \in Request, Respond(r)
  PROVE  Inv'
<1>1. CASE Leave(r)
  BY <1>1, LeaveRight DEF Respond
<1>2. ASSUME NEW p \in PagesOf(req[r].server),
             req' = [req EXCEPT ![r].page = p], Goto(r, "cache")
      PROVE  Inv'
  <2>1. /\ pc'[r] = "cache" /\ req'[r] = [req[r] EXCEPT !.page = p]
        /\ Only(r) /\ cache' = cache /\ pc[r] = "forward"
    BY <1>2 DEF Inv, TypeOK, Respond, Goto, Only
  <2>2. /\ req[r] \in RequestRecord /\ req[r].target \in Name /\ req[r].shown = {}
        /\ req[r].server \in Server /\ ~Refused(r)
        /\ upstream[req[r].target] = req[r].server /\ req[r].server # None
    BY <2>1 DEF Inv, TypeOK, RequestRecord, Targeted, Answered, Admitted, Served
  <2>3. p \in SUBSET Tool
    BY <1>2, <2>2, PagesAreTools
  <2>4. /\ req'[r] \in RequestRecord /\ req'[r].server = req[r].server
        /\ req'[r].target = req[r].target /\ req'[r].shown = {}
        /\ req'[r].via = req[r].via /\ req'[r].want = req[r].want
        /\ req'[r].page = p
    BY <2>1, <2>2, <2>3 DEF RequestRecord
  <2>5. Own(r)
    BY <1>2, <2>1, <2>2, <2>4
       DEF Own, Served, Targeted, Admitted, Answered, Refused, Allowed, PagesOf
  <2> QED BY <2>1, <2>5, RequestStep DEF Inv, TypeOK, CachedListed
<1> QED BY <1>1, <1>2 DEF Respond

LEMMA CacheToolsRight ==
  ASSUME Inv, NEW r \in Request, CacheTools(r)
  PROVE  /\ Inv'
         /\ \A n \in Name : cache'[n] # cache[n] =>
              upstream[n] # None /\ cache'[n] \in PagesOf(upstream[n])
<1>1. /\ pc'[r] = "answer" /\ req'[r] = [req[r] EXCEPT !.shown = Shown(r)]
      /\ Only(r) /\ cache' = [cache EXCEPT ![req[r].target] = req[r].page]
      /\ pc[r] = "cache"
  BY DEF Inv, TypeOK, CacheTools, Goto, Only, Cached
<1>2. /\ req[r] \in RequestRecord /\ req[r].target \in Name
      /\ req[r].server \in Server /\ ~Refused(r)
      /\ upstream[req[r].target] = req[r].server /\ req[r].server # None
      /\ req[r].page \in PagesOf(req[r].server)
  BY <1>1 DEF Inv, TypeOK, RequestRecord, Targeted, Answered, Admitted, Served
<1>3. Shown(r) \in SUBSET Tool
  BY <1>2 DEF Shown, RequestRecord
<1>4. /\ req'[r] \in RequestRecord /\ req'[r].server = req[r].server
      /\ req'[r].target = req[r].target /\ req'[r].shown = Shown(r)
      /\ req'[r].via = req[r].via /\ req'[r].want = req[r].want
      /\ req'[r].page = req[r].page
  BY <1>1, <1>2, <1>3 DEF RequestRecord
<1>5. Shown(r)' = Shown(r)
  BY <1>4 DEF Shown, Allowed
<1>6. Own(r)
  <2>1. Targeted(r)' /\ Admitted(r)'
    BY <1>1, <1>2, <1>4 DEF Targeted, Admitted, Served, Refused, Allowed
  <2>2. Answered(r)'
    BY <1>1, <1>2, <1>4, <1>5 DEF Answered, PagesOf
  <2> QED BY <1>1, <1>2, <1>4, <2>1, <2>2 DEF Own, Served
<1>7. /\ cache' \in [Name -> (SUBSET Tool) \cup {None}]
      /\ \A n \in Name : cache'[n] = IF n = req[r].target THEN req[r].page ELSE cache[n]
  BY <1>1, <1>2, PagesAreTools DEF Inv, TypeOK
<1>8. CachedListed'
  <2>1. req[r].page \in AnyPage
    BY <1>2, PagesAreTools
  <2> QED BY <1>7, <2>1 DEF Inv, CachedListed, AnyPage, PagesOf
<1>9. Inv'
  BY <1>1, <1>6, <1>7, <1>8, RequestStep
<1> QED BY <1>2, <1>7, <1>9

-----------------------------------------------------------------------------
(* Edits and refreshes. *)

LEMMA RequestsKept ==
  ASSUME Inv, UNCHANGED <<pc, req>>
  PROVE  \A r \in Request : Targeted(r)' /\ Admitted(r)' /\ Answered(r)'
BY RequestKept

LEMMA ProfileRight ==
  ASSUME Inv, UNCHANGED <<upstream, cache, job, pc, req>>,
         NEW n \in Name, NEW a \in Allowance \cup {None},
         profile' = [profile EXCEPT ![n] = a]
  PROVE  Inv'
<1>1. TypeOK' /\ CachedListed'
  BY DEF Inv, TypeOK, CachedListed
<1> QED BY <1>1, RequestsKept DEF Inv

(* No request that has looked its upstream up is in the way of an edit.    *)
LEMMA SetServerRight ==
  ASSUME Inv, NEW n \in Name, NEW s \in Server \cup {None}, SetServer(n, s)
  PROVE  Inv'
<1>1. TypeOK' /\ CachedListed'
  BY DEF Inv, TypeOK, CachedListed, SetServer, Unlocked
<1> QED BY <1>1, RequestsKept DEF Inv, SetServer

LEMMA StartRefreshRight ==
  ASSUME Inv, NEW f \in Refresher, NEW n \in Name, StartRefresh(f, n)
  PROVE  Inv'
<1>1. upstream[n] \in Server
  BY DEF Inv, TypeOK, StartRefresh
<1>2. TypeOK' /\ CachedListed'
  BY <1>1 DEF Inv, TypeOK, CachedListed, StartRefresh
<1> QED BY <1>2, RequestsKept DEF Inv, StartRefresh

LEMMA EndRefreshRight ==
  ASSUME Inv, NEW f \in Refresher, EndRefresh(f)
  PROVE  /\ Inv'
         /\ \A n \in Name : cache'[n] # cache[n] =>
              /\ job[f] # None /\ job'[f] = None /\ job[f].name = n
              /\ job[f].server \in Server /\ cache'[n] \in PagesOf(job[f].server)
<1>1. /\ job[f] \in [name : Name, server : Server] /\ job[f] # None
      /\ job'[f] = None /\ job' \in [Refresher -> [name : Name, server : Server] \cup {None}]
  BY DEF Inv, TypeOK, EndRefresh
<1> DEFINE first == Head(Pages[job[f].server])
<1>2. first \in PagesOf(job[f].server) /\ first \in SUBSET Tool /\ first \in AnyPage
  BY <1>1, PagesAreTools
<1>3. /\ cache' \in [Name -> (SUBSET Tool) \cup {None}]
      /\ \A n \in Name : cache'[n] \in {cache[n], IF n = job[f].name THEN first ELSE cache[n]}
  BY <1>2 DEF Inv, TypeOK, EndRefresh
<1>4. TypeOK' /\ CachedListed'
  <2>1. TypeOK'
    BY <1>1, <1>3 DEF Inv, TypeOK, EndRefresh
  <2>2. CachedListed'
    BY <1>2, <1>3 DEF Inv, CachedListed
  <2> QED BY <2>1, <2>2
<1>5. Inv'
  BY <1>4, RequestsKept DEF Inv, EndRefresh
<1> QED BY <1>1, <1>2, <1>3, <1>5

-----------------------------------------------------------------------------
LEMMA InvStart == Init => Inv
<1> SUFFICES ASSUME Init PROVE Inv
  OBVIOUS
<1>1. TypeOK
  BY BlankIsRequest, ServingAssumption DEF Init, TypeOK, RequestRecord
<1>2. CachedListed
  BY DEF Init, CachedListed
<1>3. \A r \in Request : Targeted(r) /\ Admitted(r) /\ Answered(r)
  BY BlankIsRequest DEF Init, Targeted, Admitted, Answered, Served
<1> QED BY <1>1, <1>2, <1>3 DEF Inv

Stale(n) ==
  cache'[n] # cache[n] =>
    \/ upstream[n] # None /\ cache'[n] \in PagesOf(upstream[n])
    \/ \E f \in Refresher :
         /\ job[f] # None /\ job'[f] = None
         /\ job[f].name = n /\ job[f].server # upstream[n]

LEMMA InvKept ==
  Inv /\ [Next]_vars => Inv' /\ \A n \in Name : Stale(n)
<1> SUFFICES ASSUME Inv, [Next]_vars
             PROVE  Inv' /\ \A n \in Name : Stale(n)
  OBVIOUS
<1>0. ASSUME UNCHANGED cache PROVE \A n \in Name : Stale(n)
  BY <1>0 DEF Stale
<1>1. ASSUME NEW r \in Request, NEW first \in Name,
             NEW second \in Name \cup {None}, NEW want \in Want,
             Arrive(r, first, second, want)
      PROVE  Inv' /\ \A n \in Name : Stale(n)
  BY <1>0, <1>1, ArriveRight DEF Arrive
<1>2. ASSUME NEW r \in Request, Lookup(r)
      PROVE  Inv' /\ \A n \in Name : Stale(n)
  BY <1>0, <1>2, LookupRight DEF Lookup
<1>3. ASSUME NEW r \in Request, Respond(r)
      PROVE  Inv' /\ \A n \in Name : Stale(n)
  BY <1>0, <1>3, RespondRight DEF Respond
<1>4. ASSUME NEW r \in Request, CacheTools(r)
      PROVE  Inv' /\ \A n \in Name : Stale(n)
  BY <1>4, CacheToolsRight DEF Stale
<1>5. ASSUME NEW r \in Request, Answer(r)
      PROVE  Inv' /\ \A n \in Name : Stale(n)
  BY <1>0, <1>5, LeaveRight DEF Answer
<1>6. ASSUME NEW n \in Name, DeleteProfile(n) \/ \E a \in Allowance : PutProfile(n, a)
      PROVE  Inv' /\ \A m \in Name : Stale(m)
  BY <1>0, <1>6, ProfileRight DEF DeleteProfile, PutProfile
<1>7. ASSUME NEW n \in Name, NEW s \in Server \cup {None}, SetServer(n, s)
      PROVE  Inv' /\ \A m \in Name : Stale(m)
  BY <1>0, <1>7, SetServerRight DEF SetServer
<1>8. ASSUME NEW e \in Edits, SetServer(e[1], e[2])
      PROVE  Inv' /\ \A m \in Name : Stale(m)
  <2>1. e[1] \in Name /\ e[2] \in Server
    BY ServingAssumption
  <2> QED BY <1>7, <1>8, <2>1
<1>9. ASSUME NEW f \in Refresher, NEW n \in Name, StartRefresh(f, n)
      PROVE  Inv' /\ \A m \in Name : Stale(m)
  BY <1>0, <1>9, StartRefreshRight DEF StartRefresh
<1>10. ASSUME NEW f \in Refresher, EndRefresh(f)
       PROVE  Inv' /\ \A m \in Name : Stale(m)
  <2>1. ASSUME NEW m \in Name, cache'[m] # cache[m] PROVE Stale(m)
    <3>1. /\ job[f] # None /\ job'[f] = None /\ job[f].name = m
          /\ job[f].server \in Server /\ cache'[m] \in PagesOf(job[f].server)
      BY <1>10, <2>1, EndRefreshRight
    <3>2. CASE job[f].server = upstream[m]
      BY <3>1, <3>2, ServingAssumption DEF Stale
    <3>3. CASE job[f].server # upstream[m]
      BY <3>1, <3>3 DEF Stale
    <3> QED BY <3>2, <3>3
  <2>2. \A m \in Name : Stale(m)
    BY <2>1 DEF Stale
  <2> QED BY <1>10, <2>2, EndRefreshRight
<1>11. CASE UNCHANGED vars
  <2>1. TypeOK' /\ CachedListed'
    BY <1>11 DEF Inv, TypeOK, CachedListed, vars
  <2> QED BY <1>0, <1>11, <2>1, RequestsKept DEF Inv, vars
<1> QED BY <1>1, <1>2, <1>3, <1>4, <1>5, <1>6, <1>7, <1>8, <1>9, <1>10, <1>11
        DEF Next

LEMMA Invariance == Spec => []Inv
BY InvStart, InvKept, PTL DEF Spec

(* Every variable keeps its type; the server a request is forwarded to     *)
(* stays in the map until it is answered (the read guard of root_handler). *)
THEOREM TypeCorrect == Spec => []TypeOK
<1>1. Inv => TypeOK
  BY DEF Inv
<1> QED BY <1>1, Invariance, PTL

(* A request that came through a profile calls and is shown only what the  *)
(* profile allowed (is_tool_allowed, filter_tools_response).                *)
THEOREM ProfilesConfine == Spec => []Confined
<1>1. Inv => Confined
  <2> SUFFICES ASSUME Inv, NEW r \in Request, req[r].via # None
               PROVE  /\ pc[r] \in Served =>
                           req[r].want \notin Tool \ req[r].via[req[r].target]
                      /\ req[r].shown \subseteq req[r].via[req[r].target]
    BY DEF Confined, Served
  <2> QED BY DEF Inv, Admitted, Answered, Refused, Allowed, Shown
<1> QED BY <1>1, Invariance, PTL

(* What a profile shows in tools/list it lets through in tools/call.        *)
THEOREM ListsAgreeWithCalls == Spec => []ListedIsCallable
<1>1. Inv => ListedIsCallable
  BY DEF Inv, ListedIsCallable, Answered, Shown, Refused, Allowed
<1> QED BY <1>1, Invariance, PTL

(* The cache has whole pages of some server (proxy_with_filter caches      *)
(* before it filters).                                                     *)
THEOREM CacheIsWhole == Spec => []CachedWhole
<1>1. Inv => CachedWhole
  BY DEF Inv, CachedWhole, CachedListed, Answered, Shown
<1> QED BY <1>1, Invariance, PTL

(* Only a refresh that an edit overtook writes what is not the present     *)
(* server's (refresh_upstream holds no lock while it fetches).             *)
THEOREM StaleByLateRefresh == Spec => StaleOnlyByLateRefresh
<1>1. Inv /\ [Next]_vars => [\A n \in Name : Stale(n)]_vars
  BY InvKept
<1> QED BY <1>1, Invariance, PTL DEF Spec, StaleOnlyByLateRefresh, Stale
=============================================================================
