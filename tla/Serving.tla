------------------------------- MODULE Serving -------------------------------
(***************************************************************************)
(* The way of a request through the proxy (proxy/mod.rs): the profile and  *)
(* the upstream its path names, the refusal of calls a profile does not    *)
(* allow, the answer of the server, the cache of tools (tool_cache.rs) and *)
(* the filter.  Around it, profiles and servers are edited, and refreshes  *)
(* of the cache run in the background.                                     *)
(*                                                                         *)
(* A request holds the read lock on the map of upstreams from its lookup   *)
(* to its answer, and an edit of the map waits for it: how they queue, and *)
(* the files behind the two stores, are Registry's.  What happens between  *)
(* the headers of a request and its answer is OAuthAuth's or StaticToken's *)
(* and StdioUpstream's; what a refresh asks a server is ToolDiscovery's.   *)
(*                                                                         *)
(* A server stands for its configuration and answers tools/list with its   *)
(* pages.  Nothing needs a bound.  Operators named after another with a    *)
(* mistake added serve to show that the properties notice it.              *)
(***************************************************************************)
EXTENDS Naturals, Sequences, FiniteSets

CONSTANTS
  Name,       \* path segments: names of upstreams, profiles or both
  Server,     \* configurations of servers
  Tool,       \* names of tools
  Pages,      \* Pages[s]: the pages of tools/list of server s
  Initial,    \* Initial[n]: the server that starts under n, or None
  Edits,      \* the servers that are put under a name: pairs of these
  Allowance,  \* what profiles may allow: tools for each upstream
  Request,    \* requests
  Refresher,  \* refreshes of the cache
  None        \* nothing

ASSUME ServingAssumption ==
  /\ Pages \in [Server -> Seq(SUBSET Tool) \ {<<>>}]
  /\ Initial \in [Name -> Server \cup {None}] /\ None \notin Server
  /\ Edits \subseteq Name \X Server
  /\ Allowance \subseteq [Name -> SUBSET Tool] /\ None \notin Allowance
  /\ None \notin Name \cup Tool

VARIABLES
  upstream,  \* the map of upstreams: a server for each name, or None
  profile,   \* the profiles: what each name allows, or None
  cache,     \* the cached tools of each upstream, or None
  job,       \* job[f]: the name and the server refresh f is about, or None
  pc,        \* pc[r]: where request r is
  req        \* req[r]: what it asks for, and what it found

vars == <<upstream, profile, cache, job, pc, req>>

(* The tool to be called, or tools/list; any other request passes through.  *)
Want == Tool \cup {"list"}

PagesOf(s) == {Pages[s][i] : i \in DOMAIN Pages[s]}
AnyPage == UNION {PagesOf(s) : s \in Server}

Blank == [first |-> None, via |-> None, target |-> None, want |-> "list",
          server |-> None, page |-> {}, shown |-> {}]

Init ==
  /\ upstream = Initial
  /\ profile = [n \in Name |-> None]
  /\ cache = [n \in Name |-> None]
  /\ job = [f \in Refresher |-> None]
  /\ pc = [r \in Request |-> "idle"]
  /\ req = [r \in Request |-> Blank]

-----------------------------------------------------------------------------
(* A request, by root_handler and proxy_with_filter. *)

Goto(r, place) == pc' = [pc EXCEPT ![r] = place]

Leave(r) == Goto(r, "idle") /\ req' = [req EXCEPT ![r] = Blank]

(* The first segment is looked up among the profiles first; a profile needs *)
(* a second segment.  The request keeps the profile as it is now.          *)
Arrive(r, first, second, want) ==
  /\ pc[r] = "idle"
  /\ profile[first] # None => second # None
  /\ Goto(r, "lookup")
  /\ req' = [req EXCEPT ![r] =
       [Blank EXCEPT !.first = first, !.via = profile[first], !.want = want,
          !.target = IF profile[first] = None THEN first ELSE second]]
  /\ UNCHANGED <<upstream, profile, cache, job>>

(* A profile allows no tool of an upstream it does not list. *)
AllowedIfUnlisted(r) ==
  IF req[r].via[req[r].target] = {} THEN Tool ELSE req[r].via[req[r].target]
Allowed(r) == req[r].via[req[r].target]

RefusedByFirst(r) ==
  /\ req[r].via # None
  /\ req[r].want \in Tool \ req[r].via[req[r].first]
Refused(r) ==
  /\ req[r].via # None
  /\ req[r].want \in Tool \ Allowed(r)

(* The upstream, with the read lock; a call the profile does not allow is  *)
(* answered here.                                                          *)
Lookup(r) ==
  LET s == upstream[req[r].target] IN
  /\ pc[r] = "lookup"
  /\ \/ (s = None \/ Refused(r)) /\ Leave(r)
     \/ /\ s # None /\ ~Refused(r)
        /\ Goto(r, "forward")
        /\ req' = [req EXCEPT ![r].server = s]
  /\ UNCHANGED <<upstream, profile, cache, job>>

(* The server answers tools/list with one of its pages; any other answer,  *)
(* or none, goes to the client as it is.                                   *)
Respond(r) ==
  /\ pc[r] = "forward"
  /\ \/ /\ req[r].want = "list"
        /\ \E p \in PagesOf(req[r].server) : req' = [req EXCEPT ![r].page = p]
        /\ Goto(r, "cache")
     \/ Leave(r)
  /\ UNCHANGED <<upstream, profile, cache, job>>

Shown(r) == IF req[r].via = None THEN req[r].page
            ELSE req[r].page \cap Allowed(r)

CachedAsShown(r) == Shown(r)
Cached(r) == req[r].page

(* The page is cached whole, and then filtered for the client. *)
CacheTools(r) ==
  /\ pc[r] = "cache"
  /\ cache' = [cache EXCEPT ![req[r].target] = Cached(r)]
  /\ req' = [req EXCEPT ![r].shown = Shown(r)]
  /\ Goto(r, "answer")
  /\ UNCHANGED <<upstream, profile, job>>

(* The client takes its answer; or it has left, here or at an await before. *)
Answer(r) ==
  /\ pc[r] # "idle"
  /\ Leave(r)
  /\ UNCHANGED <<upstream, profile, cache, job>>

-----------------------------------------------------------------------------
(* The settings API. *)

(* PUT of a profile, or the end of a POST: that refuses a name which was an *)
(* upstream's when it looked, and there may be one by now.                 *)
PutProfile(n, a) ==
  /\ profile' = [profile EXCEPT ![n] = a]
  /\ UNCHANGED <<upstream, cache, job, pc, req>>

DeleteProfile(n) ==
  /\ profile[n] # None
  /\ profile' = [profile EXCEPT ![n] = None]
  /\ UNCHANGED <<upstream, cache, job, pc, req>>

UnlockedAlways == TRUE
Unlocked == \A r \in Request : pc[r] \in {"idle", "lookup"}

(* The map is edited: a server is registered, or removed.  Nobody looks at *)
(* the profiles or at the cache.                                           *)
SetServer(n, s) ==
  /\ Unlocked
  /\ upstream' = [upstream EXCEPT ![n] = s]
  /\ UNCHANGED <<profile, cache, job, pc, req>>

-----------------------------------------------------------------------------
(* Refreshes: at the start, after an edit, and on request.                 *)

StartRefresh(f, n) ==
  /\ job[f] = None /\ upstream[n] # None
  /\ job' = [job EXCEPT ![f] = [name |-> n, server |-> upstream[n]]]
  /\ UNCHANGED <<upstream, profile, cache, pc, req>>

(* The first page of what the server lists; it holds no lock on the map.   *)
EndRefresh(f) ==
  /\ job[f] # None
  /\ \/ cache' = [cache EXCEPT ![job[f].name] = Head(Pages[job[f].server])]
     \/ UNCHANGED cache
  /\ job' = [job EXCEPT ![f] = None]
  /\ UNCHANGED <<upstream, profile, pc, req>>

Next ==
  \/ \E r \in Request, first \in Name, second \in Name \cup {None},
        want \in Want : Arrive(r, first, second, want)
  \/ \E r \in Request : Lookup(r) \/ Respond(r) \/ CacheTools(r) \/ Answer(r)
  \/ \E n \in Name : DeleteProfile(n) \/ \E a \in Allowance : PutProfile(n, a)
  \/ \E n \in Name : SetServer(n, None)
  \/ \E e \in Edits : SetServer(e[1], e[2])
  \/ \E f \in Refresher, n \in Name : StartRefresh(f, n)
  \/ \E f \in Refresher : EndRefresh(f)

Spec == Init /\ [][Next]_vars

-----------------------------------------------------------------------------
(* Properties. *)

(* Every variable keeps its type, and the server that a request is          *)
(* forwarded to stays in the map until it is answered.                      *)
TypeOK ==
  /\ upstream \in [Name -> Server \cup {None}]
  /\ profile \in [Name -> Allowance \cup {None}]
  /\ cache \in [Name -> (SUBSET Tool) \cup {None}]
  /\ job \in [Refresher -> [name : Name, server : Server] \cup {None}]
  /\ pc \in [Request -> {"idle", "lookup", "forward", "cache", "answer"}]
  /\ req \in [Request ->
       [first : Name \cup {None}, via : Allowance \cup {None},
        target : Name \cup {None}, want : Want, server : Server \cup {None},
        page : SUBSET Tool, shown : SUBSET Tool]]
  /\ \A r \in Request : pc[r] \in {"forward", "cache", "answer"} =>
       req[r].server # None /\ upstream[req[r].target] = req[r].server

(* "Upstreams not listed here have no tools accessible through this         *)
(* profile": a request that came through a profile reaches a server only    *)
(* with a call, and shows only tools, that the profile allowed for this     *)
(* upstream when the request came, whatever becomes of the profile since.   *)
Confined ==
  \A r \in Request : req[r].via # None =>
    /\ pc[r] \in {"forward", "cache", "answer"} =>
         req[r].want \notin Tool \ req[r].via[req[r].target]
    /\ req[r].shown \subseteq req[r].via[req[r].target]

(* The list and the calls agree: a tool that a profile shows is not refused *)
(* to another request that came through the same version of the profile.   *)
ListedIsCallable ==
  \A r, q \in Request :
    /\ pc[r] = "answer" /\ pc[q] = "lookup"
    /\ req[r].via # None /\ req[q].via = req[r].via
    /\ req[q].target = req[r].target /\ req[q].want \in req[r].shown
    => ~Refused(q)

(* The cache, which all profiles share, holds what a server listed, never  *)
(* the part of it that one profile shows; and a client without a profile    *)
(* is shown all of it.                                                      *)
CachedWhole ==
  /\ \A n \in Name : cache[n] # None => cache[n] \in AnyPage
  /\ \A r \in Request :
       pc[r] = "answer" /\ req[r].via = None => req[r].shown = req[r].page

(* What is written to the cache is what the server that the map has now    *)
(* listed; only a refresh that began before an edit can write what an      *)
(* earlier one did.                                                         *)
StaleOnlyByLateRefresh ==
  [][\A n \in Name :
       cache'[n] # cache[n] =>
         \/ upstream[n] # None /\ cache'[n] \in PagesOf(upstream[n])
         \/ \E f \in Refresher :
              /\ job[f] # None /\ job'[f] = None
              /\ job[f].name = n /\ job[f].server # upstream[n]]_vars
=============================================================================
