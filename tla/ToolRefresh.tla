----------------------------- MODULE ToolRefresh -----------------------------
(***************************************************************************)
(* An upstream with resolved credentials, used by proxied requests         *)
(* (do_proxy and the handling of a 401 in proxy/mod.rs, forward in         *)
(* proxy/http_upstream.rs) and by refreshes of its tools (refresh_upstream *)
(* in tool_cache.rs).  Both collect the headers of StaticToken; a refresh  *)
(* then makes a fetch of ToolDiscovery, and does not look for a 401.       *)
(***************************************************************************)
EXTENDS StaticToken

CONSTANTS
  Refresher, Request,                 \* the Handlers: refreshes, requests
  Legacy, Modern, Unknown, MaxDeaths  \* those of ToolDiscovery

VARIABLES
  transport, stage, offer, version, alive, deaths, seen, owed,  \* those, too
  listed    \* the refresh whose tools the cache has, or Nobody

Fetch == INSTANCE ToolDiscovery

ASSUME RefreshAssumption ==
  /\ Handler = Refresher \cup Request /\ Refresher \cap Request = {}
  /\ Fetch!DiscoveryAssumption

fetchVars == <<transport, stage, offer, version, alive, deaths, seen, owed>>
refreshVars == <<vars, fetchVars, listed>>

RefreshInit == Init /\ Fetch!Init /\ listed = Nobody

-----------------------------------------------------------------------------
(* The steps about a credential that refreshes and requests share, and     *)
(* those only a request takes.                                             *)

Resolving(h) ==
  /\ \E i \in Header : Read(h, i) \/ Enter(h, i) \/ Resolve(h, i)
  /\ UNCHANGED <<fetchVars, listed>>

Rejected(h) == Unauthorized(h) /\ UNCHANGED <<fetchVars, listed>>

Elsewhere ==
  /\ \/ \E h \in Handler : Begin(h)
     \/ \E h \in Request : Leave(h)
     \/ \E i \in Header : Age(i)
  /\ UNCHANGED <<fetchVars, listed>>

(* What forward can make of a request: it fails, even after the head of    *)
(* the answer when the body is read whole; or it returns the answer, with  *)
(* its status, and a stream as it comes.  Only over HTTP there is a 401.   *)
Outcome ==
  IF transport = "http" THEN {"error", "answer", "unauthorized"}
  ELSE {"error", "answer"}

Forward(h) ==
  /\ pc[h] = "ready"
  /\ \E outcome \in Outcome :
       Goto(h, IF outcome = "unauthorized" THEN "reject" ELSE "done")
  /\ UNCHANGED <<at, headerVars, fetchVars, listed>>

-----------------------------------------------------------------------------
(* A refresh has its headers. *)
StartFetch(f) ==
  /\ pc[f] = "ready"
  /\ Fetch!Start(f)
  /\ UNCHANGED <<vars, listed>>

(* What the proxy does by itself, and what the server or the child does.   *)
Proceed(f) ==
  /\ Fetch!Sends(f) \/ (transport = "stdio" /\ Fetch!GiveUp(f))
  /\ UNCHANGED <<vars, listed>>

Happens(f) ==
  /\ \/ Fetch!Receives(f) \/ Fetch!Die(f)
     \/ transport = "http" /\ Fetch!GiveUp(f)
  /\ UNCHANGED <<vars, listed>>

(* set_tools, or the error. *)
EndFetch(f) ==
  /\ pc[f] = "ready" /\ stage[f] \in {"listed", "failed"}
  /\ Goto(f, "done")
  /\ listed' = IF stage[f] = "listed" THEN f ELSE listed
  /\ UNCHANGED <<at, headerVars, fetchVars>>

(* Whoever asked for the refresh disconnects. *)
LeaveRefresh(f) ==
  /\ Leave(f)
  /\ \/ Fetch!Drop(f)
     \/ stage[f] \in {"idle", "listed", "failed"} /\ UNCHANGED fetchVars
  /\ UNCHANGED listed

RefreshNext ==
  \/ \E h \in Handler : Resolving(h)
  \/ \E h \in Request : Forward(h) \/ Rejected(h)
  \/ \E f \in Refresher :
       \/ StartFetch(f) \/ Proceed(f) \/ Happens(f)
       \/ EndFetch(f) \/ LeaveRefresh(f)
  \/ Elsewhere

RefreshSpec == RefreshInit /\ [][RefreshNext]_refreshVars

(* The runtime goes on with some handler that can go on by itself.  A       *)
(* provider that is asked for a credential is relied on to answer or to    *)
(* fail; an HTTP server is not, nor is a child.                            *)
FairSpec ==
  /\ RefreshSpec
  /\ WF_refreshVars(\E h \in Handler : Resolving(h) \/ Rejected(h))
  /\ WF_refreshVars(\E f \in Refresher :
                      StartFetch(f) \/ Proceed(f) \/ EndFetch(f))

-----------------------------------------------------------------------------
(* Properties. *)

(* A fetch is under way only for a refresh that has its headers, and their *)
(* locks are held by none but those who resolve them.                      *)
RefreshTypeOK ==
  /\ TypeOK /\ Fetch!TypeOK
  /\ listed \in Refresher \cup {Nobody}
  /\ \A f \in Refresher :
       stage[f] \notin {"idle", "listed", "failed"} => pc[f] = "ready"

(* Every fetch goes through a Handshake with the server. *)
IsHandshake == Fetch!IsHandshake

(* In the older protocol tools are asked of a server, or a child, that has *)
(* been through the whole handshake, or of a child that replaced it.       *)
ListedInSession == Fetch!ListedInSession

(* Over stdio no refresh goes on for ever, whatever the child does: it is   *)
(* silent, answers late or out of order, or dies.                          *)
RefreshEnds ==
  transport = "stdio" => <>[](\A f \in Refresher : pc[f] \in {"idle", "done"})
=============================================================================
