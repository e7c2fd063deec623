---------------------------- MODULE ToolDiscovery ----------------------------
(***************************************************************************)
(* How the tools of an upstream are fetched for the cache: fetch_tools of  *)
(* proxy/http_upstream.rs and of proxy/stdio_upstream.rs, with             *)
(* mcp_protocol.rs.  A fetch asks the server to discover itself and goes   *)
(* on with the modern protocol, or with the handshake of the older one.    *)
(*                                                                         *)
(* Over HTTP a message is a POST and the session's id goes with it; nothing *)
(* limits the time of an answer.  Over stdio a fetch has a child of its    *)
(* own, which may die and is then replaced before the next message, and    *)
(* every answer has a time limit.  StdioUpstream has the inner life of the *)
(* child's pipes and of the table of pending requests.                     *)
(*                                                                         *)
(* Versions are numbered by age.  Operators named after another with a     *)
(* mistake added serve to show that the properties notice it.              *)
(***************************************************************************)
EXTENDS Integers, Sequences

CONSTANTS
  Refresher,  \* the fetches
  Legacy,     \* the versions of the older protocol that the proxy knows
  Modern,     \* the version of the modern protocol
  Unknown,    \* no version, or none of these
  MaxDeaths   \* bound on the children of a fetch that die

Version == Legacy \cup {Modern}
Newest(vs) == CHOOSE v \in vs : \A w \in vs : w <= v

(* Assumed where these are given their values; some versions of the older  *)
(* protocol, finitely many, always have a newest.                          *)
DiscoveryAssumption ==
  /\ Legacy \subseteq Nat /\ Legacy # {} /\ Modern \in Nat \ Legacy
  /\ \A vs \in (SUBSET Legacy) \ {{}} : Newest(vs) \in vs
  /\ Unknown \notin Version /\ \A vs \in SUBSET Version : Unknown # vs
  /\ MaxDeaths \in Nat

VARIABLES
  transport,  \* "http" or "stdio"
  stage,      \* stage[f]: where fetch f is
  offer,      \* offer[f]: the versions the server offered it, or Unknown
  version,    \* version[f]: the version it uses
  alive,      \* alive[f]: its child runs
  deaths,     \* deaths[f]: how many of its children died
  seen,       \* seen[f]: what its child, or the server, has been sent
  owed        \* owed[f]: the requests that are yet to be answered

peerVars == <<alive, deaths, seen, owed>>
vars == <<transport, stage, offer, version, peerVars>>

Init ==
  /\ transport \in {"http", "stdio"}
  /\ stage = [f \in Refresher |-> "idle"]
  /\ offer = [f \in Refresher |-> Unknown]
  /\ version = [f \in Refresher |-> Unknown]
  /\ alive = [f \in Refresher |-> FALSE]
  /\ deaths = [f \in Refresher |-> 0]
  /\ seen = [f \in Refresher |-> <<>>]
  /\ owed = [f \in Refresher |-> {}]

-----------------------------------------------------------------------------
(* Answers to server/discover: the class of the HTTP status (stdio has     *)
(* only "ok"), the class of the error code, if any, and the versions.      *)

Reply ==
  [status : {"ok", "denied", "client", "server"},
   kind : {"result", "unsupported", "reserved", "notFound", "error", "none"},
   versions : SUBSET Version, tools : BOOLEAN]

(* What follows from an answer: the next stage and the version it uses.    *)
Choice(place, v) == [stage |-> place, version |-> v]
Failure == Choice("failed", Unknown)
Fallback == Choice("initialize", Newest(Legacy))

NewestOfAllLegacy(vs) ==
  IF vs \cap Legacy = {} THEN Failure ELSE Fallback
NewestLegacy(vs) ==
  IF vs \cap Legacy = {} THEN Failure
  ELSE Choice("initialize", Newest(vs \cap Legacy))

BestOf(r) ==
  IF Modern \notin r.versions THEN NewestLegacy(r.versions)
  ELSE IF r.tools THEN Choice("list", Modern) ELSE Choice("listed", Modern)

(* Over HTTP, an error that is neither about versions nor that of an old   *)
(* server ends the fetch; over stdio it never does.                        *)
HttpChoice(r) ==
  CASE r.status = "denied" -> Failure
    [] r.status # "denied" /\ r.kind = "unsupported" -> NewestLegacy(r.versions)
    [] r.status = "ok" /\ r.kind = "result" -> BestOf(r)
    [] r.status = "ok" /\ r.kind = "notFound" -> Fallback
    [] r.status = "client" /\ r.kind \notin {"unsupported", "reserved"} -> Fallback
    [] OTHER -> Failure

StdioChoice(r) ==
  CASE r.kind = "result" -> BestOf(r)
    [] r.kind = "unsupported" -> BestOf([r EXCEPT !.tools = TRUE])
    [] OTHER -> Fallback

(* The versions that an answer speaks of, when it is heeded. *)
Says(r) ==
  IF r.kind = "unsupported" \/ (r.status = "ok" /\ r.kind = "result")
  THEN r.versions ELSE Unknown

-----------------------------------------------------------------------------
Goto(f, place) == stage' = [stage EXCEPT ![f] = place]

Take(f, choice, offered) ==
  /\ Goto(f, choice.stage)
  /\ version' = [version EXCEPT ![f] = choice.version]
  /\ offer' = [offer EXCEPT ![f] = offered]

(* An error: over stdio, server/discover may fail in any way.              *)
Err(f, place) ==
  IF place \in {"discover", "discovering"} /\ transport = "stdio"
  THEN Take(f, Fallback, Unknown)
  ELSE Goto(f, "failed") /\ UNCHANGED <<version, offer>>

Start(f) ==
  /\ stage[f] = "idle"
  /\ Goto(f, "discover")
  /\ UNCHANGED <<transport, offer, version, peerVars>>

(* The message is one more to the same server session, or child; a child   *)
(* that has died is replaced before it is sent.                            *)
SameSessionForgotten(f) == transport = "stdio" /\ alive[f]
SameSession(f) == transport = "http" \/ alive[f]

Send(f, message, place, awaited) ==
  \/ /\ Goto(f, place)
     /\ seen' = [seen EXCEPT ![f] =
          IF SameSession(f) THEN Append(@, message) ELSE <<message>>]
     /\ alive' = [alive EXCEPT ![f] = transport = "stdio"]
     /\ owed' = [owed EXCEPT ![f] = @ \cup awaited]
     /\ UNCHANGED <<offer, version, deaths>>
  \/ Err(f, stage[f]) /\ UNCHANGED peerVars

SendDiscover(f) ==
  /\ stage[f] = "discover"
  /\ Send(f, "discover", "discovering", {"discover"})
  /\ UNCHANGED transport

SendInitialize(f) ==
  /\ stage[f] = "initialize"
  /\ Send(f, "initialize", "initializing", {"initialize"})
  /\ UNCHANGED transport

(* A server that answers the notification with an error is only logged.    *)
SendInitialized(f) ==
  /\ stage[f] = "initialized"
  /\ Send(f, "initialized", "list", {})
  /\ UNCHANGED transport

SendList(f) ==
  /\ stage[f] = "list"
  /\ Send(f, "list", "listing", {"list"})
  /\ UNCHANGED transport

(* The request a stage waits for. *)
Awaited(f) ==
  CASE stage[f] = "discovering" -> "discover"
    [] stage[f] = "initializing" -> "initialize"
    [] stage[f] = "listing" -> "list"
    [] OTHER -> Unknown

-----------------------------------------------------------------------------
(* An answer comes, in whatever order; one that nobody awaits any more is  *)
(* dropped by the reader.                                                  *)

ForAnyone(f, m) == Awaited(f) # Unknown
For(f, m) == m = Awaited(f)

Discovered(f) ==
  /\ stage[f] = "discovering"
  /\ \E r \in Reply :
       /\ transport = "stdio" => r.status = "ok"
       /\ Take(f, IF transport = "http" THEN HttpChoice(r) ELSE StdioChoice(r),
               Says(r))

(* The server agrees to the version or names another, perhaps one that the *)
(* proxy does not know, and HTTP requests carry what it named from then on; *)
(* or it refuses.                                                          *)
InitializeAnswered(f) ==
  /\ stage[f] = "initializing"
  /\ \/ /\ Goto(f, "initialized")
        /\ IF transport = "http"
           THEN \E v \in Legacy \cup {Unknown} : version' = [version EXCEPT ![f] = v]
           ELSE UNCHANGED version
     \/ Goto(f, "failed") /\ UNCHANGED version
  /\ UNCHANGED offer

ListAnswered(f) ==
  /\ stage[f] = "listing"
  /\ Goto(f, "listed") \/ Goto(f, "failed")
  /\ UNCHANGED <<offer, version>>

Answer(f, m) ==
  /\ m \in owed[f]
  /\ owed' = [owed EXCEPT ![f] = @ \ {m}]
  /\ IF For(f, m)
     THEN Discovered(f) \/ InitializeAnswered(f) \/ ListAnswered(f)
     ELSE UNCHANGED <<stage, offer, version>>
  /\ UNCHANGED <<transport, alive, deaths, seen>>

(* The time is up, or the child is gone, or the connection breaks.         *)
NoTimeout(f) == ~alive[f]
TimeUp(f) == TRUE

GiveUp(f) ==
  /\ Awaited(f) # Unknown
  /\ transport = "stdio" => TimeUp(f)
  /\ Err(f, stage[f])
  /\ UNCHANGED <<transport, peerVars>>

Die(f) ==
  /\ alive[f] /\ deaths[f] < MaxDeaths
  /\ alive' = [alive EXCEPT ![f] = FALSE]
  /\ deaths' = [deaths EXCEPT ![f] = @ + 1]
  /\ owed' = [owed EXCEPT ![f] = {}]
  /\ UNCHANGED <<transport, stage, offer, version, seen>>

(* Whoever asked for the refresh disconnects, and the fetch is dropped.    *)
Drop(f) ==
  /\ stage[f] \notin {"idle", "listed", "failed"}
  /\ Goto(f, "failed")
  /\ UNCHANGED <<transport, offer, version, peerVars>>

Sends(f) ==
  SendDiscover(f) \/ SendInitialize(f) \/ SendInitialized(f) \/ SendList(f)

Receives(f) == \E m \in {"discover", "initialize", "list"} : Answer(f, m)

Next ==
  \E f \in Refresher :
    Start(f) \/ Sends(f) \/ Receives(f) \/ GiveUp(f) \/ Drop(f) \/ Die(f)

Spec == Init /\ [][Next]_vars

-----------------------------------------------------------------------------
(* Properties. *)

TypeOK ==
  /\ transport \in {"http", "stdio"}
  /\ stage \in [Refresher ->
       {"idle", "discover", "discovering", "initialize", "initializing",
        "initialized", "list", "listing", "listed", "failed"}]
  /\ offer \in [Refresher -> (SUBSET Version) \cup {Unknown}]
  /\ version \in [Refresher -> Version \cup {Unknown}]
  /\ alive \in [Refresher -> BOOLEAN]
  /\ deaths \in [Refresher -> 0 .. MaxDeaths]
  /\ seen \in [Refresher ->
       Seq({"discover", "initialize", "initialized", "list"})]
  /\ owed \in [Refresher -> SUBSET {"discover", "initialize", "list"}]

(* Every fetch is a Handshake, whatever the transport. *)
Phase(f) ==
  CASE stage[f] \in {"idle", "discover", "discovering"} -> "start"
    [] stage[f] \in {"initialize", "initializing"} -> "initialize"
    [] stage[f] \in {"list", "listing"} -> "list"
    [] OTHER -> stage[f]

Session(f) == INSTANCE Handshake
                WITH phase <- Phase(f), offer <- offer[f],
                     version <- version[f]

IsHandshake ==
  /\ \A f \in Refresher : Session(f)!Init
  /\ [][\A f \in Refresher :
          Session(f)!Next \/ UNCHANGED Session(f)!hvars]_vars

(* The server, or the child, that is asked for its tools in the older       *)
(* protocol has answered initialize and been told that it is initialized,  *)
(* unless the child is a replacement: that has been sent the rest of the   *)
(* messages only.                                                          *)
ListedInSession ==
  \A f \in Refresher : stage[f] = "listing" /\ version[f] # Modern =>
    LET n == Len(seen[f])
        last == SubSeq(<<"initialize", "initialized", "list">>, 4 - n, 3) IN
    \/ /\ n >= 3 /\ "initialize" \notin owed[f]
       /\ SubSeq(seen[f], n - 2, n) = <<"initialize", "initialized", "list">>
    \/ deaths[f] > 0 /\ n < 3 /\ seen[f] = last
=============================================================================
