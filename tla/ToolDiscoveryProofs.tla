------------------------- MODULE ToolDiscoveryProofs -------------------------
(***************************************************************************)
(* Proofs about ToolDiscovery, for any fetches, versions and number of     *)
(* children that die: types, the order of the messages of a session, and   *)
(* that every fetch is a Handshake.                                        *)
(***************************************************************************)
EXTENDS ToolDiscovery, SequenceTheorems, TLAPS

Places == {"idle", "discover", "discovering", "initialize", "initializing",
           "initialized", "list", "listing", "listed", "failed"}
Message == {"discover", "initialize", "initialized", "list"}

(* What versions are settled at each stage. *)
Agreed(f) ==
  /\ stage[f] \in {"idle", "discover", "discovering"} =>
       version[f] = Unknown /\ offer[f] = Unknown
  /\ stage[f] \in {"initialize", "initializing"} => version[f] \in Legacy
  /\ stage[f] = "initialized" => version[f] \in Legacy \cup {Unknown}

(* What the server, or the child, has been sent at each stage.             *)
Sent(f, i, m) == i \in DOMAIN seen[f] /\ seen[f][i] = m
Last(f) == Len(seen[f])

Told(f) ==
  \/ /\ Sent(f, Last(f) - 1, "initialize") /\ Sent(f, Last(f), "initialized")
     /\ "initialize" \notin owed[f]
  \/ deaths[f] > 0 /\ seen[f] = <<"initialized">>

Asked(f) ==
  \/ /\ Sent(f, Last(f) - 2, "initialize") /\ Sent(f, Last(f) - 1, "initialized")
     /\ Sent(f, Last(f), "list") /\ "initialize" \notin owed[f]
  \/ /\ deaths[f] > 0
     /\ seen[f] = <<"list">> \/ seen[f] = Append(<<"initialized">>, "list")

InSession(f) ==
  /\ transport = "stdio" /\ ~alive[f] /\ seen[f] # <<>> => deaths[f] > 0
  /\ stage[f] = "initializing" => Sent(f, Last(f), "initialize")
  /\ stage[f] = "initialized" =>
       Sent(f, Last(f), "initialize") /\ "initialize" \notin owed[f]
  /\ stage[f] = "list" /\ version[f] # Modern => Told(f)
  /\ stage[f] = "listing" /\ version[f] # Modern => Asked(f)

Inv == TypeOK /\ \A f \in Refresher : Agreed(f) /\ InSession(f)

-----------------------------------------------------------------------------
(* The choice after the answer to server/discover. *)

ChoiceRight(c, offered) ==
  /\ c \in [stage : Places, version : Version \cup {Unknown}]
  /\ \/ c.stage = "failed" /\ c.version = Unknown
     \/ /\ offered # Unknown /\ Modern \in offered
        /\ c.version = Modern /\ c.stage \in {"list", "listed"}
     \/ /\ offered # Unknown /\ offered \cap Legacy # {}
        /\ c.version = Newest(offered \cap Legacy)
        /\ c.version \in Legacy /\ c.stage = "initialize"
     \/ /\ offered = Unknown /\ c.version = Newest(Legacy)
        /\ c.version \in Legacy /\ c.stage = "initialize"

LEMMA FailureRight == ASSUME NEW offered PROVE ChoiceRight(Failure, offered)
BY DEF ChoiceRight, Failure, Choice, Places

LEMMA FallbackRight == ASSUME DiscoveryAssumption PROVE ChoiceRight(Fallback, Unknown)
BY DEF ChoiceRight, DiscoveryAssumption, Fallback, Choice, Places, Version

LEMMA NewestLegacyRight ==
  ASSUME DiscoveryAssumption, NEW vs \in SUBSET Version
  PROVE  ChoiceRight(NewestLegacy(vs), vs)
<1>1. vs # Unknown
  BY DEF DiscoveryAssumption
<1>2. CASE vs \cap Legacy = {}
  BY <1>2, FailureRight DEF NewestLegacy
<1>3. CASE vs \cap Legacy # {}
  <2>1. Newest(vs \cap Legacy) \in vs \cap Legacy
    BY <1>3 DEF DiscoveryAssumption
  <2> QED BY <1>1, <1>3, <2>1
     DEF ChoiceRight, NewestLegacy, Choice, Places, Version
<1> QED BY <1>2, <1>3

LEMMA BestOfRight ==
  ASSUME DiscoveryAssumption, NEW r, r.versions \in SUBSET Version
  PROVE  ChoiceRight(BestOf(r), r.versions)
<1>1. r.versions # Unknown
  BY DEF DiscoveryAssumption
<1>2. CASE Modern \in r.versions
  BY <1>1, <1>2 DEF ChoiceRight, BestOf, Choice, Places, Version
<1>3. CASE Modern \notin r.versions
  BY <1>3, NewestLegacyRight DEF BestOf
<1> QED BY <1>2, <1>3

LEMMA HttpChoiceRight ==
  ASSUME DiscoveryAssumption, NEW r \in Reply
  PROVE  ChoiceRight(HttpChoice(r), Says(r))
<1> USE DEF HttpChoice, Says
<1>1. r.versions \in SUBSET Version
  BY DEF Reply
<1>2. CASE r.status = "denied"
  BY <1>2, FailureRight
<1>3. CASE r.status # "denied" /\ r.kind = "unsupported"
  BY <1>1, <1>3, NewestLegacyRight
<1>4. CASE r.status = "ok" /\ r.kind = "result"
  BY <1>1, <1>4, BestOfRight
<1>5. CASE \/ r.status = "ok" /\ r.kind = "notFound"
           \/ r.status = "client" /\ r.kind \notin {"unsupported", "reserved"}
  BY <1>5, FallbackRight
<1>6. CASE ~(\/ r.status = "denied"
             \/ r.status # "denied" /\ r.kind = "unsupported"
             \/ r.status = "ok" /\ r.kind = "result"
             \/ r.status = "ok" /\ r.kind = "notFound"
             \/ r.status = "client" /\ r.kind \notin {"unsupported", "reserved"})
  BY <1>6, FailureRight
<1> QED BY <1>2, <1>3, <1>4, <1>5, <1>6

LEMMA StdioChoiceRight ==
  ASSUME DiscoveryAssumption, NEW r \in Reply, r.status = "ok"
  PROVE  ChoiceRight(StdioChoice(r), Says(r))
<1> USE DEF StdioChoice, Says
<1>1. r.versions \in SUBSET Version
  BY DEF Reply
<1>2. CASE r.kind = "result"
  BY <1>1, <1>2, BestOfRight
<1>3. CASE r.kind = "unsupported"
  <2>1. [r EXCEPT !.tools = TRUE].versions = r.versions
    BY DEF Reply
  <2> QED BY <1>1, <1>3, <2>1, BestOfRight
<1>4. CASE r.kind \notin {"result", "unsupported"}
  BY <1>4, FallbackRight
<1> QED BY <1>2, <1>3, <1>4

LEMMA DiscoveredRight ==
  ASSUME DiscoveryAssumption, TypeOK, NEW f \in Refresher, Discovered(f)
  PROVE  /\ stage[f] = "discovering"
         /\ \E c : \E offered \in (SUBSET Version) \cup {Unknown} :
              ChoiceRight(c, offered) /\ Take(f, c, offered)
<1>1. PICK r \in Reply :
        /\ transport = "stdio" => r.status = "ok"
        /\ Take(f, IF transport = "http" THEN HttpChoice(r) ELSE StdioChoice(r), Says(r))
  BY DEF Discovered
<1>2. Says(r) \in (SUBSET Version) \cup {Unknown}
  BY DEF Says, Reply
<1>3. transport # "http" => transport = "stdio"
  BY DEF TypeOK
<1>4. ChoiceRight(IF transport = "http" THEN HttpChoice(r) ELSE StdioChoice(r), Says(r))
  BY <1>1, <1>3, HttpChoiceRight, StdioChoiceRight
<1> QED BY <1>1, <1>2, <1>4 DEF Discovered

-----------------------------------------------------------------------------
(* A choice, or an error, is a step of the Handshake and settles versions.  *)
Settled(f) ==
  /\ stage' \in [Refresher -> Places]
  /\ offer' \in [Refresher -> (SUBSET Version) \cup {Unknown}]
  /\ version' \in [Refresher -> Version \cup {Unknown}]
  /\ Agreed(f)' /\ Session(f)!Next
  /\ stage'[f] \in {"failed", "listed", "initialize", "list"}
  /\ stage'[f] = "list" => version'[f] = Modern

LEMMA TakeRight ==
  ASSUME DiscoveryAssumption, TypeOK, NEW f \in Refresher, Agreed(f),
         stage[f] \in {"discover", "discovering"}, NEW c,
         NEW offered \in (SUBSET Version) \cup {Unknown},
         ChoiceRight(c, offered), Take(f, c, offered)
  PROVE  Settled(f)
<1>1. /\ stage' = [stage EXCEPT ![f] = c.stage]
      /\ version' = [version EXCEPT ![f] = c.version]
      /\ offer' = [offer EXCEPT ![f] = offered]
      /\ c.stage \in Places /\ c.version \in Version \cup {Unknown}
  BY DEF Take, Goto, ChoiceRight
<1>2. /\ stage' \in [Refresher -> Places]
      /\ offer' \in [Refresher -> (SUBSET Version) \cup {Unknown}]
      /\ version' \in [Refresher -> Version \cup {Unknown}]
  BY <1>1 DEF TypeOK, Places
<1>3. stage'[f] = c.stage /\ version'[f] = c.version /\ offer'[f] = offered
  BY <1>1 DEF TypeOK
<1>4. c.stage \in {"failed", "listed", "initialize", "list"}
  BY DEF ChoiceRight
<1>5. Agreed(f)' /\ (stage'[f] = "list" => version'[f] = Modern)
  BY <1>3, DiscoveryAssumption DEF Agreed, ChoiceRight
<1>6. Phase(f) = "start" /\ Phase(f)' = c.stage
  BY <1>3, <1>4 DEF Phase
<1>7. version[f] = Unknown /\ offered \in (SUBSET (Legacy \cup {Modern})) \cup {Unknown}
  BY DEF Agreed, Version
<1>8. Session(f)!Choose \/ Session(f)!Fail
  BY <1>3, <1>6, <1>7
     DEF ChoiceRight, Session!Choose, Session!Fail, Session!Newest, Newest
<1>9. Session(f)!Next
  BY <1>8 DEF Session!Next
<1> QED BY <1>2, <1>3, <1>4, <1>5, <1>9 DEF Settled

LEMMA FailRight ==
  ASSUME TypeOK, NEW f \in Refresher, Agreed(f),
         stage[f] \notin {"listed", "failed"},
         Goto(f, "failed"), UNCHANGED <<version, offer>>
  PROVE  Settled(f)
<1>1. stage' = [stage EXCEPT ![f] = "failed"] /\ stage'[f] = "failed"
  BY DEF TypeOK, Goto
<1>2. Phase(f) \notin {"listed", "failed"} /\ Phase(f)' = "failed"
  BY <1>1 DEF Phase, TypeOK
<1>3. Session(f)!Next
  BY <1>2 DEF Session!Next, Session!Fail
<1> QED BY <1>1, <1>3 DEF Settled, TypeOK, Places, Agreed

LEMMA ErrRight ==
  ASSUME DiscoveryAssumption, TypeOK, NEW f \in Refresher, Agreed(f),
         stage[f] \notin {"idle", "listed", "failed"}, Err(f, stage[f])
  PROVE  Settled(f)
<1>1. CASE stage[f] \in {"discover", "discovering"} /\ transport = "stdio"
  BY <1>1, FallbackRight, TakeRight DEF Err
<1>2. CASE ~(stage[f] \in {"discover", "discovering"} /\ transport = "stdio")
  BY <1>2, FailRight DEF Err
<1> QED BY <1>1, <1>2

-----------------------------------------------------------------------------
(* What a step of fetch f leaves true of f, and of the others. *)

Right(f) ==
  /\ TypeOK' /\ Agreed(f)' /\ InSession(f)'
  /\ Session(f)!Next \/ UNCHANGED Session(f)!hvars

SameFor(g) ==
  UNCHANGED <<transport, stage[g], offer[g], version[g], alive[g], deaths[g],
              seen[g], owed[g]>>

LEMMA OthersRight ==
  ASSUME NEW g \in Refresher, SameFor(g), Agreed(g), InSession(g)
  PROVE  /\ Agreed(g)' /\ InSession(g)'
         /\ UNCHANGED Session(g)!hvars
<1>1. Phase(g)' = Phase(g)
  BY DEF SameFor, Phase
<1> QED BY <1>1
   DEF SameFor, Agreed, InSession, Told, Asked, Sent, Last, Session!hvars

(* Where versions are settled, the session is over, or not yet begun.      *)
LEMMA SettledRight ==
  ASSUME Inv, NEW f \in Refresher, Settled(f),
         UNCHANGED <<transport, alive, deaths, seen>>,
         owed' \in [Refresher -> SUBSET {"discover", "initialize", "list"}]
  PROVE  Right(f)
<1>1. TypeOK'
  BY DEF Inv, TypeOK, Settled, Places
<1>2. InSession(f)'
  BY DEF Inv, Settled, InSession
<1> QED BY <1>1, <1>2 DEF Settled, Right

LEMMA MessageAppended ==
  ASSUME NEW s \in Seq(Message), NEW m \in Message
  PROVE  /\ Append(s, m) \in Seq(Message) /\ <<m>> \in Seq(Message)
         /\ Len(Append(s, m)) = Len(s) + 1 /\ Append(s, m)[Len(s) + 1] = m
         /\ DOMAIN Append(s, m) = 1 .. Len(s) + 1
         /\ \A i \in 1 .. Len(s) : Append(s, m)[i] = s[i]
         /\ DOMAIN s = 1 .. Len(s) /\ Len(s) \in Nat
OBVIOUS

-----------------------------------------------------------------------------
(* Sending. *)

Sending(f, message, place, awaited) ==
  /\ Goto(f, place)
  /\ seen' = [seen EXCEPT ![f] =
       IF SameSession(f) THEN Append(@, message) ELSE <<message>>]
  /\ alive' = [alive EXCEPT ![f] = transport = "stdio"]
  /\ owed' = [owed EXCEPT ![f] = @ \cup awaited]
  /\ UNCHANGED <<transport, offer, version, deaths>>

LEMMA SendingIs ==
  ASSUME NEW f \in Refresher, NEW message, NEW place, NEW awaited,
         Send(f, message, place, awaited), UNCHANGED transport
  PROVE  \/ Sending(f, message, place, awaited)
         \/ Err(f, stage[f]) /\ UNCHANGED <<transport, peerVars>>
BY DEF Send, Sending

(* A message is appended, or is the first to a child that replaces one.    *)
LEMMA SendingRight ==
  ASSUME Inv, NEW f \in Refresher, NEW message \in Message, NEW place \in Places,
         NEW awaited \in SUBSET {"discover", "initialize", "list"},
         Sending(f, message, place, awaited)
  PROVE  /\ TypeOK'
         /\ stage'[f] = place /\ owed'[f] = owed[f] \cup awaited
         /\ UNCHANGED <<version[f], offer[f], deaths[f]>>
         /\ transport' = "stdio" => alive'[f]
         /\ Sent(f, Last(f), message)'
         /\ \/ /\ Last(f)' = Last(f) + 1 /\ Last(f) \in Nat
               /\ \A i, m : Sent(f, i, m) => Sent(f, i, m)'
            \/ seen'[f] = <<message>> /\ (seen[f] # <<>> => deaths[f] > 0)
<1>1. seen[f] \in Seq(Message) /\ Refresher = DOMAIN seen
  BY DEF Inv, TypeOK, Message
<1>2. seen'[f] = IF SameSession(f) THEN Append(seen[f], message) ELSE <<message>>
  BY <1>1 DEF Sending
<1>3. seen' \in [Refresher -> Seq(Message)]
  <2>1. seen \in [Refresher -> Seq(Message)]
    BY DEF Inv, TypeOK, Message
  <2> QED BY <1>1, <2>1, MessageAppended DEF Sending
<1>4. /\ stage'[f] = place /\ owed'[f] = owed[f] \cup awaited
      /\ UNCHANGED <<version[f], offer[f], deaths[f]>>
      /\ alive'[f] = (transport = "stdio") /\ transport' = transport
  BY DEF Inv, TypeOK, Sending, Goto
<1>5. TypeOK'
  <2>1. stage' \in [Refresher -> Places] /\ alive' \in [Refresher -> BOOLEAN]
        /\ owed' \in [Refresher -> SUBSET {"discover", "initialize", "list"}]
    BY DEF Inv, TypeOK, Sending, Goto, Places
  <2> QED BY <1>3, <2>1 DEF Inv, TypeOK, Sending, Places, Message
<1>6. CASE SameSession(f)
  <2>1. seen'[f] = Append(seen[f], message)
    BY <1>2, <1>6
  <2>2. /\ Last(f)' = Last(f) + 1 /\ Last(f) \in Nat
        /\ \A i, m : Sent(f, i, m) => Sent(f, i, m)'
        /\ Sent(f, Last(f), message)'
    BY <1>1, <2>1, MessageAppended DEF Sent, Last
  <2> QED BY <1>4, <1>5, <2>2
<1>7. CASE ~SameSession(f)
  <2>1. seen[f] # <<>> => deaths[f] > 0
    BY <1>7 DEF Inv, TypeOK, InSession, SameSession
  <2>2. Sent(f, Last(f), message)'
    BY <1>2, <1>7 DEF Sent, Last
  <2> QED BY <1>2, <1>4, <1>5, <1>7, <2>1, <2>2
<1> QED BY <1>6, <1>7

LEMMA SendsRight ==
  ASSUME DiscoveryAssumption, Inv, NEW f \in Refresher, Sends(f)
  PROVE  Right(f)
<1> USE DEF Message, Places
<1>1. ASSUME stage[f] \notin {"idle", "listed", "failed"}, Err(f, stage[f]),
             UNCHANGED <<transport, peerVars>>
      PROVE  Right(f)
  BY <1>1, ErrRight, SettledRight DEF Inv, TypeOK, peerVars
<1>2. CASE SendDiscover(f)
  <2>1. CASE Sending(f, "discover", "discovering", {"discover"})
    <3>1. stage[f] = "discover"
      BY <1>2 DEF SendDiscover
    <3>2. /\ TypeOK' /\ stage'[f] = "discovering"
          /\ UNCHANGED <<version[f], offer[f]>> /\ (transport' = "stdio" => alive'[f])
      BY <2>1, SendingRight
    <3>3. UNCHANGED Session(f)!hvars
      BY <3>1, <3>2 DEF Session!hvars, Phase
    <3> QED BY <3>1, <3>2, <3>3 DEF Inv, Right, Agreed, InSession
  <2> QED BY <1>1, <1>2, <2>1, SendingIs DEF SendDiscover
<1>3. CASE SendInitialize(f)
  <2>1. CASE Sending(f, "initialize", "initializing", {"initialize"})
    <3>1. stage[f] = "initialize"
      BY <1>3 DEF SendInitialize
    <3>2. /\ TypeOK' /\ stage'[f] = "initializing"
          /\ Sent(f, Last(f), "initialize")'
          /\ UNCHANGED <<version[f], offer[f]>> /\ (transport' = "stdio" => alive'[f])
      BY <2>1, SendingRight
    <3>3. UNCHANGED Session(f)!hvars
      BY <3>1, <3>2 DEF Session!hvars, Phase
    <3> QED BY <3>1, <3>2, <3>3 DEF Inv, Right, Agreed, InSession
  <2> QED BY <1>1, <1>3, <2>1, SendingIs DEF SendInitialize
<1>4. CASE SendInitialized(f)
  <2>1. CASE Sending(f, "initialized", "list", {})
    <3>1. /\ stage[f] = "initialized" /\ Sent(f, Last(f), "initialize")
          /\ "initialize" \notin owed[f]
      BY <1>4 DEF SendInitialized, Inv, InSession
    <3>2. /\ TypeOK' /\ stage'[f] = "list" /\ owed'[f] = owed[f]
          /\ Sent(f, Last(f), "initialized")'
          /\ UNCHANGED <<version[f], offer[f], deaths[f]>>
          /\ transport' = "stdio" => alive'[f]
          /\ \/ /\ Last(f)' = Last(f) + 1 /\ Last(f) \in Nat
                /\ \A i, m : Sent(f, i, m) => Sent(f, i, m)'
             \/ seen'[f] = <<"initialized">> /\ (seen[f] # <<>> => deaths[f] > 0)
      <4>1. {} \in SUBSET {"discover", "initialize", "list"} /\ owed[f] \cup {} = owed[f]
        OBVIOUS
      <4> QED BY <2>1, <4>1, SendingRight
    <3>3. Told(f)'
      <4>1. CASE /\ Last(f)' = Last(f) + 1 /\ Last(f) \in Nat
                 /\ \A i, m : Sent(f, i, m) => Sent(f, i, m)'
        <5>1. Sent(f, Last(f), "initialize") => Sent(f, Last(f) - 1, "initialize")'
          BY <4>1 DEF Sent
        <5> QED BY <3>1, <3>2, <5>1 DEF Told
      <4>2. CASE seen'[f] = <<"initialized">> /\ (seen[f] # <<>> => deaths[f] > 0)
        BY <3>1, <3>2, <4>2 DEF Told, Sent
      <4> QED BY <3>2, <4>1, <4>2
    <3>4. Session(f)!Initialized
      BY <3>1, <3>2 DEF Session!Initialized, Phase
    <3> QED BY <3>1, <3>2, <3>3, <3>4
       DEF Inv, Right, Agreed, InSession, Session!Next
  <2> QED BY <1>1, <1>4, <2>1, SendingIs DEF SendInitialized
<1>5. CASE SendList(f)
  <2>1. CASE Sending(f, "list", "listing", {"list"})
    <3>1. stage[f] = "list" /\ (version[f] # Modern => Told(f))
      BY <1>5 DEF SendList, Inv, InSession
    <3>2. /\ TypeOK' /\ stage'[f] = "listing" /\ owed'[f] = owed[f] \cup {"list"}
          /\ Sent(f, Last(f), "list")'
          /\ UNCHANGED <<version[f], offer[f], deaths[f]>>
          /\ transport' = "stdio" => alive'[f]
          /\ \/ /\ Last(f)' = Last(f) + 1 /\ Last(f) \in Nat
                /\ \A i, m : Sent(f, i, m) => Sent(f, i, m)'
             \/ seen'[f] = <<"list">> /\ (seen[f] # <<>> => deaths[f] > 0)
      BY <2>1, SendingRight
    <3>3. UNCHANGED Session(f)!hvars
      BY <3>1, <3>2 DEF Session!hvars, Phase
    <3>4. version[f] # Modern => Asked(f)'
      <4> SUFFICES ASSUME version[f] # Modern PROVE Asked(f)'
        OBVIOUS
      <4>1. CASE /\ Last(f)' = Last(f) + 1 /\ Last(f) \in Nat
                 /\ \A i, m : Sent(f, i, m) => Sent(f, i, m)'
        <5>1. CASE /\ Sent(f, Last(f) - 1, "initialize") /\ Sent(f, Last(f), "initialized")
                   /\ "initialize" \notin owed[f]
          <6>1. Sent(f, Last(f) - 2, "initialize")' /\ Sent(f, Last(f) - 1, "initialized")'
            <7>1. Last(f)' - 2 = Last(f) - 1 /\ Last(f)' - 1 = Last(f)
              BY <4>1
            <7> QED BY <4>1, <5>1, <7>1 DEF Sent
          <6> QED BY <3>2, <4>1, <5>1, <6>1 DEF Asked
        <5>2. CASE deaths[f] > 0 /\ seen[f] = <<"initialized">>
          <6>1. seen'[f] = IF SameSession(f) THEN Append(seen[f], "list") ELSE <<"list">>
            BY <2>1 DEF Inv, TypeOK, Sending
          <6> QED BY <3>2, <5>2, <6>1 DEF Asked
        <5> QED BY <3>1, <5>1, <5>2 DEF Told
      <4>2. CASE seen'[f] = <<"list">> /\ (seen[f] # <<>> => deaths[f] > 0)
        <5>1. seen[f] # <<>>
          BY <3>1 DEF Told, Sent
        <5> QED BY <3>2, <4>2, <5>1 DEF Asked
      <4> QED BY <3>2, <4>1, <4>2
    <3> QED BY <3>1, <3>2, <3>3, <3>4 DEF Inv, Right, Agreed, InSession
  <2> QED BY <1>1, <1>5, <2>1, SendingIs DEF SendList
<1> QED BY <1>2, <1>3, <1>4, <1>5 DEF Sends

-----------------------------------------------------------------------------
(* Answers. *)

LEMMA AnswerRight ==
  ASSUME DiscoveryAssumption, Inv, NEW f \in Refresher,
         NEW m \in {"discover", "initialize", "list"}, Answer(f, m)
  PROVE  Right(f)
<1>1. /\ owed' = [owed EXCEPT ![f] = owed[f] \ {m}]
      /\ owed'[f] = owed[f] \ {m}
      /\ owed' \in [Refresher -> SUBSET {"discover", "initialize", "list"}]
      /\ UNCHANGED <<transport, alive, deaths, seen>>
  BY DEF Answer, Inv, TypeOK
<1>2. CASE For(f, m) /\ Discovered(f)
  <2>1. stage[f] = "discovering" /\ TypeOK /\ Agreed(f)
    BY <1>2 DEF Discovered, Inv
  <2>2. PICK c : \E offered \in (SUBSET Version) \cup {Unknown} :
          ChoiceRight(c, offered) /\ Take(f, c, offered)
    BY <1>2, <2>1, DiscoveredRight
  <2>3. Settled(f)
    BY <2>1, <2>2, TakeRight
  <2> QED BY <1>1, <2>3, SettledRight
<1>3. CASE For(f, m) /\ InitializeAnswered(f)
  <2>1. /\ stage[f] = "initializing" /\ m = "initialize"
        /\ Sent(f, Last(f), "initialize") /\ UNCHANGED offer
    BY <1>3 DEF InitializeAnswered, For, Awaited, Inv, InSession
  <2>2. CASE /\ Goto(f, "initialized")
             /\ IF transport = "http"
                THEN \E v \in Legacy \cup {Unknown} : version' = [version EXCEPT ![f] = v]
                ELSE UNCHANGED version
    <3>1. /\ stage' \in [Refresher -> Places] /\ stage'[f] = "initialized"
          /\ version' \in [Refresher -> Version \cup {Unknown}]
          /\ version'[f] \in Legacy \cup {Unknown}
      BY <2>1, <2>2 DEF Goto, Inv, TypeOK, Agreed, Places, Version
    <3>2. TypeOK'
      BY <1>1, <2>1, <3>1 DEF Inv, TypeOK, Places
    <3>3. Agreed(f)' /\ InSession(f)'
      BY <1>1, <2>1, <3>1 DEF Agreed, Inv, InSession, Sent, Last
    <3>4. Session(f)!Initialize
      BY <2>1, <3>1 DEF Session!Initialize, Phase
    <3> QED BY <3>2, <3>3, <3>4 DEF Right, Session!Next
  <2>3. CASE Goto(f, "failed") /\ UNCHANGED version
    BY <1>1, <2>1, <2>3, FailRight, SettledRight DEF Inv
  <2> QED BY <1>3, <2>2, <2>3 DEF InitializeAnswered
<1>4. CASE For(f, m) /\ ListAnswered(f)
  <2>1. stage[f] = "listing" /\ UNCHANGED <<offer, version>>
    BY <1>4 DEF ListAnswered
  <2>2. CASE Goto(f, "listed")
    <3>1. stage' = [stage EXCEPT ![f] = "listed"] /\ stage'[f] = "listed"
      BY <2>2 DEF Goto, Inv, TypeOK
    <3>2. Session(f)!List
      BY <2>1, <3>1 DEF Session!List, Phase
    <3>3. Settled(f)
      BY <2>1, <3>1, <3>2
         DEF Settled, Session!Next, Inv, TypeOK, Places, Agreed
    <3> QED BY <1>1, <3>3, SettledRight
  <2>3. CASE Goto(f, "failed")
    BY <1>1, <2>1, <2>3, FailRight, SettledRight DEF Inv
  <2> QED BY <1>4, <2>2, <2>3 DEF ListAnswered
<1>5. CASE ~For(f, m)
  <2>1. UNCHANGED <<stage, offer, version>>
    BY <1>5 DEF Answer
  <2>2. TypeOK' /\ Agreed(f)'
    BY <1>1, <2>1 DEF Inv, TypeOK, Agreed
  <2>3. InSession(f)'
    BY <1>1, <2>1 DEF Inv, InSession, Told, Asked, Sent, Last
  <2>4. UNCHANGED Session(f)!hvars
    BY <2>1 DEF Session!hvars, Phase
  <2> QED BY <2>2, <2>3, <2>4 DEF Right
<1> QED BY <1>2, <1>3, <1>4, <1>5 DEF Answer

-----------------------------------------------------------------------------
(* The other steps of a fetch. *)

Step(f) == Start(f) \/ Sends(f) \/ Receives(f) \/ GiveUp(f) \/ Drop(f) \/ Die(f)

LEMMA StepRight ==
  ASSUME DiscoveryAssumption, Inv, NEW f \in Refresher, Step(f)
  PROVE  Right(f)
<1>1. TypeOK /\ Agreed(f) /\ InSession(f)
  BY DEF Inv
<1>2. CASE Start(f)
  <2>1. /\ stage[f] = "idle" /\ stage' = [stage EXCEPT ![f] = "discover"]
        /\ stage'[f] = "discover"
        /\ UNCHANGED <<transport, offer, version, alive, deaths, seen, owed>>
    BY <1>1, <1>2 DEF Start, Goto, TypeOK, peerVars
  <2>2. TypeOK' /\ Agreed(f)' /\ InSession(f)'
    BY <1>1, <2>1 DEF TypeOK, Agreed, InSession
  <2>3. UNCHANGED Session(f)!hvars
    BY <2>1 DEF Session!hvars, Phase
  <2> QED BY <2>2, <2>3 DEF Right
<1>3. CASE GiveUp(f)
  <2>1. stage[f] \notin {"idle", "listed", "failed"}
    BY <1>1, <1>3 DEF GiveUp, Awaited
  <2>2. Settled(f)
    BY <1>1, <1>3, <2>1, ErrRight DEF GiveUp
  <2> QED BY <1>1, <1>3, <2>2, SettledRight DEF GiveUp, TypeOK, peerVars
<1>4. CASE Drop(f)
  <2>1. Settled(f)
    BY <1>1, <1>4, FailRight DEF Drop
  <2> QED BY <1>1, <1>4, <2>1, SettledRight DEF Drop, TypeOK, peerVars
<1>5. CASE Die(f)
  <2>1. /\ deaths[f] < MaxDeaths /\ deaths' = [deaths EXCEPT ![f] = deaths[f] + 1]
        /\ alive' = [alive EXCEPT ![f] = FALSE] /\ owed' = [owed EXCEPT ![f] = {}]
        /\ UNCHANGED <<transport, stage, offer, version, seen>>
    BY <1>5 DEF Die
  <2>2. deaths[f] + 1 \in 0 .. MaxDeaths /\ deaths[f] + 1 > 0
    BY <1>1, <2>1 DEF TypeOK, DiscoveryAssumption
  <2>3. deaths'[f] > 0 /\ owed'[f] = {}
    BY <1>1, <2>1, <2>2 DEF TypeOK
  <2>4. TypeOK' /\ Agreed(f)'
    BY <1>1, <2>1, <2>2 DEF TypeOK, Agreed
  <2>5. InSession(f)'
    BY <1>1, <2>1, <2>3 DEF InSession, Told, Asked, Sent, Last
  <2>6. UNCHANGED Session(f)!hvars
    BY <2>1 DEF Session!hvars, Phase
  <2> QED BY <2>4, <2>5, <2>6 DEF Right
<1> QED BY <1>2, <1>3, <1>4, <1>5, SendsRight, AnswerRight DEF Step, Receives

LEMMA StepIsOfOne ==
  ASSUME TypeOK, NEW f \in Refresher, Step(f), NEW g \in Refresher, g # f
  PROVE  SameFor(g)
<1> USE DEF Goto, TypeOK, SameFor
<1>1. CASE Start(f) \/ Drop(f) \/ Die(f)
  BY <1>1 DEF Start, Drop, Die, peerVars
<1>2. ASSUME NEW place, Err(f, place), UNCHANGED <<transport, peerVars>>
      PROVE  SameFor(g)
  BY <1>2 DEF Err, Take, peerVars
<1>3. CASE GiveUp(f)
  BY <1>2, <1>3 DEF GiveUp
<1>4. CASE Receives(f)
  BY <1>4
     DEF Receives, Answer, Discovered, InitializeAnswered, ListAnswered, Take
<1>5. ASSUME NEW message, NEW place, NEW awaited,
             Send(f, message, place, awaited), UNCHANGED transport
      PROVE  SameFor(g)
  BY <1>2, <1>5 DEF Send
<1>6. CASE Sends(f)
  BY <1>5, <1>6
     DEF Sends, SendDiscover, SendInitialize, SendInitialized, SendList
<1> QED BY <1>1, <1>3, <1>4, <1>6 DEF Step

LEMMA InvStart == ASSUME DiscoveryAssumption, Init PROVE Inv
<1>1. TypeOK
  BY DEF Init, TypeOK, DiscoveryAssumption
<1>2. \A f \in Refresher : Agreed(f) /\ InSession(f)
  BY DEF Init, Agreed, InSession
<1> QED BY <1>1, <1>2 DEF Inv

(* Every step keeps the invariant and is a step of each fetch's Handshake. *)
LEMMA InvKept ==
  ASSUME DiscoveryAssumption, Inv, [Next]_vars
  PROVE  /\ Inv'
         /\ \A f \in Refresher : Session(f)!Next \/ UNCHANGED Session(f)!hvars
<1>1. CASE UNCHANGED vars
  <2>1. TypeOK'
    BY <1>1 DEF Inv, TypeOK, vars, peerVars
  <2>2. \A g \in Refresher : SameFor(g)
    BY <1>1 DEF vars, peerVars, SameFor
  <2> QED BY <2>1, <2>2, OthersRight DEF Inv
<1>2. CASE Next
  <2>1. PICK f \in Refresher : Step(f)
    BY <1>2 DEF Next, Step
  <2>2. Right(f)
    BY <2>1, StepRight
  <2>3. \A g \in Refresher \ {f} : SameFor(g)
    BY <2>1, StepIsOfOne DEF Inv
  <2>4. \A g \in Refresher \ {f} : /\ Agreed(g)' /\ InSession(g)'
                                  /\ UNCHANGED Session(g)!hvars
    BY <2>3, OthersRight DEF Inv
  <2> QED BY <2>2, <2>4 DEF Inv, Right
<1> QED BY <1>1, <1>2

-----------------------------------------------------------------------------
(* A fetch that lists its tools in the older protocol has sent what that   *)
(* protocol asks for.                                                      *)
LEMMA AskedIsListed ==
  ASSUME Inv
  PROVE  ListedInSession
<1> SUFFICES ASSUME NEW f \in Refresher, stage[f] = "listing", version[f] # Modern
             PROVE  LET n == Len(seen[f])
                        last == SubSeq(<<"initialize", "initialized", "list">>, 4 - n, 3) IN
                    \/ /\ n >= 3 /\ "initialize" \notin owed[f]
                       /\ SubSeq(seen[f], n - 2, n) = <<"initialize", "initialized", "list">>
                    \/ deaths[f] > 0 /\ n < 3 /\ seen[f] = last
  BY DEF ListedInSession
<1> DEFINE n == Len(seen[f])
           all == <<"initialize", "initialized", "list">>
<1>1. Asked(f) /\ seen[f] \in Seq(Message)
  BY DEF Inv, InSession, TypeOK, Message
<1>2. all \in Seq(Message) /\ Len(all) = 3
      /\ all[1] = "initialize" /\ all[2] = "initialized" /\ all[3] = "list"
  BY DEF Message
<1>3. CASE /\ Sent(f, Last(f) - 2, "initialize") /\ Sent(f, Last(f) - 1, "initialized")
           /\ Sent(f, Last(f), "list") /\ "initialize" \notin owed[f]
  <2>1. n \in Nat /\ DOMAIN seen[f] = 1 .. n
    BY <1>1
  <2>2. n >= 3
    BY <1>3, <2>1 DEF Sent, Last
  <2> DEFINE sub == SubSeq(seen[f], n - 2, n)
  <2>3. /\ sub \in Seq(Message) /\ Len(sub) = 3
        /\ \A i \in 1 .. 3 : sub[i] = seen[f][n - 2 + i - 1]
    <3>1. \A i \in n - 2 .. n : seen[f][i] \in Message
      BY <1>1, <2>1, <2>2
    <3> HIDE DEF n
    <3> QED BY <2>1, <2>2, <3>1, SubSeqProperties
  <2>4. /\ seen[f][n - 2] = "initialize" /\ seen[f][n - 1] = "initialized"
        /\ seen[f][n] = "list"
    BY <1>3 DEF Sent, Last
  <2>5. \A i \in 1 .. 3 : sub[i] = all[i]
    <3> HIDE DEF sub, n, all
    <3>1. sub[1] = all[1]
      BY <1>2, <2>1, <2>3, <2>4
    <3>2. sub[2] = all[2]
      BY <1>2, <2>1, <2>3, <2>4
    <3>3. sub[3] = all[3]
      BY <1>2, <2>1, <2>3, <2>4
    <3> QED BY <3>1, <3>2, <3>3
  <2>6. sub = all
    <3> HIDE DEF sub, all
    <3> QED BY <1>2, <2>3, <2>5, SeqEqual
  <2> QED BY <1>3, <2>2, <2>6
<1>4. CASE deaths[f] > 0 /\ seen[f] = <<"list">>
  <2>1. n = 1
    BY <1>4
  <2> DEFINE sub == SubSeq(all, 3, 3)
  <2>2. sub \in Seq(Message) /\ Len(sub) = 1 /\ sub[1] = all[3]
    <3> HIDE DEF all
    <3> QED BY <1>2, SubSeqProperties
  <2>3. sub = seen[f]
    <3> HIDE DEF sub
    <3> QED BY <1>1, <1>2, <1>4, <2>2, SeqEqual
  <2> QED BY <1>4, <2>1, <2>3
<1>5. CASE deaths[f] > 0 /\ seen[f] = Append(<<"initialized">>, "list")
  <2>1. n = 2 /\ seen[f][1] = "initialized" /\ seen[f][2] = "list"
    BY <1>5
  <2> DEFINE sub == SubSeq(all, 2, 3)
  <2>2. /\ sub \in Seq(Message) /\ Len(sub) = 2
        /\ sub[1] = all[2] /\ sub[2] = all[3]
    <3> HIDE DEF all
    <3> QED BY <1>2, SubSeqProperties
  <2>3. sub = seen[f]
    <3> HIDE DEF sub
    <3> QED BY <1>1, <1>2, <2>1, <2>2, SeqEqual
  <2> QED BY <1>5, <2>1, <2>3
<1> QED BY <1>1, <1>3, <1>4, <1>5 DEF Asked

LEMMA Invariance == ASSUME DiscoveryAssumption PROVE Spec => []Inv
<1>1. Inv /\ [Next]_vars => Inv'
  BY InvKept
<1>2. Init => Inv
  BY InvStart
<1> QED BY <1>1, <1>2, PTL DEF Spec

(* Types. *)
THEOREM TypeCorrect == ASSUME DiscoveryAssumption PROVE Spec => []TypeOK
<1>1. Inv => TypeOK
  BY DEF Inv
<1> QED BY <1>1, Invariance, PTL

(* A session of the older protocol is initialized before its tools are     *)
(* listed (fetch_tools_legacy of both upstreams), except by a child that   *)
(* replaces one that died (ensure_running).                                *)
THEOREM ListedOnlyInSession ==
  ASSUME DiscoveryAssumption PROVE Spec => []ListedInSession
<1>1. Inv => ListedInSession
  BY AskedIsListed
<1> QED BY <1>1, Invariance, PTL

(* Whatever the transport, and whatever its server answers or fails to, a  *)
(* fetch is a Handshake (fetch_tools, legacy_probe_fallback,               *)
(* select_protocol_version).                                               *)
THEOREM ImplementsHandshake ==
  ASSUME DiscoveryAssumption PROVE Spec => IsHandshake
<1>1. Init => \A f \in Refresher : Session(f)!Init
  BY DEF Init, Session!Init, Phase
<1>2. Inv /\ [Next]_vars =>
        [\A f \in Refresher : Session(f)!Next \/ UNCHANGED Session(f)!hvars]_vars
  BY InvKept
<1> QED BY <1>1, <1>2, Invariance, PTL DEF Spec, IsHandshake
=============================================================================
