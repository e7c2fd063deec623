--------------------------- MODULE OAuthDiscovery ---------------------------
(***************************************************************************)
(* How the metadata of a protected resource and of its authorization       *)
(* server are found (auth/oauth.rs, discover and what it calls): the       *)
(* Bearer challenge of a probe, the well-known locations, the walk through *)
(* them, and what the documents must say.                                  *)
(*                                                                         *)
(* Requests of a discovery change nothing but what it returns, so it is an *)
(* operator of the world: what its servers serve.  Paths and header values *)
(* are sequences of characters, few enough to tell apart what the code     *)
(* does.  A host stands for scheme, host and port; a URL is proper when it *)
(* is absolute, has neither query nor fragment, and is HTTPS or loopback.  *)
(*                                                                         *)
(* Operators named after another with a mistake added serve to show that   *)
(* the properties notice it.                                               *)
(***************************************************************************)
EXTENDS Integers, Sequences

CONSTANTS
  Character,         \* what paths and header values are written with
  Resource,          \* the URL of the upstream
  Issuer,            \* the configured authorization server
  ConfiguredScopes,  \* the configured scopes, perhaps none
  World,             \* what servers may serve (see below)
  Challenges         \* what they may challenge a probe with (see below)

Paths == Seq(Character)
Urls == [host : STRING, path : Paths, proper : BOOLEAN]

(* No value, no location and no scopes; a discovery that fails. *)
Absent == <<"absent">>
Nowhere == [host |-> "none", path |-> <<>>, proper |-> FALSE]
Failed == [resource |-> Nowhere, scopes |-> {}]

Least(S) == CHOOSE n \in S : \A m \in S : n <= m
Greatest(S) == CHOOSE n \in S : \A m \in S : m <= n

(* s begins with p. *)
Begins(s, p) == Len(p) <= Len(s) /\ SubSeq(s, 1, Len(p)) = p

-----------------------------------------------------------------------------
(* Paths. *)

Named(path) == {i \in DOMAIN path : path[i] # "/"}

TrimEnd(path) == SubSeq(path, 1, Greatest({0} \cup Named(path)))

Trim(path) ==
  IF Named(path) = {} THEN <<>> ELSE SubSeq(TrimEnd(path), Least(Named(path)), Len(path))

(* canonical_resource_url: one slash at the end is dropped. *)
Canonical(url) ==
  [url EXCEPT !.path =
     IF @ # <<>> /\ @[Len(@)] = "/" THEN SubSeq(@, 1, Len(@) - 1) ELSE @]

(* resource_is_same_or_parent, of a declared resource and the one to reach. *)
ParentByText(declared, target) == Begins(target, declared)
Parent(declared, target) == Begins(target, declared \o <<"/">>)

Covers(declared, target) ==
  LET d == TrimEnd(declared.path)
      t == TrimEnd(target.path) IN
  /\ declared.host = target.host
  /\ d = <<>> \/ d = t \/ Parent(d, t)

At(host, document, path) ==
  [host |-> host, document |-> document, path |-> path, proper |-> TRUE]

(* protected_resource_metadata_urls and authorization_metadata_urls, in the *)
(* order they are tried.                                                    *)
ResourceLocations(url) ==
  LET path == Trim(url.path)
      root == <<At(url.host, "resource", <<>>)>> IN
  IF path = <<>> THEN root ELSE <<At(url.host, "resource", path)>> \o root

IssuerLocations(issuer) ==
  LET path == Trim(issuer.path)
      inserted == <<At(issuer.host, "oauth", path), At(issuer.host, "openid", path)>> IN
  IF path = <<>> THEN inserted
  ELSE inserted \o <<At(issuer.host, "openid, appended", path)>>

-----------------------------------------------------------------------------
(* The challenge.  A header is a sequence of characters; a whole word, such *)
(* as a scheme, stands for one.                                             *)

Quote == "\""
Backslash == "\\"

(* What a word does not have in it. *)
Special == {" ", ",", "=", Quote, Backslash}

(* What the splitter knows after each character; cuts has the places of the *)
(* commas outside quotes.                                                   *)
CommaCutsAlways(at, c) == c = ","
CommaCuts(at, c) == c = "," /\ ~at.quoted

After(at, c, i) ==
  [escaped |-> ~at.escaped /\ c = Backslash /\ at.quoted,
   quoted |-> IF c = Quote /\ ~at.escaped THEN ~at.quoted ELSE at.quoted,
   cuts |-> IF ~at.escaped /\ CommaCuts(at, c) THEN Append(at.cuts, i) ELSE at.cuts]

Cuts(header) ==
  LET scan[i \in 0 .. Len(header)] ==
        IF i = 0 THEN [escaped |-> FALSE, quoted |-> FALSE, cuts |-> <<>>]
        ELSE After(scan[i - 1], header[i], i)
  IN scan[Len(header)].cuts

(* split_auth_header_parameters *)
Segments(header) ==
  LET cuts == <<0>> \o Cuts(header) \o <<Len(header) + 1>> IN
  [k \in 1 .. Len(cuts) - 1 |-> SubSeq(header, cuts[k] + 1, cuts[k + 1] - 1)]

Trimmed(text) ==
  LET solid == {i \in DOMAIN text : text[i] # " "} IN
  IF solid = {} THEN <<>> ELSE SubSeq(text, Least(solid), Greatest(solid))

(* The parts before and after the first c, if there is one. *)
Has(text, c) == \E i \in DOMAIN text : text[i] = c
First(text, c) == Least({i \in DOMAIN text : text[i] = c})
Before(text, c) == SubSeq(text, 1, First(text, c) - 1)
Rest(text, c) == SubSeq(text, First(text, c) + 1, Len(text))

(* A backslash makes the next character plain. *)
Unescaped(text) ==
  LET plain[i \in 0 .. Len(text)] ==
        IF i = 0 THEN [escaped |-> FALSE, text |-> <<>>]
        ELSE IF text[i] = Backslash /\ ~plain[i - 1].escaped
             THEN [plain[i - 1] EXCEPT !.escaped = TRUE]
             ELSE [escaped |-> FALSE, text |-> Append(plain[i - 1].text, text[i])]
  IN IF plain[Len(text)].escaped THEN Absent ELSE plain[Len(text)].text

(* parse_auth_parameter_value *)
ParameterValue(text) ==
  LET value == Trimmed(text)
      n == Len(value) IN
  IF n = 0 THEN Absent
  ELSE IF n >= 2 /\ value[1] = Quote /\ value[n] = Quote
       THEN Unescaped(SubSeq(value, 2, n - 1))
       ELSE value

Words(value) == {value[i] : i \in DOMAIN value} \ {" "}

NoChallenge == [location |-> Absent, scopes |-> {}]

(* store_challenge_parameter *)
Stored(found, key, value) ==
  CASE value # Absent /\ key = <<"resource_metadata">> ->
         [found EXCEPT !.location = value]
    [] value # Absent /\ key = <<"scope">> /\ Words(value) # {} ->
         [found EXCEPT !.scopes = Words(value)]
    [] OTHER -> found

(* One segment: it may name a scheme, and has a parameter or none.  Those of *)
(* the scheme Bearer count.                                                  *)
IsBearer(scheme) == scheme = <<"Bearer">>

Heard(at, segment) ==
  LET left == Trimmed(Before(segment, "="))
      value == ParameterValue(Rest(segment, "="))
      named == Has(segment, "=") /\ Has(left, " ")
      scheme == IF named THEN Before(left, " ") ELSE segment
      key == IF named THEN Trimmed(Rest(left, " ")) ELSE left
      bearer == IF named \/ ~Has(segment, "=") THEN IsBearer(scheme) ELSE at.bearer
  IN IF segment = <<>> THEN at
     ELSE [bearer |-> bearer,
           found |-> IF bearer /\ Has(segment, "=")
                     THEN Stored(at.found, key, value) ELSE at.found]

(* parse_bearer_challenge, of one header. *)
Challenge(header) ==
  LET segments == Segments(header)
      hear[k \in 0 .. Len(segments)] ==
        IF k = 0 THEN [bearer |-> FALSE, found |-> NoChallenge]
        ELSE Heard(hear[k - 1], Trimmed(segments[k]))
  IN hear[Len(segments)].found

-----------------------------------------------------------------------------
(* The walk.  A world is [header, served]: the challenge of the probe, as   *)
(* above, and the answer at each location: "missing" (404 or 405), "error"  *)
(* (any other status, no answer, or one that does not parse), or a document *)
(* of a resource or of an authorization server.                             *)

Status(w, place) == w.served[place].status
There(w, places) ==
  {i \in DOMAIN places : Status(w, places[i]) # "missing"}
Documents(w, places) ==
  {i \in DOMAIN places : Status(w, places[i]) = "document"}

(* Where the challenge points to; "#" stands for what validate_metadata_url *)
(* refuses.                                                                 *)
Challenged(value) ==
  [At("any", "challenged", value) EXCEPT
     !.proper = value # <<>> /\ ~Has(value, "#")]

Places(w) ==
  LET value == Challenge(w.header).location IN
  IF value = Absent THEN ResourceLocations(Resource) ELSE <<Challenged(value)>>

(* The scopes of the challenge first, then the configured, then those of   *)
(* the document.                                                           *)
Scopes(w, document) ==
  LET challenged == Challenge(w.header).scopes IN
  CASE challenged # {} -> challenged
    [] challenged = {} /\ ConfiguredScopes # {} -> ConfiguredScopes
    [] OTHER -> document.scopes

Accepted(document) ==
  /\ document.resource.proper
  /\ Covers(Canonical(document.resource), Resource)
  /\ Issuer \in document.servers

(* validate_resource_metadata: the first location where there is anything   *)
(* decides.                                                                 *)
ResourceFound(w) ==
  LET places == Places(w)
      there == There(w, places)
      first == places[Least(there)] IN
  IF /\ \A i \in DOMAIN places : places[i].proper
     /\ there # {}
     /\ Status(w, first) = "document" /\ Accepted(w.served[first])
  THEN [resource |-> Canonical(w.served[first].resource),
        scopes |-> Scopes(w, w.served[first])]
  ELSE Failed

(* The rest of discover: the first document decides, whatever errors come  *)
(* before it.                                                              *)
IssuerFound(w) ==
  LET places == IssuerLocations(Issuer)
      documents == Documents(w, places) IN
  /\ Issuer.proper /\ documents # {}
  /\ w.served[places[Least(documents)]].issuer = Issuer

Discovered(w) == IF IssuerFound(w) THEN ResourceFound(w) ELSE Failed

Discoverable == \E w \in World : Discovered(w) # Failed

(* The path of an absolute URL begins with a slash; what a document says is *)
(* its resource is a URL.                                                  *)
ASSUME UrlAssumption ==
  /\ "/" \in Character
  /\ Resource \in Urls /\ Issuer \in Urls
  /\ Resource.path # <<>> /\ Resource.path[1] = "/"
  /\ \A w \in World : \A i \in DOMAIN Places(w) :
       Status(w, Places(w)[i]) = "document" =>
         w.served[Places(w)[i]].resource \in Urls

-----------------------------------------------------------------------------
(* What they are compared with. *)

(* The paths that a path is under: itself, and with whole segments taken   *)
(* off its end.                                                            *)
Ancestors(path) ==
  {path} \cup {SubSeq(path, 1, i - 1) : i \in {j \in DOMAIN path : path[j] = "/"}}

(* What a discovery returns is about the resource, and the issuer is the    *)
(* configured one, by a document at the place that was to be asked first;  *)
(* and when there is such a document, it is found.                         *)
OurDocument(w, place) ==
  LET d == w.served[place] IN
  /\ d.status = "document" /\ d.resource.proper
  /\ d.resource.host = Resource.host /\ Issuer \in d.servers
  /\ TrimEnd(d.resource.path) \in Ancestors(TrimEnd(Resource.path))

(* The issuer has its document at one of the locations RFC 8414 and OpenID  *)
(* know, the last of which only an issuer with a path has, and none of      *)
(* those asked before has a document, of whatever issuer.                   *)
Kinds == <<"oauth", "openid", "openid, appended">>

IssuerPlace(i) == At(Issuer.host, Kinds[i], Trim(Issuer.path))

IssuerRight(w) ==
  /\ Issuer.proper
  /\ \E i \in 1 .. 3 :
       /\ i = 3 => Trim(Issuer.path) # <<>>
       /\ Status(w, IssuerPlace(i)) = "document"
       /\ w.served[IssuerPlace(i)].issuer = Issuer
       /\ \A j \in 1 .. i - 1 : Status(w, IssuerPlace(j)) # "document"

RightIn(w) ==
  LET places == Places(w) IN
  Discovered(w) # Failed <=>
    /\ \E i \in DOMAIN places :
         /\ OurDocument(w, places[i]) /\ places[i].proper
         /\ \A j \in 1 .. i - 1 : Status(w, places[j]) = "missing"
    /\ IssuerRight(w)

(* Whatever world the metadata are discovered in, they are those of the    *)
(* upstream: a document for its URL or a path above it, never of one that  *)
(* only begins alike, which lists the configured server, from the first    *)
(* place that has anything; the server's own document is the first there   *)
(* is at its locations; and both are found when they are there.            *)
DiscoveryRight == \A w \in World : RightIn(w)

(* Challenges have words for schemes and keys, and any values. *)
Word == Character \ Special
ChallengeParameter == [key : Word, value : Seq(Character)]
ASSUME ChallengesAssumption ==
  /\ Special \subseteq Character /\ "absent" \notin Character
  /\ Challenges \subseteq
       Seq([scheme : Word, first : ChallengeParameter, second : ChallengeParameter])

(* A header as a server writes it: challenges, each a scheme with           *)
(* parameters whose values are quoted.                                      *)
Escaped(value) ==
  LET text[i \in 0 .. Len(value)] ==
        IF i = 0 THEN <<>>
        ELSE text[i - 1] \o (IF value[i] \in {Quote, Backslash}
                             THEN <<Backslash, value[i]>> ELSE <<value[i]>>)
  IN <<Quote>> \o text[Len(value)] \o <<Quote>>

Written(challenges) ==
  LET Parameter(p) == <<p.key, "=">> \o Escaped(p.value)
      Text(c) == <<c.scheme, " ">> \o Parameter(c.first) \o <<",", " ">>
                   \o Parameter(c.second)
      text[k \in 0 .. Len(challenges)] ==
        IF k = 0 THEN <<>>
        ELSE text[k - 1] \o (IF k = 1 THEN <<>> ELSE <<",">>) \o Text(challenges[k])
  IN text[Len(challenges)]

(* The last value that a Bearer challenge gives a key; for the scopes, that *)
(* names any.                                                               *)
Parameters(challenges) ==
  [n \in 1 .. 2 * Len(challenges) |->
     LET c == challenges[(n + 1) \div 2] IN
     [scheme |-> c.scheme, p |-> IF n % 2 = 1 THEN c.first ELSE c.second]]

LastOf(challenges, key) ==
  LET all == Parameters(challenges)
      its == {n \in DOMAIN all :
                /\ all[n].scheme = "Bearer" /\ all[n].p.key = key
                /\ key = "scope" => Words(all[n].p.value) # {}}
  IN IF its = {} THEN Absent ELSE all[Greatest(its)].p.value

ReadBack(challenges) ==
  LET scopes == LastOf(challenges, "scope") IN
  Challenge(Written(challenges)) =
    [location |-> LastOf(challenges, "resource_metadata"),
     scopes |-> IF scopes = Absent THEN {} ELSE Words(scopes)]

(* A challenge that may point to them is read as it was written, with      *)
(* whatever commas, quotes and other schemes it has in it.                 *)
ChallengesRight == \A c \in Challenges : ReadBack(c)
=============================================================================
