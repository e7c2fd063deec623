----------------------------- MODULE MCOAuthAuth -----------------------------
(* OAuthAuth on small instances: a few requests for one upstream, and the  *)
(* worlds its metadata may be discovered in.                               *)
EXTENDS OAuthAuth, TLC

CONSTANTS h1, h2, h3

Url(host, path, proper) == [host |-> host, path |-> path, proper |-> proper]
Upstream == Url("upstream", <<"/", "a", "/", "b", "b">>, TRUE)
Server == Url("server", <<"/", "t">>, TRUE)

(* Resources that documents declare: around the path of the upstream. *)
Char == {"/", "a", "b"}
Path == {<<"/">> \o p : p \in UNION {[1 .. n -> Char] : n \in 0 .. 3}}
Declared ==
  {Url("upstream", p, TRUE) : p \in Path} \cup
  {Url("elsewhere", <<"/", "a">>, TRUE), Url("upstream", <<"/", "a">>, FALSE)}

Document(url, servers) ==
  [status |-> "document", resource |-> url, servers |-> servers, scopes |-> {"y"}]
IssuerDocument(issuer) == [status |-> "document", issuer |-> issuer]
Without == {[status |-> "missing"], [status |-> "error"]}

Root == At("upstream", "resource", <<>>)
Own == At("upstream", "resource", Trim(Upstream.path))
ServersOwn(document) == At("server", document, <<"t">>)

Headers == {<<>>, <<"Bearer", " ", "scope", "=", "x">>,
            <<"Bearer", " ", "resource_metadata", "=", "u">>,
            <<"Bearer", " ", "resource_metadata", "=", "#">>}

(* A document of a resource has any URL where that of the issuer is right;  *)
(* where that varies, a resource's is right or there is none.               *)
Some == Without \cup {Document(Upstream, {Server})}
Answers == Without \cup {Document(d, s) : d \in Declared, s \in {{}, {Server}}}
IssuerDocuments == {"oauth", "openid", "openid, appended"}
IssuerAnswers == Without \cup {IssuerDocument(i) : i \in {Server, Upstream}}

Serves(own, root, named, issuer) ==
  [place \in {Own, Root, Challenged(<<"u">>), Challenged(<<"#">>)} |->
     CASE place = Own -> own
       [] place = Root -> root
       [] OTHER -> named]
  @@ [place \in {ServersOwn(d) : d \in DOMAIN issuer} |-> issuer[place.document]]

Found == [d \in IssuerDocuments |-> IssuerDocument(Server)]

Worlds ==
  {[header |-> h, served |-> Serves(own, root, Document(Upstream, {Server}), Found)] :
     h \in Headers, own \in Answers, root \in Some}
  \cup
  {[header |-> <<>>, served |-> Serves(own, root, [status |-> "missing"], i)] :
     own \in Some, root \in Some, i \in [IssuerDocuments -> IssuerAnswers]}

(* Challenges with values of up to two characters. *)
Value == UNION {[1 .. n -> {"x", " ", ",", Quote, Backslash}] : n \in 0 .. 2}
Few == {<<>>, <<"x">>, <<"x", " ", ",">>}
P(key, value) == [key |-> key, value |-> value]
C(scheme, first, second) == [scheme |-> scheme, first |-> first, second |-> second]
Schemes == {"Bearer", "Basic"}
Keys == {"scope", "resource_metadata", "realm"}
OneChallenge ==
  {<<C(s, P(k, u), P(l, v))>> : s \in Schemes, k \in Keys, l \in Keys,
     u \in Few, v \in Value}
TwoChallenges ==
  {<<C(s, P(k, u), P("realm", <<>>)), C(t, P(l, v), P("scope", <<"y">>))>> :
     s \in Schemes, t \in Schemes, k \in Keys, l \in Keys, u \in Few, v \in Few}
HeadersWritten == OneChallenge \cup TwoChallenges

Letters == Char \cup Special \cup Schemes \cup Keys \cup {"t", "x", "y"}
=============================================================================
