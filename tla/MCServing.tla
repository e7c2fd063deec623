------------------------------ MODULE MCServing ------------------------------
(* Serving on a small instance: a server with two pages, one with a single  *)
(* page, and a name that may be an upstream, a profile or both.             *)
EXTENDS Serving, TLC

CONSTANTS a, b, s1, s2, t1, t2, r1, r2, f1

TwoServers == s1 :> <<{t1}, {t2}>> @@ s2 :> <<{t1, t2}>>
OneUpstream == a :> s1 @@ b :> None
TwoEdits == {<<a, s2>>, <<b, s1>>}
Profiles == {a :> {t1} @@ b :> {}}

Symmetry == Permutations(Request)
=============================================================================
