------------------------- MODULE OAuthDiscoveryProofs -------------------------
(***************************************************************************)
(* Proofs about OAuthDiscovery, for paths and headers of any length: that  *)
(* what discovery finds are the metadata of the upstream, and that a       *)
(* challenge is read as it was written.                                    *)
(*                                                                         *)
(* Nothing here has steps: what the code computes is compared with what it *)
(* is for.  Its loops are recursive functions.  They exist by Recursion,   *)
(* and what they compute is shown by UpTo, induction on how far they are   *)
(* over a set: the theorems of the library take an operator instead.       *)
(***************************************************************************)
EXTENDS OAuthDiscovery, SequenceTheorems, WellFoundedInduction, TLAPS

(* Numbers, and functions by recursion. *)

(* A set of numbers has a least member, one below a bound a greatest. *)
LEMMA LeastIs ==
  ASSUME NEW S \in SUBSET Nat, S # {}
  PROVE  Least(S) \in S /\ \A m \in S : Least(S) <= m
<1>1. IsWellFoundedOn(OpToRel(<, Nat), Nat)
  BY NatLessThanWellFounded
<1> DEFINE R == {p \in Nat \X Nat : p[1] < p[2]}
<1>2. OpToRel(<, Nat) = R
  BY DEF OpToRel
<1>3. PICK n \in S : \A m \in S : <<m, n>> \notin R
  <2> HIDE DEF R
  <2> QED BY <1>1, <1>2, WFMin
<1>4. \A m \in S : n <= m
  <2> SUFFICES ASSUME NEW m \in S PROVE n <= m
    OBVIOUS
  <2>1. ~(m < n)
    BY <1>3
  <2> QED BY <2>1
<1> QED BY <1>4 DEF Least

LEMMA GreatestIs ==
  ASSUME NEW S, S # {}, NEW b \in Nat, \A n \in S : n \in 0 .. b
  PROVE  Greatest(S) \in S /\ \A m \in S : m <= Greatest(S)
<1> DEFINE T == {b - n : n \in S}
<1>1. T \in SUBSET Nat /\ T # {}
  OBVIOUS
<1>2. Least(T) \in T /\ \A m \in T : Least(T) <= m
  BY <1>1, LeastIs
<1>3. PICK n \in S : Least(T) = b - n
  BY <1>2
<1>4. \A m \in S : m <= n
  <2> SUFFICES ASSUME NEW m \in S PROVE m <= n
    OBVIOUS
  <2>1. b - m \in T /\ m \in 0 .. b /\ n \in 0 .. b
    OBVIOUS
  <2>2. b - n <= b - m
    <3> HIDE DEF T
    <3> QED BY <1>2, <1>3, <2>1
  <2> QED BY <2>1, <2>2
<1> QED BY <1>4 DEF Greatest

(* The least and the greatest of a set, where they are known. *)
LEMMA LeastAt ==
  ASSUME NEW S \in SUBSET Int, NEW x \in S, \A y \in S : x <= y
  PROVE  Least(S) = x
<1>1. PICK y : y = Least(S)
  OBVIOUS
<1>2. y \in S /\ \A z \in S : y <= z
  BY <1>1 DEF Least
<1> QED BY <1>1, <1>2

LEMMA GreatestAt ==
  ASSUME NEW S \in SUBSET Int, NEW x \in S, \A y \in S : y <= x
  PROVE  Greatest(S) = x
<1>1. PICK y : y = Greatest(S)
  OBVIOUS
<1>2. y \in S /\ \A z \in S : z <= y
  BY <1>1 DEF Greatest
<1> QED BY <1>1, <1>2

(* Induction up to a bound, of what a set has. *)
LEMMA UpTo ==
  ASSUME NEW n \in Nat, NEW P, 0 \in P, \A i \in 1 .. n : i - 1 \in P => i \in P
  PROVE  \A i \in 0 .. n : i \in P
<1> DEFINE Bad == {i \in 0 .. n : i \notin P}
<1> SUFFICES ASSUME Bad # {} PROVE FALSE
  OBVIOUS
<1>1. Bad \in SUBSET Nat
  OBVIOUS
<1>2. Least(Bad) \in Bad /\ \A m \in Bad : Least(Bad) <= m
  BY <1>1, LeastIs
<1>3. PICK i : i = Least(Bad)
  OBVIOUS
<1>4. i \in 0 .. n /\ i \notin P
  BY <1>2, <1>3
<1>5. i # 0 /\ i \in 1 .. n /\ i - 1 \in 0 .. n
  BY <1>4
<1>6. i - 1 \notin Bad
  <2>1. ~(i <= i - 1)
    BY <1>5
  <2> HIDE DEF Bad
  <2> QED BY <1>2, <1>3, <2>1
<1> QED BY <1>4, <1>5, <1>6

(* A state that is carried on for n steps. *)
Steps(n, S) == [1 .. n -> [S -> S]]
Carried(f, n, S, s, step) ==
  f \in [0 .. n -> S] /\ f[0] = s /\ \A i \in 1 .. n : f[i] = step[i][f[i - 1]]

(* Which is what a recursive function of the first n numbers is. *)
LEMMA Recursion ==
  ASSUME NEW n \in Nat, NEW S, NEW s \in S, NEW step \in Steps(n, S)
  PROVE  \E f : Carried(f, n, S, s, step)
<1>0. step \in [1 .. n -> [S -> S]]
  BY DEF Steps
<1> DEFINE Solves(k, f) == f[0] = s /\ \A i \in 1 .. k : f[i] = step[i][f[i - 1]]
           P == {k \in 0 .. n : \E f \in [0 .. k -> S] : Solves(k, f)}
<1>1. 0 \in P
  <2> DEFINE f == [i \in 0 .. 0 |-> s]
  <2>1. f \in [0 .. 0 -> S] /\ Solves(0, f)
    OBVIOUS
  <2> HIDE DEF f, Solves
  <2> QED BY <2>1
<1>2. ASSUME NEW k \in 1 .. n, k - 1 \in P PROVE k \in P
  <2>1. PICK g \in [0 .. k - 1 -> S] : Solves(k - 1, g)
    BY <1>2
  <2> DEFINE f == [i \in 0 .. k |-> IF i = k THEN step[k][g[k - 1]] ELSE g[i]]
  <2>2. g[k - 1] \in S /\ step[k][g[k - 1]] \in S
    BY <1>0
  <2>3. f \in [0 .. k -> S]
    BY <2>2
  <2>4. f[k] = step[k][g[k - 1]] /\ \A i \in 0 .. k - 1 : f[i] = g[i]
    OBVIOUS
  <2>5. Solves(k, f)
    <3> HIDE DEF f
    <3>1. f[0] = s
      BY <2>1, <2>4
    <3>2. ASSUME NEW i \in 1 .. k PROVE f[i] = step[i][f[i - 1]]
      <4>1. f[i - 1] = g[i - 1]
        BY <2>4
      <4>2. CASE i = k
        BY <2>4, <4>1, <4>2
      <4>3. CASE i # k
        <5>1. i \in 1 .. k - 1 /\ i \in 0 .. k - 1
          BY <4>3
        <5> QED BY <2>1, <2>4, <4>1, <5>1
      <4> QED BY <4>2, <4>3
    <3> QED BY <3>1, <3>2
  <2>6. k \in 0 .. n
    OBVIOUS
  <2> HIDE DEF f, Solves
  <2> QED BY <2>3, <2>5, <2>6
<1>3. n \in P
  <2> HIDE DEF P
  <2>1. \A i \in 0 .. n : i \in P
    BY <1>1, <1>2, UpTo
  <2> QED BY <2>1
<1>4. PICK f \in [0 .. n -> S] : Solves(n, f)
  BY <1>3
<1> QED BY <1>4 DEF Carried

-----------------------------------------------------------------------------

-----------------------------------------------------------------------------
(* Discovery.  What the code does is compared with what it is for: slashes *)
(* cut off one at a time with the end of the path, prefixes with ancestors, *)
(* the walk through the locations with the first that has anything.        *)

(* The end of a path without the slashes it ends in. *)
LEMMA TrimEndIs ==
  ASSUME NEW p \in Paths
  PROVE  \E n \in 0 .. Len(p) :
           /\ TrimEnd(p) = SubSeq(p, 1, n) /\ TrimEnd(p) \in Paths
           /\ Len(TrimEnd(p)) = n /\ \A i \in 1 .. n : TrimEnd(p)[i] = p[i]
           /\ n # 0 => p[n] # "/"
           /\ \A i \in n + 1 .. Len(p) : p[i] = "/"
<1> DEFINE S == {0} \cup Named(p)
           n == Greatest(S)
<1>1. Len(p) \in Nat /\ \A m \in S : m \in 0 .. Len(p)
  BY DEF Named, Paths
<1>2. n \in S /\ \A m \in S : m <= n
  <2> HIDE DEF S
  <2>1. S # {}
    BY DEF S
  <2> QED BY <1>1, <2>1, GreatestIs
<1>3. n \in 0 .. Len(p) /\ n # 0 => p[n] # "/"
  BY <1>1, <1>2 DEF Named
<1>4. \A i \in n + 1 .. Len(p) : p[i] = "/"
  BY <1>1, <1>2 DEF Named, Paths
<1>5. TrimEnd(p) = SubSeq(p, 1, n)
  BY DEF TrimEnd
<1>6. n \in 0 .. Len(p)
  BY <1>1, <1>2
<1> HIDE DEF n
<1>7. /\ SubSeq(p, 1, n) \in Seq(Character)
      /\ Len(SubSeq(p, 1, n)) = IF 1 <= n THEN n - 1 + 1 ELSE 0
      /\ \A i \in 1 .. n - 1 + 1 : SubSeq(p, 1, n)[i] = p[1 + i - 1]
  <2>1. \A i \in 1 .. n : p[i] \in Character
    BY <1>6 DEF Paths
  <2> QED BY <1>6, <2>1, SubSeqProperties
<1>8. Len(TrimEnd(p)) = n /\ \A i \in 1 .. n : TrimEnd(p)[i] = p[i]
  BY <1>5, <1>6, <1>7
<1> QED BY <1>3, <1>4, <1>5, <1>6, <1>7, <1>8 DEF Paths

(* Two such ends are one when the paths agree but for slashes at the end.  *)
LEMMA TrimEndOnly ==
  ASSUME NEW p \in Paths, NEW n \in 0 .. Len(p), n # 0 => p[n] # "/",
         \A i \in n + 1 .. Len(p) : p[i] = "/"
  PROVE  Len(TrimEnd(p)) = n
<1>1. PICK m \in 0 .. Len(p) :
        /\ Len(TrimEnd(p)) = m
        /\ m # 0 => p[m] # "/"
        /\ \A i \in m + 1 .. Len(p) : p[i] = "/"
  BY TrimEndIs
<1>2. Len(p) \in Nat
  BY DEF Paths
<1>3. ~(m < n) /\ ~(n < m)
  BY <1>1, <1>2
<1> QED BY <1>1, <1>3

(* A slash dropped from the end makes no difference to it. *)
LEMMA CanonicalTrimmed ==
  ASSUME NEW url \in Urls
  PROVE  /\ Canonical(url) \in Urls
         /\ Canonical(url).host = url.host /\ Canonical(url).proper = url.proper
         /\ TrimEnd(Canonical(url).path) = TrimEnd(url.path)
<1> DEFINE p == url.path
           q == SubSeq(p, 1, Len(p) - 1)
<1>1. p \in Seq(Character) /\ Len(p) \in Nat
  BY DEF Urls, Paths
<1>2. CASE p # <<>> /\ p[Len(p)] = "/"
  <2>1. /\ q \in Seq(Character) /\ Len(q) = Len(p) - 1 /\ Len(p) >= 1
        /\ \A i \in 1 .. Len(p) - 1 : q[i] = p[i]
    <3>1. Len(p) >= 1 /\ \A i \in 1 .. Len(p) - 1 : p[i] \in Character
      BY <1>1, <1>2, EmptySeq
    <3>2. /\ SubSeq(p, 1, Len(p) - 1) \in Seq(Character)
          /\ Len(SubSeq(p, 1, Len(p) - 1))
               = IF 1 <= Len(p) - 1 THEN Len(p) - 1 - 1 + 1 ELSE 0
          /\ \A i \in 1 .. Len(p) - 1 - 1 + 1 :
               SubSeq(p, 1, Len(p) - 1)[i] = p[1 + i - 1]
      BY <1>1, <3>1, SubSeqProperties
    <3>3. Len(p) - 1 - 1 + 1 = Len(p) - 1 /\ \A i \in Nat : 1 + i - 1 = i
      BY <1>1
    <3>4. Len(q) = Len(p) - 1
      BY <1>1, <3>1, <3>2
    <3>5. \A i \in 1 .. Len(p) - 1 : q[i] = p[i]
      BY <3>2, <3>3
    <3> QED BY <3>1, <3>2, <3>4, <3>5
  <2>2. Canonical(url) = [url EXCEPT !.path = q]
    BY <1>2 DEF Canonical
  <2>3. PICK n \in 0 .. Len(p) :
          /\ Len(TrimEnd(p)) = n /\ TrimEnd(p) \in Paths
          /\ \A i \in 1 .. n : TrimEnd(p)[i] = p[i]
          /\ n # 0 => p[n] # "/"
          /\ \A i \in n + 1 .. Len(p) : p[i] = "/"
    BY <1>1, TrimEndIs DEF Paths
  <2> HIDE DEF p, q
  <2>4. n \in 0 .. Len(q) /\ n # 0 => q[n] # "/"
    BY <1>1, <1>2, <2>1, <2>3
  <2>5. n \in 0 .. Len(q) /\ \A i \in n + 1 .. Len(q) : q[i] = "/"
    BY <1>1, <1>2, <2>1, <2>3
  <2>6. Len(TrimEnd(q)) = n
    BY <2>1, <2>4, <2>5, TrimEndOnly DEF Paths
  <2>7. TrimEnd(q) \in Paths /\ \A i \in 1 .. n : TrimEnd(q)[i] = q[i]
    BY <2>1, <2>6, TrimEndIs DEF Paths
  <2>8. TrimEnd(q) = TrimEnd(p)
    <3>1. \A i \in 1 .. n : TrimEnd(q)[i] = TrimEnd(p)[i]
      BY <1>1, <2>1, <2>3, <2>5, <2>7
    <3> QED BY <2>3, <2>6, <2>7, <3>1, SeqEqual DEF Paths
  <2> QED BY <2>1, <2>2, <2>8 DEF Urls, Paths, p
<1>3. CASE ~(p # <<>> /\ p[Len(p)] = "/")
  <2>1. Canonical(url) = [url EXCEPT !.path = p]
    BY <1>3 DEF Canonical
  <2> QED BY <2>1 DEF Urls
<1> QED BY <1>2, <1>3

(* What a sequence begins with, place by place. *)
LEMMA BeginsIs ==
  ASSUME NEW s \in Paths, NEW p \in Paths
  PROVE  Begins(s, p) <=> Len(p) <= Len(s) /\ \A i \in 1 .. Len(p) : p[i] = s[i]
<1>1. Len(s) \in Nat /\ Len(p) \in Nat
  BY DEF Paths
<1>2. ASSUME Len(p) <= Len(s)
      PROVE  /\ SubSeq(s, 1, Len(p)) \in Seq(Character)
             /\ Len(SubSeq(s, 1, Len(p))) = Len(p)
             /\ \A i \in 1 .. Len(p) : SubSeq(s, 1, Len(p))[i] = s[i]
  <2>1. \A i \in 1 .. Len(p) : s[i] \in Character
    BY <1>1, <1>2 DEF Paths
  <2>2. /\ SubSeq(s, 1, Len(p)) \in Seq(Character)
        /\ Len(SubSeq(s, 1, Len(p))) = IF 1 <= Len(p) THEN Len(p) - 1 + 1 ELSE 0
        /\ \A i \in 1 .. Len(p) - 1 + 1 : SubSeq(s, 1, Len(p))[i] = s[1 + i - 1]
    BY <1>1, <2>1, SubSeqProperties
  <2> QED BY <1>1, <2>2
<1>3. ASSUME Begins(s, p)
      PROVE  Len(p) <= Len(s) /\ \A i \in 1 .. Len(p) : p[i] = s[i]
  BY <1>2, <1>3 DEF Begins
<1>4. ASSUME Len(p) <= Len(s), \A i \in 1 .. Len(p) : p[i] = s[i]
      PROVE  Begins(s, p)
  <2>1. SubSeq(s, 1, Len(p)) = p
    BY <1>2, <1>4, SeqEqual DEF Paths
  <2> QED BY <1>4, <2>1 DEF Begins
<1> QED BY <1>3, <1>4

(* The check segment by segment is the one the paths above a path give.    *)
LEMMA ParentIsAncestor ==
  ASSUME NEW d \in Paths, NEW t \in Paths, t # <<>> => t[1] = "/"
  PROVE  d = <<>> \/ d = t \/ Parent(d, t) <=> d \in Ancestors(t)
<1>1. Len(d) \in Nat /\ Len(t) \in Nat
  BY DEF Paths
<1>2. /\ d \o <<"/">> \in Paths /\ Len(d \o <<"/">>) = Len(d) + 1
      /\ \A i \in 1 .. Len(d) : (d \o <<"/">>)[i] = d[i]
      /\ (d \o <<"/">>)[Len(d) + 1] = "/"
  <2>1. <<"/">> \in Seq(Character) /\ Len(<<"/">>) = 1 /\ <<"/">>[1] = "/"
    <3>1. "/" \in Character
      BY UrlAssumption
    <3> QED BY <3>1
  <2>2. /\ d \o <<"/">> \in Seq(Character)
        /\ Len(d \o <<"/">>) = Len(d) + Len(<<"/">>)
        /\ \A i \in 1 .. Len(d) + Len(<<"/">>) : (d \o <<"/">>)[i] =
             IF i <= Len(d) THEN d[i] ELSE <<"/">>[i - Len(d)]
    BY <2>1, ConcatProperties DEF Paths
  <2> QED BY <1>1, <2>1, <2>2 DEF Paths
<1>3. Parent(d, t) <=> /\ Len(d) + 1 <= Len(t) /\ t[Len(d) + 1] = "/"
                       /\ \A i \in 1 .. Len(d) : d[i] = t[i]
  <2>1. Parent(d, t) <=> /\ Len(d) + 1 <= Len(t)
                         /\ \A i \in 1 .. Len(d) + 1 : (d \o <<"/">>)[i] = t[i]
    BY <1>2, BeginsIs DEF Parent
  <2>2. \A i : i \in 1 .. Len(d) + 1 <=> i \in 1 .. Len(d) \/ i = Len(d) + 1
    BY <1>1
  <2> QED BY <1>2, <2>1, <2>2
<1>4. ASSUME NEW i \in 1 .. Len(t)
      PROVE  /\ SubSeq(t, 1, i - 1) \in Seq(Character)
             /\ Len(SubSeq(t, 1, i - 1)) = i - 1
             /\ \A k \in 1 .. i - 1 : SubSeq(t, 1, i - 1)[k] = t[k]
  <2>1. \A k \in 1 .. i - 1 : t[k] \in Character
    BY <1>1, <1>4 DEF Paths
  <2>2. /\ SubSeq(t, 1, i - 1) \in Seq(Character)
        /\ Len(SubSeq(t, 1, i - 1)) = IF 1 <= i - 1 THEN i - 1 - 1 + 1 ELSE 0
        /\ \A k \in 1 .. i - 1 - 1 + 1 : SubSeq(t, 1, i - 1)[k] = t[1 + k - 1]
    BY <1>1, <2>1, SubSeqProperties
  <2> QED BY <1>1, <2>2
<1>5. d \in Ancestors(t) <=>
        d = t \/ \E i \in 1 .. Len(t) : t[i] = "/" /\ d = SubSeq(t, 1, i - 1)
  <2>1. DOMAIN t = 1 .. Len(t)
    BY DEF Paths
  <2> QED BY <2>1, Zenon DEF Ancestors
<1>6. ASSUME NEW i \in 1 .. Len(t), t[i] = "/", d = SubSeq(t, 1, i - 1)
      PROVE  Parent(d, t)
  BY <1>1, <1>3, <1>4, <1>6
<1>7. ASSUME Parent(d, t)
      PROVE  \E i \in 1 .. Len(t) : t[i] = "/" /\ d = SubSeq(t, 1, i - 1)
  <2> DEFINE i == Len(d) + 1
  <2>1. i \in 1 .. Len(t) /\ t[i] = "/" /\ i - 1 = Len(d)
    BY <1>1, <1>3, <1>7
  <2>2. d = SubSeq(t, 1, i - 1)
    <3>1. Len(SubSeq(t, 1, i - 1)) = Len(d) /\ SubSeq(t, 1, i - 1) \in Seq(Character)
      BY <1>4, <2>1
    <3>2. \A k \in 1 .. Len(d) : d[k] = SubSeq(t, 1, i - 1)[k]
      BY <1>3, <1>4, <1>7, <2>1
    <3> HIDE DEF i
    <3> QED BY <3>1, <3>2, SeqEqual DEF Paths
  <2> QED BY <2>1, <2>2
<1>8. ASSUME d = <<>>
      PROVE  d = t \/ \E i \in 1 .. Len(t) : t[i] = "/" /\ d = SubSeq(t, 1, i - 1)
  <2>1. CASE t # <<>>
    <3>1. Len(d) = 0 /\ Len(t) >= 1 /\ t[1] = "/"
      BY <1>1, <1>8, <2>1, EmptySeq DEF Paths
    <3>2. Parent(d, t)
      BY <1>1, <1>3, <3>1
    <3> QED BY <1>7, <3>2
  <2> QED BY <1>8, <2>1
<1> QED BY <1>5, <1>6, <1>7, <1>8

(* The resource of a document is accepted when it is the upstream's or one *)
(* above it.                                                               *)
LEMMA CoversIs ==
  ASSUME NEW url \in Urls
  PROVE  Covers(Canonical(url), Resource) <=>
           /\ url.host = Resource.host
           /\ TrimEnd(url.path) \in Ancestors(TrimEnd(Resource.path))
<1> DEFINE d == TrimEnd(url.path)
           t == TrimEnd(Resource.path)
<1>1. /\ Resource.path \in Paths /\ Len(Resource.path) \in Nat
      /\ Resource.path[1] = "/" /\ url.path \in Paths
  BY UrlAssumption DEF Urls, Paths
<1>2. d \in Paths /\ t \in Paths
  BY <1>1, TrimEndIs
<1>3. t # <<>> => t[1] = "/"
  <2>1. PICK n \in 0 .. Len(Resource.path) :
          Len(t) = n /\ \A i \in 1 .. n : t[i] = Resource.path[i]
    BY <1>1, TrimEndIs
  <2> HIDE DEF t
  <2>2. t # <<>> => 1 \in 1 .. n
    BY <1>1, <1>2, <2>1, EmptySeq DEF Paths
  <2> QED BY <1>1, <2>1, <2>2
<1>4. TrimEnd(Canonical(url).path) = d /\ Canonical(url).host = url.host
  BY CanonicalTrimmed
<1>5. d = <<>> \/ d = t \/ Parent(d, t) <=> d \in Ancestors(t)
  <2> HIDE DEF d, t
  <2> QED BY <1>2, <1>3, ParentIsAncestor
<1> QED BY <1>4, <1>5 DEF Covers

(* The walk has one or two locations, or the one of the challenge. *)
LEMMA PlacesAre ==
  ASSUME NEW w
  PROVE  \E n \in {1, 2} :
           /\ DOMAIN Places(w) = 1 .. n
           /\ n = 1 \/ \A i \in 1 .. n : Places(w)[i].proper
<1> DEFINE own == At(Resource.host, "resource", Trim(Resource.path))
           root == At(Resource.host, "resource", <<>>)
           both == <<own>> \o <<root>>
<1>1. own.proper /\ root.proper
  BY DEF At
<1>2. ResourceLocations(Resource) \in {<<root>>, both}
  BY DEF ResourceLocations
<1> HIDE DEF own, root
<1>3. DOMAIN <<root>> = 1 .. 1
  OBVIOUS
<1>4. DOMAIN both = 1 .. 2 /\ both[1] = own /\ both[2] = root
  OBVIOUS
<1> HIDE DEF both
<1>5. CASE Places(w) = ResourceLocations(Resource)
  <2>1. CASE Places(w) = <<root>>
    BY <1>3, <2>1
  <2>2. CASE Places(w) = both
    <3>1. \A i \in 1 .. 2 : both[i].proper
      BY <1>1, <1>4
    <3> QED BY <1>4, <2>2, <3>1
  <2> QED BY <1>2, <1>5, <2>1, <2>2
<1>6. CASE \E value : Places(w) = <<Challenged(value)>>
  <2>1. PICK value : Places(w) = <<Challenged(value)>>
    BY <1>6
  <2>2. DOMAIN Places(w) = 1 .. 1
    BY <2>1
  <2> QED BY <2>2
<1> QED BY <1>5, <1>6 DEF Places

(* The locations of the issuer, by their numbers. *)
LEMMA IssuerPlacesAre ==
  \E n \in {2, 3} :
    /\ DOMAIN IssuerLocations(Issuer) = 1 .. n
    /\ n = 3 <=> Trim(Issuer.path) # <<>>
    /\ \A i \in 1 .. n : IssuerLocations(Issuer)[i] = IssuerPlace(i)
<1> DEFINE path == Trim(Issuer.path)
           one == At(Issuer.host, "oauth", path)
           two == At(Issuer.host, "openid", path)
           three == At(Issuer.host, "openid, appended", path)
<1>1. IssuerPlace(1) = one /\ IssuerPlace(2) = two /\ IssuerPlace(3) = three
  BY DEF IssuerPlace, Kinds
<1>2. IssuerLocations(Issuer) =
        IF path = <<>> THEN <<one, two>> ELSE <<one, two>> \o <<three>>
  BY DEF IssuerLocations
<1> HIDE DEF one, two, three
<1>3. CASE path = <<>>
  <2>1. IssuerLocations(Issuer) = <<one, two>>
    BY <1>2, <1>3
  <2>2. /\ DOMAIN <<one, two>> = 1 .. 2
        /\ <<one, two>>[1] = one /\ <<one, two>>[2] = two
    OBVIOUS
  <2>3. \A i \in 1 .. 2 : i = 1 \/ i = 2
    OBVIOUS
  <2> QED BY <1>1, <1>3, <2>1, <2>2, <2>3
<1>4. CASE path # <<>>
  <2> DEFINE all == <<one, two>> \o <<three>>
  <2>1. IssuerLocations(Issuer) = all
    BY <1>2, <1>4
  <2>2. DOMAIN all = 1 .. 3 /\ all[1] = one /\ all[2] = two /\ all[3] = three
    OBVIOUS
  <2>3. \A i \in 1 .. 3 : i = 1 \/ i = 2 \/ i = 3
    OBVIOUS
  <2> HIDE DEF all
  <2> QED BY <1>1, <1>4, <2>1, <2>2, <2>3
<1> QED BY <1>3, <1>4

(* The walk through them stops at the document it should. *)
LEMMA IssuerFoundRight ==
  ASSUME NEW w
  PROVE  IssuerFound(w) <=> IssuerRight(w)
<1> DEFINE places == IssuerLocations(Issuer)
           documents == Documents(w, places)
           first == Least(documents)
           Doc(i) == Status(w, IssuerPlace(i)) = "document"
           Its(i) == w.served[IssuerPlace(i)].issuer = Issuer
<1>1. PICK n \in {2, 3} :
        /\ DOMAIN places = 1 .. n
        /\ n = 3 <=> Trim(Issuer.path) # <<>>
        /\ \A i \in 1 .. n : places[i] = IssuerPlace(i)
  BY IssuerPlacesAre
<1>2. /\ documents \in SUBSET (1 .. n)
      /\ \A i \in 1 .. n : i \in documents <=> Doc(i)
  BY <1>1 DEF Documents
<1>3. documents # {} => first \in documents /\ \A i \in documents : first <= i
  <2>1. documents \in SUBSET Nat
    BY <1>2
  <2> HIDE DEF documents
  <2> QED BY <2>1, LeastIs
<1>4. \A i \in 1 .. 3 : (i = 3 => Trim(Issuer.path) # <<>>) <=> i \in 1 .. n
  BY <1>1
<1>5. ASSUME IssuerFound(w) PROVE IssuerRight(w)
  <2>1. Issuer.proper /\ documents # {} /\ w.served[places[first]].issuer = Issuer
    BY <1>5 DEF IssuerFound
  <2>2. first \in 1 .. n /\ first \in 1 .. 3 /\ Doc(first) /\ Its(first)
    <3>1. first \in 1 .. n /\ Doc(first)
      BY <1>2, <1>3, <2>1
    <3> QED BY <1>1, <2>1, <3>1
  <2>3. ASSUME NEW j \in 1 .. first - 1 PROVE ~Doc(j)
    <3>1. j \in 1 .. n /\ ~(first <= j)
      BY <2>2, <2>3
    <3> QED BY <1>2, <1>3, <2>1, <3>1
  <2> HIDE DEF first, Doc, Its
  <2>4. \E i \in 1 .. 3 : /\ i = 3 => Trim(Issuer.path) # <<>>
                          /\ Doc(i) /\ Its(i) /\ \A j \in 1 .. i - 1 : ~Doc(j)
    BY <1>4, <2>2, <2>3
  <2> QED BY <2>1, <2>4 DEF IssuerRight, Doc, Its
<1>6. ASSUME IssuerRight(w) PROVE IssuerFound(w)
  <2>1. PICK i \in 1 .. 3 : /\ i = 3 => Trim(Issuer.path) # <<>>
                           /\ Doc(i) /\ Its(i) /\ \A j \in 1 .. i - 1 : ~Doc(j)
    BY <1>6 DEF IssuerRight
  <2>2. i \in 1 .. n /\ i \in documents
    BY <1>2, <1>4, <2>1
  <2>3. first \in 1 .. n /\ first \in documents /\ first <= i
    BY <1>2, <1>3, <2>2
  <2>4. ~(first < i)
    <3>1. first < i => first \in 1 .. i - 1
      BY <2>3
    <3>2. Doc(first)
      BY <1>2, <2>3
    <3> HIDE DEF first, Doc
    <3> QED BY <2>1, <3>1, <3>2
  <2>5. first = i
    BY <2>2, <2>3, <2>4
  <2>6. places[first] = IssuerPlace(i)
    BY <1>1, <2>2, <2>5
  <2> HIDE DEF first
  <2>7. Issuer.proper /\ documents # {} /\ w.served[places[first]].issuer = Issuer
    BY <1>6, <2>1, <2>2, <2>6 DEF IssuerRight
  <2> QED BY <2>7 DEF IssuerFound, first
<1> QED BY <1>5, <1>6

(* Whatever servers serve at the locations, the metadata are found if, and *)
(* only if, the first of them with anything has a document for the upstream *)
(* or a path above it that lists the issuer, and the first document at the *)
(* issuer's locations is the issuer's own.                                 *)
THEOREM FindsOurs == DiscoveryRight
<1> SUFFICES ASSUME NEW w \in World PROVE RightIn(w)
  BY DEF DiscoveryRight
<1> DEFINE places == Places(w)
           there == There(w, places)
           first == Least(there)
           IsOurs(i) == /\ OurDocument(w, places[i]) /\ places[i].proper
                        /\ \A j \in 1 .. i - 1 : Status(w, places[j]) = "missing"
           Found == /\ \A i \in DOMAIN places : places[i].proper
                    /\ there # {}
                    /\ Status(w, places[first]) = "document"
                    /\ Accepted(w.served[places[first]])
<1>1. PICK n \in {1, 2} :
        /\ DOMAIN places = 1 .. n
        /\ n = 1 \/ \A i \in 1 .. n : places[i].proper
  BY PlacesAre
<1>2. /\ there \in SUBSET (1 .. n)
      /\ \A i \in 1 .. n : i \in there <=> Status(w, places[i]) # "missing"
  BY <1>1 DEF There
<1>3. ASSUME NEW i \in 1 .. n, Status(w, places[i]) = "document"
      PROVE  Accepted(w.served[places[i]]) <=> OurDocument(w, places[i])
  <2>1. w.served[places[i]].resource \in Urls
    BY <1>1, <1>3, UrlAssumption
  <2> QED BY <1>3, <2>1, CoversIs DEF Accepted, OurDocument, Status
<1>4. there # {} => first \in there /\ \A i \in there : first <= i
  <2>1. there \in SUBSET Nat
    BY <1>2
  <2> HIDE DEF there
  <2> QED BY <2>1, LeastIs
<1>5. ResourceFound(w) # Failed <=> Found
  <2>1. ASSUME Found
        PROVE  ResourceFound(w) =
                 [resource |-> Canonical(w.served[places[first]].resource),
                  scopes |-> Scopes(w, w.served[places[first]])]
    BY <2>1, Zenon DEF ResourceFound
  <2>2. ASSUME ~Found PROVE ResourceFound(w) = Failed
    BY <2>2, Zenon DEF ResourceFound
  <2>3. ASSUME Found PROVE Canonical(w.served[places[first]].resource) # Nowhere
    <3>1. first \in 1 .. n /\ Status(w, places[first]) = "document"
      BY <1>2, <1>4, <2>3
    <3>2. w.served[places[first]].resource \in Urls
      BY <1>1, <3>1, UrlAssumption
    <3>3. Canonical(w.served[places[first]].resource).proper
      BY <2>3, <3>2, CanonicalTrimmed DEF Accepted
    <3> QED BY <3>3 DEF Nowhere
  <2> HIDE DEF Found
  <2> QED BY <2>1, <2>2, <2>3 DEF Failed
<1>6. Found => \E i \in 1 .. n : IsOurs(i)
  <2> SUFFICES ASSUME Found PROVE IsOurs(first)
    BY <1>2, <1>4
  <2>1. first \in 1 .. n /\ Status(w, places[first]) = "document"
    BY <1>2, <1>4
  <2>2. OurDocument(w, places[first]) /\ places[first].proper
    BY <1>1, <1>3, <2>1
  <2>3. ASSUME NEW j \in 1 .. first - 1 PROVE Status(w, places[j]) = "missing"
    <3>1. j \in 1 .. n /\ ~(first <= j)
      BY <2>1, <2>3
    <3> QED BY <1>2, <1>4, <3>1
  <2> QED BY <2>2, <2>3
<1>7. ASSUME NEW i \in 1 .. n, IsOurs(i) PROVE Found
  <2>1. Status(w, places[i]) = "document"
    BY <1>7 DEF OurDocument, Status
  <2>2. i \in there /\ \A j \in 1 .. i - 1 : j \notin there
    <3>1. \A j \in 1 .. i - 1 : j \in 1 .. n
      OBVIOUS
    <3> QED BY <1>2, <1>7, <2>1, <3>1
  <2>3. first = i
    <3>1. first \in 1 .. n /\ first <= i /\ first \in there
      BY <1>2, <1>4, <2>2
    <3>2. ~(first < i)
      <4>1. first < i => first \in 1 .. i - 1
        BY <3>1
      <4> HIDE DEF there, first
      <4> QED BY <2>2, <3>1, <4>1
    <3> QED BY <3>1, <3>2
  <2>4. \A j \in DOMAIN places : places[j].proper
    BY <1>1, <1>7
  <2>5. Accepted(w.served[places[i]])
    BY <1>3, <1>7, <2>1
  <2> QED BY <2>1, <2>2, <2>3, <2>4, <2>5
<1>8. Discovered(w) # Failed <=> Found /\ IssuerFound(w)
  <2> HIDE DEF Found
  <2> QED BY <1>5 DEF Discovered
<1>9. Found <=> \E i \in DOMAIN places : IsOurs(i)
  <2> HIDE DEF Found, IsOurs
  <2> QED BY <1>1, <1>6, <1>7
<1> HIDE DEF Found
<1> QED BY <1>8, <1>9, IssuerFoundRight DEF RightIn

-----------------------------------------------------------------------------
(* Challenges.  A written header is parts, two of a challenge, with commas *)
(* between them.  The scan that looks for commas is outside quotes at the  *)
(* end of each part, so that its segments are the parts; a part, trimmed,  *)
(* is heard as its key and its value; so, part by part, what is heard is   *)
(* what the last parameters say.                                           *)

(* Values: what is escaped comes back. *)

(* What a character of a value is written as. *)
Mark(c) == IF c \in {Quote, Backslash} THEN <<Backslash, c>> ELSE <<c>>

LEMMA MarkIs ==
  ASSUME NEW c \in Character
  PROVE  /\ Mark(c) \in Seq(Character) /\ Len(Mark(c)) \in {1, 2}
         /\ c \in {Quote, Backslash} =>
              Len(Mark(c)) = 2 /\ Mark(c)[1] = Backslash /\ Mark(c)[2] = c
         /\ c \notin {Quote, Backslash} => Len(Mark(c)) = 1 /\ Mark(c)[1] = c
<1>1. Backslash \in Character
  BY ChallengesAssumption DEF Special
<1>2. CASE c \in {Quote, Backslash}
  <2>1. Mark(c) = <<Backslash, c>>
    BY <1>2 DEF Mark
  <2> QED BY <1>1, <1>2, <2>1
<1>3. CASE c \notin {Quote, Backslash}
  <2>1. Mark(c) = <<c>>
    BY <1>3 DEF Mark
  <2> QED BY <1>3, <2>1
<1> QED BY <1>2, <1>3

(* The text of a value, and where in it each of its characters ends. *)
LEMMA EscapedText ==
  ASSUME NEW v \in Seq(Character)
  PROVE  \E text \in [0 .. Len(v) -> Seq(Character)] :
           /\ text[0] = <<>>
           /\ \A i \in 1 .. Len(v) : text[i] = text[i - 1] \o Mark(v[i])
           /\ Escaped(v) = <<Quote>> \o text[Len(v)] \o <<Quote>>
<1> DEFINE n == Len(v)
           S == Seq(Character)
           step == [i \in 1 .. n |-> [t \in S |-> t \o Mark(v[i])]]
           body(f, i) == IF i = 0 THEN <<>>
                         ELSE f[i - 1] \o (IF v[i] \in {Quote, Backslash}
                                           THEN <<Backslash, v[i]>> ELSE <<v[i]>>)
           Is(f) == f = [i \in 0 .. n |-> body(f, i)]
           text == CHOOSE f : Is(f)
<1>1. n \in Nat /\ <<>> \in S /\ \A i \in 1 .. n : v[i] \in Character
  OBVIOUS
<1>2. step \in Steps(n, S)
  <2> SUFFICES ASSUME NEW i \in 1 .. n, NEW t \in S PROVE t \o Mark(v[i]) \in S
    BY DEF Steps
  <2>1. Mark(v[i]) \in S
    BY <1>1, MarkIs
  <2> HIDE DEF S
  <2> QED BY <2>1, ConcatProperties DEF S
<1>3. PICK f : Carried(f, n, S, <<>>, step)
  <2> HIDE DEF S, n, step
  <2> QED BY <1>1, <1>2, Recursion
<1>0. f \in [0 .. n -> S] /\ f[0] = <<>>
  <2> HIDE DEF S, n, step
  <2> QED BY <1>3, Zenon DEF Carried
<1>4. ASSUME NEW i \in 1 .. n PROVE f[i] = f[i - 1] \o Mark(v[i])
  <2>1. f[i] = step[i][f[i - 1]] /\ f[i - 1] \in S
    <3>1. i - 1 \in 0 .. n
      BY <1>1
    <3> HIDE DEF S, n, step
    <3> QED BY <1>3, <3>1 DEF Carried
  <2>2. step[i][f[i - 1]] = f[i - 1] \o Mark(v[i])
    <3> HIDE DEF S, n
    <3> QED BY <2>1
  <2> QED BY <2>1, <2>2
<1>5. Is(f)
  <2>1. ASSUME NEW i \in 0 .. n PROVE f[i] = body(f, i)
    <3>1. CASE i = 0
      BY <1>0, <3>1
    <3>2. CASE i # 0
      <4>1. f[i] = f[i - 1] \o Mark(v[i])
        <5>1. i \in 1 .. n
          BY <1>1, <3>2
        <5> QED BY <1>4, <5>1
      <4> QED BY <3>2, <4>1, Zenon DEF Mark
    <3> QED BY <3>1, <3>2
  <2>2. f = [i \in 0 .. n |-> f[i]]
    BY <1>0
  <2> HIDE DEF body
  <2> QED BY <2>1, <2>2, Zenon
<1>6. Is(text)
  <2> HIDE DEF Is
  <2> QED BY <1>5
<1>7. text[0] = <<>> /\ \A i \in 1 .. n : text[i] = text[i - 1] \o Mark(v[i])
  <2> HIDE DEF text
  <2>1. \A i \in 0 .. n : text[i] = body(text, i)
    <3> HIDE DEF body
    <3> QED BY <1>6, Zenon
  <2>2. text[0] = <<>>
    <3>1. 0 \in 0 .. n /\ 0 = 0
      BY <1>1
    <3> QED BY <2>1, <3>1, Zenon
  <2>3. ASSUME NEW i \in 1 .. n PROVE text[i] = text[i - 1] \o Mark(v[i])
    <3>1. i \in 0 .. n /\ i # 0
      BY <1>1
    <3> QED BY <2>1, <3>1, Zenon DEF Mark
  <2> QED BY <2>2, <2>3
<1>8. \A i \in 0 .. n : text[i] = f[i]
  <2> DEFINE P == {i \in 0 .. n : text[i] = f[i]}
  <2> HIDE DEF text
  <2>1. 0 \in P
    <3>1. 0 \in 0 .. n
      BY <1>1
    <3>2. text[0] = f[0]
      BY <1>0, <1>7, Zenon
    <3> QED BY <3>1, <3>2
  <2>2. ASSUME NEW i \in 1 .. n, i - 1 \in P PROVE i \in P
    <3>1. i \in 0 .. n /\ text[i - 1] = f[i - 1]
      BY <1>1, <2>2
    <3>2. text[i] = text[i - 1] \o Mark(v[i]) /\ f[i] = f[i - 1] \o Mark(v[i])
      BY <1>4, <1>7
    <3> QED BY <3>1, <3>2
  <2> HIDE DEF P
  <2>3. \A i \in 0 .. n : i \in P
    BY <1>1, <2>1, <2>2, UpTo
  <2> QED BY <2>3 DEF P
<1>9. Escaped(v) = <<Quote>> \o text[n] \o <<Quote>>
  BY DEF Escaped
<1> HIDE DEF text
<1>10. n \in 0 .. n
  BY <1>1
<1> QED BY <1>0, <1>4, <1>8, <1>9, <1>10

(* a[i] is where in the text what stands for v[i] ends. *)
Marks(v, t, a) ==
  /\ a[0] = 0 /\ a[Len(v)] = Len(t)
  /\ \A i \in 0 .. Len(v) : a[i] \in 0 .. Len(t)
  /\ \A i \in 1 .. Len(v) :
       IF v[i] \in {Quote, Backslash}
       THEN a[i] = a[i - 1] + 2 /\ t[a[i] - 1] = Backslash /\ t[a[i]] = v[i]
       ELSE a[i] = a[i - 1] + 1 /\ t[a[i]] = v[i]

LEMMA EscapedMarks ==
  ASSUME NEW v \in Seq(Character)
  PROVE  \E t \in Seq(Character) : \E a :
           Escaped(v) = <<Quote>> \o t \o <<Quote>> /\ Marks(v, t, a)
<1> DEFINE n == Len(v)
<1>1. PICK text \in [0 .. n -> Seq(Character)] :
        /\ text[0] = <<>>
        /\ \A i \in 1 .. n : text[i] = text[i - 1] \o Mark(v[i])
        /\ Escaped(v) = <<Quote>> \o text[n] \o <<Quote>>
  BY EscapedText
<1> DEFINE t == text[n]
           a == [i \in 0 .. n |-> Len(text[i])]
<1>2. /\ n \in Nat /\ n \in 0 .. n /\ 0 \in 0 .. n
      /\ \A i \in 1 .. n : i \in 0 .. n /\ i - 1 \in 0 .. n /\ v[i] \in Character
  OBVIOUS
<1>3. \A i \in 0 .. n : text[i] \in Seq(Character) /\ Len(text[i]) \in Nat
  <2> HIDE DEF n
  <2>1. \A i \in 0 .. n : text[i] \in Seq(Character)
    BY <1>1, Zenon
  <2> QED BY <2>1, LenProperties
<1>4. ASSUME NEW i \in 1 .. n
      PROVE  /\ Len(text[i]) = Len(text[i - 1]) + Len(Mark(v[i]))
             /\ \A j \in 1 .. Len(text[i - 1]) : text[i][j] = text[i - 1][j]
             /\ \A j \in 1 .. Len(Mark(v[i])) :
                  text[i][Len(text[i - 1]) + j] = Mark(v[i])[j]
  <2> DEFINE p == text[i - 1]
             q == Mark(v[i])
  <2>1. p \in Seq(Character) /\ q \in Seq(Character) /\ text[i] = p \o q
    BY <1>1, <1>2, <1>3, MarkIs
  <2>2. Len(p) \in Nat /\ Len(q) \in Nat
    BY <2>1
  <2> HIDE DEF p, q
  <2>3. /\ Len(p \o q) = Len(p) + Len(q)
        /\ \A j \in 1 .. Len(p) + Len(q) :
             (p \o q)[j] = IF j <= Len(p) THEN p[j] ELSE q[j - Len(p)]
    BY <2>1, ConcatProperties
  <2>4. \A j \in 1 .. Len(p) : (p \o q)[j] = p[j]
    BY <2>2, <2>3
  <2>5. \A j \in 1 .. Len(q) : (p \o q)[Len(p) + j] = q[j]
    BY <2>2, <2>3
  <2> QED BY <2>1, <2>3, <2>4, <2>5 DEF p, q
<1>5. \A i \in 0 .. n :
        Len(text[i]) <= Len(t) /\ \A j \in 1 .. Len(text[i]) : t[j] = text[i][j]
  <2> DEFINE In(i, k) == /\ Len(text[i]) <= Len(text[k])
                         /\ \A j \in 1 .. Len(text[i]) : text[k][j] = text[i][j]
             P == {k \in 0 .. n : \A i \in 0 .. k : In(i, k)}
  <2>1. 0 \in P
    BY <1>3
  <2>2. ASSUME NEW k \in 1 .. n, k - 1 \in P PROVE k \in P
    <3> SUFFICES ASSUME NEW i \in 0 .. k PROVE In(i, k)
      OBVIOUS
    <3>1. CASE i = k
      BY <1>3, <3>1
    <3>2. CASE i # k
      <4>1. In(i, k - 1) /\ i \in 0 .. n
        BY <2>2, <3>2
      <4>2. Len(text[i]) \in Nat /\ Len(text[k - 1]) \in Nat
            /\ Len(text[k]) \in Nat /\ Len(Mark(v[k])) \in Nat
        BY <1>2, <1>3, <4>1, MarkIs
      <4>3. \A j \in 1 .. Len(text[i]) : j \in 1 .. Len(text[k - 1])
        BY <4>1, <4>2
      <4>4. /\ Len(text[k]) = Len(text[k - 1]) + Len(Mark(v[k]))
            /\ \A j \in 1 .. Len(text[k - 1]) : text[k][j] = text[k - 1][j]
        BY <1>4
      <4>5. Len(text[i]) <= Len(text[k])
        <5> DEFINE x == Len(text[i])
                   y == Len(text[k - 1])
                   m == Len(Mark(v[k]))
        <5>1. x <= y /\ x \in Nat /\ y \in Nat /\ m \in Nat
          BY <4>1, <4>2
        <5>2. Len(text[k]) = y + m
          BY <4>4
        <5> HIDE DEF x, y, m
        <5>3. x <= y + m
          BY <5>1
        <5> QED BY <5>2, <5>3 DEF x
      <4>6. \A j \in 1 .. Len(text[i]) : text[k][j] = text[i][j]
        BY <4>1, <4>3, <4>4
      <4> QED BY <4>5, <4>6
    <3> QED BY <3>1, <3>2
  <2> HIDE DEF P
  <2>3. \A k \in 0 .. n : k \in P
    BY <1>2, <2>1, <2>2, UpTo
  <2> QED BY <1>2, <2>3 DEF P
<1>6. Marks(v, t, a)
  <2> HIDE DEF t
  <2>1. a[0] = 0 /\ a[n] = Len(t)
    BY <1>1, <1>2 DEF t
  <2>2. \A i \in 0 .. n : a[i] = Len(text[i]) /\ a[i] \in 0 .. Len(t)
    <3>1. Len(t) \in Nat
      BY <1>2, <1>3 DEF t
    <3> QED BY <1>3, <1>5, <3>1
  <2>3. ASSUME NEW i \in 1 .. n
        PROVE  /\ a[i] = a[i - 1] + Len(Mark(v[i]))
               /\ \A j \in 1 .. Len(Mark(v[i])) : t[a[i - 1] + j] = Mark(v[i])[j]
    <3>1. i \in 0 .. n /\ i - 1 \in 0 .. n
      BY <1>2
    <3>2. a[i] = Len(text[i]) /\ a[i - 1] = Len(text[i - 1])
      BY <2>2, <3>1
    <3>3. Len(Mark(v[i])) \in Nat /\ Len(text[i - 1]) \in Nat
      BY <1>2, <1>3, <3>1, MarkIs
    <3>4. \A j \in 1 .. Len(Mark(v[i])) :
            t[Len(text[i - 1]) + j] = text[i][Len(text[i - 1]) + j]
      <4>1. \A j \in 1 .. Len(Mark(v[i])) : Len(text[i - 1]) + j \in 1 .. Len(text[i])
        <5>1. Len(text[i]) = Len(text[i - 1]) + Len(Mark(v[i]))
          BY <1>4
        <5> DEFINE y == Len(text[i - 1])
                   m == Len(Mark(v[i]))
        <5>2. y \in Nat /\ m \in Nat /\ Len(text[i]) = y + m
          BY <3>3, <5>1
        <5> HIDE DEF y, m
        <5>3. \A j \in 1 .. m : y + j \in 1 .. Len(text[i])
          BY <5>2
        <5> QED BY <5>3 DEF y, m
      <4> QED BY <1>5, <3>1, <4>1
    <3> HIDE DEF a
    <3> QED BY <1>4, <3>2, <3>4
  <2>4. ASSUME NEW i \in 1 .. n
        PROVE  IF v[i] \in {Quote, Backslash}
               THEN a[i] = a[i - 1] + 2 /\ t[a[i] - 1] = Backslash /\ t[a[i]] = v[i]
               ELSE a[i] = a[i - 1] + 1 /\ t[a[i]] = v[i]
    <3>1. v[i] \in Character /\ a[i - 1] \in Nat
      BY <1>2, <2>2
    <3> HIDE DEF a, n
    <3>2. CASE v[i] \in {Quote, Backslash}
      <4>1. Len(Mark(v[i])) = 2 /\ Mark(v[i])[1] = Backslash /\ Mark(v[i])[2] = v[i]
        BY <3>1, <3>2, MarkIs
      <4>2. t[a[i - 1] + 1] = Backslash /\ t[a[i - 1] + 2] = v[i] /\ a[i] = a[i - 1] + 2
        BY <2>3, <4>1
      <4> QED BY <3>1, <3>2, <4>2
    <3>3. CASE v[i] \notin {Quote, Backslash}
      <4>1. Len(Mark(v[i])) = 1 /\ Mark(v[i])[1] = v[i]
        BY <3>1, <3>3, MarkIs
      <4>2. t[a[i - 1] + 1] = v[i] /\ a[i] = a[i - 1] + 1
        BY <2>3, <4>1
      <4> QED BY <3>1, <3>3, <4>2
    <3> QED BY <3>2, <3>3
  <2> HIDE DEF a
  <2> QED BY <2>1, <2>2, <2>4 DEF Marks
<1>7. t \in Seq(Character)
  BY <1>2, <1>3
<1> HIDE DEF t, a
<1> QED BY <1>1, <1>6, <1>7 DEF t

(* A beginning that grows by one. *)
LEMMA PrefixGrows ==
  ASSUME NEW S, NEW v \in Seq(S), NEW i \in 1 .. Len(v)
  PROVE  /\ SubSeq(v, 1, i) = Append(SubSeq(v, 1, i - 1), v[i])
         /\ SubSeq(v, 1, i - 1) \in Seq(S)
<1>1. Len(v) \in Nat /\ 1 \in 1 .. Len(v) /\ i \in 1 .. Len(v) /\ v[i] \in S
  OBVIOUS
<1>2. SubSeq(v, 1, i) = SubSeq(v, 1, i - 1) \o <<v[i]>>
  BY <1>1, SubSeqRecursiveSecond
<1>3. SubSeq(v, 1, i - 1) \in Seq(S)
  <2>1. 1 \in Int /\ i - 1 \in Int /\ \A j \in 1 .. i - 1 : v[j] \in S
    BY <1>1
  <2> QED BY <2>1, SubSeqProperties
<1> QED BY <1>1, <1>2, <1>3, AppendIsConcat

(* The state of the loop of parse_auth_parameter_value, after a character. *)
Plainer(at, c) ==
  IF c = Backslash /\ ~at.escaped THEN [at EXCEPT !.escaped = TRUE]
  ELSE [escaped |-> FALSE, text |-> Append(at.text, c)]

LEMMA UnescapedScan ==
  ASSUME NEW t \in Seq(Character)
  PROVE  \E plain :
           /\ plain[0] = [escaped |-> FALSE, text |-> <<>>]
           /\ \A i \in 1 .. Len(t) : plain[i] = Plainer(plain[i - 1], t[i])
           /\ Unescaped(t) = IF plain[Len(t)].escaped THEN Absent ELSE plain[Len(t)].text
<1> DEFINE n == Len(t)
           S == [escaped : BOOLEAN, text : Seq(Character)]
           s == [escaped |-> FALSE, text |-> <<>>]
           step == [i \in 1 .. n |-> [at \in S |-> Plainer(at, t[i])]]
           body(f, i) == IF i = 0 THEN [escaped |-> FALSE, text |-> <<>>]
                         ELSE IF t[i] = Backslash /\ ~f[i - 1].escaped
                              THEN [f[i - 1] EXCEPT !.escaped = TRUE]
                              ELSE [escaped |-> FALSE, text |-> Append(f[i - 1].text, t[i])]
           Is(f) == f = [i \in 0 .. n |-> body(f, i)]
           plain == CHOOSE f : Is(f)
<1>1. n \in Nat /\ \A i \in 1 .. n : t[i] \in Character
  OBVIOUS
<1>2. s \in S
  OBVIOUS
<1>3. step \in Steps(n, S)
  <2> SUFFICES ASSUME NEW i \in 1 .. n, NEW at \in S PROVE Plainer(at, t[i]) \in S
    BY DEF Steps
  <2>1. at.escaped \in BOOLEAN /\ at.text \in Seq(Character) /\ t[i] \in Character
    BY <1>1
  <2>2. Append(at.text, t[i]) \in Seq(Character)
    BY <2>1, AppendProperties
  <2>3. [escaped |-> FALSE, text |-> Append(at.text, t[i])] \in S
    BY <2>2
  <2>4. [at EXCEPT !.escaped = TRUE] \in S
    OBVIOUS
  <2> HIDE DEF S
  <2> QED BY <2>3, <2>4 DEF Plainer
<1>4. PICK f : Carried(f, n, S, s, step)
  <2> HIDE DEF S, n, step, s
  <2> QED BY <1>1, <1>2, <1>3, Recursion
<1>5. f \in [0 .. n -> S] /\ f[0] = s
  <2> HIDE DEF S, n, step, s
  <2> QED BY <1>4, Zenon DEF Carried
<1>6. ASSUME NEW i \in 1 .. n PROVE f[i] = Plainer(f[i - 1], t[i])
  <2>1. f[i] = step[i][f[i - 1]] /\ f[i - 1] \in S
    <3>1. i - 1 \in 0 .. n
      BY <1>1
    <3> HIDE DEF S, n, step, s
    <3> QED BY <1>4, <1>5, <3>1 DEF Carried
  <2>2. step[i][f[i - 1]] = Plainer(f[i - 1], t[i])
    <3> HIDE DEF S, n
    <3> QED BY <2>1
  <2> QED BY <2>1, <2>2
<1>7. Is(f)
  <2>1. ASSUME NEW i \in 0 .. n PROVE f[i] = body(f, i)
    <3>1. CASE i = 0
      BY <1>5, <3>1, Zenon
    <3>2. CASE i # 0
      <4>1. f[i] = Plainer(f[i - 1], t[i])
        <5>1. i \in 1 .. n
          BY <1>1, <3>2
        <5> QED BY <1>6, <5>1
      <4> QED BY <3>2, <4>1, Zenon DEF Plainer
    <3> QED BY <3>1, <3>2
  <2>2. f = [i \in 0 .. n |-> f[i]]
    BY <1>5
  <2> HIDE DEF body
  <2> QED BY <2>1, <2>2, Zenon
<1>8. Is(plain)
  <2> HIDE DEF Is
  <2> QED BY <1>7
<1>9. \A i \in 0 .. n : plain[i] = body(plain, i)
  <2> HIDE DEF body, plain
  <2> QED BY <1>8, Zenon
<1>10. Unescaped(t) = IF plain[n].escaped THEN Absent ELSE plain[n].text
  BY DEF Unescaped
<1> HIDE DEF plain
<1>11. plain[0] = s
  <2>1. 0 \in 0 .. n
    BY <1>1
  <2> QED BY <1>9, <2>1, Zenon
<1>12. ASSUME NEW i \in 1 .. n PROVE plain[i] = Plainer(plain[i - 1], t[i])
  <2>1. i \in 0 .. n /\ i # 0
    BY <1>1
  <2> QED BY <1>9, <2>1, Zenon DEF Plainer
<1> QED BY <1>10, <1>11, <1>12

(* Backslash makes the next character plain: the fields of the state. *)
LEMMA EscapedState ==
  ASSUME NEW T, NEW x \in T, NEW at \in [escaped : BOOLEAN, text : T],
         at.text = x, at.escaped = TRUE
  PROVE  at = [escaped |-> TRUE, text |-> x]
OBVIOUS

LEMMA EscapeNext ==
  ASSUME NEW T, NEW x \in T, NEW at \in [escaped : BOOLEAN, text : T], at.text = x
  PROVE  [at EXCEPT !.escaped = TRUE] = [escaped |-> TRUE, text |-> x]
<1> DEFINE e == [at EXCEPT !.escaped = TRUE]
<1>1. e \in [escaped : BOOLEAN, text : T] /\ e.text = x /\ e.escaped = TRUE
  OBVIOUS
<1> HIDE DEF e
<1> QED BY <1>1, EscapedState

(* What is escaped comes back: at each mark the loop has read the value so *)
(* far, and no backslash waits.                                            *)
LEMMA UnescapedBack ==
  ASSUME NEW v \in Seq(Character), NEW t \in Seq(Character), NEW a, Marks(v, t, a)
  PROVE  Unescaped(t) = v
<1> DEFINE n == Len(v)
           Out(i) == [escaped |-> FALSE, text |-> SubSeq(v, 1, i)]
<1>1. PICK plain :
        /\ plain[0] = [escaped |-> FALSE, text |-> <<>>]
        /\ \A i \in 1 .. Len(t) : plain[i] = Plainer(plain[i - 1], t[i])
        /\ Unescaped(t) = IF plain[Len(t)].escaped THEN Absent ELSE plain[Len(t)].text
  BY UnescapedScan
<1> DEFINE P == {i \in 0 .. n : plain[a[i]] = Out(i)}
<1>2. n \in Nat /\ Len(t) \in Nat /\ a[0] = 0 /\ a[n] = Len(t)
  BY DEF Marks
<1>3. 0 \in P
  <2>1. SubSeq(v, 1, 0) = <<>>
    BY SubSeqEmpty
  <2>2. plain[a[0]] = Out(0)
    BY <1>1, <1>2, <2>1, Zenon
  <2>3. 0 \in 0 .. n
    BY <1>2
  <2> QED BY <2>2, <2>3
<1>4. ASSUME NEW i \in 1 .. n, i - 1 \in P PROVE i \in P
  <2>1. /\ a[i - 1] \in 0 .. Len(t) /\ a[i] \in 0 .. Len(t)
        /\ IF v[i] \in {Quote, Backslash}
           THEN a[i] = a[i - 1] + 2 /\ t[a[i] - 1] = Backslash /\ t[a[i]] = v[i]
           ELSE a[i] = a[i - 1] + 1 /\ t[a[i]] = v[i]
    BY <1>2 DEF Marks
  <2>2. plain[a[i - 1]] = Out(i - 1)
    BY <1>4
  <2>3. Out(i) = [escaped |-> FALSE, text |-> Append(SubSeq(v, 1, i - 1), v[i])]
    BY PrefixGrows
  <2>4. i \in 0 .. n
    BY <1>2
  <2> SUFFICES plain[a[i]] = Out(i)
    BY <2>4
  <2>5. CASE v[i] \in {Quote, Backslash}
    <3>1. /\ a[i] = a[i - 1] + 2 /\ t[a[i - 1] + 1] = Backslash /\ t[a[i]] = v[i]
          /\ a[i - 1] + 1 \in 1 .. Len(t) /\ a[i] \in 1 .. Len(t)
          /\ a[i] - 1 = a[i - 1] + 1
      <4>1. a[i] = a[i - 1] + 2 /\ t[a[i] - 1] = Backslash /\ t[a[i]] = v[i]
        BY <2>1, <2>5
      <4>2. a[i - 1] \in Nat /\ a[i] <= Len(t) /\ Len(t) \in Nat
        BY <1>2, <2>1
      <4>3. a[i] - 1 = a[i - 1] + 1
        BY <4>1, <4>2
      <4> QED BY <4>1, <4>2, <4>3
    <3>2. plain[a[i - 1] + 1] = Plainer(plain[a[i - 1]], Backslash)
      <4>1. (a[i - 1] + 1) - 1 = a[i - 1]
        BY <2>1
      <4> QED BY <1>1, <3>1, <4>1
    <3>3. plain[a[i - 1] + 1] = [escaped |-> TRUE, text |-> SubSeq(v, 1, i - 1)]
      <4>1. Out(i - 1).escaped = FALSE
        OBVIOUS
      <4>2. [Out(i - 1) EXCEPT !.escaped = TRUE]
              = [escaped |-> TRUE, text |-> SubSeq(v, 1, i - 1)]
        <5>1. SubSeq(v, 1, i - 1) \in Seq(Character)
          BY PrefixGrows
        <5>2. Out(i - 1) \in [escaped : BOOLEAN, text : Seq(Character)]
              /\ Out(i - 1).text = SubSeq(v, 1, i - 1)
          BY <5>1
        <5> HIDE DEF Out
        <5> QED BY <5>1, <5>2, EscapeNext
      <4>3. Plainer(Out(i - 1), Backslash) = [Out(i - 1) EXCEPT !.escaped = TRUE]
        BY <4>1, Zenon DEF Plainer
      <4> HIDE DEF Out
      <4> QED BY <2>2, <3>2, <4>2, <4>3
    <3>4. plain[a[i]] = Plainer(plain[a[i - 1] + 1], v[i])
      BY <1>1, <3>1
    <3> QED BY <2>3, <3>3, <3>4 DEF Plainer
  <2>6. CASE v[i] \notin {Quote, Backslash}
    <3>1. a[i] \in 1 .. Len(t) /\ a[i] - 1 = a[i - 1] /\ t[a[i]] = v[i]
      BY <1>2, <2>1, <2>6
    <3>2. plain[a[i]] = Plainer(plain[a[i - 1]], v[i])
      BY <1>1, <3>1
    <3> QED BY <2>2, <2>3, <2>6, <3>2 DEF Plainer
  <2> QED BY <2>5, <2>6
<1>5. plain[Len(t)] = Out(n)
  <2>1. n \in P
    <3> HIDE DEF P
    <3>1. \A i \in 0 .. n : i \in P
      BY <1>2, <1>3, <1>4, UpTo
    <3> QED BY <1>2, <3>1
  <2> QED BY <1>2, <2>1
<1>6. SubSeq(v, 1, n) = v
  BY SubSeqFull
<1> QED BY <1>1, <1>5, <1>6

(* A text between quotes, place by place. *)
LEMMA QuotedText ==
  ASSUME NEW t \in Seq(Character)
  PROVE  LET e == <<Quote>> \o t \o <<Quote>> IN
         /\ e \in Seq(Character) /\ Len(e) = Len(t) + 2
         /\ e[1] = Quote /\ e[Len(e)] = Quote
         /\ \A j \in 1 .. Len(t) : e[j + 1] = t[j]
<1> DEFINE q == <<Quote>>
           b == q \o t
           e == b \o q
<1>1. q \in Seq(Character) /\ Len(q) = 1 /\ q[1] = Quote /\ Len(t) \in Nat
  <2>1. Quote \in Character
    BY ChallengesAssumption DEF Special
  <2> QED BY <2>1
<1> HIDE DEF q
<1>2. /\ b \in Seq(Character) /\ Len(b) = 1 + Len(t) /\ b[1] = Quote
      /\ \A j \in 1 .. Len(t) : b[j + 1] = t[j]
  <2>1. /\ b \in Seq(Character) /\ Len(b) = Len(q) + Len(t)
        /\ \A i \in 1 .. Len(q) + Len(t) :
             b[i] = IF i <= Len(q) THEN q[i] ELSE t[i - Len(q)]
    BY <1>1, ConcatProperties
  <2> HIDE DEF b
  <2> QED BY <1>1, <2>1
<1> HIDE DEF b
<1>3. /\ e \in Seq(Character) /\ Len(e) = Len(t) + 2
      /\ \A j \in 1 .. Len(b) : e[j] = b[j]
      /\ e[Len(b) + 1] = Quote
  <2>1. /\ e \in Seq(Character) /\ Len(e) = Len(b) + Len(q)
        /\ \A i \in 1 .. Len(b) + Len(q) :
             e[i] = IF i <= Len(b) THEN b[i] ELSE q[i - Len(b)]
    BY <1>1, <1>2, ConcatProperties
  <2> HIDE DEF e
  <2> QED BY <1>1, <1>2, <2>1
<1> HIDE DEF e
<1>4. e[1] = Quote /\ e[Len(e)] = Quote /\ \A j \in 1 .. Len(t) : e[j + 1] = t[j]
  BY <1>1, <1>2, <1>3
<1> QED BY <1>3, <1>4 DEF e, b, q

-----------------------------------------------------------------------------
(* Where a header is cut. *)

Outside(c) == [escaped |-> FALSE, quoted |-> FALSE, cuts |-> c]
Inside(c) == [escaped |-> FALSE, quoted |-> TRUE, cuts |-> c]
Escaping(c) == [escaped |-> TRUE, quoted |-> TRUE, cuts |-> c]

LEMMA AfterOutside ==
  ASSUME NEW c, NEW x, NEW i
  PROVE  /\ x \notin {Quote, ","} => After(Outside(c), x, i) = Outside(c)
         /\ x = Quote => After(Outside(c), x, i) = Inside(c)
         /\ x = "," => After(Outside(c), x, i) = Outside(Append(c, i))
BY DEF After, Outside, Inside, CommaCuts, Quote, Backslash

LEMMA AfterInside ==
  ASSUME NEW c, NEW x, NEW i
  PROVE  /\ x \notin {Quote, Backslash} => After(Inside(c), x, i) = Inside(c)
         /\ x = Quote => After(Inside(c), x, i) = Outside(c)
         /\ x = Backslash => After(Inside(c), x, i) = Escaping(c)
         /\ After(Escaping(c), x, i) = Inside(c)
BY DEF After, Outside, Inside, Escaping, CommaCuts, Quote, Backslash

(* The states of the scan that cuts h. *)
Scans(scan, h) ==
  /\ scan[0] = Outside(<<>>)
  /\ \A i \in 1 .. Len(h) : scan[i] = After(scan[i - 1], h[i], i)

LEMMA CutsScan ==
  ASSUME NEW h \in Seq(Character)
  PROVE  \E scan : Scans(scan, h) /\ Cuts(h) = scan[Len(h)].cuts
<1> DEFINE n == Len(h)
           S == [escaped : BOOLEAN, quoted : BOOLEAN, cuts : Seq(Nat)]
           s == Outside(<<>>)
           step == [i \in 1 .. n |-> [at \in S |-> After(at, h[i], i)]]
           body(f, i) == IF i = 0
                         THEN [escaped |-> FALSE, quoted |-> FALSE, cuts |-> <<>>]
                         ELSE After(f[i - 1], h[i], i)
           Is(f) == f = [i \in 0 .. n |-> body(f, i)]
           scan == CHOOSE f : Is(f)
<1>1. n \in Nat
  OBVIOUS
<1>2. s \in S
  BY DEF Outside
<1>3. step \in Steps(n, S)
  <2> SUFFICES ASSUME NEW i \in 1 .. n, NEW at \in S PROVE After(at, h[i], i) \in S
    BY DEF Steps
  <2>1. at.escaped \in BOOLEAN /\ at.quoted \in BOOLEAN /\ at.cuts \in Seq(Nat)
        /\ i \in Nat
    OBVIOUS
  <2>2. Append(at.cuts, i) \in Seq(Nat)
    BY <2>1, AppendProperties
  <2> HIDE DEF S
  <2> QED BY <2>1, <2>2 DEF After, S
<1>4. PICK f : Carried(f, n, S, s, step)
  <2> HIDE DEF S, n, step, s
  <2> QED BY <1>1, <1>2, <1>3, Recursion
<1>5. f \in [0 .. n -> S] /\ f[0] = s
  <2> HIDE DEF S, n, step, s
  <2> QED BY <1>4, Zenon DEF Carried
<1>6. ASSUME NEW i \in 1 .. n PROVE f[i] = After(f[i - 1], h[i], i)
  <2>1. f[i] = step[i][f[i - 1]] /\ f[i - 1] \in S
    <3>1. i - 1 \in 0 .. n
      BY <1>1
    <3> HIDE DEF S, n, step, s
    <3> QED BY <1>4, <1>5, <3>1 DEF Carried
  <2>2. step[i][f[i - 1]] = After(f[i - 1], h[i], i)
    <3> HIDE DEF S, n
    <3> QED BY <2>1
  <2> QED BY <2>1, <2>2
<1>7. Is(f)
  <2>1. ASSUME NEW i \in 0 .. n PROVE f[i] = body(f, i)
    <3>1. CASE i = 0
      BY <1>5, <3>1, Zenon DEF Outside
    <3>2. CASE i # 0
      <4>1. i \in 1 .. n
        BY <1>1, <3>2
      <4> QED BY <1>6, <3>2, <4>1, Zenon
    <3> QED BY <3>1, <3>2
  <2>2. f = [i \in 0 .. n |-> f[i]]
    BY <1>5
  <2> HIDE DEF body
  <2> QED BY <2>1, <2>2, Zenon
<1>8. Is(scan)
  <2> HIDE DEF Is
  <2> QED BY <1>7
<1>9. \A i \in 0 .. n : scan[i] = body(scan, i)
  <2> HIDE DEF body, scan
  <2> QED BY <1>8, Zenon
<1>10. Cuts(h) = scan[n].cuts
  BY DEF Cuts
<1> HIDE DEF scan
<1>11. scan[0] = Outside(<<>>)
  <2>1. 0 \in 0 .. n
    BY <1>1
  <2> QED BY <1>9, <2>1, Zenon DEF Outside
<1>12. ASSUME NEW i \in 1 .. n PROVE scan[i] = After(scan[i - 1], h[i], i)
  <2>1. i \in 0 .. n /\ i # 0
    BY <1>1
  <2> QED BY <1>9, <2>1, Zenon
<1> QED BY <1>10, <1>11, <1>12 DEF Scans

(* A quoted value has no cut in it, and ends outside quotes. *)
LEMMA ValueScanned ==
  ASSUME NEW h \in Seq(Character), NEW scan, Scans(scan, h),
         NEW v \in Seq(Character), NEW p \in Nat, NEW c,
         p + Len(Escaped(v)) <= Len(h),
         \A j \in 1 .. Len(Escaped(v)) : h[p + j] = Escaped(v)[j],
         scan[p] = Outside(c)
  PROVE  scan[p + Len(Escaped(v))] = Outside(c)
<1> DEFINE n == Len(v)
           e == Escaped(v)
<1>1. PICK t, a :
        t \in Seq(Character) /\ e = <<Quote>> \o t \o <<Quote>> /\ Marks(v, t, a)
  BY EscapedMarks
<1>2. /\ e \in Seq(Character) /\ Len(e) = Len(t) + 2
      /\ e[1] = Quote /\ e[Len(e)] = Quote
      /\ \A j \in 1 .. Len(t) : e[j + 1] = t[j]
  BY <1>1, QuotedText
<1>3. n \in Nat /\ Len(t) \in Nat /\ Len(h) \in Nat /\ a[0] = 0 /\ a[n] = Len(t)
  BY <1>1 DEF Marks
<1> HIDE DEF e
<1>4. \A i \in 1 .. Len(h) : scan[i] = After(scan[i - 1], h[i], i)
  BY DEF Scans
<1>5. \A j \in 1 .. Len(t) : h[p + 1 + j] = t[j]
  <2> SUFFICES ASSUME NEW j \in 1 .. Len(t) PROVE h[p + 1 + j] = t[j]
    OBVIOUS
  <2>1. j + 1 \in 1 .. Len(e) /\ p + (j + 1) = p + 1 + j
    BY <1>2, <1>3
  <2>2. h[p + (j + 1)] = e[j + 1]
    BY <2>1 DEF e
  <2> QED BY <1>2, <2>1, <2>2
<1> DEFINE P == {i \in 0 .. n : scan[p + 1 + a[i]] = Inside(c)}
<1>6. 0 \in P
  <2>1. p + 1 \in 1 .. Len(h) /\ (p + 1) - 1 = p /\ h[p + 1] = Quote
    BY <1>2, <1>3 DEF e
  <2>2. scan[p + 1] = After(Outside(c), Quote, p + 1)
    BY <1>4, <2>1
  <2>3. scan[p + 1] = Inside(c)
    BY <2>2, AfterOutside
  <2>4. p + 1 + a[0] = p + 1 /\ 0 \in 0 .. n
    BY <1>3
  <2> HIDE DEF n
  <2> QED BY <2>3, <2>4
<1>7. ASSUME NEW i \in 1 .. n, i - 1 \in P PROVE i \in P
  <2>1. PICK x, y, m, l : x = a[i - 1] /\ y = a[i] /\ m = Len(t) /\ l = Len(h)
    OBVIOUS
  <2>2. /\ x \in 0 .. m /\ y \in 0 .. m /\ m \in Nat /\ l \in Nat
        /\ p + m + 2 <= l
        /\ IF v[i] \in {Quote, Backslash}
           THEN y = x + 2 /\ t[y - 1] = Backslash /\ t[y] = v[i]
           ELSE y = x + 1 /\ t[y] = v[i]
    <3>1. /\ a[i - 1] \in 0 .. Len(t) /\ a[i] \in 0 .. Len(t)
          /\ IF v[i] \in {Quote, Backslash}
             THEN a[i] = a[i - 1] + 2 /\ t[a[i] - 1] = Backslash /\ t[a[i]] = v[i]
             ELSE a[i] = a[i - 1] + 1 /\ t[a[i]] = v[i]
      BY <1>1, <1>3 DEF Marks
    <3>2. p + m + 2 <= l
      <4>1. p + Len(e) <= l /\ Len(e) = m + 2
        BY <1>2, <2>1 DEF e
      <4> QED BY <1>3, <2>1, <4>1
    <3> QED BY <1>3, <2>1, <3>1, <3>2
  <2>3. scan[p + 1 + x] = Inside(c) /\ i \in 0 .. n
    BY <1>3, <1>7, <2>1
  <2>4. scan[p + 1 + y] = Inside(c)
    <3>0. /\ \A j \in 1 .. m : h[p + 1 + j] = t[j]
          /\ \A j \in 1 .. l : scan[j] = After(scan[j - 1], h[j], j)
      BY <1>4, <1>5, <2>1
    <3> DEFINE k == p + 1 + x
    <3>1. CASE v[i] \in {Quote, Backslash}
      <4>1. /\ k + 1 \in 1 .. l /\ k + 2 \in 1 .. l
            /\ (k + 1) - 1 = k /\ (k + 2) - 1 = k + 1 /\ p + 1 + y = k + 2
            /\ y - 1 \in 1 .. m /\ p + 1 + (y - 1) = k + 1
        BY <2>2, <3>1
      <4>2. h[k + 1] = Backslash
        BY <2>2, <3>0, <3>1, <4>1
      <4> HIDE DEF k
      <4>3. scan[k + 1] = After(Inside(c), Backslash, k + 1)
        BY <2>3, <3>0, <4>1, <4>2 DEF k
      <4>4. scan[k + 1] = Escaping(c)
        BY <4>3, AfterInside
      <4>5. scan[k + 2] = After(Escaping(c), h[k + 2], k + 2)
        BY <3>0, <4>1, <4>4
      <4>6. scan[k + 2] = Inside(c)
        BY <4>5, AfterInside
      <4> QED BY <4>1, <4>6
    <3>2. CASE v[i] \notin {Quote, Backslash}
      <4>1. /\ k + 1 \in 1 .. l /\ (k + 1) - 1 = k /\ p + 1 + y = k + 1
            /\ y \in 1 .. m /\ t[y] = v[i]
        BY <2>2, <3>2
      <4>2. h[k + 1] = v[i]
        BY <3>0, <4>1
      <4> HIDE DEF k
      <4>3. scan[k + 1] = After(Inside(c), v[i], k + 1)
        BY <2>3, <3>0, <4>1, <4>2 DEF k
      <4>4. scan[k + 1] = Inside(c)
        BY <3>2, <4>3, AfterInside
      <4> QED BY <4>1, <4>4
    <3> QED BY <3>1, <3>2
  <2> QED BY <2>1, <2>3, <2>4
<1>8. scan[p + 1 + Len(t)] = Inside(c)
  <2>1. n \in P
    <3> HIDE DEF P
    <3>1. \A i \in 0 .. n : i \in P
      BY <1>3, <1>6, <1>7, UpTo
    <3> QED BY <1>3, <3>1
  <2> QED BY <1>3, <2>1
<1>9. /\ p + Len(e) \in 1 .. Len(h) /\ (p + Len(e)) - 1 = p + 1 + Len(t)
      /\ h[p + Len(e)] = Quote
  <2>1. Len(e) \in 1 .. Len(e)
    BY <1>2, <1>3
  <2>2. h[p + Len(e)] = e[Len(e)]
    BY <2>1 DEF e
  <2>3. p + Len(e) <= Len(h)
    BY DEF e
  <2> QED BY <1>2, <1>3, <2>2, <2>3
<1>10. scan[p + Len(e)] = After(Inside(c), Quote, p + Len(e))
  BY <1>4, <1>8, <1>9
<1>11. scan[p + Len(e)] = Outside(c)
  BY <1>10, AfterInside
<1> QED BY <1>11 DEF e

(* A quoted value. *)
LEMMA EscapedIs ==
  ASSUME NEW v \in Seq(Character)
  PROVE  LET e == Escaped(v) IN
         /\ e \in Seq(Character) /\ Len(e) \in Nat /\ Len(e) >= 2
         /\ e[1] = Quote /\ e[Len(e)] = Quote
<1>1. PICK t, a :
        t \in Seq(Character) /\ Escaped(v) = <<Quote>> \o t \o <<Quote>> /\ Marks(v, t, a)
  BY EscapedMarks
<1> DEFINE e == Escaped(v)
<1>2. e \in Seq(Character) /\ Len(e) = Len(t) + 2 /\ e[1] = Quote /\ e[Len(e)] = Quote
  BY <1>1, QuotedText
<1>3. Len(t) \in Nat
  OBVIOUS
<1> HIDE DEF e
<1> QED BY <1>2, <1>3 DEF e

(* A parameter as it is written, and what comes before it. *)
ParameterText(p) == <<p.key, "=">> \o Escaped(p.value)
Led(lead, p) == lead \o ParameterText(p)

LEMMA LedIs ==
  ASSUME NEW lead \in Seq(Character), NEW p \in ChallengeParameter
  PROVE  LET q == Led(lead, p)
             l == Len(lead)
             e == Escaped(p.value) IN
         /\ q \in Seq(Character) /\ Len(q) = l + 2 + Len(e)
         /\ \A i \in 1 .. l : q[i] = lead[i]
         /\ q[l + 1] = p.key /\ q[l + 2] = "="
         /\ \A j \in 1 .. Len(e) : q[l + 2 + j] = e[j]
         /\ ParameterText(p) \in Seq(Character)
<1>0. p.key \in Word /\ p.value \in Seq(Character)
  BY DEF ChallengeParameter
<1> DEFINE e == Escaped(p.value)
           kk == <<p.key, "=">>
           r == kk \o e
           q == lead \o r
<1>1. PICK l \in Nat, n \in Nat : l = Len(lead) /\ n = Len(e)
  BY <1>0, EscapedIs
<1>2. kk \in Seq(Character) /\ Len(kk) = 2 /\ kk[1] = p.key /\ kk[2] = "="
  <2>1. p.key \in Character /\ "=" \in Character
    BY <1>0, ChallengesAssumption DEF Word, Special
  <2> QED BY <2>1
<1>3. e \in Seq(Character)
  BY <1>0, EscapedIs
<1> HIDE DEF kk, e
<1>4. /\ r \in Seq(Character) /\ Len(r) = 2 + n
      /\ r[1] = p.key /\ r[2] = "=" /\ \A j \in 1 .. n : r[2 + j] = e[j]
  <2>1. /\ r \in Seq(Character) /\ Len(r) = Len(kk) + Len(e)
        /\ \A i \in 1 .. Len(kk) + Len(e) :
             r[i] = IF i <= Len(kk) THEN kk[i] ELSE e[i - Len(kk)]
    BY <1>2, <1>3, ConcatProperties
  <2> HIDE DEF r
  <2>2. \A i \in 1 .. 2 + n : r[i] = IF i <= 2 THEN kk[i] ELSE e[i - 2]
    BY <1>1, <1>2, <2>1
  <2>3. \A j \in 1 .. n : r[2 + j] = e[j]
    <3> SUFFICES ASSUME NEW j \in 1 .. n PROVE r[2 + j] = e[j]
      OBVIOUS
    <3>1. 2 + j \in 1 .. 2 + n /\ ~(2 + j <= 2) /\ (2 + j) - 2 = j
      BY <1>1
    <3> QED BY <2>2, <3>1
  <2> QED BY <1>1, <1>2, <2>1, <2>2, <2>3
<1>5. /\ q \in Seq(Character) /\ Len(q) = l + (2 + n)
      /\ \A i \in 1 .. l + (2 + n) : q[i] = IF i <= l THEN lead[i] ELSE r[i - l]
  <2> HIDE DEF r
  <2>1. /\ q \in Seq(Character) /\ Len(q) = Len(lead) + Len(r)
        /\ \A i \in 1 .. Len(lead) + Len(r) :
             q[i] = IF i <= Len(lead) THEN lead[i] ELSE r[i - Len(lead)]
    BY <1>4, ConcatProperties
  <2> HIDE DEF q
  <2> QED BY <1>1, <1>4, <2>1
<1> HIDE DEF q, r
<1>6. \A i \in 1 .. l : q[i] = lead[i]
  <2> SUFFICES ASSUME NEW i \in 1 .. l PROVE q[i] = lead[i]
    OBVIOUS
  <2>1. i \in 1 .. l + (2 + n) /\ i <= l
    BY <1>1
  <2> QED BY <1>5, <2>1
<1>7. q[l + 1] = p.key /\ q[l + 2] = "="
  <2>1. /\ l + 1 \in 1 .. l + (2 + n) /\ ~(l + 1 <= l) /\ (l + 1) - l = 1
        /\ l + 2 \in 1 .. l + (2 + n) /\ ~(l + 2 <= l) /\ (l + 2) - l = 2
    BY <1>1
  <2> QED BY <1>4, <1>5, <2>1
<1>8. ASSUME NEW j \in 1 .. n PROVE q[l + 2 + j] = e[j]
  <2>1. /\ l + 2 + j \in 1 .. l + (2 + n) /\ ~(l + 2 + j <= l) /\ (l + 2 + j) - l = 2 + j
    BY <1>1
  <2> QED BY <1>4, <1>5, <2>1
<1>9. Len(q) = l + 2 + n
  BY <1>1, <1>5
<1>10. ParameterText(p) = r /\ Led(lead, p) = q
  BY DEF ParameterText, Led, q, r, kk, e
<1> QED BY <1>1, <1>4, <1>5, <1>6, <1>7, <1>8, <1>9, <1>10 DEF e

(* The two parts of a challenge, between commas. *)
FirstPart(c) == Led(<<c.scheme, " ">>, c.first)
SecondPart(c) == Led(<<" ">>, c.second)

OneChallenge == [scheme : Word, first : ChallengeParameter, second : ChallengeParameter]

LEMMA LeadsAre ==
  ASSUME NEW c \in OneChallenge
  PROVE  /\ c.scheme \in Word /\ c.first \in ChallengeParameter /\ c.second \in ChallengeParameter
         /\ <<c.scheme, " ">> \in Seq(Character) /\ <<" ">> \in Seq(Character)
         /\ <<",">> \in Seq(Character)
         /\ FirstPart(c) \in Seq(Character) /\ SecondPart(c) \in Seq(Character)
<1>1. c.scheme \in Word /\ c.first \in ChallengeParameter /\ c.second \in ChallengeParameter
  BY DEF OneChallenge
<1>2. c.scheme \in Character /\ " " \in Character /\ "," \in Character
  BY <1>1, ChallengesAssumption DEF Word, Special
<1>3. \A x, y \in Character : <<x, y>> \in Seq(Character) /\ <<x>> \in Seq(Character)
  OBVIOUS
<1>4. /\ <<c.scheme, " ">> \in Seq(Character)
      /\ <<" ">> \in Seq(Character) /\ <<",">> \in Seq(Character)
  BY <1>2, <1>3
<1> QED BY <1>1, <1>4, LedIs DEF FirstPart, SecondPart

(* Concatenation, kept whole: the provers are to see the names only. *)
Joining(s, t) == s \o t
LEMMA JoiningIs ==
  ASSUME NEW S, NEW f \in Seq(S), NEW c \in Seq(S), NEW s \in Seq(S)
  PROVE  Joining(f, c) \in Seq(S) /\ Joining(Joining(f, c), s) = Joining(f, Joining(c, s))
<1> DEFINE P == (f \o c) \o s
           Q == f \o (c \o s)
<1>1. P \in Seq(S) /\ Q \in Seq(S) /\ Len(P) = Len(f) + Len(c) + Len(s) /\ Len(Q) = Len(P)
  OBVIOUS
<1>2. \A i \in 1 .. Len(P) : P[i] = Q[i]
  OBVIOUS
<1> HIDE DEF P, Q
<1>3. P = Q BY <1>1, <1>2, SeqEqual
<1> QED BY <1>3 DEF P, Q, Joining
LEMMA Joined ==
  ASSUME NEW S, NEW u \in Seq(S), NEW f \in Seq(S), NEW c \in Seq(S), NEW s \in Seq(S),
         NEW z \in Seq(S)
  PROVE  Joining(u, Joining(Joining(f, Joining(c, s)), z))
           = Joining(Joining(Joining(u, f), c), Joining(s, z))
<1>1. Joining(c, s) \in Seq(S) /\ Joining(f, c) \in Seq(S) /\ Joining(s, z) \in Seq(S)
  BY JoiningIs
<1>2. Joining(Joining(f, Joining(c, s)), z) = Joining(f, Joining(Joining(c, s), z))
  BY <1>1, JoiningIs
<1>3. Joining(Joining(c, s), z) = Joining(c, Joining(s, z))
  BY JoiningIs
<1>4. Joining(f, Joining(c, Joining(s, z))) = Joining(Joining(f, c), Joining(s, z))
  BY <1>1, JoiningIs
<1>5. Joining(u, Joining(Joining(f, c), Joining(s, z)))
        = Joining(Joining(u, Joining(f, c)), Joining(s, z))
  BY <1>1, JoiningIs
<1>6. Joining(u, Joining(f, c)) = Joining(Joining(u, f), c)
  BY JoiningIs
<1> QED BY <1>2, <1>3, <1>4, <1>5, <1>6

LEMMA PairJoined ==
  ASSUME NEW S, NEW x \in S, NEW y \in S
  PROVE  <<x, y>> = <<x>> \o <<y>>
<1> DEFINE a == <<x>>
           b == <<y>>
           P == <<x, y>>
           Q == a \o b
<1>1. a \in Seq(S) /\ b \in Seq(S) /\ Len(a) = 1 /\ Len(b) = 1 /\ a[1] = x /\ b[1] = y
  OBVIOUS
<1>2. P \in Seq(S) /\ Len(P) = 2 /\ P[1] = x /\ P[2] = y
  OBVIOUS
<1> HIDE DEF a, b, P
<1>3. Q \in Seq(S) /\ Len(Q) = 2 /\ Q[1] = x /\ Q[2] = y
  <2>1. /\ Q \in Seq(S) /\ Len(Q) = Len(a) + Len(b)
        /\ \A i \in 1 .. Len(a) + Len(b) :
             Q[i] = IF i <= Len(a) THEN a[i] ELSE b[i - Len(a)]
    BY <1>1, ConcatProperties
  <2> HIDE DEF Q
  <2> QED BY <1>1, <2>1
<1> HIDE DEF Q
<1>4. P = Q
  BY <1>2, <1>3, SeqEqual
<1> QED BY <1>4 DEF P, Q, a, b

(* A challenge is two parts with a comma between them. *)
LEMMA ChallengeText ==
  ASSUME NEW c \in OneChallenge, NEW before \in Seq(Character)
  PROVE  before \o (<<c.scheme, " ">> \o ParameterText(c.first) \o <<",", " ">>
                      \o ParameterText(c.second))
           = ((before \o FirstPart(c)) \o <<",">>) \o SecondPart(c)
<1> DEFINE x == <<c.scheme, " ">>
           y == ParameterText(c.first)
           z == ParameterText(c.second)
<1>1. x \o y \in Seq(Character) /\ z \in Seq(Character)
  BY LeadsAre, LedIs DEF FirstPart, Led
<1>2. <<",">> \in Seq(Character) /\ <<" ">> \in Seq(Character)
  BY LeadsAre
<1>3. <<",", " ">> = <<",">> \o <<" ">>
  <2>1. "," \in Character /\ " " \in Character
    BY ChallengesAssumption DEF Special
  <2> QED BY <2>1, PairJoined
<1>4. FirstPart(c) = x \o y /\ SecondPart(c) = <<" ">> \o z
  BY DEF FirstPart, SecondPart, Led
<1> HIDE DEF x, y, z
<1>5. PICK f \in Seq(Character) : f = Joining(x, y)
  BY <1>1, Zenon DEF Joining
<1>6. Joining(before, Joining(Joining(Joining(x, y), Joining(<<",">>, <<" ">>)), z))
        = Joining(Joining(Joining(before, Joining(x, y)), <<",">>), Joining(<<" ">>, z))
  <2>1. PICK comma \in Seq(Character), space \in Seq(Character) :
          comma = <<",">> /\ space = <<" ">>
    BY <1>2
  <2>2. Joining(before, Joining(Joining(f, Joining(comma, space)), z))
          = Joining(Joining(Joining(before, f), comma), Joining(space, z))
    BY <1>1, Joined
  <2> QED BY <1>5, <2>1, <2>2
<1> QED BY <1>3, <1>4, <1>6, Zenon DEF x, y, z, Joining

(* A text to which a separator and a part are added, n times. *)
Grown(n, S, text, sep, part) ==
  /\ text \in [0 .. n -> Seq(S)]
  /\ sep \in [1 .. n -> Seq(S)] /\ part \in [1 .. n -> Seq(S)]
  /\ \A i \in 1 .. n : text[i] = Joining(Joining(text[i - 1], sep[i]), part[i])

LEMMA GrowsBy ==
  ASSUME NEW S, NEW u \in Seq(S), NEW s \in Seq(S), NEW p \in Seq(S),
         NEW w \in Seq(S), w = Joining(Joining(u, s), p)
  PROVE  /\ Len(w) = Len(u) + Len(s) + Len(p)
         /\ \A j \in 1 .. Len(u) : w[j] = u[j]
         /\ \A j \in 1 .. Len(s) : w[Len(u) + j] = s[j]
         /\ \A j \in 1 .. Len(p) : w[Len(u) + Len(s) + j] = p[j]
<1> DEFINE q == u \o s
           r == q \o p
<1>1. PICK l \in Nat, m \in Nat, n \in Nat : l = Len(u) /\ m = Len(s) /\ n = Len(p)
  OBVIOUS
<1>2. /\ q \in Seq(S) /\ Len(q) = l + m
      /\ \A i \in 1 .. l + m : q[i] = IF i <= l THEN u[i] ELSE s[i - l]
  <2>1. /\ q \in Seq(S) /\ Len(q) = Len(u) + Len(s)
        /\ \A i \in 1 .. Len(u) + Len(s) :
             q[i] = IF i <= Len(u) THEN u[i] ELSE s[i - Len(u)]
    BY ConcatProperties
  <2> HIDE DEF q
  <2> QED BY <1>1, <2>1
<1> HIDE DEF q
<1>3. /\ Len(r) = l + m + n
      /\ \A i \in 1 .. l + m + n : r[i] = IF i <= l + m THEN q[i] ELSE p[i - (l + m)]
  <2>1. /\ Len(r) = Len(q) + Len(p)
        /\ \A i \in 1 .. Len(q) + Len(p) :
             r[i] = IF i <= Len(q) THEN q[i] ELSE p[i - Len(q)]
    BY <1>2, ConcatProperties
  <2> HIDE DEF r
  <2> QED BY <1>1, <1>2, <2>1
<1> HIDE DEF r
<1>4. ASSUME NEW j \in 1 .. l PROVE r[j] = u[j]
  <2>1. j \in 1 .. l + m + n /\ j <= l + m /\ j \in 1 .. l + m /\ j <= l
    BY <1>1
  <2> QED BY <1>2, <1>3, <2>1
<1>5. ASSUME NEW j \in 1 .. m PROVE r[l + j] = s[j]
  <2>1. /\ l + j \in 1 .. l + m + n /\ l + j <= l + m /\ l + j \in 1 .. l + m
        /\ ~(l + j <= l) /\ (l + j) - l = j
    BY <1>1
  <2> QED BY <1>2, <1>3, <2>1
<1>6. ASSUME NEW j \in 1 .. n PROVE r[l + m + j] = p[j]
  <2>1. /\ l + m + j \in 1 .. l + m + n /\ ~(l + m + j <= l + m)
        /\ (l + m + j) - (l + m) = j
    BY <1>1
  <2> QED BY <1>3, <2>1
<1>7. w = r
  BY DEF Joining, r, q
<1> QED BY <1>1, <1>3, <1>4, <1>5, <1>6, <1>7

(* What has been written stays. *)
LEMMA GrownKeeps ==
  ASSUME NEW n \in Nat, NEW S, NEW text, NEW sep, NEW part, Grown(n, S, text, sep, part)
  PROVE  \A i \in 0 .. n :
           /\ text[i] \in Seq(S) /\ Len(text[i]) \in Nat
           /\ Len(text[i]) <= Len(text[n])
           /\ \A j \in 1 .. Len(text[i]) : text[n][j] = text[i][j]
<1> DEFINE In(i, k) == /\ Len(text[i]) <= Len(text[k])
                       /\ \A j \in 1 .. Len(text[i]) : text[k][j] = text[i][j]
           P == {k \in 0 .. n : \A i \in 0 .. k : In(i, k)}
<1>1. \A i \in 0 .. n : text[i] \in Seq(S) /\ Len(text[i]) \in Nat
  <2>1. \A i \in 0 .. n : text[i] \in Seq(S)
    BY Zenon DEF Grown
  <2> QED BY <2>1, LenProperties
<1>2. 0 \in P
  BY <1>1
<1>3. ASSUME NEW k \in 1 .. n, k - 1 \in P PROVE k \in P
  <2> SUFFICES ASSUME NEW i \in 0 .. k PROVE In(i, k)
    OBVIOUS
  <2>1. CASE i = k
    BY <1>1, <2>1
  <2>2. CASE i # k
    <3>1. In(i, k - 1) /\ i \in 0 .. n /\ k - 1 \in 0 .. n /\ k \in 0 .. n
      BY <1>3, <2>2
    <3>2. PICK u, s, p : u = text[k - 1] /\ s = sep[k] /\ p = part[k]
      OBVIOUS
    <3>3. u \in Seq(S) /\ s \in Seq(S) /\ p \in Seq(S) /\ text[k] = Joining(Joining(u, s), p)
      BY <3>1, <3>2 DEF Grown
    <3>4. PICK x \in Nat, y \in Nat, m \in Nat, l \in Nat :
            x = Len(text[i]) /\ y = Len(u) /\ m = Len(s) /\ l = Len(p)
      BY <1>1, <3>1, <3>3, LenProperties
    <3>5. /\ Len(text[k]) = y + m + l
          /\ \A j \in 1 .. y : text[k][j] = u[j]
      <4>1. PICK w : w = text[k]
        OBVIOUS
      <4>2. Len(w) = Len(u) + Len(s) + Len(p) /\ \A j \in 1 .. Len(u) : w[j] = u[j]
        <5>1. /\ u \in Seq(S) /\ s \in Seq(S) /\ p \in Seq(S)
              /\ w = Joining(Joining(u, s), p) /\ w \in Seq(S)
          BY <1>1, <3>1, <3>3, <4>1
        <5> HIDE DEF In, P
        <5>2. Len(w) = Len(u) + Len(s) + Len(p)
          BY <5>1, GrowsBy
        <5>3. \A j \in 1 .. Len(u) : w[j] = u[j]
          BY <5>1, GrowsBy
        <5> QED BY <5>2, <5>3
      <4> QED BY <3>4, <4>1, <4>2
    <3>6. x <= y /\ \A j \in 1 .. x : u[j] = text[i][j]
      BY <3>1, <3>2, <3>4
    <3>7. x <= y + m + l /\ \A j \in 1 .. x : j \in 1 .. y
      BY <3>6
    <3> QED BY <3>4, <3>5, <3>6, <3>7
  <2> QED BY <2>1, <2>2
<1> HIDE DEF P
<1>4. \A k \in 0 .. n : k \in P
  BY <1>2, <1>3, UpTo
<1>5. \A i \in 0 .. n : In(i, n)
  <2>1. n \in P
    BY <1>4
  <2> QED BY <2>1 DEF P
<1> QED BY <1>1, <1>5

(* After before, w has s and then p, where after ends. *)
Adds(before, s, p, after, w) ==
  /\ Len(after) = Len(before) + Len(s) + Len(p)
  /\ \A j \in 1 .. Len(s) : w[Len(before) + j] = s[j]
  /\ \A j \in 1 .. Len(p) : w[Len(before) + Len(s) + j] = p[j]

LEMMA Grows ==
  ASSUME NEW n \in Nat, NEW S, NEW text, NEW sep, NEW part, Grown(n, S, text, sep, part),
         NEW i \in 1 .. n
  PROVE  Adds(text[i - 1], sep[i], part[i], text[i], text[n])
<1>1. PICK u, s, p, t, w :
        u = text[i - 1] /\ s = sep[i] /\ p = part[i] /\ t = text[i] /\ w = text[n]
  OBVIOUS
<1>2. i - 1 \in 0 .. n /\ i \in 0 .. n /\ n \in 0 .. n
  OBVIOUS
<1>3. /\ u \in Seq(S) /\ s \in Seq(S) /\ p \in Seq(S) /\ t \in Seq(S) /\ w \in Seq(S)
      /\ t = Joining(Joining(u, s), p)
  BY <1>1, <1>2 DEF Grown
<1>4. PICK x \in Nat, m \in Nat, l \in Nat : x = Len(u) /\ m = Len(s) /\ l = Len(p)
  BY <1>3, LenProperties
<1>5. /\ Len(t) = x + m + l
      /\ \A j \in 1 .. m : t[x + j] = s[j]
      /\ \A j \in 1 .. l : t[x + m + j] = p[j]
  <2>1. /\ Len(t) = Len(u) + Len(s) + Len(p)
        /\ \A j \in 1 .. Len(s) : t[Len(u) + j] = s[j]
        /\ \A j \in 1 .. Len(p) : t[Len(u) + Len(s) + j] = p[j]
    BY <1>3, GrowsBy
  <2> QED BY <1>4, <2>1
<1>6. \A j \in 1 .. x + m + l : w[j] = t[j]
  BY <1>1, <1>2, <1>5, GrownKeeps
<1>7. /\ \A j \in 1 .. m : x + j \in 1 .. x + m + l
      /\ \A j \in 1 .. l : x + m + j \in 1 .. x + m + l
  BY <1>4
<1>8. /\ \A j \in 1 .. m : w[x + j] = s[j]
      /\ \A j \in 1 .. l : w[x + m + j] = p[j]
  BY <1>5, <1>6, <1>7
<1>9. Adds(u, s, p, t, w)
  BY <1>4, <1>5, <1>8 DEF Adds
<1> QED BY <1>1, <1>9

(* What is written before, of a challenge or one of its parameters. *)
Sep(m) == IF m = 1 THEN <<>> ELSE <<",">>
Part(cs, m) ==
  IF m % 2 = 1 THEN FirstPart(cs[(m + 1) \div 2]) ELSE SecondPart(cs[(m + 1) \div 2])

ChallengeOf(c) ==
  <<c.scheme, " ">> \o ParameterText(c.first) \o <<",", " ">> \o ParameterText(c.second)

LEMMA SepIs ==
  ASSUME NEW m
  PROVE  /\ Sep(m) \in Seq(Character)
         /\ Len(Sep(m)) = (IF m = 1 THEN 0 ELSE 1)
         /\ m # 1 => Sep(m)[1] = ","
<1>1. "," \in Character
  BY ChallengesAssumption DEF Special
<1>2. <<>> \in Seq(Character) /\ Len(<<>>) = 0
  OBVIOUS
<1>3. <<",">> \in Seq(Character) /\ Len(<<",">>) = 1 /\ <<",">>[1] = ","
  <2>1. \A x \in Character : <<x>> \in Seq(Character) /\ Len(<<x>>) = 1 /\ <<x>>[1] = x
    OBVIOUS
  <2> QED BY <1>1, <2>1
<1>4. CASE m = 1
  BY <1>2, <1>4 DEF Sep
<1>5. CASE m # 1
  <2>1. Sep(m) = <<",">>
    BY <1>5 DEF Sep
  <2> QED BY <1>3, <1>5, <2>1
<1> QED BY <1>4, <1>5

LEMMA ChallengeAdded ==
  ASSUME NEW c \in OneChallenge, NEW u \in Seq(Character)
  PROVE  /\ u \o ChallengeOf(c)
              = Joining(Joining(Joining(u, FirstPart(c)), <<",">>), SecondPart(c))
         /\ u \o ChallengeOf(c) \in Seq(Character)
<1>1. u \o ChallengeOf(c)
              = Joining(Joining(Joining(u, FirstPart(c)), <<",">>), SecondPart(c))
  BY ChallengeText, Zenon DEF ChallengeOf, Joining
<1>2. Joining(u, FirstPart(c)) \in Seq(Character)
  BY LeadsAre, JoiningIs
<1>3. PICK comma \in Seq(Character) : comma = <<",">>
  BY LeadsAre
<1>4. Joining(Joining(u, FirstPart(c)), comma) \in Seq(Character)
  BY <1>2, JoiningIs
<1>5. Joining(Joining(Joining(u, FirstPart(c)), comma), SecondPart(c)) \in Seq(Character)
  BY <1>4, LeadsAre, JoiningIs
<1> QED BY <1>1, <1>3, <1>5, Zenon

(* A written header grows by challenges ... *)
LEMMA WrittenText ==
  ASSUME NEW cs \in Seq(OneChallenge)
  PROVE  \E text \in [0 .. Len(cs) -> Seq(Character)] :
           /\ text[0] = <<>>
           /\ \A k \in 1 .. Len(cs) :
                text[k] = (text[k - 1] \o Sep(k)) \o ChallengeOf(cs[k])
           /\ Written(cs) = text[Len(cs)]
<1> DEFINE n == Len(cs)
           S == Seq(Character)
           step == [k \in 1 .. n |-> [t \in S |-> (t \o Sep(k)) \o ChallengeOf(cs[k])]]
           body(f, k) == IF k = 0 THEN <<>>
                         ELSE f[k - 1] \o (IF k = 1 THEN <<>> ELSE <<",">>)
                                \o (<<cs[k].scheme, " ">>
                                      \o (<<cs[k].first.key, "=">> \o Escaped(cs[k].first.value))
                                      \o <<",", " ">>
                                      \o (<<cs[k].second.key, "=">> \o Escaped(cs[k].second.value)))
           Is(f) == f = [k \in 0 .. n |-> body(f, k)]
           text == CHOOSE f : Is(f)
<1>1. n \in Nat /\ <<>> \in S /\ \A k \in 1 .. n : cs[k] \in OneChallenge
  OBVIOUS
<1>2. step \in Steps(n, S)
  <2> SUFFICES ASSUME NEW k \in 1 .. n, NEW t \in S
               PROVE (t \o Sep(k)) \o ChallengeOf(cs[k]) \in S
    BY DEF Steps
  <2>1. t \o Sep(k) \in S
    <3>1. Sep(k) \in S
      BY SepIs
    <3> QED BY <3>1, ConcatProperties
  <2> HIDE DEF S
  <2> QED BY <1>1, <2>1, ChallengeAdded DEF S
<1>3. PICK f : Carried(f, n, S, <<>>, step)
  <2> HIDE DEF S, n, step
  <2> QED BY <1>1, <1>2, Recursion
<1>0. f \in [0 .. n -> S] /\ f[0] = <<>>
  <2> HIDE DEF S, n, step
  <2> QED BY <1>3, Zenon DEF Carried
<1>4. ASSUME NEW k \in 1 .. n PROVE f[k] = (f[k - 1] \o Sep(k)) \o ChallengeOf(cs[k])
  <2>1. f[k] = step[k][f[k - 1]] /\ f[k - 1] \in S
    <3>1. k - 1 \in 0 .. n
      BY <1>1
    <3> HIDE DEF S, n, step
    <3> QED BY <1>3, <3>1 DEF Carried
  <2>2. step[k][f[k - 1]] = (f[k - 1] \o Sep(k)) \o ChallengeOf(cs[k])
    <3> HIDE DEF S, n
    <3> QED BY <2>1
  <2> QED BY <2>1, <2>2
<1>5. Is(f)
  <2>1. ASSUME NEW k \in 0 .. n PROVE f[k] = body(f, k)
    <3>1. CASE k = 0
      BY <1>0, <3>1
    <3>2. CASE k # 0
      <4>1. f[k] = (f[k - 1] \o Sep(k)) \o ChallengeOf(cs[k])
        <5>1. k \in 1 .. n
          BY <1>1, <3>2
        <5> QED BY <1>4, <5>1
      <4> QED BY <3>2, <4>1, Zenon DEF Sep, ChallengeOf, ParameterText
    <3> QED BY <3>1, <3>2
  <2>2. f = [k \in 0 .. n |-> f[k]]
    BY <1>0
  <2> HIDE DEF body
  <2> QED BY <2>1, <2>2, Zenon
<1>6. Is(text)
  <2> HIDE DEF Is
  <2> QED BY <1>5
<1>7. /\ text[0] = <<>>
      /\ \A k \in 1 .. n : text[k] = (text[k - 1] \o Sep(k)) \o ChallengeOf(cs[k])
  <2> HIDE DEF text
  <2>1. \A k \in 0 .. n : text[k] = body(text, k)
    <3> HIDE DEF body
    <3> QED BY <1>6, Zenon
  <2>2. text[0] = <<>>
    <3>1. 0 \in 0 .. n /\ 0 = 0
      BY <1>1
    <3> QED BY <2>1, <3>1, Zenon
  <2>3. ASSUME NEW k \in 1 .. n PROVE text[k] = (text[k - 1] \o Sep(k)) \o ChallengeOf(cs[k])
    <3>1. k \in 0 .. n /\ k # 0
      BY <1>1
    <3> QED BY <2>1, <3>1, Zenon DEF Sep, ChallengeOf, ParameterText
  <2> QED BY <2>2, <2>3
<1>8. \A k \in 0 .. n : text[k] = f[k]
  <2> DEFINE P == {k \in 0 .. n : text[k] = f[k]}
  <2> HIDE DEF text
  <2>1. 0 \in P
    <3>1. 0 \in 0 .. n
      BY <1>1
    <3>2. text[0] = f[0]
      BY <1>0, <1>7, Zenon
    <3> QED BY <3>1, <3>2
  <2>2. ASSUME NEW k \in 1 .. n, k - 1 \in P PROVE k \in P
    <3>1. k \in 0 .. n /\ text[k - 1] = f[k - 1]
      BY <1>1, <2>2
    <3>2. /\ text[k] = (text[k - 1] \o Sep(k)) \o ChallengeOf(cs[k])
          /\ f[k] = (f[k - 1] \o Sep(k)) \o ChallengeOf(cs[k])
      BY <1>4, <1>7, Zenon
    <3>3. text[k] = f[k]
      BY <3>1, <3>2, Zenon
    <3> QED BY <3>1, <3>3
  <2> HIDE DEF P
  <2>3. \A k \in 0 .. n : k \in P
    BY <1>1, <2>1, <2>2, UpTo
  <2> QED BY <2>3 DEF P
<1>9. Written(cs) = text[n]
  BY Zenon DEF Written
<1> HIDE DEF text
<1>10. n \in 0 .. n
  BY <1>1
<1> QED
  <2>1. Written(cs) = f[n]
    BY <1>8, <1>9, <1>10
  <2> HIDE DEF n, S
  <2> QED BY <1>0, <1>4, <2>1 DEF S, n

(* What is before a part's parameter. *)
Leading(cs, m) ==
  IF m % 2 = 1 THEN <<cs[(m + 1) \div 2].scheme, " ">> ELSE <<" ">>

(* Part m is of the challenge (m + 1) \div 2, the first of its two if m is odd. *)
LEMMA Halves ==
  ASSUME NEW n \in Nat, NEW m \in 1 .. 2 * n
  PROVE  /\ (m + 1) \div 2 \in 1 .. n
         /\ m % 2 = 1 => m - 1 = 2 * ((m + 1) \div 2 - 1)
         /\ m % 2 # 1 => m = 2 * ((m + 1) \div 2) /\ (m - 1) % 2 = 1 /\ m # 1
                         /\ m - 1 \in 1 .. 2 * n /\ ((m - 1) + 1) \div 2 = (m + 1) \div 2
OBVIOUS

LEMMA PartIs ==
  ASSUME NEW cs \in Seq(OneChallenge), NEW m \in 1 .. 2 * Len(cs)
  PROVE  /\ cs[(m + 1) \div 2] \in OneChallenge
         /\ Parameters(cs)[m].p \in ChallengeParameter
         /\ Leading(cs, m) \in Seq(Character)
         /\ Part(cs, m) = Led(Leading(cs, m), Parameters(cs)[m].p)
         /\ Part(cs, m) \in Seq(Character)
<1>1. PICK k : k = (m + 1) \div 2
  OBVIOUS
<1>2. k \in 1 .. Len(cs) /\ cs[k] \in OneChallenge
  <2>1. Len(cs) \in Nat
    OBVIOUS
  <2>2. k \in 1 .. Len(cs)
    BY <1>1, <2>1, Halves
  <2> QED BY <2>2
<1>3. Parameters(cs)[m].p = IF m % 2 = 1 THEN cs[k].first ELSE cs[k].second
  BY <1>1 DEF Parameters
<1>4. CASE m % 2 = 1
  <2>1. Parameters(cs)[m].p = cs[k].first /\ Leading(cs, m) = <<cs[k].scheme, " ">>
        /\ Part(cs, m) = Led(Leading(cs, m), Parameters(cs)[m].p)
    BY <1>1, <1>3, <1>4, Zenon DEF Leading, Part, FirstPart
  <2>2. Leading(cs, m) \in Seq(Character) /\ Parameters(cs)[m].p \in ChallengeParameter
    BY <1>2, <2>1, LeadsAre
  <2>3. Led(Leading(cs, m), Parameters(cs)[m].p) \in Seq(Character)
    BY <2>2, LedIs
  <2> QED BY <1>1, <1>2, <2>1, <2>2, <2>3
<1>5. CASE m % 2 # 1
  <2>1. Parameters(cs)[m].p = cs[k].second /\ Leading(cs, m) = <<" ">>
        /\ Part(cs, m) = Led(Leading(cs, m), Parameters(cs)[m].p)
    BY <1>1, <1>3, <1>5, Zenon DEF Leading, Part, SecondPart
  <2>2. Leading(cs, m) \in Seq(Character) /\ Parameters(cs)[m].p \in ChallengeParameter
    BY <1>2, <2>1, LeadsAre
  <2>3. Led(Leading(cs, m), Parameters(cs)[m].p) \in Seq(Character)
    BY <2>2, LedIs
  <2> QED BY <1>1, <1>2, <2>1, <2>2, <2>3
<1> QED BY <1>4, <1>5

(* ... and so by parts. *)
LEMMA WrittenGrows ==
  ASSUME NEW cs \in Seq(OneChallenge)
  PROVE  LET n == 2 * Len(cs) IN
         \E text : /\ Grown(n, Character, text, [m \in 1 .. n |-> Sep(m)],
                                                [m \in 1 .. n |-> Part(cs, m)])
                   /\ text[0] = <<>> /\ Written(cs) = text[n]
<1> DEFINE l == Len(cs)
           n == 2 * l
           C == Seq(Character)
<1>1. PICK f \in [0 .. l -> C] :
        /\ f[0] = <<>>
        /\ \A k \in 1 .. l : f[k] = (f[k - 1] \o Sep(k)) \o ChallengeOf(cs[k])
        /\ Written(cs) = f[l]
  BY WrittenText
<1> DEFINE odd(m) == Joining(Joining(f[(m + 1) \div 2 - 1], Sep(m)), Part(cs, m))
           text == [m \in 0 .. n |-> IF m % 2 = 1 THEN odd(m) ELSE f[m \div 2]]
           sep == [m \in 1 .. n |-> Sep(m)]
           part == [m \in 1 .. n |-> Part(cs, m)]
<1>2. l \in Nat /\ n \in Nat /\ n = 2 * l
  OBVIOUS
<1> HIDE DEF C, l, n
<1>3. \A m \in 1 .. n : Part(cs, m) \in C /\ Sep(m) \in C
  BY <1>2, PartIs, SepIs DEF C, l, n
<1>4. \A k \in 0 .. l : f[k] \in C
  BY <1>1, Zenon
<1>5. ASSUME NEW m \in 1 .. n, m % 2 = 1 PROVE odd(m) \in C
  <2>1. (m + 1) \div 2 - 1 \in 0 .. l
    BY <1>2, Halves
  <2>2. f[(m + 1) \div 2 - 1] \in C
    BY <1>4, <2>1
  <2>3. Joining(f[(m + 1) \div 2 - 1], Sep(m)) \in C
    BY <1>3, <2>2, JoiningIs DEF C
  <2> QED BY <1>3, <2>3, JoiningIs DEF C
<1>6. text \in [0 .. n -> C]
  <2> SUFFICES ASSUME NEW m \in 0 .. n
               PROVE (IF m % 2 = 1 THEN odd(m) ELSE f[m \div 2]) \in C
    OBVIOUS
  <2>1. CASE m % 2 = 1
    <3>1. m \in 1 .. n
      BY <1>2, <2>1
    <3> QED BY <1>5, <2>1, <3>1
  <2>2. CASE m % 2 # 1
    <3>1. m \div 2 \in 0 .. l
      BY <1>2
    <3> QED BY <1>4, <2>2, <3>1
  <2> QED BY <2>1, <2>2
<1>7. ASSUME NEW m \in 1 .. n
      PROVE text[m] = Joining(Joining(text[m - 1], Sep(m)), Part(cs, m))
  <2>1. m \in 0 .. n /\ m - 1 \in 0 .. n
    BY <1>2
  <2> DEFINE k == (m + 1) \div 2
  <2>0. k \in 1 .. l /\ cs[k] \in OneChallenge
    <3>1. k \in 1 .. l
      BY <1>2, Halves
    <3> QED BY <3>1 DEF l
  <2>2. CASE m % 2 = 1
    <3>1. text[m - 1] = f[k - 1]
      <4>1. (m - 1) % 2 # 1 /\ (m - 1) \div 2 = k - 1
        BY <1>2, <2>2
      <4> QED BY <2>1, <4>1
    <3>2. text[m] = odd(m)
      BY <2>1, <2>2
    <3> QED BY <3>1, <3>2, Zenon
  <2>3. CASE m % 2 # 1
    <3>1. /\ m - 1 \in 1 .. n /\ (m - 1) % 2 = 1 /\ m \div 2 = k /\ ((m - 1) + 1) \div 2 = k
          /\ m # 1 /\ (m - 1 = 1 <=> k = 1)
      BY <1>2, <2>3
    <3>2. text[m] = f[k]
      BY <2>1, <2>3, <3>1
    <3>3. text[m - 1] = odd(m - 1)
      BY <2>1, <3>1
    <3>4. Sep(m) = <<",">> /\ Sep(m - 1) = Sep(k)
      BY <3>1 DEF Sep
    <3>5. Part(cs, m - 1) = FirstPart(cs[k]) /\ Part(cs, m) = SecondPart(cs[k])
      BY <2>3, <3>1, Zenon DEF Part
    <3>6. odd(m - 1) = Joining(Joining(f[k - 1], Sep(k)), FirstPart(cs[k]))
      BY <3>1, <3>4, <3>5, Zenon
    <3>7. Joining(f[k - 1], Sep(k)) \in C
      <4>1. k - 1 \in 0 .. l
        BY <1>2, <2>0
      <4> QED BY <1>4, <4>1, SepIs, JoiningIs DEF C
    <3>8. f[k] = Joining(Joining(f[k - 1], Sep(k)), ChallengeOf(cs[k]))
      <4>1. f[k] = (f[k - 1] \o Sep(k)) \o ChallengeOf(cs[k])
        BY <1>1, <2>0 DEF l
      <4> QED BY <4>1, Zenon DEF Joining
    <3> HIDE DEF k
    <3>9. PICK u \in Seq(Character) : u = Joining(f[k - 1], Sep(k))
      BY <3>7 DEF C
    <3>10. Joining(u, ChallengeOf(cs[k]))
             = Joining(Joining(Joining(u, FirstPart(cs[k])), <<",">>), SecondPart(cs[k]))
      BY <2>0, <3>9, ChallengeAdded, Zenon DEF Joining
    <3> HIDE DEF odd, text
    <3> QED BY <3>2, <3>3, <3>4, <3>5, <3>6, <3>8, <3>9, <3>10, Zenon
  <2> QED BY <2>2, <2>3
<1>8. text[0] = <<>> /\ text[n] = f[l]
  <2>1. 0 \in 0 .. n /\ 0 % 2 # 1 /\ 0 \div 2 = 0 /\ n \in 0 .. n /\ n % 2 # 1 /\ n \div 2 = l
    BY <1>2
  <2> QED BY <1>1, <2>1
<1> HIDE DEF text
<1>9. Grown(n, Character, text, sep, part)
  <2>1. sep \in [1 .. n -> C] /\ part \in [1 .. n -> C]
    BY <1>3
  <2>2. \A m \in 1 .. n : sep[m] = Sep(m) /\ part[m] = Part(cs, m)
    OBVIOUS
  <2> HIDE DEF sep, part
  <2> QED BY <1>6, <1>7, <2>1, <2>2 DEF Grown, C
<1>10. Written(cs) = text[n]
  BY <1>1, <1>8 DEF l
<1> QED BY <1>8, <1>9, <1>10 DEF n, l

(* b[m] is the place of the comma before the part m, b[m + 1] of the next. *)
Bounds(cs, b) ==
  LET n == 2 * Len(cs) IN
  /\ b \in [1 .. n + 1 -> Nat]
  /\ b[1] = 0 /\ b[n + 1] = Len(Written(cs)) + 1
  /\ \A m \in 1 .. n :
       /\ b[m + 1] = b[m] + Len(Part(cs, m)) + 1 /\ b[m + 1] <= Len(Written(cs)) + 1
       /\ \A j \in 1 .. Len(Part(cs, m)) : Written(cs)[b[m] + j] = Part(cs, m)[j]
       /\ m # n => Written(cs)[b[m + 1]] = ","

(* A written header is its parts with commas between them. *)
LEMMA WrittenParts ==
  ASSUME NEW cs \in Seq(OneChallenge), cs # <<>>
  PROVE  Written(cs) \in Seq(Character) /\ \E b : Bounds(cs, b)
<1> DEFINE n == 2 * Len(cs)
           w == Written(cs)
           sep == [m \in 1 .. n |-> Sep(m)]
           part == [m \in 1 .. n |-> Part(cs, m)]
<1>1. PICK text : Grown(n, Character, text, sep, part) /\ text[0] = <<>> /\ w = text[n]
  BY WrittenGrows
<1> DEFINE b == [m \in 1 .. n + 1 |-> IF m = 1 THEN 0 ELSE Len(text[m - 1]) + 1]
<1>2. n \in Nat /\ n >= 2
  BY EmptySeq
<1> HIDE DEF n
<1>3. \A m \in 1 .. n : /\ sep[m] = Sep(m) /\ part[m] = Part(cs, m)
                        /\ Part(cs, m) \in Seq(Character) /\ Len(Part(cs, m)) \in Nat
  BY PartIs DEF n
<1> HIDE DEF sep, part, w
<1>4. \A m \in 0 .. n : text[m] \in Seq(Character) /\ Len(text[m]) \in Nat
  BY <1>1, <1>2, GrownKeeps
<1>5. b \in [1 .. n + 1 -> Nat] /\ b[1] = 0 /\ b[n + 1] = Len(w) + 1
  <2>1. \A m \in 1 .. n + 1 : m # 1 => m - 1 \in 0 .. n
    BY <1>2
  <2>2. 1 \in 1 .. n + 1 /\ n + 1 \in 1 .. n + 1 /\ n + 1 # 1 /\ (n + 1) - 1 = n
    BY <1>2
  <2> QED BY <1>1, <1>4, <2>1, <2>2
<1>8. w \in Seq(Character)
  <2>1. n \in 0 .. n
    BY <1>2
  <2> QED BY <1>1, <1>4, <2>1
<1>6. ASSUME NEW m \in 1 .. n
      PROVE  /\ b[m + 1] = b[m] + Len(Part(cs, m)) + 1
             /\ \A j \in 1 .. Len(Part(cs, m)) : w[b[m] + j] = Part(cs, m)[j]
  <2>1. PICK x \in Nat, y \in Nat, l \in Nat :
          /\ x = Len(text[m - 1]) /\ y = Len(Sep(m)) /\ l = Len(Part(cs, m))
          /\ y = IF m = 1 THEN 0 ELSE 1
    <3>1. m - 1 \in 0 .. n
      BY <1>2
    <3> QED BY <1>3, <1>4, <3>1, SepIs
  <2>2. Len(text[m]) = x + y + l /\ \A j \in 1 .. l : w[x + y + j] = Part(cs, m)[j]
    <3>1. PICK u, s, p, t :
            /\ u = text[m - 1] /\ s = sep[m] /\ p = part[m] /\ t = text[m]
            /\ s = Sep(m) /\ p = Part(cs, m)
      BY <1>3
    <3>2. Adds(u, s, p, t, w)
      BY <1>1, <1>2, <3>1, Grows
    <3>3. x = Len(u) /\ y = Len(s) /\ l = Len(p)
      BY <2>1, <3>1
    <3>4. Len(t) = x + y + l /\ \A j \in 1 .. l : w[x + y + j] = p[j]
      BY <3>2, <3>3 DEF Adds
    <3> QED BY <3>1, <3>4
  <2>3. b[m] = x + y
    <3>1. CASE m = 1
      <4>1. b[1] = 0 /\ x = 0 /\ y = 0
        BY <1>1, <1>5, <2>1, <3>1
      <4> QED BY <3>1, <4>1
    <3>2. CASE m # 1
      <4>1. b[m] = Len(text[m - 1]) + 1
        <5>1. m \in 1 .. n + 1
          BY <1>2
        <5> QED BY <3>2, <5>1
      <4> QED BY <2>1, <3>2, <4>1
    <3> QED BY <3>1, <3>2
  <2>4. b[m + 1] = Len(text[m]) + 1
    <3>1. m + 1 \in 1 .. n + 1 /\ m + 1 # 1 /\ (m + 1) - 1 = m
      BY <1>2
    <3> QED BY <3>1
  <2> QED BY <2>1, <2>2, <2>3, <2>4
<1>7. ASSUME NEW m \in 1 .. n, m # n PROVE w[b[m + 1]] = ","
  <2>1. m + 1 \in 1 .. n /\ m + 1 # 1 /\ (m + 1) - 1 = m /\ m + 1 \in 1 .. n + 1
    BY <1>2, <1>7
  <2>2. PICK k \in 1 .. n, x \in Nat : k = m + 1 /\ x = Len(text[m]) /\ k - 1 = m
    <3>1. m \in 0 .. n
      BY <1>2
    <3> QED BY <1>4, <2>1, <3>1
  <2>3. sep[k] = Sep(k) /\ Len(Sep(k)) = 1 /\ Sep(k)[1] = ","
    BY <1>3, <2>1, <2>2, SepIs
  <2>4. w[Len(text[m]) + 1] = ","
    <3>1. PICK u, q : u = text[m] /\ q = Sep(k)
      OBVIOUS
    <3>2. Adds(u, q, part[k], text[k], w)
      BY <1>1, <1>2, <2>2, <2>3, <3>1, Grows
    <3>3. x = Len(u) /\ Len(q) = 1 /\ q[1] = ","
      BY <2>2, <2>3, <3>1
    <3>4. \A j \in 1 .. 1 : w[x + j] = q[j]
      BY <3>2, <3>3 DEF Adds
    <3>5. w[x + 1] = q[1]
      BY <3>4
    <3> QED BY <2>2, <3>3, <3>5
  <2>5. b[m + 1] = Len(text[m]) + 1
    BY <2>1
  <2> QED BY <2>4, <2>5
<1>a. ASSUME NEW m \in 1 .. n PROVE b[m + 1] <= Len(w) + 1
  <2>1. m \in 0 .. n /\ n \in 0 .. n /\ m + 1 \in 1 .. n + 1 /\ m + 1 # 1 /\ (m + 1) - 1 = m
    BY <1>2
  <2>2. Len(text[m]) <= Len(text[n])
    BY <1>1, <1>2, <2>1, GrownKeeps
  <2>3. b[m + 1] = Len(text[m]) + 1
    BY <2>1
  <2>4. PICK x \in Nat, y \in Nat : x = Len(text[m]) /\ y = Len(text[n])
    BY <1>4, <2>1
  <2> QED BY <1>1, <2>2, <2>3, <2>4
<1> HIDE DEF b
<1>9. Bounds(cs, b)
  BY <1>5, <1>6, <1>7, <1>a DEF Bounds, n, w
<1> QED BY <1>8, <1>9 DEF w

(* Characters that neither quote nor cut. *)
Plain(x) == x \notin {Quote, ","}

LEMMA PlainOnes ==
  /\ \A x : Plain(x) => \A c, i : After(Outside(c), x, i) = Outside(c)
  /\ \A x \in Word : Plain(x)
  /\ Plain("=") /\ Plain(" ")
<1>1. \A x : Plain(x) => \A c, i : After(Outside(c), x, i) = Outside(c)
  BY AfterOutside DEF Plain
<1>2. \A x \in Word : Plain(x)
  BY DEF Word, Special, Plain
<1>3. Plain("=") /\ Plain(" ")
  BY DEF Plain, Quote
<1> QED BY <1>1, <1>2, <1>3

(* The k characters after p are plain: there the scan does nothing. *)
AllPlain(h, p, k) == p + k <= Len(h) /\ \A j \in 1 .. k : Plain(h[p + j])

LEMMA PlainScanned ==
  ASSUME NEW h \in Seq(Character), NEW scan, Scans(scan, h), NEW p \in Nat, NEW k \in Nat, NEW c,
         AllPlain(h, p, k), scan[p] = Outside(c)
  PROVE  scan[p + k] = Outside(c)
<1>0. p + k <= Len(h) /\ \A j \in 1 .. k : Plain(h[p + j])
  BY DEF AllPlain
<1> DEFINE P == {j \in 0 .. k : scan[p + j] = Outside(c)}
<1>1. 0 \in P
  <2>1. p + 0 = p /\ 0 \in 0 .. k
    OBVIOUS
  <2> QED BY <2>1
<1>2. ASSUME NEW j \in 1 .. k, j - 1 \in P PROVE j \in P
  <2>1. PICK l \in Nat : l = Len(h)
    OBVIOUS
  <2>2. j \in 0 .. k /\ p + j \in 1 .. l /\ (p + j) - 1 = p + (j - 1)
    BY <1>0, <2>1
  <2>3. scan[p + j] = After(scan[(p + j) - 1], h[p + j], p + j)
    BY <2>1, <2>2 DEF Scans
  <2>4. scan[p + j] = After(Outside(c), h[p + j], p + j)
    BY <1>2, <2>2, <2>3
  <2>5. scan[p + j] = Outside(c)
    BY <1>0, <1>2, <2>4, PlainOnes
  <2> QED BY <2>2, <2>5
<1> HIDE DEF P
<1>3. \A j \in 0 .. k : j \in P
  BY <1>1, <1>2, UpTo
<1> QED BY <1>3 DEF P

(* q is in h after the place p. *)
Bears(h, p, q) == p + Len(q) <= Len(h) /\ \A j \in 1 .. Len(q) : h[p + j] = q[j]
PlainLead(lead) == \A i \in 1 .. Len(lead) : Plain(lead[i])

(* A part as a whole. *)
LEMMA PartScanned ==
  ASSUME NEW h \in Seq(Character), NEW scan, Scans(scan, h),
         NEW lead \in Seq(Character), NEW q \in ChallengeParameter, NEW p \in Nat, NEW c,
         PlainLead(lead), Bears(h, p, Led(lead, q)), scan[p] = Outside(c)
  PROVE  scan[p + Len(Led(lead, q))] = Outside(c)
<1> DEFINE r == Led(lead, q)
           e == Escaped(q.value)
<1>0. q.value \in Seq(Character) /\ q.key \in Word
  BY DEF ChallengeParameter
<1>1. PICK l \in Nat, n \in Nat, z \in Nat : l = Len(lead) /\ n = Len(e) /\ z = Len(h)
  BY <1>0, EscapedIs
<1>2. /\ Len(r) = l + 2 + n
      /\ \A i \in 1 .. l : r[i] = lead[i]
      /\ r[l + 1] = q.key /\ r[l + 2] = "="
      /\ \A j \in 1 .. n : r[l + 2 + j] = e[j]
  BY <1>1, LedIs
<1> HIDE DEF r, e
<1>3. \A j \in 1 .. l + 2 + n : h[p + j] = r[j]
  BY <1>2 DEF r, Bears
<1>4. p + (l + 2 + n) <= z
  BY <1>1, <1>2 DEF r, Bears
<1>5. ASSUME NEW j \in 1 .. l + 2 PROVE Plain(h[p + j])
  <2>1. h[p + j] = r[j]
    BY <1>1, <1>3
  <2>2. CASE j \in 1 .. l
    BY <1>1, <1>2, <2>1, <2>2 DEF PlainLead
  <2>3. CASE j = l + 1
    BY <1>0, <1>2, <2>1, <2>3, PlainOnes
  <2>4. CASE j = l + 2
    BY <1>2, <2>1, <2>4, PlainOnes
  <2> QED BY <1>1, <2>2, <2>3, <2>4
<1>6. scan[p + (l + 2)] = Outside(c)
  <2>1. p + (l + 2) <= z /\ l + 2 \in Nat
    BY <1>1, <1>4
  <2>2. PICK k \in Nat : k = l + 2
    BY <2>1
  <2>3. AllPlain(h, p, k)
    BY <1>1, <1>5, <2>1, <2>2 DEF AllPlain
  <2>4. scan[p + k] = Outside(c)
    BY <2>3, PlainScanned
  <2> QED BY <2>2, <2>4
<1>7. PICK o \in Nat : o = p + (l + 2)
  BY <1>1
<1>8. ASSUME NEW j \in 1 .. n PROVE h[o + j] = e[j]
  <2>1. l + 2 + j \in 1 .. l + 2 + n /\ p + (l + 2 + j) = o + j
    BY <1>1, <1>7
  <2> QED BY <1>2, <1>3, <2>1
<1>9. scan[o + Len(Escaped(q.value))] = Outside(c)
  <2>1. o + n <= z
    BY <1>1, <1>4, <1>7
  <2>2. PICK v \in Seq(Character) : v = q.value
    BY <1>0
  <2>3. /\ o + Len(Escaped(v)) <= Len(h)
        /\ \A j \in 1 .. Len(Escaped(v)) : h[o + j] = Escaped(v)[j]
    BY <1>1, <1>8, <2>1, <2>2 DEF e
  <2>4. scan[o] = Outside(c)
    BY <1>6, <1>7
  <2>5. scan[o + Len(Escaped(v))] = Outside(c)
    BY <2>3, <2>4, ValueScanned
  <2> QED BY <2>2, <2>5
<1>10. o + n = p + (l + 2 + n)
  BY <1>1, <1>7
<1> QED BY <1>1, <1>2, <1>9, <1>10 DEF e, r

(* What is before a parameter is plain. *)
LEMMA LeadingPlain ==
  ASSUME NEW cs \in Seq(OneChallenge), NEW m \in 1 .. 2 * Len(cs)
  PROVE  PlainLead(Leading(cs, m))
<1>1. PICK c \in OneChallenge : c = cs[(m + 1) \div 2]
  BY PartIs
<1>2. c.scheme \in Word
  BY LeadsAre
<1>3. CASE m % 2 = 1
  <2>1. Leading(cs, m) = <<c.scheme, " ">>
    BY <1>1, <1>3 DEF Leading
  <2>2. \A x, y : Len(<<x, y>>) = 2 /\ <<x, y>>[1] = x /\ <<x, y>>[2] = y
    OBVIOUS
  <2>3. PICK l : l = Leading(cs, m)
    OBVIOUS
  <2>4. Len(l) = 2 /\ Plain(l[1]) /\ Plain(l[2])
    <3>1. Len(l) = 2 /\ l[1] = c.scheme /\ l[2] = " "
      <4>1. PICK y : y = " "
        OBVIOUS
      <4>2. l = <<c.scheme, y>>
        BY <2>1, <2>3, <4>1, Zenon
      <4> QED BY <2>2, <4>1, <4>2
    <3>2. Plain(c.scheme) /\ Plain(" ")
      BY <1>2, PlainOnes
    <3> QED BY <3>1, <3>2
  <2>5. \A i \in 1 .. 2 : i = 1 \/ i = 2
    OBVIOUS
  <2> QED BY <2>3, <2>4, <2>5 DEF PlainLead
<1>4. CASE m % 2 # 1
  <2>1. Leading(cs, m) = <<" ">>
    BY <1>4 DEF Leading
  <2>2. \A x : Len(<<x>>) = 1 /\ <<x>>[1] = x
    OBVIOUS
  <2>3. PICK l : l = Leading(cs, m)
    OBVIOUS
  <2>4. Len(l) = 1 /\ Plain(l[1])
    BY <2>1, <2>2, <2>3, PlainOnes
  <2>5. \A i \in 1 .. 1 : i = 1
    OBVIOUS
  <2> QED BY <2>3, <2>4, <2>5 DEF PlainLead
<1> QED BY <1>3, <1>4

(* The cuts before part m, when the bounds are b. *)
CutsUpTo(b, m) == [i \in 1 .. m - 1 |-> b[i + 1]]

LEMMA CutsAppended ==
  ASSUME NEW n \in Nat, NEW b \in [1 .. n -> Nat], NEW m \in 1 .. n - 1
  PROVE  /\ CutsUpTo(b, 1) = <<>>
         /\ Append(CutsUpTo(b, m), b[m + 1]) = CutsUpTo(b, m + 1)
         /\ CutsUpTo(b, m) \in Seq(Nat)
<1> DEFINE c == CutsUpTo(b, m)
           d == CutsUpTo(b, m + 1)
           a == Append(c, b[m + 1])
<1>1. /\ c \in Seq(Nat) /\ Len(c) = m - 1 /\ \A i \in 1 .. m - 1 : c[i] = b[i + 1]
      /\ d \in Seq(Nat) /\ Len(d) = m /\ \A i \in 1 .. m : d[i] = b[i + 1]
  BY DEF CutsUpTo
<1>2. CutsUpTo(b, 1) = <<>>
  BY DEF CutsUpTo
<1>3. b[m + 1] \in Nat
  OBVIOUS
<1> HIDE DEF c, d
<1>4. /\ a \in Seq(Nat) /\ Len(a) = m /\ a[m] = b[m + 1]
      /\ \A i \in 1 .. m - 1 : a[i] = c[i]
  <2>1. Len(c) + 1 = m
    BY <1>1
  <2>2. /\ a \in Seq(Nat) /\ Len(a) = Len(c) + 1 /\ a[Len(c) + 1] = b[m + 1]
        /\ \A i \in 1 .. Len(c) : a[i] = c[i]
    BY <1>1, <1>3, AppendProperties
  <2> HIDE DEF a
  <2> QED BY <1>1, <2>1, <2>2
<1> HIDE DEF a
<1>5. \A i \in 1 .. m : a[i] = d[i]
  <2> SUFFICES ASSUME NEW i \in 1 .. m PROVE a[i] = d[i]
    OBVIOUS
  <2>1. CASE i = m
    BY <1>1, <1>4, <2>1
  <2>2. CASE i # m
    <3>1. i \in 1 .. m - 1
      BY <2>2
    <3> QED BY <1>1, <1>4, <3>1
  <2> QED BY <2>1, <2>2
<1>6. a = d
  BY <1>1, <1>4, <1>5, SeqEqual
<1> QED BY <1>1, <1>2, <1>6 DEF a, c, d

(* The scan of a written header is outside quotes at the end of each part. *)
LEMMA WrittenScanned ==
  ASSUME NEW cs \in Seq(OneChallenge), cs # <<>>, NEW b, Bounds(cs, b),
         NEW scan, Scans(scan, Written(cs))
  PROVE  scan[Len(Written(cs))] = Outside(CutsUpTo(b, 2 * Len(cs)))
<1> DEFINE n == 2 * Len(cs)
           w == Written(cs)
           c(m) == CutsUpTo(b, m)
<1>1. w \in Seq(Character) /\ Len(w) \in Nat
  BY WrittenParts
<1>2. n \in Nat /\ n >= 2
  BY EmptySeq
<1>3. /\ b \in [1 .. n + 1 -> Nat]
      /\ b[1] = 0 /\ b[n + 1] = Len(w) + 1
      /\ \A m \in 1 .. n :
           /\ b[m + 1] = b[m] + Len(Part(cs, m)) + 1 /\ b[m + 1] <= Len(w) + 1
           /\ \A j \in 1 .. Len(Part(cs, m)) : w[b[m] + j] = Part(cs, m)[j]
           /\ m # n => w[b[m + 1]] = ","
  BY DEF Bounds
<1>4. Scans(scan, w)
  OBVIOUS
<1> HIDE DEF n, w
<1>5. ASSUME NEW m \in 1 .. n, scan[b[m]] = Outside(c(m))
      PROVE  scan[b[m] + Len(Part(cs, m))] = Outside(c(m))
  <2>1. PICK lead \in Seq(Character), q \in ChallengeParameter :
          Part(cs, m) = Led(lead, q) /\ PlainLead(lead)
    BY PartIs, LeadingPlain DEF n
  <2>2. PICK p \in Nat, l \in Nat, z \in Nat :
          p = b[m] /\ l = Len(Part(cs, m)) /\ z = Len(w)
    <3>1. m \in 1 .. n + 1 /\ Part(cs, m) \in Seq(Character)
      BY <1>2, PartIs DEF n
    <3>2. b[m] \in Nat
      BY <1>3, <3>1
    <3>3. Len(Part(cs, m)) \in Nat
      BY <3>1, LenProperties
    <3> QED BY <1>1, <3>2, <3>3
  <2>3. p + l + 1 <= z + 1 /\ \A j \in 1 .. l : w[p + j] = Part(cs, m)[j]
    BY <1>3, <2>2
  <2>4. p + l <= z
    BY <2>2, <2>3
  <2>5. Bears(w, p, Led(lead, q))
    BY <2>1, <2>2, <2>3, <2>4 DEF Bears
  <2>6. scan[p + Len(Led(lead, q))] = Outside(c(m))
    <3>1. PICK d : d = c(m)
      OBVIOUS
    <3>2. scan[p] = Outside(d)
      BY <1>5, <2>2, <3>1
    <3> HIDE DEF c
    <3>3. scan[p + Len(Led(lead, q))] = Outside(d)
      BY <1>1, <1>4, <2>1, <2>5, <3>2, PartScanned
    <3> QED BY <3>1, <3>3
  <2> HIDE DEF c
  <2> QED BY <2>1, <2>2, <2>6
<1> DEFINE P == {m \in 0 .. n - 1 : scan[b[m + 1]] = Outside(c(m + 1))}
<1>6. 0 \in P
  <2>1. scan[0] = Outside(<<>>)
    BY <1>4 DEF Scans
  <2>2. c(1) = <<>>
    <3>1. n + 1 \in Nat /\ 1 \in 1 .. (n + 1) - 1
      BY <1>2
    <3> QED BY <1>3, <3>1, CutsAppended
  <2>3. 0 \in 0 .. n - 1 /\ 0 + 1 = 1
    BY <1>2
  <2> HIDE DEF c
  <2> QED BY <1>3, <2>1, <2>2, <2>3
<1>7. ASSUME NEW m \in 1 .. n - 1, m - 1 \in P PROVE m \in P
  <2>1. m \in 1 .. n /\ m # n /\ m + 1 \in 1 .. n /\ (m - 1) + 1 = m
    BY <1>2
  <2>2. scan[b[m] + Len(Part(cs, m))] = Outside(c(m))
    BY <1>5, <1>7, <2>1
  <2>3. PICK x \in Nat, y \in Nat, z \in Nat :
          x = b[m + 1] /\ y = b[m] + Len(Part(cs, m)) /\ z = Len(w) /\ x = y + 1
    <3>1. m \in 1 .. n + 1 /\ m + 1 \in 1 .. n + 1 /\ Part(cs, m) \in Seq(Character)
      BY <1>2, <2>1, PartIs DEF n
    <3>2. PICK p \in Nat, q \in Nat : p = b[m] /\ q = b[m + 1]
      BY <1>3, <3>1
    <3>3. PICK l \in Nat : l = Len(Part(cs, m))
      BY <3>1, LenProperties
    <3>4. q = p + l + 1
      BY <1>3, <2>1, <3>2, <3>3
    <3>5. q = (p + l) + 1 /\ p + l \in Nat
      BY <3>4
    <3> QED BY <1>1, <3>2, <3>3, <3>5
  <2>a. x = y + 1
    BY <2>3
  <2>4. x \in 1 .. z
    <3>1. b[m + 1] = x /\ w[x] = "," /\ x <= z + 1
      BY <1>3, <2>1, <2>3
    <3>2. PICK k \in 1 .. n : k = m + 1
      BY <2>1
    <3>3. b[k + 1] = b[k] + Len(Part(cs, k)) + 1 /\ b[k + 1] <= z + 1
      BY <1>3, <2>3
    <3>a. Part(cs, k) \in Seq(Character)
      BY PartIs DEF n
    <3>4. b[k] = x /\ Len(Part(cs, k)) \in Nat
      BY <2>3, <3>2, <3>a, LenProperties
    <3>5. PICK l \in Nat : l = Len(Part(cs, k))
      BY <3>4
    <3>6. x + l + 1 <= z + 1
      BY <3>3, <3>4, <3>5
    <3> QED BY <2>a, <3>5, <3>6
  <2>5. w[x] = ","
    BY <1>3, <2>1, <2>3
  <2>6. scan[x] = After(scan[x - 1], w[x], x)
    BY <1>4, <2>3, <2>4 DEF Scans
  <2>7. x - 1 = y
    BY <2>3
  <2> HIDE DEF c
  <2>8. scan[x] = After(Outside(c(m)), ",", x)
    BY <2>2, <2>3, <2>5, <2>6, <2>7
  <2>9. scan[x] = Outside(Append(c(m), x))
    BY <2>8, AfterOutside
  <2>10. Append(c(m), b[m + 1]) = c(m + 1)
    <3>1. n + 1 \in Nat /\ m \in 1 .. (n + 1) - 1
      BY <1>2
    <3> QED BY <1>3, <3>1, CutsAppended DEF c
  <2>11. m \in 0 .. n - 1
    OBVIOUS
  <2> QED BY <2>3, <2>9, <2>10, <2>11
<1>8. scan[b[n]] = Outside(c(n))
  <2>1. n - 1 \in Nat /\ n - 1 \in 0 .. n - 1 /\ (n - 1) + 1 = n
    BY <1>2
  <2>2. n - 1 \in P
    <3> HIDE DEF P
    <3>1. \A m \in 0 .. n - 1 : m \in P
      BY <1>6, <1>7, <2>1, UpTo
    <3> QED BY <2>1, <3>1
  <2> HIDE DEF c
  <2> QED BY <2>1, <2>2
<1>9. scan[b[n] + Len(Part(cs, n))] = Outside(c(n))
  <2>1. n \in 1 .. n
    BY <1>2
  <2> QED BY <1>5, <1>8, <2>1
<1>10. b[n] + Len(Part(cs, n)) = Len(w)
  <2>1. n \in 1 .. n /\ n \in 1 .. n + 1
    BY <1>2
  <2>2. PICK p \in Nat, l \in Nat, z \in Nat :
          p = b[n] /\ l = Len(Part(cs, n)) /\ z = Len(w)
    <3>1. b[n] \in Nat
      BY <1>3, <2>1
    <3>2. Part(cs, n) \in Seq(Character)
      BY <2>1, PartIs DEF n
    <3> QED BY <1>1, <3>1, <3>2, LenProperties
  <2>3. z + 1 = p + l + 1
    BY <1>3, <2>1, <2>2
  <2> QED BY <2>2, <2>3
<1> QED BY <1>9, <1>10 DEF n, w

(* The segments of a written header are its parts. *)
LEMMA WrittenSegments ==
  ASSUME NEW cs \in Seq(OneChallenge), cs # <<>>
  PROVE  Segments(Written(cs)) = [m \in 1 .. 2 * Len(cs) |-> Part(cs, m)]
<1> DEFINE n == 2 * Len(cs)
           w == Written(cs)
<1>1. w \in Seq(Character) /\ Len(w) \in Nat
  BY WrittenParts
<1>2. n \in Nat /\ n >= 2
  BY EmptySeq
<1>3. PICK b : Bounds(cs, b)
  BY WrittenParts
<1>4. PICK scan : Scans(scan, w) /\ Cuts(w) = scan[Len(w)].cuts
  BY <1>1, CutsScan
<1>5. Cuts(w) = CutsUpTo(b, n)
  <2>1. scan[Len(w)] = Outside(CutsUpTo(b, n))
    BY <1>3, <1>4, WrittenScanned
  <2> HIDE DEF w, n
  <2>2. PICK at : at = scan[Len(w)]
    OBVIOUS
  <2>3. at = Outside(CutsUpTo(b, n))
    BY <2>1, <2>2
  <2>4. at.cuts = CutsUpTo(b, n)
    BY <2>3 DEF Outside
  <2> QED BY <1>4, <2>2, <2>4
<1>6. /\ b \in [1 .. n + 1 -> Nat]
      /\ b[1] = 0 /\ b[n + 1] = Len(w) + 1
      /\ \A m \in 1 .. n :
           /\ b[m + 1] = b[m] + Len(Part(cs, m)) + 1 /\ b[m + 1] <= Len(w) + 1
           /\ \A j \in 1 .. Len(Part(cs, m)) : w[b[m] + j] = Part(cs, m)[j]
  BY <1>3 DEF Bounds
<1>7. \A m \in 1 .. n : Part(cs, m) \in Seq(Character)
  BY PartIs DEF n
<1> DEFINE c == CutsUpTo(b, n)
           first == <<0>>
           last == <<Len(w) + 1>>
           all == first \o c \o last
<1> HIDE DEF n, w
<1>8. /\ c \in Seq(Nat) /\ Len(c) = n - 1 /\ \A i \in 1 .. n - 1 : c[i] = b[i + 1]
  <2>1. b \in [1 .. n + 1 -> Nat]
    BY <1>6
  <2>2. \A i \in 1 .. n - 1 : i + 1 \in 1 .. n + 1
    BY <1>2
  <2>3. \A i \in 1 .. n - 1 : b[i + 1] \in Nat
    BY <2>1, <2>2
  <2> QED BY <1>2, <2>3 DEF CutsUpTo
<1>9. /\ first \in Seq(Nat) /\ Len(first) = 1 /\ first[1] = 0
      /\ last \in Seq(Nat) /\ Len(last) = 1 /\ last[1] = Len(w) + 1
  <2>1. \A x \in Nat : <<x>> \in Seq(Nat) /\ Len(<<x>>) = 1 /\ <<x>>[1] = x
    OBVIOUS
  <2>2. 0 \in Nat /\ Len(w) + 1 \in Nat
    BY <1>1
  <2> QED BY <2>1, <2>2
<1> HIDE DEF c, first, last
<1>10. /\ Len(all) = n + 1
       /\ \A k \in 1 .. n + 1 : all[k] = b[k]
  <2> DEFINE most == first \o c
  <2>1. /\ most \in Seq(Nat) /\ Len(most) = Len(first) + Len(c)
        /\ \A i \in 1 .. Len(first) + Len(c) :
             most[i] = IF i <= Len(first) THEN first[i] ELSE c[i - Len(first)]
    <3>1. first \in Seq(Nat) /\ c \in Seq(Nat)
      BY <1>8, <1>9
    <3> QED BY <3>1, ConcatProperties
  <2> HIDE DEF most
  <2>2. /\ Len(most) = n
        /\ \A i \in 1 .. n : most[i] = IF i <= 1 THEN first[i] ELSE c[i - 1]
    BY <1>2, <1>8, <1>9, <2>1
  <2>3. \A i \in 1 .. n : most[i] = b[i]
    <3> SUFFICES ASSUME NEW i \in 1 .. n PROVE most[i] = b[i]
      OBVIOUS
    <3>1. CASE i = 1
      <4>1. most[1] = first[1]
        BY <2>2, <3>1
      <4> QED BY <1>6, <1>9, <3>1, <4>1
    <3>2. CASE i # 1
      <4>1. i - 1 \in 1 .. n - 1 /\ ~(i <= 1) /\ (i - 1) + 1 = i
        BY <1>2, <3>2
      <4> QED BY <1>8, <2>2, <4>1
    <3> QED BY <3>1, <3>2
  <2> DEFINE whole == most \o last
  <2>4. /\ Len(whole) = Len(most) + Len(last)
        /\ \A i \in 1 .. Len(most) + Len(last) :
             whole[i] = IF i <= Len(most) THEN most[i] ELSE last[i - Len(most)]
    <3>1. most \in Seq(Nat) /\ last \in Seq(Nat)
      BY <1>9, <2>1
    <3> QED BY <3>1, ConcatProperties
  <2> HIDE DEF whole
  <2>5. /\ Len(whole) = n + 1
        /\ \A i \in 1 .. n + 1 : whole[i] = IF i <= n THEN most[i] ELSE last[i - n]
    BY <1>2, <1>9, <2>2, <2>4
  <2>6. \A i \in 1 .. n + 1 : whole[i] = b[i]
    <3> SUFFICES ASSUME NEW i \in 1 .. n + 1 PROVE whole[i] = b[i]
      OBVIOUS
    <3>1. CASE i = n + 1
      <4>1. ~(i <= n) /\ i - n = 1
        BY <1>2, <3>1
      <4> QED BY <1>6, <1>9, <2>5, <3>1, <4>1
    <3>2. CASE i # n + 1
      <4>1. i \in 1 .. n /\ i <= n
        BY <1>2, <3>2
      <4> QED BY <2>3, <2>5, <4>1
    <3> QED BY <3>1, <3>2
  <2>7. all = whole
    BY DEF all, whole, most
  <2> HIDE DEF all
  <2> QED BY <2>5, <2>6, <2>7
<1>11. Segments(w) = [k \in 1 .. Len(all) - 1 |-> SubSeq(w, all[k] + 1, all[k + 1] - 1)]
  BY <1>5 DEF Segments, all, first, last, c
<1> HIDE DEF all
<1>12. ASSUME NEW m \in 1 .. n PROVE SubSeq(w, all[m] + 1, all[m + 1] - 1) = Part(cs, m)
  <2>1. m \in 1 .. n + 1 /\ m + 1 \in 1 .. n + 1
    BY <1>2
  <2>2. PICK p \in Nat, q \in Nat : p = b[m] /\ q = b[m + 1]
    BY <1>6, <2>1
  <2>3. PICK t \in Seq(Character) : t = Part(cs, m)
    BY <1>7
  <2>4. PICK l \in Nat, z \in Nat : l = Len(t) /\ z = Len(w)
    BY <1>1, LenProperties
  <2>5. q = p + l + 1 /\ q <= z + 1 /\ \A j \in 1 .. l : w[p + j] = t[j]
    BY <1>6, <2>2, <2>3, <2>4
  <2>6. all[m] = p /\ all[m + 1] = q
    BY <1>10, <2>1, <2>2
  <2>7. PICK x \in Int, y \in Int : x = p + 1 /\ y = q - 1
    OBVIOUS
  <2>8. /\ y = p + l /\ y <= z /\ y - x + 1 = l
        /\ (x <= y => y - x + 1 = l) /\ (~(x <= y) => l = 0)
    <3>1. q = p + l + 1 /\ q <= z + 1
      BY <2>5
    <3>2. y = p + l /\ y <= z
      BY <2>7, <3>1
    <3> QED BY <2>7, <3>2
  <2>9. \A i \in x .. y : w[i] \in Character
    <3>1. \A i \in x .. y : i \in 1 .. z
      BY <2>7, <2>8
    <3>2. \A i \in 1 .. z : w[i] \in Character
      BY <1>1, <2>4, ElementOfSeq
    <3> QED BY <3>1, <3>2
  <2> DEFINE s == SubSeq(w, x, y)
  <2>10. /\ s \in Seq(Character) /\ Len(s) = IF x <= y THEN y - x + 1 ELSE 0
         /\ \A i \in 1 .. y - x + 1 : s[i] = w[x + i - 1]
    BY <2>9, SubSeqProperties
  <2> HIDE DEF s
  <2>11. Len(s) = l
    BY <2>8, <2>10
  <2>12. ASSUME NEW i \in 1 .. l PROVE s[i] = t[i]
    <3>1. x + i - 1 = p + i
      BY <2>7
    <3> QED BY <2>5, <2>8, <2>10, <3>1
  <2>13. s = t
    BY <2>4, <2>10, <2>11, <2>12, SeqEqual
  <2> QED BY <2>3, <2>6, <2>7, <2>13 DEF s
<1>13. Len(all) - 1 = n
  BY <1>2, <1>10
<1>14. Segments(w) = [m \in 1 .. n |-> Part(cs, m)]
  BY <1>11, <1>12, <1>13
<1> QED BY <1>14 DEF n, w

(* t is what s has from p to q. *)
Cut(s, p, q, t) == Len(t) = q - p + 1 /\ \A j \in 1 .. Len(t) : s[p - 1 + j] = t[j]

LEMMA CutIs ==
  ASSUME NEW S, NEW s \in Seq(S), NEW t \in Seq(S), NEW p \in Nat, NEW q \in Nat, Cut(s, p, q, t)
  PROVE  SubSeq(s, p, q) = t
<1>1. PICK l \in Nat : l = Len(t)
  OBVIOUS
<1>2. l = q - p + 1 /\ \A j \in 1 .. l : s[p - 1 + j] = t[j]
  BY <1>1 DEF Cut
<1>3. \A i \in p .. q : s[i] \in S
  <2> SUFFICES ASSUME NEW i \in p .. q PROVE s[i] \in S
    OBVIOUS
  <2>1. PICK j \in 1 .. l : j = i - p + 1 /\ p - 1 + j = i
    BY <1>2
  <2>2. s[i] = t[j]
    BY <1>2, <2>1
  <2>3. t[j] \in S
    BY <1>1
  <2> QED BY <2>2, <2>3
<1> DEFINE u == SubSeq(s, p, q)
<1>4. /\ u \in Seq(S) /\ Len(u) = IF p <= q THEN q - p + 1 ELSE 0
      /\ \A i \in 1 .. q - p + 1 : u[i] = s[p + i - 1]
  BY <1>3, SubSeqProperties
<1> HIDE DEF u
<1>5. Len(u) = l
  BY <1>2, <1>4
<1>6. ASSUME NEW i \in 1 .. l PROVE u[i] = t[i]
  <2>1. p + i - 1 = p - 1 + i
    OBVIOUS
  <2> QED BY <1>2, <1>4, <2>1
<1>7. u = t
  BY <1>1, <1>4, <1>5, <1>6, SeqEqual
<1> QED BY <1>7 DEF u

(* What is not trimmed away. *)
Solid(x) == x # " "

LEMMA TrimmedIs ==
  ASSUME NEW s \in Seq(Character), NEW p \in 1 .. Len(s), NEW q \in 1 .. Len(s),
         Solid(s[p]), Solid(s[q]),
         \A i \in 1 .. Len(s) : Solid(s[i]) => p <= i /\ i <= q
  PROVE  Trimmed(s) = SubSeq(s, p, q)
<1> DEFINE solid == {i \in DOMAIN s : Solid(s[i])}
<1>1. solid \in SUBSET Int /\ p \in solid /\ q \in solid
  OBVIOUS
<1>2. \A i \in solid : p <= i /\ i <= q
  OBVIOUS
<1> HIDE DEF solid
<1>3. Least(solid) = p /\ Greatest(solid) = q
  BY <1>1, <1>2, LeastAt, GreatestAt
<1>4. Trimmed(s) = IF solid = {} THEN <<>> ELSE SubSeq(s, Least(solid), Greatest(solid))
  BY DEF Trimmed, solid, Solid
<1> QED BY <1>1, <1>3, <1>4

LEMMA TrimmedSame ==
  ASSUME NEW s \in Seq(Character), Len(s) >= 1, Solid(s[1]), Solid(s[Len(s)])
  PROVE  Trimmed(s) = s
<1>1. PICK n \in Nat : n = Len(s)
  OBVIOUS
<1>2. 1 \in 1 .. Len(s) /\ n \in 1 .. Len(s) /\ \A i \in 1 .. Len(s) : 1 <= i /\ i <= n
  BY <1>1
<1>3. Trimmed(s) = SubSeq(s, 1, n)
  <2>1. Solid(s[1]) /\ Solid(s[n])
    BY <1>1
  <2> QED BY <1>2, <2>1, TrimmedIs
<1> QED BY <1>1, <1>3, SubSeqFull

(* The first place of a character, where it is known. *)
LEMMA FirstAt ==
  ASSUME NEW s \in Seq(Character), NEW x, NEW k \in 1 .. Len(s), s[k] = x,
         \A i \in 1 .. Len(s) : i < k => s[i] # x
  PROVE  Has(s, x) /\ First(s, x) = k
<1> DEFINE those == {i \in DOMAIN s : s[i] = x}
<1>1. those \in SUBSET Int /\ k \in those /\ \A i \in those : k <= i
  OBVIOUS
<1> HIDE DEF those
<1>2. Least(those) = k
  BY <1>1, LeastAt
<1>3. First(s, x) = k
  BY <1>2 DEF First, those
<1>4. Has(s, x)
  BY DEF Has
<1> QED BY <1>3, <1>4

LEMMA SolidOnes ==
  Solid(Quote) /\ Solid("=") /\ ~Solid(" ") /\ \A x \in Word : Solid(x) /\ x # "="
BY DEF Solid, Quote, Word, Special

(* A quoted value is read as it was. *)
LEMMA ValueBack ==
  ASSUME NEW v \in Seq(Character)
  PROVE  ParameterValue(Escaped(v)) = v
<1> DEFINE e == Escaped(v)
<1>1. PICK t, a :
        t \in Seq(Character) /\ e = <<Quote>> \o t \o <<Quote>> /\ Marks(v, t, a)
  BY EscapedMarks
<1>2. /\ e \in Seq(Character) /\ Len(e) = Len(t) + 2 /\ e[1] = Quote /\ e[Len(e)] = Quote
      /\ \A j \in 1 .. Len(t) : e[j + 1] = t[j]
  BY <1>1, QuotedText
<1>1a. t \in Seq(Character)
  BY <1>1
<1> HIDE DEF e
<1>3. PICK l \in Nat, n \in Nat : l = Len(t) /\ n = Len(e)
  BY <1>2
<1>4. Trimmed(e) = e
  <2>1. Len(e) >= 1
    BY <1>2, <1>3
  <2>2. Solid(e[1]) /\ Solid(e[Len(e)])
    BY <1>2, SolidOnes
  <2> QED BY <1>2, <2>1, <2>2, TrimmedSame
<1>5. SubSeq(e, 2, n - 1) = t
  <2>1. PICK q \in Nat : q = n - 1 /\ l = q - 2 + 1
    BY <1>2, <1>3
  <2>2. \A j \in 1 .. l : 2 - 1 + j = j + 1
    OBVIOUS
  <2>3. Cut(e, 2, q, t)
    BY <1>2, <1>3, <2>1, <2>2 DEF Cut
  <2>4. SubSeq(e, 2, q) = t
    BY <1>1a, <1>2, <2>3, CutIs
  <2> QED BY <2>1, <2>4
<1>6. Unescaped(t) = v
  BY <1>1, UnescapedBack
<1>7. n # 0 /\ n >= 2 /\ e[1] = Quote /\ e[n] = Quote
  BY <1>2, <1>3
<1>8. ParameterValue(e) = Unescaped(SubSeq(e, 2, n - 1))
  BY <1>3, <1>4, <1>7 DEF ParameterValue
<1> QED BY <1>5, <1>6, <1>8 DEF e

(* A segment has the parameter q after d characters: those of a scheme, or none. *)
IsSegment(s, d, scheme, q) ==
  /\ s \in Seq(Character) /\ Len(s) = d + 2 + Len(Escaped(q.value))
  /\ s[d + 1] = q.key /\ s[d + 2] = "="
  /\ \A j \in 1 .. Len(Escaped(q.value)) : s[d + 2 + j] = Escaped(q.value)[j]
  /\ d = 0 \/ (d = 2 /\ s[1] = scheme /\ s[2] = " ")

(* ... and this to the left of its =. *)
IsLeft(l, d, scheme, key) ==
  Len(l) = d + 1 /\ l[d + 1] = key /\ (d = 2 => l[1] = scheme /\ l[2] = " ")

LEMMA SegmentSplit ==
  ASSUME NEW s, NEW d \in Nat, NEW scheme \in Word, NEW q \in ChallengeParameter,
         IsSegment(s, d, scheme, q)
  PROVE  /\ Has(s, "=") /\ First(s, "=") = d + 2 /\ s # <<>>
         /\ Rest(s, "=") = Escaped(q.value)
         /\ \E left \in Seq(Character) :
              Before(s, "=") = left /\ IsLeft(left, d, scheme, q.key)
<1>1. s \in Seq(Character) /\ d \in Nat /\ (d = 0 \/ d = 2)
  BY DEF IsSegment
<1>2. q.key \in Word /\ q.value \in Seq(Character)
  BY DEF ChallengeParameter
<1>3. PICK e \in Seq(Character), n \in Nat : e = Escaped(q.value) /\ n = Len(e) /\ n >= 2
  BY <1>2, EscapedIs
<1>4. /\ Len(s) = d + 2 + n /\ s[d + 1] = q.key /\ s[d + 2] = "="
      /\ \A j \in 1 .. n : s[d + 2 + j] = e[j]
      /\ d = 2 => s[1] = scheme /\ s[2] = " "
  <2>1. /\ Len(s) = d + 2 + n /\ s[d + 1] = q.key /\ s[d + 2] = "="
        /\ \A j \in 1 .. n : s[d + 2 + j] = e[j]
    BY <1>3, Zenon DEF IsSegment
  <2>2. d = 2 => s[1] = scheme /\ s[2] = " "
    <3>1. d = 2 => ~(d = 0)
      OBVIOUS
    <3> QED BY <3>1, Zenon DEF IsSegment
  <2> QED BY <2>1, <2>2, Zenon
<1>4a. d \in Nat /\ n >= 2 /\ Len(s) = d + 2 + n
  BY <1>1, <1>3, <1>4
<1>5. Has(s, "=") /\ First(s, "=") = d + 2
  <2>1. d + 2 \in 1 .. Len(s)
    BY <1>1, <1>4a
  <2>2. ASSUME NEW i \in 1 .. Len(s), i < d + 2 PROVE s[i] # "="
    <3>1. i = d + 1 \/ (d = 2 /\ i = 1) \/ (d = 2 /\ i = 2)
      BY <1>1, <2>1, <2>2
    <3>2. " " # "=" /\ \A x \in Word : x # "="
      BY DEF Word, Special
    <3>3. CASE i = d + 1
      BY <1>2, <1>4, <3>2, <3>3
    <3>4. CASE d = 2 /\ i = 1
      BY <1>4, <3>2, <3>4
    <3>5. CASE d = 2 /\ i = 2
      BY <1>4, <3>2, <3>5
    <3> QED BY <3>1, <3>3, <3>4, <3>5
  <2>3. PICK x : x = "="
    OBVIOUS
  <2>4. s[d + 2] = x /\ \A i \in 1 .. Len(s) : i < d + 2 => s[i] # x
    BY <1>4, <2>2, <2>3
  <2>5. Has(s, x) /\ First(s, x) = d + 2
    BY <1>1, <2>1, <2>4, FirstAt
  <2> QED BY <2>3, <2>5
<1>6. Rest(s, "=") = e
  <2>1. PICK p \in Nat, z \in Nat : p = d + 2 + 1 /\ z = Len(s)
    <3>1. d + 2 + 1 \in Nat
      OBVIOUS
    <3>2. Len(s) \in Nat
      BY <1>1, LenProperties
    <3> QED BY <3>1, <3>2, Zenon
  <2>2. n = z - p + 1 /\ \A j \in 1 .. n : p - 1 + j = d + 2 + j
    BY <1>1, <1>4a, <2>1
  <2>3. Cut(s, p, z, e)
    BY <1>3, <1>4, <2>2 DEF Cut
  <2>4. SubSeq(s, p, z) = e
    BY <1>1, <2>3, CutIs
  <2> QED BY <1>5, <2>1, <2>4 DEF Rest
<1>7. PICK left \in Seq(Character) :
        /\ left = SubSeq(s, 1, d + 1) /\ Len(left) = d + 1
        /\ \A i \in 1 .. d + 1 : left[i] = s[i]
  <2>1. PICK y \in Int, x \in Int : y = d + 1 /\ x = 1
    <3>1. d + 1 \in Int /\ 1 \in Int
      OBVIOUS
    <3> QED BY <3>1, Zenon
  <2>2. \A i \in x .. y : s[i] \in Character
    <3>1. \A i \in x .. y : i \in 1 .. Len(s)
      BY <1>1, <1>4a, <2>1
    <3> QED BY <1>1, <3>1, ElementOfSeq
  <2> DEFINE u == SubSeq(s, x, y)
  <2>3. /\ u \in Seq(Character) /\ Len(u) = IF x <= y THEN y - x + 1 ELSE 0
        /\ \A i \in 1 .. y - x + 1 : u[i] = s[x + i - 1]
    BY <2>2, SubSeqProperties
  <2> HIDE DEF u
  <2>4. x <= y /\ y - x + 1 = d + 1 /\ \A i \in 1 .. d + 1 : x + i - 1 = i
    BY <1>1, <2>1
  <2>5. Len(u) = d + 1 /\ \A i \in 1 .. d + 1 : u[i] = s[i]
    BY <2>3, <2>4
  <2>6. u = SubSeq(s, 1, d + 1)
    BY <2>1 DEF u
  <2> QED BY <2>3, <2>5, <2>6
<1>8. Before(s, "=") = left
  <2>1. (d + 2) - 1 = d + 1
    BY <1>1
  <2> QED BY <1>5, <1>7, <2>1 DEF Before
<1>9. left[d + 1] = q.key /\ (d = 2 => left[1] = scheme /\ left[2] = " ")
  <2>1. d + 1 \in 1 .. d + 1 /\ (d = 2 => 1 \in 1 .. d + 1 /\ 2 \in 1 .. d + 1)
    BY <1>1
  <2> QED BY <1>4, <1>7, <2>1
<1>10. s # <<>>
  BY <1>1, <1>4a
<1>11. IsLeft(left, d, scheme, q.key)
  BY <1>7, <1>9 DEF IsLeft
<1> QED BY <1>3, <1>5, <1>6, <1>8, <1>10, <1>11

LEMMA Single ==
  ASSUME NEW x \in Character
  PROVE  <<x>> \in Seq(Character) /\ Len(<<x>>) = 1 /\ <<x>>[1] = x
OBVIOUS

(* The key, with or without a scheme before it. *)
LEMMA KeyAlone ==
  ASSUME NEW left \in Seq(Character), Len(left) = 1, NEW key \in Word, left[1] = key
  PROVE  left = <<key>> /\ Trimmed(left) = left /\ ~Has(left, " ")
<1>1. left = <<key>>
  <2>1. key \in Character
    BY DEF Word
  <2>2. PICK s \in Seq(Character) : s = <<key>> /\ Len(s) = 1 /\ s[1] = key
    BY <2>1
  <2>3. \A i \in 1 .. Len(left) : i = 1
    OBVIOUS
  <2>4. left = s
    BY <2>2, <2>3, SeqEqual
  <2> QED BY <2>2, <2>4
<1>2. Solid(key)
  BY SolidOnes
<1>3. Trimmed(left) = left
  <2>1. Len(left) >= 1 /\ Solid(left[1]) /\ Solid(left[Len(left)])
    BY <1>2
  <2> QED BY <2>1, TrimmedSame
<1>4. ~Has(left, " ")
  <2>1. \A i \in DOMAIN left : left[i] = key
    OBVIOUS
  <2>2. key # " "
    BY <1>2 DEF Solid
  <2> QED BY <2>1, <2>2 DEF Has
<1> QED BY <1>1, <1>3, <1>4

LEMMA SchemeAndKey ==
  ASSUME NEW left \in Seq(Character), NEW scheme \in Word, NEW key \in Word,
         IsLeft(left, 2, scheme, key)
  PROVE  /\ Trimmed(left) = left /\ Has(left, " ")
         /\ Before(left, " ") = <<scheme>> /\ Trimmed(Rest(left, " ")) = <<key>>
<1>0. PICK x : x = " "
  OBVIOUS
<1>1. scheme \in Character /\ key \in Character
  BY DEF Word
<1>2. Solid(scheme) /\ Solid(key) /\ scheme # x
  BY <1>0, SolidOnes DEF Solid
<1>a. left[2] = x
  BY <1>0 DEF IsLeft
<1>b. Len(left) = 3 /\ left[1] = scheme /\ left[3] = key
  <2>1. Len(left) = 2 + 1 /\ left[2 + 1] = key
    BY Zenon DEF IsLeft
  <2>2. left[1] = scheme
    BY Zenon DEF IsLeft
  <2> QED BY <2>1, <2>2
<1>3. Trimmed(left) = left
  <2>1. Len(left) >= 1 /\ Solid(left[1]) /\ Solid(left[Len(left)])
    BY <1>2, <1>b
  <2> QED BY <2>1, TrimmedSame
<1>4. Has(left, " ") /\ First(left, " ") = 2
  <2>2. left[2] = x /\ left[1] # x
    BY <1>2, <1>a, <1>b
  <2>3. \A i \in 1 .. Len(left) : i < 2 => i = 1
    OBVIOUS
  <2>4. 2 \in 1 .. Len(left)
    BY <1>b
  <2>5. \A i \in 1 .. Len(left) : i < 2 => left[i] # x
    BY <2>2, <2>3
  <2>6. Has(left, x) /\ First(left, x) = 2
    BY <2>2, <2>4, <2>5, FirstAt
  <2> QED BY <1>0, <2>6
<1>5. PICK s \in Seq(Character) : s = <<scheme>> /\ Len(s) = 1 /\ s[1] = scheme
  BY <1>1, Single, Zenon
<1>6. PICK k \in Seq(Character) : k = <<key>> /\ Len(k) = 1 /\ k[1] = key
  BY <1>1, Single, Zenon
<1>7. SubSeq(left, 1, 1) = s
  <2>1. 1 - 1 + 1 = 1 /\ \A j \in 1 .. 1 : 1 - 1 + j = 1 /\ j = 1
    OBVIOUS
  <2>2. Cut(left, 1, 1, s)
    BY <1>5, <1>b, <2>1 DEF Cut
  <2>3. 1 \in Nat
    OBVIOUS
  <2> QED BY <2>2, <2>3, CutIs
<1>8. SubSeq(left, 3, 3) = k
  <2>1. 3 - 3 + 1 = 1 /\ \A j \in 1 .. 1 : 3 - 1 + j = 3 /\ j = 1
    OBVIOUS
  <2>2. Cut(left, 3, 3, k)
    BY <1>6, <1>b, <2>1 DEF Cut
  <2>3. 3 \in Nat
    OBVIOUS
  <2> QED BY <2>2, <2>3, CutIs
<1>9. Trimmed(k) = k
  <2>1. Len(k) >= 1 /\ Solid(k[1]) /\ Solid(k[Len(k)])
    BY <1>2, <1>6
  <2> QED BY <2>1, TrimmedSame
<1>10. Before(left, " ") = s
  <2>1. First(left, " ") - 1 = 1
    <3>1. PICK f : f = First(left, " ")
      OBVIOUS
    <3>2. f = 2
      BY <1>4, <3>1, Zenon
    <3>3. f - 1 = 1
      BY <3>2
    <3> QED BY <3>1, <3>3, Zenon
  <2> QED BY <1>7, <2>1 DEF Before
<1>11. Rest(left, " ") = k
  <2>1. First(left, " ") + 1 = 3
    <3>1. PICK f : f = First(left, " ")
      OBVIOUS
    <3>2. f = 2
      BY <1>4, <3>1, Zenon
    <3>3. f + 1 = 3
      BY <3>2
    <3> QED BY <3>1, <3>3, Zenon
  <2>2. Len(left) = 3
    BY <1>b
  <2> QED BY <1>8, <2>1, <2>2, Zenon DEF Rest
<1> QED BY <1>3, <1>4, <1>5, <1>6, <1>9, <1>10, <1>11

(* What a segment is heard as. *)
Taken(at, bearer, q) ==
  [bearer |-> bearer,
   found |-> IF bearer THEN Stored(at.found, <<q.key>>, q.value) ELSE at.found]

LEMMA HeardSegment ==
  ASSUME NEW s, NEW d \in Nat, NEW scheme \in Word, NEW q \in ChallengeParameter,
         IsSegment(s, d, scheme, q), NEW at
  PROVE  Heard(at, s) = Taken(at, IF d = 2 THEN scheme = "Bearer" ELSE at.bearer, q)
<1> DEFINE left == Trimmed(Before(s, "="))
           value == ParameterValue(Rest(s, "="))
<1>1. /\ Has(s, "=") /\ s # <<>> /\ Rest(s, "=") = Escaped(q.value)
      /\ \E l \in Seq(Character) : Before(s, "=") = l /\ IsLeft(l, d, scheme, q.key)
  BY SegmentSplit
<1>2. q.key \in Word /\ q.value \in Seq(Character)
  BY DEF ChallengeParameter
<1>3. value = q.value
  BY <1>1, <1>2, ValueBack
<1>4. d = 0 \/ d = 2
  BY DEF IsSegment
<1>5. PICK l \in Seq(Character) :
        Before(s, "=") = l /\ IsLeft(l, d, scheme, q.key)
  BY <1>1
<1>6. CASE d = 0
  <2>1. Len(l) = 1 /\ l[1] = q.key
    BY <1>5, <1>6 DEF IsLeft
  <2>2. l = <<q.key>> /\ Trimmed(l) = l /\ ~Has(l, " ")
    BY <1>2, <2>1, KeyAlone
  <2>3. left = <<q.key>> /\ ~Has(left, " ")
    BY <1>5, <2>2
  <2> HIDE DEF left, value
  <2>4. Heard(at, s) = [bearer |-> at.bearer,
                        found |-> IF at.bearer THEN Stored(at.found, left, value) ELSE at.found]
    BY <1>1, <2>3, Zenon DEF Heard, left, value
  <2>5. (IF d = 2 THEN scheme = "Bearer" ELSE at.bearer) = at.bearer
    BY <1>6
  <2> QED BY <1>3, <2>3, <2>4, <2>5, Zenon DEF Taken
<1>7. CASE d = 2
  <2>1. IsLeft(l, 2, scheme, q.key)
    BY <1>5, <1>7
  <2>2. /\ Trimmed(l) = l /\ Has(l, " ")
        /\ Before(l, " ") = <<scheme>> /\ Trimmed(Rest(l, " ")) = <<q.key>>
    BY <1>2, <2>1, SchemeAndKey
  <2>3. /\ Has(left, " ") /\ Before(left, " ") = <<scheme>>
        /\ Trimmed(Rest(left, " ")) = <<q.key>>
    BY <1>5, <2>2
  <2> HIDE DEF left, value
  <2> DEFINE bearer == IsBearer(<<scheme>>)
  <2>4. Heard(at, s) = [bearer |-> bearer,
                        found |-> IF bearer THEN Stored(at.found, <<q.key>>, value) ELSE at.found]
    BY <1>1, <2>3, Zenon DEF Heard, left, value
  <2>5. bearer = (scheme = "Bearer")
    BY DEF IsBearer
  <2>6. (IF d = 2 THEN scheme = "Bearer" ELSE at.bearer) = (scheme = "Bearer")
    BY <1>7
  <2> HIDE DEF bearer
  <2> QED BY <1>3, <2>4, <2>5, <2>6, Zenon DEF Taken
<1> QED BY <1>4, <1>6, <1>7

LEMMA OneTwo == 1 \in 1 .. 2 /\ 2 \in 1 .. 2
OBVIOUS

(* A part as a whole begins and ends with what trimming keeps, after its lead. *)
LEMMA LedEnds ==
  ASSUME NEW lead \in Seq(Character), NEW q \in ChallengeParameter
  PROVE  /\ Led(lead, q) \in Seq(Character)
         /\ Led(lead, q)[Len(Led(lead, q))] = Quote
         /\ Led(lead, q)[Len(lead) + 1] = q.key
         /\ \E n \in Nat : Len(Led(lead, q)) = Len(lead) + 2 + n /\ n >= 2
<1>1. q.value \in Seq(Character)
  BY DEF ChallengeParameter
<1>2. PICK e \in Seq(Character), n \in Nat :
        e = Escaped(q.value) /\ n = Len(e) /\ n >= 2 /\ e[Len(e)] = Quote
  BY <1>1, EscapedIs
<1>3. PICK r, l : r = Led(lead, q) /\ l = Len(lead) /\ l \in Nat
  <2>1. Len(lead) \in Nat
    OBVIOUS
  <2> QED BY <2>1, Zenon
<1>4. /\ r \in Seq(Character) /\ Len(r) = l + 2 + Len(e)
      /\ r[l + 1] = q.key
      /\ \A j \in 1 .. Len(e) : r[l + 2 + j] = e[j]
  BY <1>2, <1>3, LedIs
<1>5. Len(r) = l + 2 + n /\ \A j \in 1 .. n : r[l + 2 + j] = e[j]
  BY <1>2, <1>4
<1>6. r[Len(r)] = Quote
  <2>1. n \in 1 .. n
    BY <1>2
  <2>2. r[l + 2 + n] = Quote
    BY <1>2, <1>5, <2>1
  <2> QED BY <1>5, <2>2
<1> QED BY <1>2, <1>3, <1>4, <1>5, <1>6

(* The lead of a segment, when its spaces are trimmed. *)
ShortLead(lead, scheme) == lead = <<>> \/ lead = <<scheme, " ">>

LEMMA LedSegment ==
  ASSUME NEW lead \in Seq(Character), NEW q \in ChallengeParameter, NEW scheme \in Word,
         ShortLead(lead, scheme)
  PROVE  IsSegment(Led(lead, q), Len(lead), scheme, q)
<1>1. PICK r, l, e :
        r = Led(lead, q) /\ l = Len(lead) /\ e = Escaped(q.value) /\ l \in Nat
  <2>1. Len(lead) \in Nat
    OBVIOUS
  <2> QED BY <2>1, Zenon
<1>2. /\ r \in Seq(Character) /\ Len(r) = l + 2 + Len(e)
      /\ \A i \in 1 .. l : r[i] = lead[i]
      /\ r[l + 1] = q.key /\ r[l + 2] = "="
      /\ \A j \in 1 .. Len(e) : r[l + 2 + j] = e[j]
  BY <1>1, LedIs
<1>3. l = 0 \/ (l = 2 /\ r[1] = scheme /\ r[2] = " ")
  <2>1. PICK x : x = " "
    OBVIOUS
  <2>2. CASE lead = <<>>
    <3>1. Len(<<>>) = 0
      OBVIOUS
    <3>2. l = 0
      BY <1>1, <2>2, <3>1
    <3> QED BY <3>2, Zenon
  <2>3. CASE lead = <<scheme, " ">>
    <3>1. lead = <<scheme, x>>
      BY <2>1, <2>3, Zenon
    <3>2. Len(lead) = 2 /\ lead[1] = scheme /\ lead[2] = x
      BY <3>1
    <3>3. l = 2 /\ r[1] = lead[1] /\ r[2] = lead[2]
      <4>1. l = 2 /\ \A i \in 1 .. l : r[i] = lead[i]
        BY <1>1, <1>2, <3>2
      <4> QED BY <4>1, OneTwo, Zenon
    <3> QED BY <2>1, <3>2, <3>3, Zenon
  <2> QED BY <2>2, <2>3, Zenon DEF ShortLead
<1>4. IsSegment(r, l, scheme, q)
  BY <1>1, <1>2, <1>3, Zenon DEF IsSegment
<1> QED BY <1>1, <1>4

(* A part is trimmed to a segment. *)
Depth(m) == IF m % 2 = 1 THEN 2 ELSE 0

LEMMA PartTrimmed ==
  ASSUME NEW cs \in Seq(OneChallenge), NEW m \in 1 .. 2 * Len(cs)
  PROVE  /\ Parameters(cs)[m].scheme \in Word
         /\ IsSegment(Trimmed(Part(cs, m)), Depth(m),
                      Parameters(cs)[m].scheme, Parameters(cs)[m].p)
<1>1. PICK c \in OneChallenge : c = cs[(m + 1) \div 2]
  BY PartIs
<1>2. Parameters(cs)[m].scheme = c.scheme /\ c.scheme \in Word
  BY <1>1, LeadsAre DEF Parameters
<1>3. PICK q \in ChallengeParameter : q = Parameters(cs)[m].p
  BY PartIs
<1>4. PICK lead \in Seq(Character), r \in Seq(Character) :
        lead = Leading(cs, m) /\ r = Part(cs, m) /\ r = Led(lead, q)
  BY <1>3, PartIs
<1>7. /\ r[Len(r)] = Quote /\ r[Len(lead) + 1] = q.key
      /\ \E n \in Nat : Len(r) = Len(lead) + 2 + n /\ n >= 2
  <2>1. /\ Led(lead, q)[Len(Led(lead, q))] = Quote
        /\ Led(lead, q)[Len(lead) + 1] = q.key
        /\ \E n \in Nat : Len(Led(lead, q)) = Len(lead) + 2 + n /\ n >= 2
    BY LedEnds, Zenon
  <2> QED BY <1>4, <2>1, Zenon
<1>5. CASE m % 2 = 1
  <2>1. lead = <<c.scheme, " ">>
    BY <1>1, <1>4, <1>5, Zenon DEF Leading
  <2>2. Len(lead) = 2 /\ IsSegment(r, 2, c.scheme, q)
    <3>1. Len(lead) = 2
      <4>1. PICK x : x = " "
        OBVIOUS
      <4>2. lead = <<c.scheme, x>>
        BY <2>1, <4>1, Zenon
      <4> QED BY <4>2
    <3>2. IsSegment(Led(lead, q), Len(lead), c.scheme, q)
      BY <1>2, <2>1, LedSegment, Zenon DEF ShortLead
    <3> QED BY <1>4, <3>1, <3>2, Zenon
  <2>3. Trimmed(r) = r
    <3>1. r[1] = c.scheme
      <4>1. ~(2 = 0)
        OBVIOUS
      <4> QED BY <2>2, <4>1, Zenon DEF IsSegment
    <3>2. r[Len(r)] = Quote
      BY <1>7
    <3>3. Len(r) >= 1
      <4>1. PICK n \in Nat : Len(r) = Len(lead) + 2 + n
        BY <1>7
      <4>2. Len(lead) = 2
        BY <2>2
      <4> QED BY <4>1, <4>2
    <3>4. Solid(r[1]) /\ Solid(r[Len(r)])
      BY <1>2, <3>1, <3>2, SolidOnes
    <3> QED BY <3>3, <3>4, TrimmedSame
  <2> QED BY <1>2, <1>3, <1>4, <1>5, <2>2, <2>3 DEF Depth
<1>6. CASE m % 2 # 1
  <2>1. lead = <<" ">>
    BY <1>4, <1>6, Zenon DEF Leading
  <2>2. PICK t \in Seq(Character) : t = Led(<<>>, q) /\ IsSegment(t, 0, c.scheme, q)
    <3>1. PICK none \in Seq(Character) : none = <<>> /\ Len(none) = 0
      BY EmptySeq, Zenon
    <3>2. IsSegment(Led(none, q), Len(none), c.scheme, q)
      BY <1>2, <3>1, LedSegment, Zenon DEF ShortLead
    <3>3. Led(none, q) \in Seq(Character)
      BY LedEnds
    <3> QED BY <3>1, <3>2, <3>3, Zenon
  <2>3. t = ParameterText(q)
    <3>1. ParameterText(q) \in Seq(Character)
      BY <1>4, LedIs
    <3>2. <<>> \o ParameterText(q) = ParameterText(q)
      BY <3>1, ConcatEmptySeq
    <3> QED BY <2>2, <3>2 DEF Led
  <2>4. Len(lead) = 1 /\ ~Solid(lead[1])
    <3>1. PICK x : x = " "
      OBVIOUS
    <3>2. lead = <<x>>
      BY <2>1, <3>1, Zenon
    <3>3. Len(lead) = 1 /\ lead[1] = x
      BY <3>2
    <3>4. ~Solid(x)
      BY <3>1, SolidOnes, Zenon
    <3> QED BY <3>3, <3>4
  <2>5. /\ Len(r) = 1 + Len(t) /\ r[1] = lead[1] /\ \A j \in 1 .. Len(t) : r[1 + j] = t[j]
    <3>1. r = lead \o t
      BY <1>4, <2>3 DEF Led
    <3>2. /\ Len(lead \o t) = Len(lead) + Len(t)
          /\ \A i \in 1 .. Len(lead) + Len(t) :
               (lead \o t)[i] = IF i <= Len(lead) THEN lead[i] ELSE t[i - Len(lead)]
      BY ConcatProperties
    <3>3. Len(t) \in Nat
      OBVIOUS
    <3>4. /\ Len(r) = 1 + Len(t)
          /\ \A i \in 1 .. 1 + Len(t) : r[i] = IF i <= 1 THEN lead[i] ELSE t[i - 1]
      BY <2>4, <3>1, <3>2
    <3> QED BY <3>3, <3>4
  <2>6. PICK n \in Nat : n = Len(t) /\ n >= 2 /\ r[2] = q.key /\ r[Len(r)] = Quote
    <3>1. r[Len(r)] = Quote /\ r[Len(lead) + 1] = q.key
      BY <1>7, Zenon
    <3>2. PICK k \in Nat : Len(r) = Len(lead) + 2 + k /\ k >= 2
      BY <1>7, Zenon
    <3>3. Len(t) \in Nat
      OBVIOUS
    <3> QED BY <2>4, <2>5, <3>1, <3>2, <3>3
  <2>7. Trimmed(r) = SubSeq(r, 2, n + 1)
    <3>1. Len(r) = n + 1
      BY <2>5, <2>6
    <3>2. 2 \in 1 .. Len(r) /\ n + 1 \in 1 .. Len(r)
      BY <2>6, <3>1
    <3>3. Solid(r[2]) /\ Solid(r[n + 1])
      <4>1. q.key \in Word
        BY DEF ChallengeParameter
      <4> QED BY <2>6, <3>1, <4>1, SolidOnes
    <3>4. \A i \in 1 .. Len(r) : Solid(r[i]) => 2 <= i /\ i <= n + 1
      <4>1. \A i \in 1 .. n + 1 : i = 1 \/ (2 <= i /\ i <= n + 1)
        OBVIOUS
      <4> QED BY <2>4, <2>5, <3>1, <4>1
    <3> QED BY <3>2, <3>3, <3>4, TrimmedIs
  <2>8. SubSeq(r, 2, n + 1) = t
    <3>1. PICK z \in Nat : z = n + 1
      OBVIOUS
    <3>2. z - 2 + 1 = n /\ \A j \in 1 .. n : 2 - 1 + j = 1 + j
      BY <3>1
    <3>3. Cut(r, 2, z, t)
      BY <2>5, <2>6, <3>2 DEF Cut
    <3>4. 2 \in Nat
      OBVIOUS
    <3> QED BY <3>1, <3>3, <3>4, CutIs
  <2> QED BY <1>2, <1>3, <1>4, <1>6, <2>2, <2>7, <2>8 DEF Depth
<1> QED BY <1>5, <1>6

(* What the first m parameters say. *)
Counts(cs, key, k) ==
  /\ Parameters(cs)[k].scheme = "Bearer" /\ Parameters(cs)[k].p.key = key
  /\ key = "scope" => Words(Parameters(cs)[k].p.value) # {}
Its(cs, key, m) == {k \in 1 .. m : Counts(cs, key, k)}
LastUpTo(cs, key, m) ==
  IF Its(cs, key, m) = {} THEN Absent ELSE Parameters(cs)[Greatest(Its(cs, key, m))].p.value
ScopesIn(value) == IF value = Absent THEN {} ELSE Words(value)
Said(cs, m) ==
  [location |-> LastUpTo(cs, "resource_metadata", m),
   scopes |-> ScopesIn(LastUpTo(cs, "scope", m))]
BearerAt(cs, m) == m # 0 /\ Parameters(cs)[m].scheme = "Bearer"
Told(cs, m) == [bearer |-> BearerAt(cs, m), found |-> Said(cs, m)]

(* A value is never what stands for none. *)
LEMMA NotAbsent ==
  ASSUME NEW v \in Seq(Character)
  PROVE  v # Absent
<1> SUFFICES ASSUME v = Absent PROVE FALSE
  OBVIOUS
<1>1. PICK x : x = "absent"
  OBVIOUS
<1>2. v = <<x>>
  BY <1>1, Zenon DEF Absent
<1>3. Len(v) = 1 /\ v[1] = x
  BY <1>2
<1>4. x \in Character
  BY <1>3
<1> QED BY <1>1, <1>4, ChallengesAssumption

(* A parameter replaces what was said, or leaves it. *)
LEMMA LastStep ==
  ASSUME NEW cs \in Seq(OneChallenge), NEW m \in 1 .. 2 * Len(cs), NEW key
  PROVE  /\ Counts(cs, key, m) =>
              LastUpTo(cs, key, m) = Parameters(cs)[m].p.value
         /\ ~Counts(cs, key, m) => LastUpTo(cs, key, m) = LastUpTo(cs, key, m - 1)
<1>1. m \in Int /\ m \in 1 .. m /\ \A k \in 1 .. m : k <= m
  OBVIOUS
<1>2. ASSUME Counts(cs, key, m)
      PROVE LastUpTo(cs, key, m) = Parameters(cs)[m].p.value
  <2>1. Its(cs, key, m) \in SUBSET Int /\ m \in Its(cs, key, m)
        /\ \A k \in Its(cs, key, m) : k <= m
    BY <1>1, <1>2 DEF Its
  <2>2. Greatest(Its(cs, key, m)) = m /\ Its(cs, key, m) # {}
    BY <2>1, GreatestAt
  <2> QED BY <2>2, Zenon DEF LastUpTo
<1>3. ASSUME ~Counts(cs, key, m)
      PROVE LastUpTo(cs, key, m) = LastUpTo(cs, key, m - 1)
  <2>1. \A k : k \in 1 .. m /\ Counts(cs, key, k) <=> k \in 1 .. m - 1 /\ Counts(cs, key, k)
    <3> SUFFICES ASSUME NEW k, Counts(cs, key, k) PROVE k \in 1 .. m <=> k \in 1 .. m - 1
      OBVIOUS
    <3>1. k # m
      BY <1>3
    <3> QED BY <3>1
  <2>2. Its(cs, key, m) = Its(cs, key, m - 1)
    BY <2>1, Zenon DEF Its
  <2> QED BY <2>2, Zenon DEF LastUpTo
<1> QED BY <1>2, <1>3

(* So does what a segment says, as the code stores it ... *)
LEMMA StoredIs ==
  ASSUME NEW location, NEW scopes, NEW key, NEW v \in Seq(Character)
  PROVE  Stored([location |-> location, scopes |-> scopes], <<key>>, v) =
           [location |-> IF key = "resource_metadata" THEN v ELSE location,
            scopes |-> IF key = "scope" /\ Words(v) # {} THEN Words(v) ELSE scopes]
<1> DEFINE found == [location |-> location, scopes |-> scopes]
<1>1. /\ [found EXCEPT !.location = v] = [location |-> v, scopes |-> scopes]
      /\ [found EXCEPT !.scopes = Words(v)] = [location |-> location, scopes |-> Words(v)]
  OBVIOUS
<1>2. v # Absent
  BY NotAbsent
<1>3. /\ <<key>> = <<"resource_metadata">> <=> key = "resource_metadata"
      /\ <<key>> = <<"scope">> <=> key = "scope"
      /\ "resource_metadata" # "scope"
  <2>1. ASSUME NEW x, NEW y PROVE <<x>> = <<y>> <=> x = y
    <3>1. <<x>>[1] = x /\ <<y>>[1] = y
      OBVIOUS
    <3> QED BY <3>1, Zenon
  <2>2. "resource_metadata" # "scope"
    OBVIOUS
  <2> QED BY <2>1, <2>2, Zenon
<1> HIDE DEF found
<1>4. CASE key = "resource_metadata"
  <2>1. Stored(found, <<key>>, v) = [found EXCEPT !.location = v]
    BY <1>2, <1>3, <1>4 DEF Stored
  <2>2. key # "scope"
    BY <1>4, <1>3, Zenon
  <2> QED BY <1>1, <1>4, <2>1, <2>2, Zenon DEF found
<1>5. CASE key = "scope" /\ Words(v) # {}
  <2>1. key # "resource_metadata"
    BY <1>5, <1>3, Zenon
  <2>2. Stored(found, <<key>>, v) = [found EXCEPT !.scopes = Words(v)]
    BY <1>2, <1>3, <1>5, <2>1 DEF Stored
  <2> QED BY <1>1, <1>5, <2>1, <2>2, Zenon DEF found
<1>6. CASE key # "resource_metadata" /\ ~(key = "scope" /\ Words(v) # {})
  <2>1. Stored(found, <<key>>, v) = found
    BY <1>2, <1>3, <1>6 DEF Stored
  <2> QED BY <1>6, <2>1, Zenon DEF found
<1> QED BY <1>4, <1>5, <1>6, Zenon DEF found

(* ... which is the same. *)
LEMMA SaidStep ==
  ASSUME NEW cs \in Seq(OneChallenge), NEW m \in 1 .. 2 * Len(cs)
  PROVE  Said(cs, m) =
           IF BearerAt(cs, m)
           THEN Stored(Said(cs, m - 1), <<Parameters(cs)[m].p.key>>, Parameters(cs)[m].p.value)
           ELSE Said(cs, m - 1)
<1>1. PICK q \in ChallengeParameter : q = Parameters(cs)[m].p
  BY PartIs
<1>2. q.value \in Seq(Character)
  BY DEF ChallengeParameter
<1>3. m # 0
  OBVIOUS
<1>4. BearerAt(cs, m) <=> Parameters(cs)[m].scheme = "Bearer"
  BY <1>3, Zenon DEF BearerAt
<1>5. \A key : Counts(cs, key, m) <=>
        BearerAt(cs, m) /\ q.key = key /\ (key = "scope" => Words(q.value) # {})
  BY <1>1, <1>4, Zenon DEF Counts
<1> DEFINE L(key, k) == LastUpTo(cs, key, k)
<1>6. \A key : /\ Counts(cs, key, m) => L(key, m) = q.value
               /\ ~Counts(cs, key, m) => L(key, m) = L(key, m - 1)
  BY <1>1, LastStep, Zenon
<1>7. Stored(Said(cs, m - 1), <<q.key>>, q.value) =
        [location |-> IF q.key = "resource_metadata" THEN q.value
                      ELSE L("resource_metadata", m - 1),
         scopes |-> IF q.key = "scope" /\ Words(q.value) # {} THEN Words(q.value)
                    ELSE ScopesIn(L("scope", m - 1))]
  <2>1. PICK l, s, v : l = L("resource_metadata", m - 1) /\ s = ScopesIn(L("scope", m - 1))
                      /\ v = q.value
    OBVIOUS
  <2>2. Said(cs, m - 1) = [location |-> l, scopes |-> s]
    BY <2>1, Zenon DEF Said
  <2>3. v \in Seq(Character)
    BY <1>2, <2>1
  <2>4. Stored([location |-> l, scopes |-> s], <<q.key>>, v) =
          [location |-> IF q.key = "resource_metadata" THEN v ELSE l,
           scopes |-> IF q.key = "scope" /\ Words(v) # {} THEN Words(v) ELSE s]
    BY <2>3, StoredIs
  <2> QED BY <2>1, <2>2, <2>4, Zenon
<1>8. ~("resource_metadata" = "scope")
  OBVIOUS
<1> HIDE DEF L
<1>9. CASE BearerAt(cs, m)
  <2>1. L("resource_metadata", m) = IF q.key = "resource_metadata" THEN q.value
                                    ELSE L("resource_metadata", m - 1)
    <3>1. Counts(cs, "resource_metadata", m) <=> q.key = "resource_metadata"
      BY <1>5, <1>8, <1>9, Zenon
    <3> QED BY <1>6, <3>1, Zenon
  <2>2. ScopesIn(L("scope", m)) = IF q.key = "scope" /\ Words(q.value) # {} THEN Words(q.value)
                                  ELSE ScopesIn(L("scope", m - 1))
    <3>1. Counts(cs, "scope", m) <=> q.key = "scope" /\ Words(q.value) # {}
      BY <1>5, <1>9, Zenon
    <3>2. ScopesIn(q.value) = Words(q.value)
      BY <1>2, NotAbsent DEF ScopesIn
    <3> QED BY <1>6, <3>1, <3>2, Zenon
  <2>3. Said(cs, m) = Stored(Said(cs, m - 1), <<q.key>>, q.value)
    BY <1>7, <2>1, <2>2, Zenon DEF Said, L
  <2> QED BY <1>1, <1>9, <2>3, Zenon
<1>10. CASE ~BearerAt(cs, m)
  <2>1. \A key : L(key, m) = L(key, m - 1)
    BY <1>5, <1>6, <1>10, Zenon
  <2>2. Said(cs, m) = Said(cs, m - 1)
    BY <2>1, Zenon DEF Said, L
  <2> QED BY <1>10, <2>2, Zenon
<1> QED BY <1>9, <1>10

(* A second parameter is of the challenge of the first. *)
LEMMA SameChallenge ==
  ASSUME NEW cs \in Seq(OneChallenge), NEW m \in 1 .. 2 * Len(cs), m % 2 # 1
  PROVE  m - 1 # 0 /\ Parameters(cs)[m].scheme = Parameters(cs)[m - 1].scheme
<1>1. PICK n \in Nat : n = Len(cs)
  OBVIOUS
<1>2. m \in 1 .. 2 * n
  BY <1>1
<1>3. /\ m # 1 /\ m - 1 \in 1 .. 2 * n /\ ((m - 1) + 1) \div 2 = (m + 1) \div 2
  BY <1>2, Halves
<1>4. /\ Parameters(cs)[m].scheme = cs[(m + 1) \div 2].scheme
      /\ Parameters(cs)[m - 1].scheme = cs[((m - 1) + 1) \div 2].scheme
  BY <1>1, <1>2, <1>3 DEF Parameters
<1>5. m - 1 # 0
  BY <1>3
<1> QED BY <1>3, <1>4, <1>5, Zenon

(* Hearing the next segment tells what the next parameter says. *)
LEMMA ToldStep ==
  ASSUME NEW cs \in Seq(OneChallenge), NEW m \in 1 .. 2 * Len(cs)
  PROVE  Heard(Told(cs, m - 1), Trimmed(Part(cs, m))) = Told(cs, m)
<1>1. PICK q \in ChallengeParameter : q = Parameters(cs)[m].p
  BY PartIs
<1>2. PICK scheme \in Word : scheme = Parameters(cs)[m].scheme
  BY PartTrimmed
<1>3. IsSegment(Trimmed(Part(cs, m)), Depth(m), scheme, q)
  BY <1>1, <1>2, PartTrimmed
<1>4. Depth(m) \in Nat
  BY DEF Depth
<1> DEFINE bearer == IF Depth(m) = 2 THEN scheme = "Bearer" ELSE Told(cs, m - 1).bearer
<1>5. Heard(Told(cs, m - 1), Trimmed(Part(cs, m))) = Taken(Told(cs, m - 1), bearer, q)
  <2>1. PICK s, d, at :
          d \in Nat /\ s = Trimmed(Part(cs, m)) /\ d = Depth(m) /\ at = Told(cs, m - 1)
    BY <1>4
  <2>2. d \in Nat /\ IsSegment(s, d, scheme, q)
    BY <1>3, <2>1
  <2>3. Heard(at, s) = Taken(at, IF d = 2 THEN scheme = "Bearer" ELSE at.bearer, q)
    BY <2>2, HeardSegment
  <2> QED BY <2>1, <2>3, Zenon
<1>6. /\ Told(cs, m - 1).bearer = BearerAt(cs, m - 1)
      /\ Told(cs, m - 1).found = Said(cs, m - 1)
  BY DEF Told
<1>7. bearer = BearerAt(cs, m)
  <2>1. m # 0
    OBVIOUS
  <2>2. BearerAt(cs, m) = (scheme = "Bearer")
    BY <1>2, <2>1, Zenon DEF BearerAt
  <2>3. CASE m % 2 = 1
    <3>1. Depth(m) = 2
      BY <2>3, Zenon DEF Depth
    <3> QED BY <2>2, <3>1, Zenon
  <2>4. CASE m % 2 # 1
    <3>1. Depth(m) # 2
      BY <2>4 DEF Depth
    <3>2. BearerAt(cs, m - 1) = (scheme = "Bearer")
      BY <1>2, <2>4, SameChallenge, Zenon DEF BearerAt
    <3> QED BY <1>6, <2>2, <3>1, <3>2, Zenon
  <2> QED BY <2>3, <2>4
<1> HIDE DEF bearer
<1>8. Taken(Told(cs, m - 1), bearer, q) =
        [bearer |-> BearerAt(cs, m),
         found |-> IF BearerAt(cs, m) THEN Stored(Said(cs, m - 1), <<q.key>>, q.value)
                   ELSE Said(cs, m - 1)]
  BY <1>6, <1>7, Zenon DEF Taken
<1>9. Said(cs, m) = IF BearerAt(cs, m) THEN Stored(Said(cs, m - 1), <<q.key>>, q.value)
                    ELSE Said(cs, m - 1)
  BY <1>1, SaidStep, Zenon
<1> QED BY <1>5, <1>8, <1>9, Zenon DEF Told

LEMMA ToldFirst ==
  ASSUME NEW cs
  PROVE  Told(cs, 0) = [bearer |-> FALSE, found |-> NoChallenge]
<1>1. \A key : Its(cs, key, 0) = {}
  <2>1. \A k : k \notin 1 .. 0
    OBVIOUS
  <2> QED BY <2>1, Zenon DEF Its
<1>2. \A key : LastUpTo(cs, key, 0) = Absent
  BY <1>1, Zenon DEF LastUpTo
<1>3. ScopesIn(Absent) = {}
  BY Zenon DEF ScopesIn
<1>4. Said(cs, 0) = NoChallenge
  BY <1>2, <1>3, Zenon DEF Said, NoChallenge
<1>5. BearerAt(cs, 0) = FALSE
  BY Zenon DEF BearerAt
<1> QED BY <1>4, <1>5, Zenon DEF Told

(* So a header is heard as all its parameters say. *)
LEMMA ChallengeTold ==
  ASSUME NEW cs \in Seq(OneChallenge), cs # <<>>
  PROVE  Challenge(Written(cs)) = Said(cs, 2 * Len(cs))
<1> DEFINE n == 2 * Len(cs)
           segments == Segments(Written(cs))
           body(f, k) == IF k = 0 THEN [bearer |-> FALSE, found |-> NoChallenge]
                         ELSE Heard(f[k - 1], Trimmed(segments[k]))
           Is(f) == f = [k \in 0 .. Len(segments) |-> body(f, k)]
           hear == CHOOSE f : Is(f)
           told == [k \in 0 .. n |-> Told(cs, k)]
<1>1. n \in Nat
  OBVIOUS
<1>2. segments = [m \in 1 .. n |-> Part(cs, m)]
  BY WrittenSegments
<1>3. Len(segments) = n /\ \A m \in 1 .. n : segments[m] = Part(cs, m)
  <2>1. \A m \in 1 .. n : Part(cs, m) \in Seq(Character)
    BY PartIs
  <2> HIDE DEF n, segments
  <2> QED BY <1>1, <1>2
<1> HIDE DEF n, segments
<1>4. \A k \in 0 .. n : Told(cs, k) = body(told, k)
  <2> SUFFICES ASSUME NEW k \in 0 .. n PROVE Told(cs, k) = body(told, k)
    OBVIOUS
  <2>1. CASE k = 0
    BY <2>1, ToldFirst, Zenon
  <2>2. CASE k # 0
    <3>1. k \in 1 .. n /\ k - 1 \in 0 .. n
      BY <1>1, <2>2
    <3>2. told[k - 1] = Told(cs, k - 1)
      BY <3>1
    <3>3. Heard(Told(cs, k - 1), Trimmed(Part(cs, k))) = Told(cs, k)
      BY <3>1, ToldStep DEF n
    <3>4. segments[k] = Part(cs, k)
      BY <1>3, <3>1
    <3> HIDE DEF told
    <3> QED BY <2>2, <3>2, <3>3, <3>4, Zenon
  <2> QED BY <2>1, <2>2
<1>5. Is(told)
  <2> DEFINE mine == [k \in 0 .. n |-> body(told, k)]
  <2>1. told = mine
    <3> HIDE DEF body
    <3> QED BY <1>4
  <2> HIDE DEF told, body
  <2> QED BY <1>3, <2>1, Zenon
<1>6. Is(hear)
  <2> HIDE DEF Is, told
  <2> QED BY <1>5
<1>7. Challenge(Written(cs)) = hear[n].found
  <2>1. Challenge(Written(cs)) = hear[Len(segments)].found
    BY Zenon DEF Challenge, segments
  <2> HIDE DEF hear
  <2> QED BY <1>3, <2>1, Zenon
<1> HIDE DEF hear
<1>8. \A k \in 0 .. n : hear[k] = body(hear, k)
  <2> HIDE DEF body
  <2> QED BY <1>3, <1>6, Zenon
<1> DEFINE P == {k \in 0 .. n : hear[k] = Told(cs, k)}
<1>9. 0 \in P
  <2>1. 0 \in 0 .. n
    BY <1>1
  <2>2. hear[0] = Told(cs, 0)
    BY <1>8, <2>1, ToldFirst, Zenon
  <2> QED BY <2>1, <2>2
<1>10. ASSUME NEW k \in 1 .. n, k - 1 \in P PROVE k \in P
  <2>1. k \in 0 .. n /\ k # 0 /\ hear[k - 1] = Told(cs, k - 1)
    BY <1>1, <1>10
  <2>2. hear[k] = Heard(hear[k - 1], Trimmed(segments[k]))
    BY <1>8, <2>1, Zenon
  <2>3. segments[k] = Part(cs, k)
    BY <1>3
  <2>4. Heard(Told(cs, k - 1), Trimmed(Part(cs, k))) = Told(cs, k)
    BY ToldStep DEF n
  <2>5. hear[k] = Told(cs, k)
    BY <2>1, <2>2, <2>3, <2>4, Zenon
  <2> QED BY <2>1, <2>5
<1>11. hear[n] = Told(cs, n)
  <2> HIDE DEF P
  <2>1. \A k \in 0 .. n : k \in P
    BY <1>1, <1>9, <1>10, UpTo
  <2>2. n \in 0 .. n
    BY <1>1
  <2>3. n \in P
    BY <2>1, <2>2
  <2> QED BY <2>3 DEF P
<1>12. Told(cs, n).found = Said(cs, n)
  BY DEF Told
<1> QED BY <1>7, <1>11, <1>12, Zenon DEF n

(* A header with nothing in it is one empty segment. *)
LEMMA NoSegments ==
  /\ Len(Segments(<<>>)) = 1 /\ Segments(<<>>)[1] = <<>> /\ Trimmed(<<>>) = <<>>
<1>1. PICK h \in Seq(Character) : h = <<>> /\ Len(h) = 0
  BY EmptySeq, Zenon
<1>2. PICK scan : Scans(scan, h) /\ Cuts(h) = scan[Len(h)].cuts
  BY CutsScan
<1>3. Cuts(h) = <<>>
  <2>1. scan[0] = Outside(<<>>)
    BY <1>2 DEF Scans
  <2>2. Cuts(h) = Outside(<<>>).cuts
    BY <1>1, <1>2, <2>1, Zenon
  <2> QED BY <2>2 DEF Outside
<1> DEFINE all == <<0>> \o Cuts(h) \o <<Len(h) + 1>>
<1>4. Len(all) = 2 /\ all[1] = 0 /\ all[2] = 1
  <2>1. <<0>> \o <<>> = <<0>>
    <3>1. <<0>> \in Seq(Nat)
      OBVIOUS
    <3> QED BY <3>1, ConcatEmptySeq
  <2>2. all = <<0>> \o <<1>>
    <3>1. Len(h) + 1 = 1
      BY <1>1
    <3> QED BY <1>3, <2>1, <3>1, Zenon
  <2>3. Len(<<0>> \o <<1>>) = 2 /\ (<<0>> \o <<1>>)[1] = 0 /\ (<<0>> \o <<1>>)[2] = 1
    OBVIOUS
  <2> QED BY <2>2, <2>3, Zenon
<1>5. Segments(h) = [k \in 1 .. Len(all) - 1 |-> SubSeq(h, all[k] + 1, all[k + 1] - 1)]
  BY Zenon DEF Segments
<1> HIDE DEF all
<1>6. Segments(h) = [k \in 1 .. 1 |-> SubSeq(h, all[k] + 1, all[k + 1] - 1)]
  <2>1. Len(all) - 1 = 1
    BY <1>4
  <2> QED BY <1>5, <2>1, Zenon
<1>7. SubSeq(h, all[1] + 1, all[1 + 1] - 1) = <<>>
  <2>1. all[1] + 1 = 1 /\ all[1 + 1] - 1 = 0
    BY <1>4
  <2>2. SubSeq(h, 1, 0) = <<>>
    BY SubSeqEmpty
  <2> QED BY <2>1, <2>2, Zenon
<1>8. Segments(h) = [k \in 1 .. 1 |-> <<>>]
  <2>1. \A k \in 1 .. 1 : k = 1
    OBVIOUS
  <2> QED BY <1>6, <1>7, <2>1, Zenon
<1>9. Len(Segments(h)) = 1 /\ Segments(h)[1] = <<>>
  BY <1>8
<1>10. Trimmed(h) = <<>>
  <2>1. DOMAIN h = {}
    BY <1>1
  <2>2. {i \in DOMAIN h : h[i] # " "} = {}
    BY <2>1, Zenon
  <2> QED BY <2>2, Zenon DEF Trimmed
<1> QED BY <1>1, <1>9, <1>10, Zenon

LEMMA NothingTold ==
  Challenge(<<>>) = NoChallenge
<1> DEFINE s == [bearer |-> FALSE, found |-> NoChallenge]
           segments == Segments(<<>>)
           body(f, k) == IF k = 0 THEN [bearer |-> FALSE, found |-> NoChallenge]
                         ELSE Heard(f[k - 1], Trimmed(segments[k]))
           Is(f) == f = [k \in 0 .. Len(segments) |-> body(f, k)]
           hear == CHOOSE f : Is(f)
           told == [k \in 0 .. 1 |-> s]
<1>1. Len(segments) = 1 /\ segments[1] = <<>> /\ Trimmed(segments[1]) = <<>>
  BY NoSegments, Zenon
<1> HIDE DEF segments
<1>2. \A at : Heard(at, Trimmed(segments[1])) = at
  BY <1>1, Zenon DEF Heard
<1>3. \A k \in 0 .. 1 : k = 0 \/ (k = 1 /\ k # 0 /\ k - 1 = 0)
  OBVIOUS
<1>4. 0 \in 0 .. 1 /\ 1 \in 0 .. 1
  OBVIOUS
<1>5. Is(told)
  <2> DEFINE mine == [k \in 0 .. 1 |-> body(told, k)]
  <2>1. \A k \in 0 .. 1 : s = body(told, k)
    <3>1. told[0] = s
      BY <1>4
    <3> HIDE DEF told
    <3> QED BY <1>2, <1>3, <3>1, Zenon
  <2>2. told = mine
    <3> HIDE DEF body, s
    <3> QED BY <2>1
  <2> HIDE DEF told, body
  <2> QED BY <1>1, <2>2, Zenon
<1>6. Is(hear)
  <2> HIDE DEF Is, told
  <2> QED BY <1>5
<1>7. Challenge(<<>>) = hear[1].found
  <2>1. Challenge(<<>>) = hear[Len(segments)].found
    BY Zenon DEF Challenge, segments
  <2> HIDE DEF hear
  <2> QED BY <1>1, <2>1, Zenon
<1> HIDE DEF hear
<1>8. \A k \in 0 .. 1 : hear[k] = body(hear, k)
  <2> HIDE DEF body
  <2> QED BY <1>1, <1>6, Zenon
<1>9. hear[0] = s
  BY <1>4, <1>8, Zenon
<1>10. hear[1] = Heard(hear[1 - 1], Trimmed(segments[1]))
  <2>1. 1 # 0
    OBVIOUS
  <2> QED BY <1>4, <1>8, <2>1, Zenon
<1>11. hear[1] = s
  <2>1. 1 - 1 = 0
    OBVIOUS
  <2> QED BY <1>2, <1>9, <1>10, <2>1, Zenon
<1>12. hear[1].found = NoChallenge
  BY <1>11
<1> QED BY <1>7, <1>12, Zenon

LEMMA LastOfIs ==
  ASSUME NEW cs \in Seq(OneChallenge), NEW key
  PROVE  LastOf(cs, key) = LastUpTo(cs, key, 2 * Len(cs))
<1> DEFINE its == {k \in DOMAIN Parameters(cs) : Counts(cs, key, k)}
<1>1. DOMAIN Parameters(cs) = 1 .. 2 * Len(cs)
  BY DEF Parameters
<1>2. its = Its(cs, key, 2 * Len(cs))
  BY <1>1, Zenon DEF Its
<1>3. LastOf(cs, key) = IF its = {} THEN Absent ELSE Parameters(cs)[Greatest(its)].p.value
  BY Zenon DEF LastOf, Counts
<1> QED BY <1>2, <1>3, Zenon DEF LastUpTo

(* What a header says is what its challenges are. *)
LEMMA ReadBackAll ==
  ASSUME NEW cs \in Seq(OneChallenge)
  PROVE  ReadBack(cs)
<1> DEFINE said == [location |-> LastOf(cs, "resource_metadata"),
                    scopes |-> ScopesIn(LastOf(cs, "scope"))]
<1>1. said = Said(cs, 2 * Len(cs))
  BY LastOfIs, Zenon DEF Said
<1>2. ReadBack(cs) <=> Challenge(Written(cs)) = said
  BY Zenon DEF ReadBack, ScopesIn
<1> HIDE DEF said
<1>3. CASE cs # <<>>
  BY <1>1, <1>2, <1>3, ChallengeTold, Zenon
<1>4. CASE cs = <<>>
  <2>1. Written(cs) = <<>>
    <3>1. PICK text : text[0] = <<>> /\ Written(cs) = text[Len(cs)]
      BY WrittenText, Zenon
    <3>2. Len(cs) = 0
      BY <1>4
    <3> QED BY <3>1, <3>2, Zenon
  <2>2. 2 * Len(cs) = 0
    BY <1>4
  <2>3. Told(cs, 0).found = NoChallenge
    BY ToldFirst
  <2>4. Told(cs, 0).found = Said(cs, 0)
    BY DEF Told
  <2> QED BY <1>1, <1>2, <2>1, <2>2, <2>3, <2>4, NothingTold, Zenon
<1> QED BY <1>3, <1>4

(* Whatever challenges a server writes, with quotes, backslashes, commas   *)
(* and equals signs in their values and other schemes among them, the last *)
(* location and scopes of its Bearer challenges are what the code takes.   *)
THEOREM ChallengesAsWritten == ChallengesRight
<1> SUFFICES ASSUME NEW cs \in Challenges PROVE ReadBack(cs)
  BY DEF ChallengesRight
<1>1. cs \in Seq(OneChallenge)
  BY ChallengesAssumption, Zenon DEF OneChallenge
<1> QED BY <1>1, ReadBackAll
=============================================================================
