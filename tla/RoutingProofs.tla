--------------------------- MODULE RoutingProofs ---------------------------
(***************************************************************************)
(* Routing is right for every route list over every alphabet: the sort is  *)
(* a stable permutation into length-descending order, and the first match  *)
(* in that order is the one longest match.                                 *)
(***************************************************************************)
EXTENDS Routing, FiniteSetTheorems, TLAPS

\* A non-empty set of naturals has the minimum that Min chooses.
LEMMA MinIsLeast ==
  ASSUME NEW S \in SUBSET Nat, S # {}
  PROVE  Min(S) \in S /\ \A y \in S : Min(S) <= y
<1> DEFINE Less == {p \in Nat \X Nat : p[1] < p[2]}
<1>1. IsWellFoundedOn(Less, Nat)
  BY NatLessThanWellFounded, Zenon DEF OpToRel
<1> HIDE DEF Less
<1>2. PICK x \in S : \A y \in S : ~(<<y, x>> \in Less)
  BY <1>1, WFMin
<1>3. \A y \in S : x <= y
  <2>1. \A u, v \in Nat : u < v => <<u, v>> \in Less
    BY DEF Less
  <2>2. \A y \in S : y \in Nat /\ x \in Nat /\ ~(y < x)
    BY <1>2, <2>1, Zenon
  <2> QED BY <2>2
<1> QED BY <1>3 DEF Min

\* Parsing a URL keeps it in the alphabet.
LEMMA ParseURLType ==
  ASSUME NEW Tok, "http:" \in Tok, NEW s \in Seq(Tok)
  PROVE  ParseURL(s).url \in Seq(Tok)
<1>1. ParseURL(s).url = [k \in DOMAIN s |-> LowerScheme(s[k])]
  BY DEF ParseURL
<1>2. \A tok \in Tok : LowerScheme(tok) \in Tok
  BY DEF LowerScheme
<1>3. [k \in DOMAIN s |-> LowerScheme(s[k])] \in Seq(Tok)
  BY <1>2
<1> QED BY <1>1, <1>3

\* SortsBefore is a strict total order on the positions of a route list.
LEMMA SortsBeforeOrder ==
  ASSUME NEW Tok, NEW rs \in Seq(RouteSet(Tok)),
         NEW i \in DOMAIN rs, NEW j \in DOMAIN rs, NEW k \in DOMAIN rs
  PROVE  /\ ~SortsBefore(rs, i, i)
         /\ i # j => SortsBefore(rs, i, j) \/ SortsBefore(rs, j, i)
         /\ SortsBefore(rs, i, j) /\ SortsBefore(rs, j, k)
              => SortsBefore(rs, i, k)
<1>1. /\ Len(rs[i].prefix) \in Nat /\ Len(rs[j].prefix) \in Nat
      /\ Len(rs[k].prefix) \in Nat
  BY DEF RouteSet
<1>2. i \in Nat /\ j \in Nat /\ k \in Nat
  OBVIOUS
<1> QED BY <1>1, <1>2 DEF SortsBefore

\* Whoever sorts before another one has the smaller rank.
LEMMA RankMonotone ==
  ASSUME NEW Tok, NEW rs \in Seq(RouteSet(Tok)),
         NEW i \in DOMAIN rs, NEW j \in DOMAIN rs, SortsBefore(rs, i, j)
  PROVE  /\ Rank(rs, i) \in DOMAIN rs
         /\ Rank(rs, i) < Rank(rs, j)
<1> DEFINE B(k) == {m \in DOMAIN rs : SortsBefore(rs, m, k)}
<1>1. /\ IsFiniteSet(DOMAIN rs) /\ Cardinality(DOMAIN rs) = Len(rs)
      /\ Len(rs) \in Nat /\ DOMAIN rs = 1..Len(rs)
  BY FS_Interval
<1>2. IsFiniteSet(B(i)) /\ IsFiniteSet(B(j))
  BY <1>1, FS_Subset
<1>3. /\ Cardinality(B(i)) \in Nat /\ Cardinality(B(j)) \in Nat
  BY <1>2, FS_CardinalityType
<1>4. B(i) \subseteq B(j) /\ i \in B(j) /\ i \notin B(i)
  BY SortsBeforeOrder
<1>5. Cardinality(B(i)) <= Cardinality(B(j)) /\ Cardinality(B(i)) # Cardinality(B(j))
  BY <1>2, <1>4, FS_Subset
<1>6. Cardinality(B(j)) <= Len(rs)
  BY <1>1, FS_Subset
<1>7. Rank(rs, i) = 1 + Cardinality(B(i)) /\ Rank(rs, j) = 1 + Cardinality(B(j))
  BY DEF Rank
<1> QED BY <1>1, <1>3, <1>5, <1>6, <1>7

\* The rank is a permutation of the positions.
LEMMA RankBijection ==
  ASSUME NEW Tok, NEW rs \in Seq(RouteSet(Tok))
  PROVE  [i \in DOMAIN rs |-> Rank(rs, i)] \in Bijection(DOMAIN rs, DOMAIN rs)
<1> DEFINE D == DOMAIN rs
           f == [i \in D |-> Rank(rs, i)]
           B(k) == {m \in D : SortsBefore(rs, m, k)}
<1>1. /\ IsFiniteSet(D) /\ Cardinality(D) = Len(rs)
      /\ Len(rs) \in Nat /\ D = 1..Len(rs)
  BY FS_Interval
<1>2. ASSUME NEW i \in D PROVE Rank(rs, i) \in D
  <2>1. IsFiniteSet(B(i)) /\ Cardinality(B(i)) <= Len(rs)
    BY <1>1, FS_Subset
  <2>2. Cardinality(B(i)) \in Nat
    BY <2>1, FS_CardinalityType
  <2>3. B(i) # D
    BY SortsBeforeOrder
  <2>4. Cardinality(B(i)) # Len(rs)
    <3>1. B(i) \in SUBSET D
      OBVIOUS
    <3> QED BY <3>1, <2>3, <1>1, FS_Subset
  <2>5. Rank(rs, i) = 1 + Cardinality(B(i))
    BY DEF Rank
  <2> QED BY <1>1, <2>1, <2>2, <2>4, <2>5
<1>3. ASSUME NEW i \in D, NEW j \in D, i # j PROVE Rank(rs, i) # Rank(rs, j)
  <2>1. CASE SortsBefore(rs, i, j)
    <3>1. Rank(rs, i) < Rank(rs, j) BY <2>1, RankMonotone
    <3> QED BY <3>1, <1>1, <1>2
  <2>2. CASE SortsBefore(rs, j, i)
    <3>1. Rank(rs, j) < Rank(rs, i) BY <2>2, RankMonotone
    <3> QED BY <3>1, <1>1, <1>2
  <2> QED BY <2>1, <2>2, <1>3, SortsBeforeOrder
<1>4. f \in Injection(D, D)
  BY <1>2, <1>3 DEF Injection, IsInjective
<1>5. f \in Surjection(D, D)
  BY <1>1, <1>4, FS_Injection
<1> QED BY <1>4, <1>5 DEF Bijection

(***************************************************************************)
(* NewRouter's sort, for every route list: a permutation g of the input    *)
(* under which every route comes after those it must come after (longer    *)
(* ones, and equally long ones that stood before it).                      *)
(***************************************************************************)
THEOREM NewRouterSorts ==
  ASSUME NEW Tok, NEW rs \in Seq(RouteSet(Tok))
  PROVE  \E g \in Bijection(DOMAIN rs, DOMAIN rs) :
           /\ NewRouter(rs) = [k \in DOMAIN rs |-> rs[g[k]]]
           /\ \A k, l \in DOMAIN rs : k < l => SortsBefore(rs, g[k], g[l])
<1> DEFINE D == DOMAIN rs
           f == [i \in D |-> Rank(rs, i)]
           g == [k \in D |-> CHOOSE i \in D : Rank(rs, i) = k]
<1>1. /\ \A i \in D : f[i] \in D /\ f[i] = Rank(rs, i)
      /\ \A i, j \in D : f[i] = f[j] => i = j
      /\ \A k \in D : \E i \in D : f[i] = k
  BY RankBijection DEF Bijection, Injection, Surjection, IsInjective
<1>2. \A k \in D : g[k] \in D /\ Rank(rs, g[k]) = k
  BY <1>1
<1>3. g \in Bijection(D, D)
  <2>1. g \in [D -> D] BY <1>2
  <2>2. \A k, l \in D : g[k] = g[l] => k = l BY <1>2
  <2>3. \A i \in D : g[f[i]] = i
    <3>1. \A i \in D : g[f[i]] \in D /\ Rank(rs, g[f[i]]) = f[i] BY <1>1, <1>2
    <3> QED BY <3>1, <1>1
  <2>4. \A i \in D : \E k \in D : g[k] = i BY <1>1, <2>3
  <2> HIDE DEF g, D
  <2> QED BY <2>1, <2>2, <2>4 DEF Bijection, Injection, Surjection, IsInjective
<1>4. \A k, l \in D : k < l => SortsBefore(rs, g[k], g[l])
  <2> SUFFICES ASSUME NEW k \in D, NEW l \in D, k < l
               PROVE  SortsBefore(rs, g[k], g[l])
    OBVIOUS
  <2>1. /\ g[k] \in D /\ g[l] \in D
        /\ Rank(rs, g[k]) = k /\ Rank(rs, g[l]) = l
    BY <1>2
  <2> HIDE DEF g
  <2>2. k \in Nat /\ l \in Nat
    OBVIOUS
  <2>3. g[k] # g[l] BY <2>1, <2>2
  <2>4. ~SortsBefore(rs, g[l], g[k])
    <3>1. SUFFICES ASSUME SortsBefore(rs, g[l], g[k]) PROVE FALSE OBVIOUS
    <3>2. Rank(rs, g[l]) < Rank(rs, g[k]) BY <3>1, <2>1, RankMonotone
    <3> QED BY <3>2, <2>1, <2>2
  <2> QED BY <2>1, <2>3, <2>4, SortsBeforeOrder
<1>5. NewRouter(rs) = [k \in D |-> rs[g[k]]]
  BY DEF NewRouter
<1> HIDE DEF g
<1> QED BY <1>3, <1>4, <1>5

\* The same routes in another order: still a list, accepted as before.
LEMMA PermutedRoutes ==
  ASSUME NEW Tok, NEW rs \in Seq(RouteSet(Tok)), ValidRoutes(rs),
         NEW g \in Bijection(DOMAIN rs, DOMAIN rs), NEW qs,
         qs = [k \in DOMAIN rs |-> rs[g[k]]]
  PROVE  /\ qs \in Seq(RouteSet(Tok))
         /\ ValidRoutes(qs)
         /\ Range(qs) = Range(rs)
<1> DEFINE D == DOMAIN rs
<1>1. /\ \A k \in D : g[k] \in D
      /\ \A k, l \in D : g[k] = g[l] => k = l
      /\ \A i \in D : \E k \in D : g[k] = i
  BY DEF Bijection, Injection, Surjection, IsInjective
<1>2. D = 1..Len(rs) /\ Len(rs) \in Nat
  OBVIOUS
<1>3. /\ qs \in Seq(RouteSet(Tok)) /\ DOMAIN qs = D
      /\ \A k \in D : qs[k] = rs[g[k]]
  BY <1>1, <1>2
<1>4. ValidRoutes(qs)
  <2>1. \A i, j \in D : i # j => rs[i].prefix # rs[j].prefix
    BY <1>2 DEF ValidRoutes
  <2>2. qs # <<>>
    BY <1>3 DEF ValidRoutes
  <2>3. \A k \in D : rs[k].prefix # <<>> /\ rs[k].backend # NilURL
    BY DEF ValidRoutes
  <2>4. \A k, l \in D : l < k => qs[l].prefix # qs[k].prefix
    <3> SUFFICES ASSUME NEW k \in D, NEW l \in D, l < k
                 PROVE  rs[g[l]].prefix # rs[g[k]].prefix
      BY <1>3
    <3>1. l # k BY <1>2
    <3>2. g[l] # g[k] BY <3>1, <1>1
    <3> QED BY <3>2, <1>1, <2>1
  <2>5. ASSUME NEW k \in D
        PROVE  qs[k].prefix # <<>> /\ qs[k].backend # NilURL
    <3>1. g[k] \in D /\ qs[k] = rs[g[k]] BY <1>1, <1>3
    <3> QED BY <3>1, <2>3
  <2> QED BY <1>3, <2>2, <2>4, <2>5, Zenon DEF ValidRoutes
<1>5. Range(qs) = Range(rs)
  <2>1. ASSUME NEW k \in D PROVE qs[k] \in Range(rs)
    <3>1. g[k] \in D /\ qs[k] = rs[g[k]] BY <1>1, <1>3
    <3> QED BY <3>1, Zenon DEF Range
  <2>2. ASSUME NEW i \in D PROVE rs[i] \in Range(qs)
    <3>1. PICK k \in D : g[k] = i BY <1>1
    <3>2. qs[k] = rs[i] BY <1>3, <3>1
    <3> QED BY <3>2, <1>3, Zenon DEF Range
  <2>3. \A x \in Range(qs) : x \in Range(rs)
    BY <1>3, <2>1, Zenon DEF Range
  <2>4. \A x \in Range(rs) : x \in Range(qs)
    BY <2>2, Zenon DEF Range
  <2> QED BY <2>3, <2>4
<1> QED BY <1>3, <1>4, <1>5

\* NewRouter of an accepted list is accepted, sorted and has the same routes.
LEMMA NewRouterWellFormed ==
  ASSUME NEW Tok, NEW rs \in Seq(RouteSet(Tok)), ValidRoutes(rs)
  PROVE  /\ NewRouter(rs) \in Seq(RouteSet(Tok))
         /\ ValidRoutes(NewRouter(rs))
         /\ LengthDescending(NewRouter(rs))
         /\ Range(NewRouter(rs)) = Range(rs)
<1> DEFINE D == DOMAIN rs
<1>1. PICK g \in Bijection(D, D) :
        /\ NewRouter(rs) = [k \in D |-> rs[g[k]]]
        /\ \A k, l \in D : k < l => SortsBefore(rs, g[k], g[l])
  BY NewRouterSorts
<1>2. \A k \in D : g[k] \in D
  BY DEF Bijection, Injection
<1>3. /\ NewRouter(rs) \in Seq(RouteSet(Tok)) /\ ValidRoutes(NewRouter(rs))
      /\ Range(NewRouter(rs)) = Range(rs)
  BY <1>1, PermutedRoutes
<1>4. LengthDescending(NewRouter(rs))
  <2> SUFFICES ASSUME NEW k \in D, NEW l \in D, k < l
               PROVE  Len(rs[g[k]].prefix) >= Len(rs[g[l]].prefix)
    BY <1>1 DEF LengthDescending
  <2>1. Len(rs[g[k]].prefix) \in Nat /\ Len(rs[g[l]].prefix) \in Nat
    <3>1. \A i \in D : Len(rs[i].prefix) \in Nat BY DEF RouteSet
    <3> QED BY <1>2, <3>1
  <2> QED BY <1>1, <2>1 DEF SortsBefore
<1> QED BY <1>3, <1>4

\* The scan of Match over a length-descending router finds the longest match.
LEMMA FirstMatchIsLongest ==
  ASSUME NEW Tok, NEW router \in Seq(RouteSet(Tok)), NEW path \in Seq(Tok),
         LengthDescending(router), Matching(router, path) # {}
  PROVE  /\ IsLongestMatch(router, path, Match(router, path))
         /\ \E m \in DOMAIN router : Match(router, path) = router[m]
<1> DEFINE M == Matching(router, path)
           m == Min(M)
<1>1. M \in SUBSET Nat /\ M \subseteq DOMAIN router
  BY DEF Matching
<1>2. m \in M /\ \A y \in M : m <= y
  BY <1>1, MinIsLeast
<1>3. Match(router, path) = router[m]
  BY DEF Match
<1> HIDE DEF m
<1>4. m \in DOMAIN router /\ HasPrefix(path, router[m].prefix)
  BY <1>2 DEF Matching
<1>5. \A i \in M : Len(router[i].prefix) <= Len(router[m].prefix)
  <2> SUFFICES ASSUME NEW i \in M
               PROVE  Len(router[i].prefix) <= Len(router[m].prefix)
    OBVIOUS
  <2>1. i \in DOMAIN router BY <1>1
  <2>2. Len(router[i].prefix) \in Nat /\ Len(router[m].prefix) \in Nat
    BY <2>1, <1>4 DEF RouteSet
  <2>3. CASE i = m BY <2>2, <2>3
  <2>4. CASE m < i BY <2>1, <2>2, <2>4, <1>4 DEF LengthDescending
  <2> QED BY <2>1, <2>3, <2>4, <1>2, <1>4
<1>6. router[m] \in Range(router)
  BY <1>4 DEF Range
<1> QED BY <1>3, <1>4, <1>5, <1>6 DEF IsLongestMatch

\* Two prefixes of one path with the same length are the same prefix.
LEMMA SamePrefix ==
  ASSUME NEW Tok, NEW path \in Seq(Tok), NEW p \in Seq(Tok), NEW q \in Seq(Tok),
         HasPrefix(path, p), HasPrefix(path, q), Len(p) = Len(q)
  PROVE  p = q
<1>1. SubSeq(p, 1, Len(p)) = SubSeq(q, 1, Len(q))
  BY DEF HasPrefix, IsPrefix
<1>2. SubSeq(p, 1, Len(p)) = p /\ SubSeq(q, 1, Len(q)) = q
  OBVIOUS
<1> QED BY <1>1, <1>2

\* In an accepted list no other route is a longest match as well.
LEMMA LongestMatchUnique ==
  ASSUME NEW Tok, NEW rs \in Seq(RouteSet(Tok)), NEW path \in Seq(Tok),
         ValidRoutes(rs), NEW r, NEW s,
         IsLongestMatch(rs, path, r), IsLongestMatch(rs, path, s)
  PROVE  r = s
<1>1. PICK i \in DOMAIN rs : r = rs[i]
  BY DEF IsLongestMatch, Range
<1>2. PICK j \in DOMAIN rs : s = rs[j]
  BY DEF IsLongestMatch, Range
<1>3. i \in Matching(rs, path) /\ j \in Matching(rs, path)
  BY <1>1, <1>2 DEF IsLongestMatch, Matching
<1>4. Len(rs[i].prefix) <= Len(rs[j].prefix) /\ Len(rs[j].prefix) <= Len(rs[i].prefix)
  BY <1>1, <1>2, <1>3 DEF IsLongestMatch
<1>5. rs[i].prefix \in Seq(Tok) /\ rs[j].prefix \in Seq(Tok)
  <2>1. rs[i] \in RouteSet(Tok) /\ rs[j] \in RouteSet(Tok) OBVIOUS
  <2> QED BY <2>1 DEF RouteSet
<1>6. Len(rs[i].prefix) = Len(rs[j].prefix)
  BY <1>4, <1>5
<1>7. rs[i].prefix = rs[j].prefix
  BY <1>3, <1>5, <1>6, SamePrefix DEF Matching
<1>8. i = j
  <2>1. i \in Nat /\ j \in Nat OBVIOUS
  <2>2. ~(i < j) /\ ~(j < i) BY <1>7 DEF ValidRoutes
  <2> QED BY <2>1, <2>2
<1> QED BY <1>1, <1>2, <1>8

(***************************************************************************)
(* Longest-prefix dispatch, for every accepted route list and every path:  *)
(* Match on the router NewRouter builds finds nothing when no prefix       *)
(* matches and the longest matching route of the list otherwise.           *)
(***************************************************************************)
THEOREM MatchIsLongest ==
  ASSUME NEW Tok, NEW rs \in Seq(RouteSet(Tok)), NEW path \in Seq(Tok),
         ValidRoutes(rs)
  PROVE  IF Matching(rs, path) = {} THEN Match(NewRouter(rs), path) = NoRoute
         ELSE IsLongestMatch(rs, path, Match(NewRouter(rs), path))
<1> DEFINE router == NewRouter(rs)
<1>1. /\ router \in Seq(RouteSet(Tok)) /\ LengthDescending(router)
      /\ Range(router) = Range(rs)
  BY NewRouterWellFormed
<1> HIDE DEF router
<1>2. ASSUME NEW i \in Matching(rs, path)
      PROVE  \E k \in Matching(router, path) : router[k] = rs[i]
  <2>1. i \in DOMAIN rs /\ HasPrefix(path, rs[i].prefix) BY DEF Matching
  <2>2. rs[i] \in Range(router) BY <1>1, <2>1 DEF Range
  <2>3. PICK k \in DOMAIN router : router[k] = rs[i] BY <2>2 DEF Range
  <2> QED BY <2>1, <2>3 DEF Matching
<1>3. ASSUME NEW k \in Matching(router, path)
      PROVE  Matching(rs, path) # {}
  <2>1. k \in DOMAIN router /\ HasPrefix(path, router[k].prefix) BY DEF Matching
  <2>2. router[k] \in Range(rs) BY <1>1, <2>1 DEF Range
  <2>3. PICK i \in DOMAIN rs : router[k] = rs[i] BY <2>2 DEF Range
  <2> QED BY <2>1, <2>3 DEF Matching
<1>4. CASE Matching(rs, path) = {}
  <2>1. Matching(router, path) = {} BY <1>3, <1>4
  <2> QED BY <1>4, <2>1 DEF Match, router
<1>5. CASE Matching(rs, path) # {}
  <2>1. Matching(router, path) # {} BY <1>2, <1>5
  <2>2. IsLongestMatch(router, path, Match(router, path))
    BY <1>1, <2>1, FirstMatchIsLongest
  <2>3. \A i \in Matching(rs, path) :
          Len(rs[i].prefix) <= Len(Match(router, path).prefix)
    BY <1>2, <2>2 DEF IsLongestMatch
  <2> QED BY <1>1, <1>5, <2>2, <2>3 DEF IsLongestMatch, router
<1> QED BY <1>4, <1>5

\* Two accepted lists with the same routes, in any order, dispatch alike.
THEOREM OrderIrrelevant ==
  ASSUME NEW Tok, NEW rs \in Seq(RouteSet(Tok)), NEW qs \in Seq(RouteSet(Tok)),
         ValidRoutes(rs), ValidRoutes(qs), Range(rs) = Range(qs),
         NEW path \in Seq(Tok)
  PROVE  Match(NewRouter(rs), path) = Match(NewRouter(qs), path)
<1>1. \A i \in Matching(qs, path) : \E k \in Matching(rs, path) : rs[k] = qs[i]
  BY Zenon DEF Matching, Range
<1>2. \A i \in Matching(rs, path) : \E k \in Matching(qs, path) : qs[k] = rs[i]
  BY Zenon DEF Matching, Range
<1>3. CASE Matching(rs, path) = {}
  BY <1>1, <1>3, MatchIsLongest
<1>4. CASE Matching(rs, path) # {}
  <2>1. /\ IsLongestMatch(rs, path, Match(NewRouter(rs), path))
        /\ IsLongestMatch(qs, path, Match(NewRouter(qs), path))
    BY <1>2, <1>4, MatchIsLongest
  <2>2. IsLongestMatch(rs, path, Match(NewRouter(qs), path))
    BY <1>1, <1>2, <2>1 DEF IsLongestMatch
  <2> QED BY <2>1, <2>2, LongestMatchUnique
<1> QED BY <1>3, <1>4

(***************************************************************************)
(* Every accepted router's proxies map agrees with its routes: dispatch    *)
(* goes to the backend of the route Match returns.                         *)
(***************************************************************************)
THEOREM DispatchFollowsMatch ==
  ASSUME NEW Tok, NEW router \in Seq(RouteSet(Tok)), NEW path \in Seq(Tok),
         ValidRoutes(router), LengthDescending(router)
  PROVE  IF Matching(router, path) = {} THEN Dispatch(New(router), path) = Unmatched
         ELSE IsLongestMatch(router, path,
                [prefix  |-> Dispatch(New(router), path).route,
                 backend |-> Dispatch(New(router), path).backend])
<1>1. New(router).router = router
  BY DEF New
<1>2. CASE Matching(router, path) = {}
  BY <1>1, <1>2 DEF Dispatch
<1>3. CASE Matching(router, path) # {}
  <2> DEFINE r == Match(router, path)
  <2>1. IsLongestMatch(router, path, r) /\ \E m \in DOMAIN router : r = router[m]
    BY <1>3, FirstMatchIsLongest
  <2>2. PICK m \in DOMAIN router : r = router[m]
    BY <2>1
  <2> HIDE DEF r
  <2>3. {i \in DOMAIN router : router[i].prefix = r.prefix} = {m}
    <3>1. \A i \in DOMAIN router : router[i].prefix = router[m].prefix => i = m
      <4> SUFFICES ASSUME NEW i \in DOMAIN router, router[i].prefix = router[m].prefix
                   PROVE  i = m
        OBVIOUS
      <4>1. i \in Nat /\ m \in Nat OBVIOUS
      <4>2. ~(i < m) /\ ~(m < i) BY DEF ValidRoutes
      <4> QED BY <4>1, <4>2
    <3> QED BY <2>2, <3>1
  <2>4. Max({m}) = m
    <3>1. m \in Nat OBVIOUS
    <3> QED BY <3>1 DEF Max
  <2>5. r.prefix \in RoutePrefixes(router)
    BY <2>2 DEF RoutePrefixes
  <2>6. New(router).proxies[r.prefix] = r.backend
    BY <2>2, <2>3, <2>4, <2>5 DEF New
  <2>7. Dispatch(New(router), path) = [route |-> r.prefix, backend |-> r.backend]
    BY <1>1, <1>3, <2>6 DEF Dispatch, r
  <2>8. r = [prefix |-> r.prefix, backend |-> r.backend]
    <3>1. router[m] \in RouteSet(Tok) OBVIOUS
    <3> QED BY <2>2, <3>1 DEF RouteSet
  <2> QED BY <1>3, <2>1, <2>7, <2>8
<1> QED BY <1>2, <1>3

\* A dispatch over an installed list that finds a route yields one of the list.
LEMMA DispatchConfigured ==
  ASSUME NEW Tok, NEW rs \in Seq(RouteSet(Tok)), NEW path \in Seq(Tok),
         ValidRoutes(rs), Matching(NewRouter(rs), path) # {}
  PROVE  LET d == Dispatch(New(NewRouter(rs)), path)
         IN  /\ \E i \in DOMAIN rs : d.route = rs[i].prefix /\ d.backend = rs[i].backend
             /\ HasPrefix(path, d.route)
<1> DEFINE d == Dispatch(New(NewRouter(rs)), path)
           q == NewRouter(rs)
           e == [prefix |-> d.route, backend |-> d.backend]
<1>1. /\ q \in Seq(RouteSet(Tok)) /\ ValidRoutes(q) /\ LengthDescending(q)
      /\ Range(q) = Range(rs)
  BY NewRouterWellFormed
<1>2. IsLongestMatch(q, path, e)
  BY <1>1, DispatchFollowsMatch
<1>3. e.prefix = d.route /\ e.backend = d.backend
  OBVIOUS
<1> HIDE DEF e, d, q
<1>4. e \in Range(rs) /\ HasPrefix(path, e.prefix)
  BY <1>1, <1>2 DEF IsLongestMatch
<1>5. PICK i \in DOMAIN rs : e = rs[i]
  BY <1>4, Zenon DEF Range
<1> QED
  BY <1>3, <1>4, <1>5 DEF d

\* Sorting a sorted router changes nothing: a table read with GET and sent
\* back with POST is the table in use.
THEOREM NewRouterIdempotent ==
  ASSUME NEW Tok, NEW router \in Seq(RouteSet(Tok)), LengthDescending(router)
  PROVE  NewRouter(router) = router
<1> DEFINE D == DOMAIN router
<1>1. D = 1..Len(router) /\ Len(router) \in Nat
  OBVIOUS
<1>2. ASSUME NEW k \in D PROVE Rank(router, k) = k
  <2>1. \A j \in D : SortsBefore(router, j, k) <=> j < k
    <3> SUFFICES ASSUME NEW j \in D
                 PROVE  SortsBefore(router, j, k) <=> j < k
      OBVIOUS
    <3>1. Len(router[j].prefix) \in Nat /\ Len(router[k].prefix) \in Nat
      BY DEF RouteSet
    <3>2. j < k => Len(router[j].prefix) >= Len(router[k].prefix)
      BY DEF LengthDescending
    <3>3. k < j => Len(router[k].prefix) >= Len(router[j].prefix)
      BY DEF LengthDescending
    <3> QED BY <1>1, <3>1, <3>2, <3>3 DEF SortsBefore
  <2>2. {j \in D : SortsBefore(router, j, k)} = 1..(k - 1)
    <3>1. {j \in D : SortsBefore(router, j, k)} = {j \in D : j < k}
      BY <2>1
    <3> QED BY <1>1, <3>1
  <2>3. Cardinality(1..(k - 1)) = k - 1
    BY <1>1, FS_Interval
  <2>4. Rank(router, k) = 1 + Cardinality(1..(k - 1))
    BY <2>2 DEF Rank
  <2> QED BY <1>1, <2>3, <2>4
<1>3. \A k \in D : (CHOOSE i \in D : Rank(router, i) = k) = k
  BY <1>2
<1> DEFINE at(k) == CHOOSE i \in D : Rank(router, i) = k
<1>4. NewRouter(router) = [k \in D |-> router[at(k)]]
  BY DEF NewRouter
<1>5. \A k \in D : at(k) = k
  BY <1>3
<1> HIDE DEF at
<1>6. [k \in D |-> router[at(k)]] = [k \in D |-> router[k]]
  BY <1>5
<1> QED BY <1>4, <1>6
=============================================================================
