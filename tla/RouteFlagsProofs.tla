-------------------------- MODULE RouteFlagsProofs -------------------------
(***************************************************************************)
(* What the router built at boot does, for any alphabet, any --route       *)
(* values, any number of them and any paths.                               *)
(***************************************************************************)
EXTENDS RouteFlags, RoutingProofs, SequenceTheorems

\* The two halves splitArrow returns are strings of the alphabet.
LEMMA SplitType ==
  ASSUME NEW s \in Seq(Tokens)
  PROVE  splitArrow(s).prefix \in Seq(Tokens) /\ splitArrow(s).backend \in Seq(Tokens)
<1>1. CASE Arrows(s) = {}
  BY <1>1 DEF splitArrow
<1>2. CASE Arrows(s) # {}
  <2>1. Arrows(s) \in SUBSET Nat
    BY DEF Arrows
  <2>2. PICK i \in Arrows(s) : i = Min(Arrows(s))
    BY <1>2, <2>1, MinIsLeast
  <2>3. i \in 1..Len(s) - 1
    BY <2>2 DEF Arrows
  <2>4. SubSeq(s, 1, i - 1) \in Seq(Tokens) /\ SubSeq(s, i + 2, Len(s)) \in Seq(Tokens)
    BY <2>3
  <2> QED
    BY <1>2, <2>2, <2>4 DEF splitArrow
<1> QED
  BY <1>1, <1>2

\* parseRouteFlags returns a route list.
LEMMA ParsedType ==
  ASSUME NEW ss \in Seq(Specs)
  PROVE  parseRouteFlags(ss) \in Seq(RouteSet(Tokens))
<1> DEFINE r(i) == LET f == splitArrow(ss[i])
                   IN  [prefix |-> f.prefix, backend |-> ParseURL(f.backend).url]
<1>1. ASSUME NEW i \in DOMAIN ss PROVE r(i) \in RouteSet(Tokens)
  <2>1. ss[i] \in Seq(Tokens)
    BY InputAssumption
  <2>2. /\ splitArrow(ss[i]).prefix \in Seq(Tokens)
        /\ ParseURL(splitArrow(ss[i]).backend).url \in Seq(Tokens)
    BY <2>1, SplitType, ParseURLType, InputAssumption
  <2> QED
    BY <2>2 DEF RouteSet
<1>2. parseRouteFlags(ss) = [i \in DOMAIN ss |-> r(i)]
  BY DEF parseRouteFlags
<1> HIDE DEF r
<1> QED
  BY <1>1, <1>2

\* The invariant: typed lists, and a router built from the accepted list.
LEMMA FlagsInvariant == Spec => []IndInv
<1>1. Init => IndInv
  BY MaxFlagsAssumption DEF Init, IndInv
<1>2. IndInv /\ [Next]_vars => IndInv'
  <2> SUFFICES ASSUME IndInv, [Next]_vars PROVE IndInv'
    OBVIOUS
  <2> USE DEF IndInv
  <2>1. ASSUME NEW v \in Specs, Set(v) PROVE IndInv'
    <3>1. /\ specs' \in Seq(Specs) /\ Len(specs') = Len(specs) + 1
          /\ Len(specs) \in Nat /\ Len(specs) < MaxFlags
      BY <2>1 DEF Set
    <3>2. Len(specs') <= MaxFlags
      BY <3>1, MaxFlagsAssumption
    <3> QED
      BY <2>1, <3>1, <3>2 DEF Set
  <2>2. CASE ParseFlags
    <3>1. parseRouteFlags(specs) \in Seq(RouteSet(Tokens))
      BY ParsedType
    <3> QED
      BY <2>2, <3>1 DEF ParseFlags
  <2>3. CASE BuildRouter
    BY <2>3 DEF BuildRouter
  <2>4. CASE UNCHANGED vars
    BY <2>4 DEF vars
  <2> QED
    BY <2>1, <2>2, <2>3, <2>4 DEF Next
<1> QED
  BY <1>1, <1>2, PTL DEF Spec

\* Router.Match returns the longest configured prefix, for every command line.
THEOREM FlagsLongestPrefix == Spec => []LongestPrefixWins
<1>1. IndInv => LongestPrefixWins
  BY MatchIsLongest, InputAssumption DEF IndInv, LongestPrefixWins
<1> QED
  BY <1>1, FlagsInvariant, PTL

\* No order of the same --route flags dispatches differently.
THEOREM FlagsOrderIrrelevant == Spec => []FlagOrderIrrelevant
<1>1. IndInv => FlagOrderIrrelevant
  <2> SUFFICES ASSUME IndInv, stage = "routed",
                      NEW f \in Bijection(DOMAIN routes, DOMAIN routes)
               PROVE  LET permuted == [i \in DOMAIN routes |-> routes[f[i]]]
                      IN  /\ ValidRoutes(permuted)
                          /\ \A p \in Paths :
                               Match(NewRouter(permuted), p) = Match(router, p)
    BY DEF FlagOrderIrrelevant
  <2> DEFINE permuted == [i \in DOMAIN routes |-> routes[f[i]]]
  <2>1. /\ routes \in Seq(RouteSet(Tokens)) /\ ValidRoutes(routes)
        /\ router = NewRouter(routes)
    BY DEF IndInv
  <2>2. /\ permuted \in Seq(RouteSet(Tokens)) /\ ValidRoutes(permuted)
        /\ Range(permuted) = Range(routes)
    BY <2>1, PermutedRoutes
  <2> HIDE DEF permuted
  <2>3. \A p \in Paths : Match(NewRouter(permuted), p) = Match(router, p)
    BY <2>1, <2>2, OrderIrrelevant, InputAssumption
  <2> QED
    BY <2>2, <2>3 DEF permuted
<1> QED
  BY <1>1, FlagsInvariant, PTL

\* The proxies map never redirects a request away from its matched route.
THEOREM FlagsProxyMap == Spec => []ProxyMapAgrees
<1>1. IndInv => ProxyMapAgrees
  <2> SUFFICES ASSUME IndInv, stage = "routed", NEW p \in Paths
               PROVE  Dispatch(New(router), p) =
                        [route   |-> Match(router, p).prefix,
                         backend |-> Match(router, p).backend]
    BY DEF ProxyMapAgrees
  <2> DEFINE d == Dispatch(New(router), p)
             m == Match(router, p)
  <2>1. /\ router \in Seq(RouteSet(Tokens)) /\ ValidRoutes(router)
        /\ LengthDescending(router) /\ p \in Seq(Tokens)
    BY NewRouterWellFormed, InputAssumption DEF IndInv
  <2>2. New(router).router = router
    BY DEF New
  <2>3. CASE Matching(router, p) = {}
    BY <2>2, <2>3 DEF Dispatch, Match, Unmatched, NoRoute
  <2>4. CASE Matching(router, p) # {}
    <3>1. IsLongestMatch(router, p, [prefix |-> d.route, backend |-> d.backend])
      BY <2>1, <2>4, DispatchFollowsMatch
    <3>2. IsLongestMatch(router, p, m)
      BY <2>1, <2>4, FirstMatchIsLongest
    <3>3. m = [prefix |-> d.route, backend |-> d.backend]
      BY <2>1, <3>1, <3>2, LongestMatchUnique
    <3>4. d = [route |-> d.route, backend |-> d.backend]
      BY <2>2, <2>4 DEF Dispatch
    <3> HIDE DEF d, m
    <3>5. m.prefix = d.route /\ m.backend = d.backend
      BY <3>3
    <3> QED
      BY <3>4, <3>5 DEF d, m
  <2> QED
    BY <2>3, <2>4
<1> QED
  BY <1>1, FlagsInvariant, PTL

\* URL.String() of an accepted backend is accepted and parses to the same URL.
LEMMA RenderedParses ==
  ASSUME NEW s \in Seq(Tokens), BackendOK(s)
  PROVE  LET u == ParseURL(s).url IN BackendOK(u) /\ ParseURL(u).url = u
<1> DEFINE u == ParseURL(s).url
<1>1. /\ u \in Seq(Tokens) /\ DOMAIN u = DOMAIN s /\ Len(u) = Len(s)
      /\ \A i \in DOMAIN s : u[i] = LowerScheme(s[i])
  <2>1. u = [i \in DOMAIN s |-> LowerScheme(s[i])]
    BY DEF ParseURL
  <2>2. u \in Seq(Tokens)
    BY ParseURLType, InputAssumption
  <2> QED
    BY <2>1, <2>2
<1>2. /\ \A i \in DOMAIN s : s[i] # "%" /\ Len(s) > 2
      /\ s[1] \in Schemes /\ s[2] = "//" /\ s[3] # "/"
  BY DEF BackendOK, ParseURL, Range
<1> HIDE DEF u
<1>3. ParseURL(u).url = u
  <2>1. \A i \in DOMAIN u : LowerScheme(u[i]) = u[i]
    BY <1>1 DEF LowerScheme
  <2>2. ParseURL(u).url = [i \in DOMAIN u |-> LowerScheme(u[i])]
    BY DEF ParseURL
  <2> QED
    BY <1>1, <2>1, <2>2
<1>4. /\ \A i \in DOMAIN u : u[i] # "%" /\ Len(u) > 2
      /\ u[1] \in Schemes /\ u[2] = "//" /\ u[3] # "/"
  BY <1>1, <1>2 DEF LowerScheme, Schemes
<1>5. BackendOK(u)
  BY <1>1, <1>4 DEF BackendOK, ParseURL, Range
<1> QED
  BY <1>3, <1>5 DEF u

\* The table reported by GET /admin/routes, rendered and posted back, is accepted
\* and is the same table.
THEOREM FlagsRoutesStable == Spec => []RoutesStable
<1>1. IndInv => RoutesStable
  <2> SUFFICES ASSUME IndInv, stage = "routed" PROVE RoutesStable
    BY DEF RoutesStable
  <2>1. /\ routes \in Seq(RouteSet(Tokens)) /\ ValidRoutes(routes)
        /\ router = NewRouter(routes) /\ routes # <<>>
        /\ FlagsOK(specs) /\ routes = parseRouteFlags(specs) /\ specs \in Seq(Specs)
    BY DEF IndInv, ValidRoutes
  <2>2. /\ router \in Seq(RouteSet(Tokens)) /\ ValidRoutes(router)
        /\ Range(router) = Range(routes) /\ NewRouter(router) = router
    BY <2>1, NewRouterWellFormed, NewRouterIdempotent
  <2>3. ASSUME NEW k \in DOMAIN routes
        PROVE  /\ BackendOK(routes[k].backend)
               /\ ParseURL(routes[k].backend).url = routes[k].backend
    <3> DEFINE f == splitArrow(specs[k])
    <3>1. k \in DOMAIN specs /\ specs[k] \in Seq(Tokens)
      BY <2>1, InputAssumption DEF parseRouteFlags
    <3>2. BackendOK(f.backend) /\ f.backend \in Seq(Tokens)
      BY <2>1, <3>1, SplitType DEF FlagsOK, FlagOK
    <3>3. routes[k].backend = ParseURL(f.backend).url
      BY <2>1, <3>1 DEF parseRouteFlags
    <3> HIDE DEF f
    <3> QED
      BY <3>2, <3>3, RenderedParses
  <2>4. ASSUME NEW i \in DOMAIN router
        PROVE  /\ BackendOK(router[i].backend)
               /\ ParseURL(router[i].backend).url = router[i].backend
    <3>1. PICK k \in DOMAIN routes : router[i] = routes[k]
      BY <2>2 DEF Range
    <3> QED
      BY <2>3, <3>1
  <2> DEFINE posted == [i \in DOMAIN router |->
                          [prefix |-> router[i].prefix,
                           backend |-> ParseURL(router[i].backend).url]]
  <2>5. posted = router
    <3>1. \A i \in DOMAIN router :
            router[i] = [prefix |-> router[i].prefix, backend |-> router[i].backend]
      <4>1. \A e \in RouteSet(Tokens) : e = [prefix |-> e.prefix, backend |-> e.backend]
        BY DEF RouteSet
      <4>2. \A i \in DOMAIN router : router[i] \in RouteSet(Tokens)
        BY <2>2
      <4> QED
        BY <4>1, <4>2
    <3>2. \A i \in DOMAIN router : posted[i] = router[i]
      BY <2>4, <3>1
    <3>3. router = [i \in DOMAIN router |-> router[i]]
      BY <2>2
    <3> QED
      BY <3>2, <3>3
  <2> HIDE DEF posted
  <2> QED
    BY <2>2, <2>4, <2>5 DEF RoutesStable, posted
<1> QED
  BY <1>1, FlagsInvariant, PTL

\* NewRouter returns as many routes as it is given, parseRouteFlags too.
LEMMA SameLength ==
  /\ \A rs \in Seq(RouteSet(Tokens)) : ValidRoutes(rs) => Len(NewRouter(rs)) = Len(rs)
  /\ \A ss \in Seq(Specs) : Len(parseRouteFlags(ss)) = Len(ss)
<1>1. ASSUME NEW rs \in Seq(RouteSet(Tokens)), ValidRoutes(rs)
      PROVE  Len(NewRouter(rs)) = Len(rs)
  <2>1. NewRouter(rs) \in Seq(RouteSet(Tokens))
    BY <1>1, NewRouterWellFormed
  <2>2. DOMAIN NewRouter(rs) = DOMAIN rs
    BY DEF NewRouter
  <2> QED
    BY <2>1, <2>2
<1>2. ASSUME NEW ss \in Seq(Specs) PROVE Len(parseRouteFlags(ss)) = Len(ss)
  <2>1. parseRouteFlags(ss) \in Seq(RouteSet(Tokens))
    BY ParsedType
  <2>2. DOMAIN parseRouteFlags(ss) = DOMAIN ss
    BY DEF parseRouteFlags
  <2> QED
    BY <2>1, <2>2
<1> QED
  BY <1>1, <1>2

\* A command line is parsed whole or not at all, and no route is lost in the sort.
THEOREM FlagsTypeOK == Spec => []TypeOK
<1>1. IndInv => TypeOK
  <2> SUFFICES ASSUME IndInv PROVE TypeOK
    OBVIOUS
  <2>1. Range(specs) \subseteq Specs
    BY DEF IndInv, Range
  <2>2. Len(routes) \in {0, Len(specs)}
    BY SameLength DEF IndInv
  <2>3. Len(router) \in {0, Len(routes)}
    BY SameLength DEF IndInv
  <2> QED
    BY <2>1, <2>2, <2>3 DEF IndInv, TypeOK
<1> QED
  BY <1>1, FlagsInvariant, PTL

\* splitArrow of an accepted value cuts it at its first arrow and loses nothing.
LEMMA SplitAtFirst ==
  ASSUME NEW s \in Seq(Tokens), FlagOK(s)
  PROVE  /\ Arrows(splitArrow(s).prefix) = {}
         /\ \E k \in DOMAIN s :
              /\ splitArrow(s).backend = SubSeq(s, k, Len(s))
              /\ s = splitArrow(s).prefix \o <<"=", ">">> \o SubSeq(s, k, Len(s))
<1>1. Arrows(s) # {} /\ Arrows(s) \in SUBSET Nat
  BY DEF FlagOK, splitArrow, Arrows
<1>2. PICK i \in Arrows(s) : i = Min(Arrows(s)) /\ \A y \in Arrows(s) : i <= y
  BY <1>1, MinIsLeast
<1>3. i \in 1..Len(s) - 1 /\ s[i] = "=" /\ s[i + 1] = ">"
  BY <1>2 DEF Arrows
<1> DEFINE p == SubSeq(s, 1, i - 1)
           b == SubSeq(s, i + 2, Len(s))
<1>4. splitArrow(s).prefix = p /\ splitArrow(s).backend = b
  BY <1>1, <1>2 DEF splitArrow
<1>5. /\ p \in Seq(Tokens) /\ Len(p) = i - 1 /\ \A j \in 1..i - 1 : p[j] = s[j]
      /\ b \in Seq(Tokens) /\ Len(b) = Len(s) - i - 1
      /\ \A j \in 1..Len(s) - i - 1 : b[j] = s[i + 1 + j]
  BY <1>3
<1>6. i + 2 \in DOMAIN s
  \* The backend text has a scheme and a host, so it is not empty.
  <2>1. BackendOK(b)
    BY <1>4 DEF FlagOK
  <2>2. Len(b) > 2
    BY <2>1 DEF BackendOK, ParseURL
  <2> QED
    BY <1>3, <1>5, <2>2
<1>7. Arrows(p) = {}
  <2> SUFFICES ASSUME NEW j \in Arrows(p) PROVE FALSE
    OBVIOUS
  <2> HIDE DEF p, b
  <2>1. j \in 1..i - 2 /\ p[j] = "=" /\ p[j + 1] = ">"
    BY <1>3, <1>5 DEF Arrows
  <2>2. s[j] = "=" /\ s[j + 1] = ">" /\ j \in 1..Len(s) - 1
    BY <1>3, <1>5, <2>1
  <2> QED
    BY <1>2, <1>3, <2>1, <2>2 DEF Arrows
<1>8. s = p \o <<"=", ">">> \o b
  <2>1. SubSeq(s, i, i + 1) = <<"=", ">">>
    <3> DEFINE c == SubSeq(s, i, i + 1)
               a == <<s[i], s[i + 1]>>
    <3>1. c \in Seq(Tokens) /\ Len(c) = 2 /\ c[1] = s[i] /\ c[2] = s[i + 1]
      BY <1>3
    <3>2. a \in Seq(Tokens) /\ Len(a) = 2 /\ a[1] = s[i] /\ a[2] = s[i + 1]
      BY <1>3
    <3> HIDE DEF a, c
    <3>3. \A j \in 1..2 : c[j] = a[j]
      BY <3>1, <3>2
    <3>4. c = a
      BY <3>1, <3>2, <3>3, SeqEqual
    <3> QED
      BY <1>3, <3>4 DEF a, c
  <2>2. p \o SubSeq(s, i, i + 1) = SubSeq(s, 1, i + 1)
    <3>1. 1 \in 1..Len(s) + 1 /\ i - 1 \in (1 - 1)..Len(s) /\ i + 1 \in (i - 1)..Len(s)
      BY <1>3
    <3>2. SubSeq(s, 1, i - 1) \o SubSeq(s, (i - 1) + 1, i + 1) = SubSeq(s, 1, i + 1)
      BY <3>1, ConcatAdjacentSubSeq
    <3>3. (i - 1) + 1 = i
      BY <1>3
    <3> QED
      BY <3>2, <3>3
  <2>3. SubSeq(s, 1, i + 1) \o b = SubSeq(s, 1, Len(s))
    <3>1. 1 \in 1..Len(s) + 1 /\ i + 1 \in (1 - 1)..Len(s) /\ Len(s) \in (i + 1)..Len(s)
      BY <1>3
    <3>2. SubSeq(s, 1, i + 1) \o SubSeq(s, (i + 1) + 1, Len(s)) = SubSeq(s, 1, Len(s))
      BY <3>1, ConcatAdjacentSubSeq
    <3>3. (i + 1) + 1 = i + 2
      BY <1>3
    <3> QED
      BY <3>2, <3>3
  <2>4. SubSeq(s, 1, Len(s)) = s
    BY SubSeqFull
  <2> QED
    BY <2>1, <2>2, <2>3, <2>4
<1> QED
  BY <1>4, <1>6, <1>7, <1>8

\* For every command line: each route's prefix ends at the first "=>" of its flag,
\* and its backend is all that follows.
THEOREM FlagsSplit == Spec => []SplitsAtFirstArrow
<1>1. IndInv => SplitsAtFirstArrow
  <2> SUFFICES ASSUME IndInv, routes # <<>>, NEW i \in DOMAIN routes
               PROVE  /\ Arrows(routes[i].prefix) = {}
                      /\ \E k \in DOMAIN specs[i] :
                           LET text == SubSeq(specs[i], k, Len(specs[i]))
                           IN  /\ specs[i] = routes[i].prefix \o <<"=", ">">> \o text
                               /\ ParseURL(text).url = routes[i].backend
    BY DEF SplitsAtFirstArrow
  <2>1. i \in DOMAIN specs /\ specs[i] \in Seq(Tokens) /\ FlagOK(specs[i])
    BY InputAssumption DEF IndInv, FlagsOK, parseRouteFlags
  <2>2. /\ routes[i].prefix = splitArrow(specs[i]).prefix
        /\ routes[i].backend = ParseURL(splitArrow(specs[i]).backend).url
    BY <2>1 DEF IndInv, parseRouteFlags
  <2>3. PICK k \in DOMAIN specs[i] :
          /\ splitArrow(specs[i]).backend = SubSeq(specs[i], k, Len(specs[i]))
          /\ specs[i] = splitArrow(specs[i]).prefix \o <<"=", ">">> \o SubSeq(specs[i], k, Len(specs[i]))
    BY <2>1, SplitAtFirst
  <2>4. Arrows(splitArrow(specs[i]).prefix) = {}
    BY <2>1, SplitAtFirst
  <2> QED
    BY <2>2, <2>3, <2>4
<1> QED
  BY <1>1, FlagsInvariant, PTL
=============================================================================
