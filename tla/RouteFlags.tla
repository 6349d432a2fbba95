---------------------------- MODULE RouteFlags -----------------------------
(***************************************************************************)
(* The boot path of the route table: the flag package calls Set once per   *)
(* --route, then run() parses the collected values and builds the router.  *)
(* Any failure ends run() with an error before anything is served.         *)
(***************************************************************************)
EXTENDS Routing

CONSTANTS
  Tokens,     \* the alphabet of flag values and paths
  Specs,      \* the --route values an operator may pass
  Paths,      \* request paths to dispatch
  MaxFlags    \* bound: occurrences of --route on one command line

ASSUME MaxFlagsAssumption == MaxFlags \in Nat \ {0}
ASSUME InputAssumption ==
  "http:" \in Tokens /\ Specs \subseteq Seq(Tokens) /\ Paths \subseteq Seq(Tokens)

VARIABLES
  stage,      \* "flags", "parsed", "routed" or "failed"
  specs,      \* routeFlagList
  routes,     \* []gateway.Route, in flag order
  router      \* gateway.Router

vars == <<stage, specs, routes, router>>

Init ==
  /\ stage = "flags"
  /\ specs = <<>> /\ routes = <<>> /\ router = <<>>

\* routeFlagList.Set
Set(v) ==
  /\ stage = "flags"
  /\ Len(specs) < MaxFlags
  /\ specs' = Append(specs, v)
  /\ UNCHANGED <<stage, routes, router>>

\* (mutant) a bad value is skipped instead of ending the boot
ParseFlagsSkipping ==
  /\ stage = "flags"
  /\ specs # <<>>
  /\ stage' = "parsed" /\ routes' = parseRouteFlags(SelectSeq(specs, FlagOK))
  /\ UNCHANGED <<specs, router>>

ParseFlags ==
  /\ stage = "flags"
  /\ IF FlagsOK(specs)
     THEN stage' = "parsed" /\ routes' = parseRouteFlags(specs)
     ELSE stage' = "failed" /\ UNCHANGED routes
  /\ UNCHANGED <<specs, router>>

BuildRouter ==
  /\ stage = "parsed"
  /\ IF ValidRoutes(routes)
     THEN stage' = "routed" /\ router' = NewRouter(routes)
     ELSE stage' = "failed" /\ UNCHANGED router
  /\ UNCHANGED <<specs, routes>>

Next == (\E v \in Specs : Set(v)) \/ ParseFlags \/ BuildRouter

Spec == Init /\ [][Next]_vars

-----------------------------------------------------------------------------
\* A list is parsed whole or not at all, and sorting loses nothing.
TypeOK ==
  /\ stage \in {"flags", "parsed", "routed", "failed"}
  /\ Len(specs) <= MaxFlags /\ Range(specs) \subseteq Specs
  /\ Len(routes) \in {0, Len(specs)}
  /\ Len(router) \in {0, Len(routes)}

\* Router.Match, a scan that stops at the first hit, returns the longest
\* configured prefix of the path, and nothing exactly when none matches.
LongestPrefixWins ==
  stage = "routed" =>
    \A p \in Paths :
      IF Matching(routes, p) = {} THEN Match(router, p) = NoRoute
      ELSE IsLongestMatch(routes, p, Match(router, p))

\* The order of the --route flags does not matter: every permutation of the
\* list is accepted by NewRouter and dispatches every path alike.
FlagOrderIrrelevant ==
  stage = "routed" =>
    \A f \in Bijection(DOMAIN routes, DOMAIN routes) :
      LET permuted == [i \in DOMAIN routes |-> routes[f[i]]]
      IN  /\ ValidRoutes(permuted)
          /\ \A p \in Paths :
               Match(NewRouter(permuted), p) = Match(router, p)

\* The proxies map, keyed by prefix, sends a request to the backend of the
\* very route Match chose: no route is overwritten by another one.
ProxyMapAgrees ==
  stage = "routed" =>
    \A p \in Paths :
      Dispatch(New(router), p) =
        LET r == Match(router, p) IN [route |-> r.prefix, backend |-> r.backend]

\* splitArrow cuts at the first "=>": each route's prefix holds no arrow, and
\* prefix, arrow and backend text put together are the flag's value.
SplitsAtFirstArrow ==
  routes # <<>> =>
    \A i \in DOMAIN routes :
      /\ Arrows(routes[i].prefix) = {}
      /\ \E k \in DOMAIN specs[i] :
           LET text == SubSeq(specs[i], k, Len(specs[i]))
           IN  /\ specs[i] = routes[i].prefix \o <<"=", ">">> \o text
               /\ ParseURL(text).url = routes[i].backend

\* The table GET /admin/routes reports, sent back by POST, is accepted and is the
\* same table in the same order: a rendered backend parses to itself, and
\* Router.Routes() is a fixed point of NewRouter.
RoutesStable ==
  stage = "routed" =>
    LET posted == [i \in DOMAIN router |->
                     [prefix |-> router[i].prefix, backend |-> ParseURL(router[i].backend).url]]
    IN  /\ \A i \in DOMAIN router : BackendOK(router[i].backend)
        /\ ValidRoutes(posted) /\ NewRouter(posted) = router

\* An inductive invariant from which the properties follow.
IndInv ==
  /\ stage \in {"flags", "parsed", "routed", "failed"}
  /\ specs \in Seq(Specs) /\ Len(specs) <= MaxFlags
  /\ routes \in Seq(RouteSet(Tokens))
  /\ stage = "flags" => routes = <<>>
  /\ routes # <<>> => FlagsOK(specs) /\ routes = parseRouteFlags(specs)
  /\ stage = "routed" => ValidRoutes(routes) /\ router = NewRouter(routes)
  /\ stage # "routed" => router = <<>>
=============================================================================
