------------------------------ MODULE Routing ------------------------------
(***************************************************************************)
(* The pure part of the gateway: reading route specifications, building a  *)
(* Router, building the proxy Handler on top of it, and dispatching a path.*)
(*                                                                         *)
(* A string is a sequence of tokens.  A token is a character of interest   *)
(* ("/", "=", ">", any letter) or a part of a URL that the code never      *)
(* takes apart: "http:", "HTTP:" and "ftp:" are schemes, "//" opens an     *)
(* authority, "%" is an escape url.Parse refuses.                          *)
(***************************************************************************)
EXTENDS Integers, FiniteSets, SequencesExt

\* strings.HasPrefix (Go standard library).
HasPrefix(s, p) == IsPrefix(p, s)

(***************************************************************************)
(* url.Parse (Go standard library), as far as its callers look at it: an   *)
(* error, the scheme (lower-cased), the host.  The parsed URL keeps the    *)
(* tokens, scheme lower-cased, and URL.String() renders exactly those.     *)
(***************************************************************************)
Schemes == {"http:", "HTTP:", "ftp:"}
LowerScheme(tok) == IF tok = "HTTP:" THEN "http:" ELSE tok

NilURL == <<>>

ParseURL(s) ==
  [err    |-> "%" \in Range(s),
   scheme |-> s # <<>> /\ s[1] \in Schemes,
   host   |-> /\ Len(s) > 2
              /\ s[1] \in Schemes /\ s[2] = "//" /\ s[3] # "/",
   url    |-> [i \in DOMAIN s |-> LowerScheme(s[i])]]

\* Both front ends accept a backend on the same three conditions.
BackendOK(s) == LET u == ParseURL(s) IN ~u.err /\ u.scheme /\ u.host

-----------------------------------------------------------------------------
(***************************************************************************)
(* The --route flags.                                                      *)
(***************************************************************************)

\* strings.Index(spec, "=>"): the places where an arrow starts.
Arrows(spec) == {i \in 1..Len(spec) - 1 : spec[i] = "=" /\ spec[i + 1] = ">"}

\* (mutant) cut at the last arrow
splitArrowLast(spec) ==
  IF Arrows(spec) = {}
  THEN [prefix |-> <<>>, backend |-> <<>>, ok |-> FALSE]
  ELSE LET i == Max(Arrows(spec))
       IN  [prefix  |-> SubSeq(spec, 1, i - 1),
            backend |-> SubSeq(spec, i + 2, Len(spec)),
            ok      |-> TRUE]

splitArrow(spec) ==
  IF Arrows(spec) = {}
  THEN [prefix |-> <<>>, backend |-> <<>>, ok |-> FALSE]
  ELSE LET i == Min(Arrows(spec))
       IN  [prefix  |-> SubSeq(spec, 1, i - 1),
            backend |-> SubSeq(spec, i + 2, Len(spec)),
            ok      |-> TRUE]

FlagOK(spec) ==
  LET f == splitArrow(spec)
  IN  /\ f.ok
      /\ f.prefix # <<>>
      /\ HasPrefix(f.prefix, <<"/">>)
      /\ BackendOK(f.backend)

FlagsOK(specs) == specs # <<>> /\ \A i \in DOMAIN specs : FlagOK(specs[i])

parseRouteFlags(specs) ==
  [i \in DOMAIN specs |->
     LET f == splitArrow(specs[i])
     IN  [prefix |-> f.prefix, backend |-> ParseURL(f.backend).url]]

-----------------------------------------------------------------------------
(***************************************************************************)
(* gateway.Router: a sequence of routes, longest prefix first.             *)
(***************************************************************************)

\* gateway.Route over an alphabet of tokens.
RouteSet(Tok) == [prefix : Seq(Tok), backend : Seq(Tok)]

\* (mutant) no check for duplicate prefixes
ValidRoutesDup(routes) ==
  /\ routes # <<>>
  /\ \A i \in DOMAIN routes :
       routes[i].prefix # <<>> /\ routes[i].backend # NilURL

\* The checks of NewRouter; a list that fails one is returned as an error.
ValidRoutes(routes) ==
  /\ routes # <<>>
  /\ \A i \in DOMAIN routes :
       /\ routes[i].prefix # <<>>
       /\ routes[i].backend # NilURL
       /\ \A j \in DOMAIN routes :
            j < i => routes[j].prefix # routes[i].prefix

\* (mutants) shortest first; ties in reverse
SortsBeforeAsc(routes, i, j) ==
  \/ Len(routes[i].prefix) < Len(routes[j].prefix)
  \/ Len(routes[i].prefix) = Len(routes[j].prefix) /\ i < j
SortsBeforeUnstable(routes, i, j) ==
  \/ Len(routes[i].prefix) > Len(routes[j].prefix)
  \/ Len(routes[i].prefix) = Len(routes[j].prefix) /\ i > j

\* sort.SliceStable by length, descending: i comes out before j.
SortsBefore(routes, i, j) ==
  \/ Len(routes[i].prefix) > Len(routes[j].prefix)
  \/ Len(routes[i].prefix) = Len(routes[j].prefix) /\ i < j

\* Where the sort puts routes[i].
Rank(routes, i) ==
  1 + Cardinality({j \in DOMAIN routes : SortsBefore(routes, j, i)})

\* (mutant) not sorted
NewRouterUnsorted(routes) == routes

NewRouter(routes) ==
  [k \in DOMAIN routes |->
     routes[CHOOSE i \in DOMAIN routes : Rank(routes, i) = k]]

NoRoute == [prefix |-> <<>>, backend |-> NilURL]

Matching(router, path) ==
  {i \in DOMAIN router : HasPrefix(path, router[i].prefix)}

\* The loop of Router.Match returns at the first match; Route{} if none.
Match(router, path) ==
  IF Matching(router, path) = {} THEN NoRoute
  ELSE router[Min(Matching(router, path))]

-----------------------------------------------------------------------------
(***************************************************************************)
(* proxy.Handler: the router, and the map from prefix to reverse proxy.    *)
(***************************************************************************)

RoutePrefixes(router) == {router[i].prefix : i \in DOMAIN router}

\* The build loop overwrites: the last route with a prefix owns the entry.
New(router) ==
  [router  |-> router,
   proxies |-> [p \in RoutePrefixes(router) |->
                  router[Max({i \in DOMAIN router :
                                router[i].prefix = p})].backend]]

\* proxy.Handler.ServeHTTP up to the call of the route's reverse proxy: the
\* prefix stamped on the writer and the backend the request goes to.
Unmatched == [route |-> <<>>, backend |-> NilURL]

Dispatch(h, path) ==
  IF Matching(h.router, path) = {} THEN Unmatched
  ELSE LET route == Match(h.router, path)
       IN  [route |-> route.prefix, backend |-> h.proxies[route.prefix]]

-----------------------------------------------------------------------------
(***************************************************************************)
(* The reference the dispatch is compared with.                            *)
(***************************************************************************)

\* r is a route of the list whose prefix matches and is longest among those
\* that match: what "longest-prefix match" means, whatever the order.
IsLongestMatch(routes, path, r) ==
  /\ r \in Range(routes)
  /\ HasPrefix(path, r.prefix)
  /\ \A i \in Matching(routes, path) :
       Len(routes[i].prefix) <= Len(r.prefix)

LengthDescending(router) ==
  \A i, j \in DOMAIN router :
    i < j => Len(router[i].prefix) >= Len(router[j].prefix)
=============================================================================
