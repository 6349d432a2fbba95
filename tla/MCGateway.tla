----------------------------- MODULE MCGateway -----------------------------
EXTENDS Gateway

Web(h) == <<"http:", "//", h>>
R(prefix, text) == [prefix |-> prefix, backend |-> text]
Hop(method, path, i, tr, hop) ==
  [method |-> method, path |-> path, id |-> i, trace |-> tr, hop |-> hop]
Msg(method, path, i, tr) == Hop(method, path, i, tr, {})

MCTokens ==
  {"/", "a", "b", "healthz", "readyz", "metrics", "admin", "routes", "http:", "//",
   "x", "y", "z", "client", "trace", "caller"}

A == <<"/", "a">>
Client == <<"client">>
Caller == [trace |-> <<"trace">>, span |-> <<"caller">>]

\* A catch-all route (so the gateway's own paths match it too) and a list
\* without one (so some paths match nothing).
MCInitialRoutes == <<R(<<"/">>, Web("x")), R(A, Web("y"))>>
MCRouteLists == { <<R(A, Web("z"))>> }

MCMessages ==
  { Msg("GET", <<"/", "a", "b">>, NoID, Caller), Hop("POST", <<"/", "b">>, Client, Caller, {"id", "trace"}),
    Msg("GET", HealthzPath, NoID, Caller), Msg("PUT", ReadyzPath, Client, None),
    Msg("GET", ReadyzPath, NoID, None), Msg("POST", HealthzPath, Client, None),
    Msg("GET", <<"/", "/", "healthz">>, Client, None),
    Msg("CONNECT", <<"/", "/", "healthz">>, Client, None),
    Msg("GET", MetricsPath, NoID, None),
    Msg("GET", AdminPath, NoID, None), Msg("POST", AdminPath, Client, Caller),
    Msg("PUT", AdminPath, Client, None) }

MCBackendCodes == {200, 500}

MCSymmetry == Permutations(Requests)
=============================================================================
