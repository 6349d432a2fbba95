--------------------------- MODULE MCRouteFlags ----------------------------
EXTENDS RouteFlags

MCTokens ==
  {"/", "a", "b", "x", "y", "=", ">", "%", "//", "http:", "HTTP:"}

Web(h) == <<"http:", "//", h>>
Flag(prefix, text) == prefix \o <<"=", ">">> \o text

\* Nested, equal-length and repeated prefixes, a prefix and a backend that
\* hold "=" and ">" themselves, and one value for each refusal.
MCSpecs ==
  { Flag(<<"/">>, Web("x")),
    Flag(<<"/", "a">>, Web("x")),
    Flag(<<"/", "a">>, Web("y")),
    Flag(<<"/", "b">>, <<"HTTP:", "//", "x">>),
    Flag(<<"/", "a", "b">>, Web("y")),
    Flag(<<"/", "=">>, Web("x") \o <<"=", ">">> \o Web("y")),
    Flag(<<>>, Web("x")),
    Flag(<<"a">>, Web("x")),
    Flag(<<"/", "a">>, <<"x">>),
    Flag(<<"/", "a">>, <<"http:", "//", "/", "a">>),
    Flag(<<"/", "a">>, <<"http:", "//", "%">>),
    <<"/", "a", "=", "a", ">">> }

MCPaths ==
  { <<"/">>, <<"/", "a">>, <<"/", "b">>, <<"/", "a", "b">>, <<"/", "=">>,
    <<"/", "a", "b", "a">>, <<"/", "b", "a">> }
=============================================================================
