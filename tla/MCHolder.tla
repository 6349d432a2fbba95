------------------------------ MODULE MCHolder -----------------------------
EXTENDS Holder

Web(h) == <<"http:", "//", h>>
R(prefix, text) == [prefix |-> prefix, backend |-> text]
Body(routes) == [json |-> TRUE, routes |-> routes]

MCTokens == {"/", "a", "b", "c", "x", "y", "z", "//", "http:", "HTTP:"}

Root == <<"/">>
A == <<"/", "a">>
AB == <<"/", "a", "b">>

MCPaths == {AB, <<"/", "c">>}

\* Two replacements that move the same paths to other prefixes and backends,
\* given shortest prefix first, ...
MCValid == { Body(<<R(A, Web("y")), R(AB, <<"HTTP:", "//", "z">>)>>),
             Body(<<R(Root, Web("x"))>>) }
\* ... and a body for each refusal.
MCInvalid == { Body(<<R(A, Web("y")), R(A, Web("x"))>>),
               Body(<<R(<<>>, Web("x"))>>),
               Body(<<R(A, <<"x">>)>>),
               Body(<<>>),
               [json |-> FALSE, routes |-> <<>>] }

MCBodies == MCValid \cup MCInvalid

MCInitialRoutes == <<R(Root, Web("y")), R(A, Web("x"))>>
MCInitialOne == <<R(A, Web("x"))>>

MCPathsOne == {AB}
MCBodiesLive == {Body(<<R(Root, Web("x"))>>), Body(<<>>)}

\* The admin threads are interchangeable (used for safety only).
MCSymmetry == Permutations(Admins)
=============================================================================
