---------------------------- MODULE MCTransport ----------------------------
EXTENDS Transport

\* Two routes that first share a backend and then do not.
Shared == [p \in Prefixes |-> "x"]
Moved == [p \in Prefixes |-> IF p = "/a" THEN "y" ELSE "x"]
MCTables == {Shared, Moved}
=============================================================================
