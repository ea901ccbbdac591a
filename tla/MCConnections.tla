---------------------------- MODULE MCConnections ----------------------------
EXTENDS Connections, TLC
MCOrder == <<"vault", "aap">>
P(addr, mode, sec) == [meta |-> [addr |-> addr, mode |-> mode], sec |-> [token |-> sec]]
\* Left out, empty, null and given, for metadata and secrets.
MCPatches == {P("v1", NULL, "v1"), P(NULL, "v1", "null"), P("", "", "empty")}
Symmetric == Permutations(Reqs) \cup Permutations(Keys)
=============================================================================
