--------------------------- MODULE MCPairTracking ---------------------------
\* Two pairs that have their one contract in common.
EXTENDS PairTracking

CONSTANTS p1, p2, quote

MCContractsOf == [p \in Pairs |-> {quote}]
=============================================================================
