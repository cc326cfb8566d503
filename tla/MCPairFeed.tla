----------------------------- MODULE MCPairFeed -----------------------------
(* An instance of PairFeed for TLC: two pairs, a cache for one throttle.   *)
EXTENDS PairFeed

CONSTANTS p1, p2, t1, t2, c1, c2

ThreeAndOne == [p \in Pairs |-> IF p = p1 THEN 3 ELSE 1]
=============================================================================
