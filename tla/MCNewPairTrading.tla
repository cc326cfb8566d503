-------------------------- MODULE MCNewPairTrading --------------------------
(* Instances of NewPairTrading for TLC.                                    *)
EXTENDS NewPairTradingProps, TLC

CONSTANTS p1, p2, i1, i2, h1, h2, t1

\* Every pair has the same tokens: a red list contract is shared.
SharedToken == [p \in Pairs |-> Tokens]

BigOnly == {"big"}
BigAndSmall == {"big", "small"}

HandlerSymmetry == Permutations(Handlers)
Symmetry == Permutations(Handlers) \cup Permutations(Intents)
=============================================================================
