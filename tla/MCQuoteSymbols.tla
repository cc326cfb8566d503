--------------------------- MODULE MCQuoteSymbols ---------------------------
(* An instance of QuoteSymbols for TLC.                                    *)
EXTENDS QuoteSymbols, TLC

CONSTANTS s1, s2, u1, c1, c2

Symmetry == Permutations(Listed)
=============================================================================
