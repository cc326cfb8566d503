--------------------------- MODULE MCTradeVolume ---------------------------
\* A listed token, one the exchange does not list and a stable coin.
EXTENDS TradeVolume, TLC

CONSTANTS wbnb, busd, usdt

MCKind == (wbnb :> "listed") @@ (busd :> "unlisted") @@ (usdt :> "stable")
=============================================================================
