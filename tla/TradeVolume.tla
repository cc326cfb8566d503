----------------------------- MODULE TradeVolume -----------------------------
(***************************************************************************)
(* How much a trade sells: validateLpSize, maxPossibleSellTokenTradingVol  *)
(* and validateQuotation of                                                *)
(* src/new-pair-trading/new-pair-trading.service.ts, over the prices of    *)
(* SymbolPrices, for one position per pair.                                *)
(*                                                                         *)
(* Amounts are counted in units of which Unit make a token, so that the    *)
(* divisions of the code are exact.  The awaits after the price is known,  *)
(* approval, quotation and swap, are those of NewPairTrading; here they    *)
(* are one step.                                                           *)
(***************************************************************************)
EXTENDS SymbolPrices

CONSTANTS
  Unit,       \* units of a token
  MinBudget,  \* min_pair_budget_usd
  MaxBudget,  \* max_pair_budget_usd
  SafeLp,     \* safe_lp_size_usd
  Percent,    \* max_vol_percent_of_lp
  Liquidity,  \* the liquidities an event may carry, in USD
  Rates       \* tokens bought for a quote token, the price of execution

ASSUME VolumeAssumption ==
  /\ {Unit, MinBudget, MaxBudget, SafeLp, Percent} \subseteq Nat \ {0}
  /\ MinBudget <= MaxBudget
  /\ Liquidity \subseteq Nat
  /\ Rates \subseteq Nat \ {0}
  /\ \A p \in Prices : \E q \in 0..Unit : q * p = Unit
  /\ \A lp \in Liquidity : \E q \in 0..(lp * Percent) : q * 100 = lp * Percent

VARIABLE positions  \* of each pair, what its trades have sold and bought

vars == <<priceVars, positions>>

-----------------------------------------------------------------------------
NoPosition == [phase |-> "none", usd |-> 0, paid |-> 0, price |-> 0,
               vol |-> 0, sold |-> 0]

TypeOK ==
  /\ PricesTypeOK
  /\ positions \in [Clients -> [phase : {"none", "open", "closed"},
                                usd : Nat,              \* maxVolInUsd
                                paid : Nat \cup {NaN},  \* sold to enter
                                price : Answers,        \* quotePriceUsd then
                                vol : Nat \cup {NaN},   \* vol the entry recorded
                                sold : Nat \cup {NaN}]] \* sold to exit

Init == PricesInit /\ positions = [c \in Clients |-> NoPosition]

-----------------------------------------------------------------------------
(* Arithmetic                                                              *)

Smaller(a, b) == IF NaN \in {a, b} THEN NaN ELSE IF a < b THEN a ELSE b

Times(a, b) == IF NaN \in {a, b} THEN NaN ELSE a * b

\* a / b, which is exact by VolumeAssumption.
Over(a, b) ==
  IF NaN \in {a, b} THEN NaN ELSE CHOOSE q \in 0..a : q * b = a

NotNegative(a) == a = NaN \/ a > 0  \* mutant: rejects a <= 0
Positive(a) == a # NaN /\ a > 0

-----------------------------------------------------------------------------
\* validateLpSize does not throw.
SafeLpSize(lp) == lp >= SafeLp /\ lp >= MinBudget * 10

MaxVolInUsd(lp) == Smaller(MaxBudget, Over(lp * Percent, 100))

\* What maxPossibleSellTokenTradingVol returns, given a price.
MaxSellingAmount(selling, usd, price) ==
  IF selling = "quote" THEN Over(usd * Unit, price)
                       ELSE Times(usd * Unit, price)

Selling(c) == IF positions[c].phase = "none" THEN "quote" ELSE "base"

\* The tokens sold once the price is there: to enter as much as possible, to
\* exit no more than the intent says was bought.
TokenAmountToSell(c) ==
  LET max == MaxSellingAmount(Selling(c), positions[c].usd, lookups[c].price)
  IN  IF Selling(c) = "quote" THEN max ELSE Smaller(max, positions[c].vol)

-----------------------------------------------------------------------------
\* An update of a pair leads to an entry or an exit, up to the price.  It is
\* given up when the liquidity, or the budget it leaves, is too small.
ValidateQuotation(c, lp) ==
  /\ lookups[c].pc = "idle" /\ positions[c].phase # "closed"
  /\ SafeLpSize(lp) /\ MaxVolInUsd(lp) >= MinBudget
  /\ positions' = [positions EXCEPT ![c].usd = MaxVolInUsd(lp)]
  /\ GetSymbolPriceUsd(c)
  /\ UNCHANGED <<endpoint, market, since, cache, quote>>

\* The price is null, the amount is no amount, or the approval, the quotation
\* or the swap fails.
GiveUp(c) ==
  /\ lookups[c].pc = "priced"
  /\ Lookup(c, NoLookup)
  /\ positions' = [positions EXCEPT ![c].usd = 0]
  /\ UNCHANGED <<endpoint, market, since, cache, quote>>

\* The swap is mined; of an entry the intent records the amount received, an
\* exit is the last trade of its intent whatever it sold.
Swap(c, rate) ==
  LET r == positions[c]
      price == lookups[c].price
      amount == TokenAmountToSell(c)
  IN  /\ lookups[c].pc = "priced" /\ price # Null
      /\ Positive(MaxSellingAmount(Selling(c), r.usd, price))
      /\ positions' = [positions EXCEPT ![c] =
           IF r.phase = "none"
           THEN [r EXCEPT !.phase = "open", !.usd = 0, !.paid = amount,
                          !.price = price, !.vol = Times(amount, rate)]
           ELSE [r EXCEPT !.phase = "closed", !.usd = 0, !.sold = amount]]
      /\ Lookup(c, NoLookup)
      /\ UNCHANGED <<endpoint, market, since, cache, quote>>

Next ==
  \/ PricesNext /\ UNCHANGED positions
  \/ \E c \in Clients :
       \/ \E lp \in Liquidity : ValidateQuotation(c, lp)
       \/ \E rate \in Rates : Swap(c, rate)
       \/ GiveUp(c)

\* Timers fire and requests are answered or fail.
Spec ==
  /\ Init /\ [][Next]_vars
  /\ \A c \in Clients : WF_vars(LookupStep(c) /\ UNCHANGED positions)

-----------------------------------------------------------------------------
(* Properties                                                              *)

\* Every trade is sized by a number: an entry pays what at the price it was
\* told is between min_pair_budget_usd and max_pair_budget_usd, and an exit
\* sells something, and no more than was bought.
TradesAreSized ==
  \A c \in Clients :
    LET r == positions[c]
    IN  /\ r.phase # "none" =>
             /\ r.paid \in Nat /\ r.price \in Nat /\ r.vol \in Nat
             /\ MinBudget * Unit <= r.paid * r.price
             /\ r.paid * r.price <= MaxBudget * Unit
        /\ r.phase = "closed" =>
             r.sold \in Nat /\ r.sold > 0 /\ r.sold <= r.vol

\* "We've bought this base token before, and then now we sell all of it".
ExitSellsAll ==
  \A c \in Clients :
    positions[c].phase = "closed" => positions[c].sold = positions[c].vol
=============================================================================
