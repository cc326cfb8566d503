---------------------------- MODULE SymbolPrices ----------------------------
(***************************************************************************)
(* The price in USD of a quote token:                                      *)
(* src/pair-realtime-data/pair-realtime-data.service.ts with its LRU cache *)
(* and the part of libs/binance/BinanceTradingEndpoint.ts it uses.         *)
(*                                                                         *)
(* Each client has at most one lookup, suspended at the await its "pc"     *)
(* names: a sleep of retryUntil, or the request to the exchange, which has *)
(* not looked at its market yet ("asked") or has ("told").  Time passes in *)
(* ticks; what runs without an await runs within one.                      *)
(***************************************************************************)
EXTENDS Naturals

CONSTANTS
  Clients,     \* who asks for a price, each once at a time
  QuoteTokens, \* quote tokens, a symbol with the address in the data of a pair
  Kind,        \* what CommonBscSymbol says of each
  Native,      \* the token of 'nativeCurrency.price'
  NoAddress,   \* the key of an entry without an address
  Prices,      \* the prices of the markets
  FeedPrices,  \* the prices 'nativeCurrency.price' brings
  NaN, Null,   \* the values of JavaScript
  Ttl,         \* ttl of the cache, in ticks
  Flight,      \* ticks a request takes at most
  MaxRetry     \* maxRetry of retryUntil

\* "stable": known as a stable coin under exactly this address; "listed":
\* it has a symbolBinance; "unlisted": it is known and has none, as BUSD has
\* under another spelling of its address; "unknown": its symbol is not there.
Kinds == {"stable", "listed", "unlisted", "unknown"}

ASSUME PricesAssumption ==
  /\ Kind \in [QuoteTokens -> Kinds]
  /\ Native \in QuoteTokens /\ NoAddress \notin QuoteTokens
  /\ Prices \subseteq Nat \ {0} /\ FeedPrices \subseteq Nat
  /\ NaN \notin Nat /\ Null \notin Nat /\ NaN # Null
  /\ Ttl \in Nat \ {0} /\ Flight \in Nat /\ MaxRetry \in Nat

VARIABLES
  endpoint,  \* BinanceTradingEndpoint: "starting", "ready" or "failed"
  market,    \* the price of each listed token at the exchange
  since,     \* ticks since the market had a price, up to Ttl + Flight + 1
  cache,     \* symbolPriceUsdCache
  quote,     \* the quote token each client asks about
  lookups    \* the running getSymbolPriceUsd of each client

priceVars == <<endpoint, market, since, cache, quote, lookups>>

-----------------------------------------------------------------------------
Listed == {t \in QuoteTokens : Kind[t] = "listed"}

Keys == QuoteTokens \cup {NoAddress}

Answers == Nat \cup {NaN, Null}

NoEntry == [price |-> Null, ttl |-> 0]

NoLookup == [pc |-> "idle", tries |-> 0, age |-> 0, price |-> Null]

MaxSince == Ttl + Flight + 1

PricesTypeOK ==
  /\ endpoint \in {"starting", "ready", "failed"}
  /\ market \in [Listed -> Prices]
  /\ since \in [Listed -> [Prices -> 0..MaxSince]]
  /\ cache \in [Keys -> [price : Answers, ttl : 0..Ttl]]
  /\ quote \in [Clients -> QuoteTokens]
  /\ lookups \in [Clients -> [pc : {"idle", "wait", "asked", "told", "priced"},
                              tries : 0..MaxRetry, age : 0..Flight,
                              price : Answers]]

PricesInit ==
  /\ endpoint = "starting"
  /\ market \in [Listed -> Prices]
  /\ since = [t \in Listed |->
                [p \in Prices |-> IF p = market[t] THEN 0 ELSE MaxSince]]
  /\ cache = [k \in Keys |-> NoEntry]
  /\ quote \in [Clients -> QuoteTokens]
  /\ lookups = [c \in Clients |-> NoLookup]

-----------------------------------------------------------------------------
(* Helpers                                                                 *)

\* getCacheKey, for one chain.
WithoutAddress(t, addressed) ==  \* mutant: the address is no part of the key
  t
CacheKey(t, addressed) == IF addressed THEN t ELSE NoAddress

Cached(k, price) ==
  cache' = [cache EXCEPT ![k] = [price |-> price, ttl |-> Ttl]]

InFlight(c) == lookups[c].pc \in {"asked", "told"}

Lookup(c, r) == lookups' = [lookups EXCEPT ![c] = r]

Priced(c, price) ==
  Lookup(c, [NoLookup EXCEPT !.pc = "priced", !.price = price])

-----------------------------------------------------------------------------
(* The lookup                                                              *)

\* getSymbolPriceUsd up to its await: a stable coin is worth a dollar, an
\* entry is served until its time is over, an unknown symbol throws.
GetSymbolPriceUsd(c) ==
  LET t == quote[c]
      entry == cache[CacheKey(t, TRUE)]
  IN  IF Kind[t] = "stable" THEN Priced(c, 1)
      ELSE IF entry.ttl > 0 THEN Priced(c, entry.price)
      ELSE IF Kind[t] = "unknown" THEN Priced(c, Null)
      ELSE Lookup(c, [NoLookup EXCEPT !.pc = "wait"])

\* retryUntil and the check of getPrice that follows it.
SleepsOnceMore(r) == r.tries <= MaxRetry  \* mutant: one sleep more
MaySleep(r) == r.tries < MaxRetry

NeverGivesUp(c) ==  \* mutant: retry is not counted
  /\ lookups[c].pc = "wait" /\ endpoint = "ready"
  /\ Lookup(c, [lookups[c] EXCEPT !.pc = "asked"])
  /\ UNCHANGED <<endpoint, market, since, cache, quote>>
RetryUntil(c) ==
  LET r == lookups[c]
  IN  /\ r.pc = "wait"
      /\ \/ endpoint = "ready" /\ Lookup(c, [r EXCEPT !.pc = "asked"])
         \/ /\ endpoint # "ready" /\ MaySleep(r)
            /\ Lookup(c, [r EXCEPT !.tries = @ + 1])
         \/ endpoint # "ready" /\ ~MaySleep(r) /\ Priced(c, Null)
      /\ UNCHANGED <<endpoint, market, since, cache, quote>>

\* The exchange looks at its market.  It is asked for no symbol at all when
\* the token is not listed; the price is then Number(undefined).
ExchangeTells(c) ==
  LET t == quote[c]
  IN  /\ lookups[c].pc = "asked"
      /\ Lookup(c, [lookups[c] EXCEPT
                      !.pc = "told",
                      !.price = IF t \in Listed THEN market[t] ELSE NaN])
      /\ UNCHANGED <<endpoint, market, since, cache, quote>>

AnswerArrives(c) ==
  /\ lookups[c].pc = "told"
  /\ Cached(CacheKey(quote[c], TRUE), lookups[c].price)
  /\ Priced(c, lookups[c].price)
  /\ UNCHANGED <<endpoint, market, since, quote>>

\* The error is swallowed: undefined, then null.
RequestFails(c) ==
  /\ InFlight(c)
  /\ Priced(c, Null)
  /\ UNCHANGED <<endpoint, market, since, cache, quote>>

-----------------------------------------------------------------------------
(* The rest of the process and its environment                             *)

\* refresh_usdt_balance of the constructor, which nobody repeats.
BalanceFetched ==
  /\ endpoint = "starting"
  /\ endpoint' \in {"ready", "failed"}
  /\ UNCHANGED <<market, since, cache, quote, lookups>>

\* handleNativeCurrencyPriceEvent.
NativeCurrencyPrice(price) ==
  /\ Cached(CacheKey(Native, FALSE), price)
  /\ UNCHANGED <<endpoint, market, since, quote, lookups>>

MarketMoves(t, price) ==
  /\ price # market[t]
  /\ market' = [market EXCEPT ![t] = price]
  /\ since' = [since EXCEPT ![t][price] = 0]
  /\ UNCHANGED <<endpoint, cache, quote, lookups>>

\* Bound: a request does not take longer than Flight.
Tick ==
  /\ \A c \in Clients : /\ lookups[c].pc # "priced"
                        /\ InFlight(c) => lookups[c].age < Flight
  /\ since' = [t \in Listed |-> [p \in Prices |->
                 IF p = market[t] THEN 0
                 ELSE IF since[t][p] < MaxSince THEN since[t][p] + 1
                 ELSE MaxSince]]
  /\ cache' = [k \in Keys |->
                 [cache[k] EXCEPT !.ttl = IF @ > 0 THEN @ - 1 ELSE 0]]
  /\ lookups' = [c \in Clients |-> IF InFlight(c)
                                   THEN [lookups[c] EXCEPT !.age = @ + 1]
                                   ELSE lookups[c]]
  /\ UNCHANGED <<endpoint, market, quote>>

LookupStep(c) == \/ RetryUntil(c) \/ ExchangeTells(c)
                 \/ AnswerArrives(c) \/ RequestFails(c)

PricesNext ==
  \/ \E c \in Clients : LookupStep(c)
  \/ BalanceFetched \/ Tick
  \/ \E price \in FeedPrices : NativeCurrencyPrice(price)
  \/ \E t \in Listed, price \in Prices : MarketMoves(t, price)

-----------------------------------------------------------------------------
(* Properties                                                              *)

\* A price that getSymbolPriceUsd answers for a listed token is one its
\* market had at most the time of the cache and of a request ago, however
\* requests overlap and whatever prices the events bring.
RecentPrice ==
  \A c \in Clients :
    LET r == lookups[c]
    IN  (r.pc = "priced" /\ quote[c] \in Listed /\ r.price # Null)
          => /\ r.price \in Prices
             /\ since[quote[c]][r.price] <= Ttl + Flight

\* Every lookup comes to an answer, with or without the exchange.
LookupsReturn ==
  \A c \in Clients : lookups[c].pc = "wait" ~> lookups[c].pc = "priced"
=============================================================================
