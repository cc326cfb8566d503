-------------------------- MODULE TradeVolumeProofs --------------------------
(***************************************************************************)
(* Proofs about SymbolPrices and TradeVolume, for any clients, tokens,     *)
(* prices and bounds: their type correctness, that the prices answered are *)
(* recent, that the trades are sized by numbers within the budget, and     *)
(* that every step of a lookup brings it nearer to its answer.             *)
(***************************************************************************)
EXTENDS TradeVolume, Integers, TLAPS

-----------------------------------------------------------------------------
(* The invariant of the prices                                             *)

LookupType == [pc : {"idle", "wait", "asked", "told", "priced"},
               tries : 0..MaxRetry, age : 0..Flight, price : Answers]

\* A price the exchange has told of t, which the market had n ticks ago.
Worth(t, price, n) ==
  IF t \in Listed THEN price \in Prices /\ since[t][price] <= n
                  ELSE price = NaN

MarketInv == \A t \in Listed : since[t][market[t]] = 0

CacheInv ==
  \A t \in QuoteTokens : cache[t].ttl > 0
    => Worth(t, cache[t].price, Flight + (Ttl - cache[t].ttl))

ToldInv ==
  \A c \in Clients : lookups[c].pc = "told"
    => Worth(quote[c], lookups[c].price, lookups[c].age)

PricedInv ==
  \A c \in Clients : lookups[c].pc = "priced"
    => \/ lookups[c].price = Null
       \/ Kind[quote[c]] = "stable" /\ lookups[c].price = 1
       \/ Worth(quote[c], lookups[c].price, Ttl + Flight)

PricesInv ==
  PricesTypeOK /\ MarketInv /\ CacheInv /\ ToldInv /\ PricedInv

-----------------------------------------------------------------------------
LEMMA TypeFacts ==
  ASSUME PricesTypeOK
  PROVE  /\ endpoint \in {"starting", "ready", "failed"}
         /\ market \in [Listed -> Prices]
         /\ since \in [Listed -> [Prices -> 0..MaxSince]]
         /\ cache \in [Keys -> [price : Answers, ttl : 0..Ttl]]
         /\ quote \in [Clients -> QuoteTokens]
         /\ lookups \in [Clients -> LookupType]
         /\ Ttl \in Nat \ {0} /\ Flight \in Nat /\ MaxRetry \in Nat
         /\ MaxSince = Ttl + Flight + 1 /\ MaxSince \in Nat
         /\ QuoteTokens \subseteq Keys
  BY PricesAssumption DEF PricesTypeOK, LookupType, MaxSince, Keys

\* A client's lookup goes on and nothing else happens.
LEMMA LookupOnly ==
  ASSUME PricesTypeOK, NEW c \in Clients, NEW r \in LookupType, Lookup(c, r)
  PROVE  /\ lookups' \in [Clients -> LookupType]
         /\ lookups'[c] = r
         /\ \A d \in Clients : d # c => lookups'[d] = lookups[d]
  BY TypeFacts DEF Lookup

LEMMA LookupKeeps ==
  ASSUME PricesInv, NEW c \in Clients, NEW r \in LookupType, Lookup(c, r),
         UNCHANGED <<endpoint, market, since, cache, quote>>,
         r.pc = "told" => Worth(quote[c], r.price, r.age),
         r.pc = "priced" => \/ r.price = Null
                            \/ Kind[quote[c]] = "stable" /\ r.price = 1
                            \/ Worth(quote[c], r.price, Ttl + Flight)
  PROVE  PricesInv'
  <1>1. PricesTypeOK
    BY DEF PricesInv
  <1>2. /\ lookups' \in [Clients -> LookupType]
        /\ lookups'[c] = r
        /\ \A d \in Clients : d # c => lookups'[d] = lookups[d]
    BY <1>1, LookupOnly
  <1>3. PricesTypeOK'
    BY <1>1, <1>2 DEF PricesTypeOK, LookupType
  <1>4. MarketInv' /\ CacheInv'
    BY DEF PricesInv, MarketInv, CacheInv, Worth
  <1>5. ToldInv'
    BY <1>2 DEF PricesInv, ToldInv, Worth
  <1>6. PricedInv'
    BY <1>2 DEF PricesInv, PricedInv, Worth
  <1> QED BY <1>3, <1>4, <1>5, <1>6 DEF PricesInv

LEMMA PricedIsLookup ==
  ASSUME NEW price \in Answers
  PROVE  LET r == [NoLookup EXCEPT !.pc = "priced", !.price = price]
         IN  r \in LookupType /\ r.pc = "priced" /\ r.price = price
  <1>1. 0 \in 0..MaxRetry /\ 0 \in 0..Flight
    BY PricesAssumption
  <1> QED BY <1>1 DEF NoLookup, LookupType

LEMMA NullIsAnswer == Null \in Answers /\ NaN \in Answers /\ 1 \in Answers
  BY DEF Answers

LEMMA IdleKeeps ==
  ASSUME PricesInv, NEW c \in Clients, Lookup(c, NoLookup),
         UNCHANGED <<endpoint, market, since, cache, quote>>
  PROVE  PricesInv'
  <1>1. NoLookup \in LookupType /\ NoLookup.pc = "idle"
    BY PricesAssumption, NullIsAnswer DEF NoLookup, LookupType
  <1> QED BY <1>1, LookupKeeps

LEMMA PricedKeeps ==
  ASSUME PricesInv, NEW c \in Clients, NEW price \in Answers,
         Priced(c, price),
         UNCHANGED <<endpoint, market, since, cache, quote>>,
         \/ price = Null
         \/ Kind[quote[c]] = "stable" /\ price = 1
         \/ Worth(quote[c], price, Ttl + Flight)
  PROVE  PricesInv'
  <1> DEFINE r == [NoLookup EXCEPT !.pc = "priced", !.price = price]
  <1>1. r \in LookupType /\ r.pc = "priced" /\ r.price = price
    BY PricedIsLookup
  <1>2. Lookup(c, r)
    BY DEF Priced
  <1> HIDE DEF r
  <1> QED BY <1>1, <1>2, LookupKeeps

-----------------------------------------------------------------------------
(* The steps of a lookup                                                   *)

LEMMA GetKeeps ==
  ASSUME PricesInv, NEW c \in Clients, GetSymbolPriceUsd(c),
         UNCHANGED <<endpoint, market, since, cache, quote>>
  PROVE  PricesInv'
  <1> DEFINE t == quote[c]
  <1>0. t \in QuoteTokens /\ t \in Keys /\ PricesTypeOK
    BY TypeFacts DEF PricesInv
  <1>1. CASE Kind[t] = "stable"
    <2>1. Priced(c, 1)
      BY <1>1 DEF GetSymbolPriceUsd
    <2> QED BY <1>1, <2>1, PricedKeeps, NullIsAnswer
  <1>2. CASE Kind[t] # "stable" /\ cache[t].ttl > 0
    <2>1. Priced(c, cache[t].price)
      BY <1>2 DEF GetSymbolPriceUsd, CacheKey
    <2>2. Worth(t, cache[t].price, Flight + (Ttl - cache[t].ttl))
      BY <1>0, <1>2 DEF PricesInv, CacheInv
    <2>3. cache[t] \in [price : Answers, ttl : 0..Ttl]
      BY <1>0, TypeFacts
    <2>4. Worth(t, cache[t].price, Ttl + Flight)
      <3>1. CASE t \in Listed
        <4>1. since[t][cache[t].price] \in 0..MaxSince
          BY <1>0, <2>2, <3>1, TypeFacts DEF Worth
        <4>2. /\ since[t][cache[t].price] <= Flight + (Ttl - cache[t].ttl)
              /\ cache[t].price \in Prices
          BY <2>2, <3>1 DEF Worth
        <4>3. Ttl \in Nat /\ Flight \in Nat /\ MaxSince \in Nat
              /\ cache[t].ttl \in Nat
          BY <1>0, <2>3, TypeFacts
        <4>4. since[t][cache[t].price] <= Ttl + Flight
          BY <4>1, <4>2, <4>3
        <4> QED BY <3>1, <4>2, <4>4 DEF Worth
      <3> QED BY <2>2, <3>1 DEF Worth
    <2> HIDE DEF t
    <2>5. cache[t].price \in Answers
      BY <2>3
    <2> QED BY <2>1, <2>4, <2>5, PricedKeeps DEF t
  <1>3. CASE Kind[t] = "unknown" /\ ~(cache[t].ttl > 0)
    <2>1. Priced(c, Null)
      BY <1>3 DEF GetSymbolPriceUsd, CacheKey
    <2> QED BY <2>1, PricedKeeps, NullIsAnswer
  <1>4. CASE Kind[t] \notin {"stable", "unknown"} /\ ~(cache[t].ttl > 0)
    <2> DEFINE r == [NoLookup EXCEPT !.pc = "wait"]
    <2>1. Lookup(c, r)
      BY <1>4 DEF GetSymbolPriceUsd, CacheKey
    <2>2. r \in LookupType /\ r.pc = "wait"
      BY PricesAssumption, NullIsAnswer DEF NoLookup, LookupType
    <2> HIDE DEF r
    <2> QED BY <2>1, <2>2, LookupKeeps
  <1> QED BY <1>1, <1>2, <1>3, <1>4

LEMMA RetryKeeps ==
  ASSUME PricesInv, NEW c \in Clients, RetryUntil(c) PROVE PricesInv'
  <1> DEFINE r == lookups[c]
  <1>0. r \in LookupType /\ MaxRetry \in Nat
    BY TypeFacts DEF PricesInv
  <1>1. r.pc = "wait" /\ UNCHANGED <<endpoint, market, since, cache, quote>>
    BY DEF RetryUntil
  <1>2. CASE Lookup(c, [r EXCEPT !.pc = "asked"])
    <2> DEFINE s == [r EXCEPT !.pc = "asked"]
    <2>1. s \in LookupType /\ s.pc = "asked" /\ Lookup(c, s)
      BY <1>0, <1>2 DEF LookupType
    <2> HIDE DEF s
    <2> QED BY <1>1, <2>1, LookupKeeps
  <1>3. CASE MaySleep(r) /\ Lookup(c, [r EXCEPT !.tries = @ + 1])
    <2> DEFINE s == [r EXCEPT !.tries = @ + 1]
    <2>1. r.tries + 1 \in 0..MaxRetry
      BY <1>0, <1>3 DEF LookupType, MaySleep
    <2>2. s \in LookupType /\ s.pc = "wait" /\ Lookup(c, s)
      BY <1>0, <1>1, <1>3, <2>1 DEF LookupType
    <2> HIDE DEF s
    <2> QED BY <1>1, <2>2, LookupKeeps
  <1>4. CASE Priced(c, Null)
    BY <1>1, <1>4, PricedKeeps, NullIsAnswer
  <1> QED BY <1>2, <1>3, <1>4 DEF RetryUntil

LEMMA TellsKeeps ==
  ASSUME PricesInv, NEW c \in Clients, ExchangeTells(c) PROVE PricesInv'
  <1> DEFINE t == quote[c]
             price == IF t \in Listed THEN market[t] ELSE NaN
             r == [lookups[c] EXCEPT !.pc = "told", !.price = price]
  <1>1. Lookup(c, r) /\ UNCHANGED <<endpoint, market, since, cache, quote>>
    BY DEF ExchangeTells
  <1>2. price \in Answers /\ lookups[c] \in LookupType
    BY TypeFacts, PricesAssumption DEF PricesInv, Answers
  <1>3. Worth(t, price, 0)
    BY TypeFacts DEF PricesInv, MarketInv, Worth
  <1> HIDE DEF t, price
  <1>4. r \in LookupType /\ r.pc = "told" /\ r.price = price
        /\ r.age = lookups[c].age
    BY <1>2 DEF LookupType
  <1> HIDE DEF r
  <1>5. Worth(t, price, r.age)
    <2>1. CASE t \in Listed
      <3>1. 0 <= r.age
        BY <1>4, TypeFacts DEF LookupType, PricesInv
      <3>2. since[t][price] = 0
        BY <1>3, <2>1, TypeFacts DEF Worth, PricesInv
      <3> QED BY <1>3, <2>1, <3>1, <3>2 DEF Worth
    <2> QED BY <1>3, <2>1 DEF Worth
  <1> QED BY <1>1, <1>4, <1>5, LookupKeeps DEF t

LEMMA AnswerKeeps ==
  ASSUME PricesInv, NEW c \in Clients, AnswerArrives(c) PROVE PricesInv'
  <1> DEFINE t == quote[c]
             price == lookups[c].price
             entry == [price |-> price, ttl |-> Ttl]
             r == [NoLookup EXCEPT !.pc = "priced", !.price = price]
  <1>0. PricesTypeOK
    BY DEF PricesInv
  <1>1. /\ UNCHANGED <<endpoint, market, since, quote>>
        /\ cache' = [cache EXCEPT ![t] = entry]
        /\ Lookup(c, r)
    BY DEF AnswerArrives, Cached, CacheKey, Priced
  <1>2. t \in QuoteTokens /\ t \in Keys /\ lookups[c] \in LookupType
        /\ price \in Answers
    BY <1>0, TypeFacts DEF LookupType
  <1>3. Worth(t, price, lookups[c].age)
    BY DEF PricesInv, ToldInv, AnswerArrives
  <1>4. entry \in [price : Answers, ttl : 0..Ttl] /\ entry.price = price
        /\ entry.ttl = Ttl
    BY <1>0, <1>2, TypeFacts
  <1>5. Worth(t, price, Flight) /\ Worth(t, price, Ttl + Flight)
        /\ Worth(t, price, Flight + (Ttl - Ttl))
    <2>1. CASE t \in Listed
      <3>1. price \in Prices /\ since[t][price] \in 0..MaxSince
        BY <1>0, <1>3, <2>1, TypeFacts DEF Worth
      <3>2. lookups[c].age \in 0..Flight
        BY <1>2 DEF LookupType
      <3>3. since[t][price] <= lookups[c].age
        BY <1>3, <2>1 DEF Worth
      <3>4. Ttl \in Nat /\ Flight \in Nat /\ MaxSince \in Nat
        BY <1>0, TypeFacts
      <3>5. since[t][price] <= Flight /\ since[t][price] <= Ttl + Flight
            /\ since[t][price] <= Flight + (Ttl - Ttl)
        BY <3>1, <3>2, <3>3, <3>4
      <3> QED BY <2>1, <3>1, <3>5 DEF Worth
    <2> QED BY <1>3, <2>1 DEF Worth
  <1>6. r \in LookupType /\ r.pc = "priced" /\ r.price = price
    BY <1>2, PricedIsLookup
  <1> HIDE DEF r, entry, price, t
  <1>7. /\ cache' \in [Keys -> [price : Answers, ttl : 0..Ttl]]
        /\ \A k \in Keys : cache'[k] = IF k = t THEN entry ELSE cache[k]
    BY <1>0, <1>1, <1>2, <1>4, TypeFacts
  <1>8. /\ lookups' \in [Clients -> LookupType]
        /\ lookups'[c] = r
        /\ \A d \in Clients : d # c => lookups'[d] = lookups[d]
    BY <1>0, <1>1, <1>6, LookupOnly
  <1>9. PricesTypeOK'
    BY <1>0, <1>1, <1>7, <1>8 DEF PricesTypeOK, LookupType
  <1>10. MarketInv'
    BY <1>1 DEF PricesInv, MarketInv
  <1>11. CacheInv'
    <2> SUFFICES ASSUME NEW u \in QuoteTokens, cache'[u].ttl > 0
                 PROVE  Worth(u, cache'[u].price,
                              Flight + (Ttl - cache'[u].ttl))
      BY <1>1 DEF CacheInv, Worth
    <2>1. CASE u = t
      BY <1>2, <1>4, <1>5, <1>7, <2>1
    <2>2. CASE u # t
      <3>1. cache'[u] = cache[u]
        BY <1>7, <2>2, TypeFacts, <1>0
      <3> QED BY <3>1 DEF PricesInv, CacheInv
    <2> QED BY <2>1, <2>2
  <1>12. ToldInv'
    BY <1>1, <1>6, <1>8 DEF PricesInv, ToldInv, Worth
  <1>13. PricedInv'
    <2> SUFFICES ASSUME NEW d \in Clients, lookups'[d].pc = "priced"
                 PROVE  \/ lookups'[d].price = Null
                        \/ Kind[quote[d]] = "stable" /\ lookups'[d].price = 1
                        \/ Worth(quote[d], lookups'[d].price, Ttl + Flight)
      BY <1>1 DEF PricedInv, Worth
    <2>1. CASE d = c
      BY <1>5, <1>6, <1>8, <2>1 DEF t
    <2>2. CASE d # c
      BY <1>8, <2>2 DEF PricesInv, PricedInv
    <2> QED BY <2>1, <2>2
  <1> QED BY <1>9, <1>10, <1>11, <1>12, <1>13 DEF PricesInv

LEMMA FailKeeps ==
  ASSUME PricesInv, NEW c \in Clients, RequestFails(c) PROVE PricesInv'
  BY PricedKeeps, NullIsAnswer DEF RequestFails

-----------------------------------------------------------------------------
(* The environment                                                         *)

LEMMA BalanceKeeps == ASSUME PricesInv, BalanceFetched PROVE PricesInv'
  <1> USE DEF BalanceFetched
  <1>1. PricesTypeOK'
    BY DEF PricesInv, PricesTypeOK
  <1>2. MarketInv' /\ CacheInv' /\ ToldInv' /\ PricedInv'
    BY DEF PricesInv, MarketInv, CacheInv, ToldInv, PricedInv, Worth
  <1> QED BY <1>1, <1>2 DEF PricesInv

LEMMA NativeKeeps ==
  ASSUME PricesInv, NEW price \in FeedPrices, NativeCurrencyPrice(price)
  PROVE  PricesInv'
  <1> DEFINE entry == [price |-> price, ttl |-> Ttl]
  <1>0. PricesTypeOK
    BY DEF PricesInv
  <1>1. /\ UNCHANGED <<endpoint, market, since, quote, lookups>>
        /\ cache' = [cache EXCEPT ![NoAddress] = entry]
    BY DEF NativeCurrencyPrice, Cached, CacheKey
  <1>2. entry \in [price : Answers, ttl : 0..Ttl]
    BY PricesAssumption DEF Answers
  <1> HIDE DEF entry
  <1>3. /\ cache' \in [Keys -> [price : Answers, ttl : 0..Ttl]]
        /\ \A k \in QuoteTokens : cache'[k] = cache[k]
    BY <1>0, <1>1, <1>2, TypeFacts, PricesAssumption DEF Keys
  <1>4. PricesTypeOK'
    BY <1>0, <1>1, <1>3 DEF PricesTypeOK
  <1>5. MarketInv' /\ ToldInv' /\ PricedInv'
    BY <1>1 DEF PricesInv, MarketInv, ToldInv, PricedInv, Worth
  <1>6. CacheInv'
    BY <1>1, <1>3 DEF PricesInv, CacheInv, Worth
  <1> QED BY <1>4, <1>5, <1>6 DEF PricesInv

LEMMA MarketKeeps ==
  ASSUME PricesInv, NEW t \in Listed, NEW price \in Prices,
         MarketMoves(t, price)
  PROVE  PricesInv'
  <1> DEFINE f == since[t]
             g == [f EXCEPT ![price] = 0]
  <1>0. PricesTypeOK
    BY DEF PricesInv
  <1>1. /\ UNCHANGED <<endpoint, cache, quote, lookups>>
        /\ market' = [market EXCEPT ![t] = price]
        /\ since' = [since EXCEPT ![t] = g]
    BY DEF MarketMoves
  <1>2. f \in [Prices -> 0..MaxSince] /\ MaxSince \in Nat
    BY <1>0, TypeFacts
  <1>a. since[t] = f
    OBVIOUS
  <1> HIDE DEF f
  <1>3. g \in [Prices -> 0..MaxSince] /\ g[price] = 0
        /\ \A p \in Prices : p # price => g[p] = f[p]
    BY <1>2
  <1>4. \A p \in Prices : g[p] <= f[p]
    BY <1>2, <1>3
  <1> HIDE DEF g
  <1>5. /\ market' \in [Listed -> Prices] /\ market'[t] = price
        /\ \A u \in Listed : u # t => market'[u] = market[u]
    BY <1>0, <1>1, TypeFacts
  <1>6. /\ since' \in [Listed -> [Prices -> 0..MaxSince]] /\ since'[t] = g
        /\ \A u \in Listed : u # t => since'[u] = since[u]
    BY <1>0, <1>1, <1>3, TypeFacts
  <1>7. PricesTypeOK'
    BY <1>0, <1>1, <1>5, <1>6 DEF PricesTypeOK, Listed
  <1>8. MarketInv'
    <2>1. \A u \in Listed : since'[u][market'[u]] = 0
      BY <1>3, <1>5, <1>6 DEF PricesInv, MarketInv
    <2> QED BY <2>1 DEF MarketInv
  <1>9. \A u \in Listed, p \in Prices :
          /\ since[u][p] \in Nat /\ since'[u][p] \in Nat
          /\ since'[u][p] <= since[u][p]
    <2>1. \A u \in Listed, p \in Prices : since[u][p] \in 0..MaxSince
                                          /\ since'[u][p] \in 0..MaxSince
      BY <1>0, <1>6, TypeFacts
    <2>2. \A u \in Listed, p \in Prices : since'[u][p] <= since[u][p]
      BY <1>2, <1>4, <1>6, <1>a, <2>1
    <2> QED BY <1>2, <2>1, <2>2
  <1>10. \A u, p : \A n \in Int : Worth(u, p, n) => Worth(u, p, n)'
    <2> SUFFICES ASSUME NEW u, NEW p, NEW n \in Int, Worth(u, p, n)
                 PROVE  Worth(u, p, n)'
      OBVIOUS
    <2>1. CASE u \in Listed
      <3>1. p \in Prices /\ since[u][p] <= n
        BY <2>1 DEF Worth
      <3>2. since'[u][p] <= n
        BY <1>9, <2>1, <3>1
      <3> QED BY <2>1, <3>1, <3>2 DEF Worth
    <2> QED BY <2>1 DEF Worth
  <1>11. CacheInv'
    <2> SUFFICES ASSUME NEW u \in QuoteTokens, cache[u].ttl > 0
                 PROVE  Worth(u, cache[u].price,
                              Flight + (Ttl - cache[u].ttl))'
      BY <1>1 DEF CacheInv
    <2>1. cache[u] \in [price : Answers, ttl : 0..Ttl]
      BY <1>0, TypeFacts
    <2>2. Flight + (Ttl - cache[u].ttl) \in Int
      BY <2>1, TypeFacts, <1>0
    <2>3. Worth(u, cache[u].price, Flight + (Ttl - cache[u].ttl))
      BY DEF PricesInv, CacheInv
    <2>4. cache' = cache
      BY <1>1
    <2> DEFINE n == Flight + (Ttl - cache[u].ttl)
    <2>5. n \in Int /\ Worth(u, cache[u].price, n) /\ n' = n
      BY <2>2, <2>3, <2>4
    <2> HIDE DEF n
    <2>6. Worth(u, cache[u].price, n)'
      BY <1>10, <2>4, <2>5 DEF Worth
    <2> QED BY <2>6 DEF n
  <1>12. ToldInv'
    <2> SUFFICES ASSUME NEW c \in Clients, lookups[c].pc = "told"
                 PROVE  Worth(quote[c], lookups[c].price, lookups[c].age)'
      BY <1>1 DEF ToldInv
    <2>1. lookups[c].age \in Int
      BY <1>0, TypeFacts DEF LookupType
    <2>2. Worth(quote[c], lookups[c].price, lookups[c].age)
      BY DEF PricesInv, ToldInv
    <2> QED BY <1>1, <1>10, <2>1, <2>2 DEF Worth
  <1>13. PricedInv'
    <2> SUFFICES ASSUME NEW c \in Clients, lookups[c].pc = "priced",
                        lookups[c].price # Null,
                        ~(Kind[quote[c]] = "stable" /\ lookups[c].price = 1)
                 PROVE  Worth(quote[c], lookups[c].price, Ttl + Flight)'
      BY <1>1 DEF PricedInv
    <2>1. Ttl + Flight \in Int
      BY <1>0, TypeFacts
    <2>2. Worth(quote[c], lookups[c].price, Ttl + Flight)
      BY DEF PricesInv, PricedInv
    <2> QED BY <1>1, <1>10, <2>1, <2>2 DEF Worth
  <1> QED BY <1>7, <1>8, <1>11, <1>12, <1>13 DEF PricesInv

LEMMA TickKeeps == ASSUME PricesInv, Tick PROVE PricesInv'
  <1>0. PricesTypeOK
    BY DEF PricesInv
  <1>1. /\ UNCHANGED <<endpoint, market, quote>>
        /\ \A c \in Clients : /\ lookups[c].pc # "priced"
                              /\ InFlight(c) => lookups[c].age < Flight
    BY DEF Tick
  <1>2. MaxSince \in Nat /\ Ttl \in Nat /\ Flight \in Nat
        /\ MaxSince = Ttl + Flight + 1
    BY <1>0, TypeFacts
  <1>3. \A t \in Listed, p \in Prices :
          /\ since[t][p] \in 0..MaxSince
          /\ since'[t][p] = IF p = market[t] THEN 0
                            ELSE IF since[t][p] < MaxSince
                                 THEN since[t][p] + 1 ELSE MaxSince
    BY <1>0, TypeFacts DEF Tick
  <1>4. \A t \in Listed, p \in Prices : /\ since'[t][p] \in 0..MaxSince
                                        /\ since'[t][p] <= since[t][p] + 1
    BY <1>2, <1>3
  <1>5. since' \in [Listed -> [Prices -> 0..MaxSince]]
    <2>1. since' = [t \in Listed |-> [p \in Prices |->
                     IF p = market[t] THEN 0
                     ELSE IF since[t][p] < MaxSince THEN since[t][p] + 1
                     ELSE MaxSince]]
      BY DEF Tick
    <2> QED BY <1>2, <1>3, <2>1
  <1>6. \A k \in Keys :
          /\ cache[k] \in [price : Answers, ttl : 0..Ttl]
          /\ cache'[k] = [cache[k] EXCEPT !.ttl = IF @ > 0 THEN @ - 1 ELSE 0]
    BY <1>0, TypeFacts DEF Tick
  <1>7. \A k \in Keys :
          /\ cache'[k] \in [price : Answers, ttl : 0..Ttl]
          /\ cache'[k].price = cache[k].price
          /\ cache'[k].ttl > 0 => cache[k].ttl > 0
                                  /\ cache'[k].ttl = cache[k].ttl - 1
    <2> SUFFICES ASSUME NEW k \in Keys
                 PROVE  /\ cache'[k] \in [price : Answers, ttl : 0..Ttl]
                        /\ cache'[k].price = cache[k].price
                        /\ cache'[k].ttl > 0
                             => cache[k].ttl > 0
                                /\ cache'[k].ttl = cache[k].ttl - 1
      OBVIOUS
    <2> DEFINE e == cache[k]
               d == cache'[k]
               n == IF e.ttl > 0 THEN e.ttl - 1 ELSE 0
    <2>1. e \in [price : Answers, ttl : 0..Ttl] /\ d = [e EXCEPT !.ttl = n]
      BY <1>6
    <2> HIDE DEF e, d
    <2>2. e.ttl \in 0..Ttl
      BY <2>1
    <2>3. n \in 0..Ttl /\ (n > 0 => e.ttl > 0 /\ n = e.ttl - 1)
      BY <1>2, <2>2
    <2> HIDE DEF n
    <2>4. d \in [price : Answers, ttl : 0..Ttl] /\ d.price = e.price
          /\ d.ttl = n
      BY <2>1, <2>3
    <2> QED BY <2>3, <2>4 DEF e, d
  <1>8. \A c \in Clients :
          /\ lookups[c] \in LookupType
          /\ lookups'[c] = IF InFlight(c)
                           THEN [lookups[c] EXCEPT !.age = @ + 1]
                           ELSE lookups[c]
    BY <1>0, TypeFacts DEF Tick
  <1>9. \A c \in Clients :
          /\ lookups'[c] \in LookupType
          /\ lookups'[c].pc = lookups[c].pc
          /\ lookups'[c].price = lookups[c].price
          /\ InFlight(c) => lookups'[c].age = lookups[c].age + 1
    <2> SUFFICES ASSUME NEW c \in Clients
                 PROVE  /\ lookups'[c] \in LookupType
                        /\ lookups'[c].pc = lookups[c].pc
                        /\ lookups'[c].price = lookups[c].price
                        /\ InFlight(c)
                             => lookups'[c].age = lookups[c].age + 1
      OBVIOUS
    <2> DEFINE l == lookups[c]
               m == lookups'[c]
    <2>1. CASE InFlight(c)
      <3>1. m = [l EXCEPT !.age = @ + 1] /\ l \in LookupType /\ l.age < Flight
        BY <1>1, <1>8, <2>1
      <3> HIDE DEF l, m
      <3>2. l.age \in 0..Flight
        BY <3>1 DEF LookupType
      <3>3. l.age + 1 \in 0..Flight
        BY <1>2, <3>1, <3>2
      <3>4. m \in LookupType /\ m.pc = l.pc /\ m.price = l.price
            /\ m.age = l.age + 1
        BY <3>1, <3>3 DEF LookupType
      <3> QED BY <3>4 DEF l, m
    <2>2. CASE ~InFlight(c)
      BY <1>8, <2>2
    <2> QED BY <2>1, <2>2
  <1>10. PricesTypeOK'
    <2>1. cache' \in [Keys -> [price : Answers, ttl : 0..Ttl]]
      <3>1. cache' = [k \in Keys |-> cache'[k]]
        BY DEF Tick
      <3> QED BY <1>7, <3>1
    <2>2. lookups' \in [Clients -> LookupType]
      <3>1. lookups' = [c \in Clients |-> lookups'[c]]
        BY DEF Tick
      <3> QED BY <1>9, <3>1
    <2> QED BY <1>0, <1>1, <1>5, <2>1, <2>2 DEF PricesTypeOK, LookupType
  <1>11. MarketInv'
    <2>1. \A t \in Listed : since'[t][market[t]] = 0
      BY <1>0, <1>3, TypeFacts
    <2> QED BY <1>1, <2>1 DEF MarketInv
  <1>12. \A t, p : \A n \in Int :
           Worth(t, p, n)
             => IF t \in Listed THEN p \in Prices /\ since'[t][p] <= n + 1
                                ELSE p = NaN
    <2> SUFFICES ASSUME NEW t, NEW p, NEW n \in Int, Worth(t, p, n)
                 PROVE  IF t \in Listed
                        THEN p \in Prices /\ since'[t][p] <= n + 1
                        ELSE p = NaN
      OBVIOUS
    <2>1. CASE t \in Listed
      <3>1. p \in Prices /\ since[t][p] <= n
        BY <2>1 DEF Worth
      <3>2. since'[t][p] <= n + 1
        BY <1>2, <1>3, <1>4, <2>1, <3>1
      <3> QED BY <2>1, <3>1, <3>2
    <2> QED BY <2>1 DEF Worth
  <1>13. CacheInv'
    <2> SUFFICES ASSUME NEW t \in QuoteTokens, cache'[t].ttl > 0
                 PROVE  Worth(t, cache[t].price,
                              Flight + (Ttl - cache[t].ttl))'
      BY DEF CacheInv
    <2> DEFINE n == Flight + (Ttl - cache[t].ttl)
    <2>1. t \in Keys
      BY DEF Keys
    <2>2. cache[t].ttl > 0 /\ cache'[t].ttl = cache[t].ttl - 1
          /\ cache[t].ttl \in 0..Ttl /\ cache'[t].price = cache[t].price
      BY <1>6, <1>7, <2>1
    <2>3. n \in Int /\ n' = n + 1
      BY <1>2, <2>2
    <2>4. Worth(t, cache[t].price, n)
      BY <2>2 DEF PricesInv, CacheInv
    <2> HIDE DEF n
    <2>5. Worth(t, cache[t].price, n)'
      BY <1>12, <2>2, <2>3, <2>4 DEF Worth
    <2> QED BY <2>5 DEF n
  <1>14. ToldInv'
    <2> SUFFICES ASSUME NEW c \in Clients, lookups'[c].pc = "told"
                 PROVE  Worth(quote[c], lookups[c].price, lookups[c].age)'
      BY DEF ToldInv
    <2>1. lookups[c].pc = "told" /\ InFlight(c)
      BY <1>9 DEF InFlight
    <2>2. lookups'[c].age = lookups[c].age + 1
          /\ lookups'[c].price = lookups[c].price
      BY <1>9, <2>1
    <2>4. lookups[c].age \in Int
      <3>1. lookups[c] \in LookupType
        BY <1>8
      <3>2. lookups[c].age \in 0..Flight
        BY <3>1 DEF LookupType
      <3> QED BY <3>2
    <2>3. Worth(quote[c], lookups[c].price, lookups[c].age)
      BY <2>1 DEF PricesInv, ToldInv
    <2> QED BY <1>1, <1>12, <2>2, <2>3, <2>4 DEF Worth
  <1>15. PricedInv'
    BY <1>1, <1>9 DEF PricedInv
  <1> QED BY <1>10, <1>11, <1>13, <1>14, <1>15 DEF PricesInv

-----------------------------------------------------------------------------
LEMMA InitPrices == ASSUME PricesInit PROVE PricesInv
  <1> USE DEF PricesInit
  <1>1. MaxSince \in Nat /\ Ttl \in Nat /\ Flight \in Nat /\ MaxRetry \in Nat
    BY PricesAssumption DEF MaxSince
  <1>2. NoLookup \in LookupType /\ NoEntry \in [price : Answers, ttl : 0..Ttl]
    BY <1>1, NullIsAnswer DEF NoLookup, NoEntry, LookupType
  <1>3. \A c \in Clients : lookups[c].pc = "idle"
    BY DEF NoLookup
  <1>4. \A k \in Keys : cache[k].ttl = 0
    BY DEF NoEntry
  <1>5. PricesTypeOK
    <2>1. since \in [Listed -> [Prices -> 0..MaxSince]]
      BY <1>1
    <2> QED BY <1>2, <2>1 DEF PricesTypeOK, LookupType
  <1>6. MarketInv
    BY DEF MarketInv
  <1>7. CacheInv
    BY <1>4 DEF CacheInv, Keys
  <1>8. ToldInv /\ PricedInv
    BY <1>3 DEF ToldInv, PricedInv
  <1> QED BY <1>5, <1>6, <1>7, <1>8 DEF PricesInv

LEMMA PricesNextKeeps == ASSUME PricesInv, PricesNext PROVE PricesInv'
  BY RetryKeeps, TellsKeeps, AnswerKeeps, FailKeeps, BalanceKeeps, TickKeeps,
     NativeKeeps, MarketKeeps DEF PricesNext, LookupStep

-----------------------------------------------------------------------------
(* Arithmetic                                                              *)

LEMMA Bounds ==
  /\ Unit \in Nat \ {0} /\ MinBudget \in Nat \ {0} /\ MaxBudget \in Nat \ {0}
  /\ SafeLp \in Nat \ {0} /\ Percent \in Nat \ {0} /\ MinBudget <= MaxBudget
  /\ Liquidity \subseteq Nat /\ Rates \subseteq Nat \ {0}
  /\ Prices \subseteq Nat \ {0} /\ NaN \notin Nat /\ Null \notin Nat
  BY VolumeAssumption, PricesAssumption

\* Where a division is exact, Over is the quotient.
LEMMA OverIsExact ==
  ASSUME NEW a \in Nat, NEW b \in Nat, \E q \in 0..a : q * b = a
  PROVE  Over(a, b) \in 0..a /\ Over(a, b) * b = a
  <1>1. a # NaN /\ b # NaN
    BY Bounds
  <1>2. Over(a, b) = CHOOSE q \in 0..a : q * b = a
    BY <1>1 DEF Over
  <1> QED BY <1>2

LEMMA Multiply ==
  ASSUME NEW a \in Nat, NEW b \in Nat, NEW c \in Nat
  PROVE  /\ a * b \in Nat /\ (a * b) * c = a * (b * c)
         /\ a * c = c * a
         /\ a <= b => a * c <= b * c
         /\ a > 0 /\ b > 0 => a * b > 0
  OBVIOUS

\* A budget is worth a whole number of units at every price.
LEMMA BudgetDivides ==
  ASSUME NEW usd \in Nat, NEW price \in Prices \cup {1}
  PROVE  \E q \in 0..(usd * Unit) : q * price = usd * Unit
  <1>1. CASE price = 1
    <2>1. usd * Unit \in Nat
      BY Bounds
    <2> QED BY <1>1, <2>1
  <1>2. CASE price \in Prices
    <2>1. PICK q \in 0..Unit : q * price = Unit
      BY <1>2, VolumeAssumption
    <2>2. /\ usd * q \in Nat /\ (usd * q) * price = usd * (q * price)
          /\ usd * Unit \in Nat
      BY <1>2, <2>1, Multiply, Bounds
    <2>3. usd * q <= usd * Unit
      <3>1. q \in Nat /\ q <= Unit
        BY <2>1, Bounds
      <3>2. q * usd <= Unit * usd /\ q * usd = usd * q /\ Unit * usd = usd * Unit
        BY <3>1, Multiply, Bounds
      <3> QED BY <3>2
    <2>4. usd * q \in 0..(usd * Unit) /\ (usd * q) * price = usd * Unit
      BY <2>1, <2>2, <2>3
    <2> QED BY <2>4
  <1> QED BY <1>1, <1>2

\* The budget a liquidity leaves.
LEMMA VolumeInBudget ==
  ASSUME NEW lp \in Liquidity
  PROVE  MaxVolInUsd(lp) \in Nat /\ MaxVolInUsd(lp) <= MaxBudget
  <1>1. /\ lp * Percent \in Nat
        /\ \E q \in 0..(lp * Percent) : q * 100 = lp * Percent
    <2>1. lp \in Nat /\ Percent \in Nat
      BY Bounds
    <2>2. lp * Percent \in Nat
      BY <2>1, Multiply
    <2>3. \A x \in Liquidity :
            \E q \in 0..(x * Percent) : q * 100 = x * Percent
      BY VolumeAssumption
    <2> QED BY <2>2, <2>3
  <1>2. Over(lp * Percent, 100) \in 0..(lp * Percent)
    BY <1>1, OverIsExact
  <1> DEFINE a == Over(lp * Percent, 100)
  <1>3. a \in Nat
    BY <1>1, <1>2
  <1> HIDE DEF a
  <1>4. MaxVolInUsd(lp) = Smaller(MaxBudget, a)
    BY DEF MaxVolInUsd, a
  <1>5. Smaller(MaxBudget, a) = IF MaxBudget < a THEN MaxBudget ELSE a
    BY <1>3, Bounds DEF Smaller
  <1> QED BY <1>3, <1>4, <1>5, Bounds

-----------------------------------------------------------------------------
(* The invariant of the positions                                          *)

PositionType == [phase : {"none", "open", "closed"}, usd : Nat,
                 paid : Nat \cup {NaN}, price : Answers,
                 vol : Nat \cup {NaN}, sold : Nat \cup {NaN}]

Entered(r) ==
  /\ r.paid \in Nat /\ r.price \in Nat /\ r.vol \in Nat /\ r.vol > 0
  /\ MinBudget * Unit <= r.paid * r.price
  /\ r.paid * r.price <= MaxBudget * Unit

Exited(r) == r.sold \in Nat /\ r.sold > 0 /\ r.sold <= r.vol

Budgeted(r) == MinBudget <= r.usd /\ r.usd <= MaxBudget

Sized(r) == /\ r.phase # "none" => Entered(r)
            /\ r.phase = "closed" => Exited(r)

VolumeInv ==
  /\ PricesInv
  /\ positions \in [Clients -> PositionType]
  /\ \A c \in Clients : /\ Sized(positions[c])
                        /\ lookups[c].pc # "idle" => Budgeted(positions[c])

\* Where a step changes only the position of c, and that in a fit way.
LEMMA PositionKeeps ==
  ASSUME VolumeInv, PricesInv', NEW c \in Clients, NEW r \in PositionType,
         positions' = [positions EXCEPT ![c] = r], Sized(r),
         lookups'[c].pc # "idle" => Budgeted(r),
         \A d \in Clients : d # c => lookups'[d] = lookups[d]
  PROVE  VolumeInv'
  <1>1. /\ positions' \in [Clients -> PositionType]
        /\ positions'[c] = r
        /\ \A d \in Clients : d # c => positions'[d] = positions[d]
    BY DEF VolumeInv
  <1>2. \A d \in Clients : /\ Sized(positions'[d])
                           /\ lookups'[d].pc # "idle"
                                => Budgeted(positions'[d])
    BY <1>1 DEF VolumeInv
  <1> QED BY <1>1, <1>2 DEF VolumeInv, Sized, Entered, Exited, Budgeted,
          PositionType, Answers

LEMMA PriceOfLookup ==
  ASSUME PricesInv, NEW c \in Clients, lookups[c].pc = "priced",
         lookups[c].price # Null
  PROVE  lookups[c].price \in Prices \cup {1, NaN}
  BY DEF PricesInv, PricedInv, Worth

-----------------------------------------------------------------------------
LEMMA ValidateKeeps ==
  ASSUME VolumeInv, NEW c \in Clients, NEW lp \in Liquidity,
         ValidateQuotation(c, lp)
  PROVE  VolumeInv'
  <1> DEFINE r == [positions[c] EXCEPT !.usd = MaxVolInUsd(lp)]
  <1>1. MaxVolInUsd(lp) \in Nat /\ MaxVolInUsd(lp) <= MaxBudget
        /\ MaxVolInUsd(lp) >= MinBudget
    BY VolumeInBudget DEF ValidateQuotation
  <1>2. positions[c] \in PositionType /\ Sized(positions[c])
    BY DEF VolumeInv
  <1>3. r \in PositionType /\ Sized(r) /\ Budgeted(r)
    BY <1>1, <1>2 DEF PositionType, Sized, Entered, Exited, Budgeted
  <1>4. PricesInv'
    BY GetKeeps DEF VolumeInv, ValidateQuotation
  <1>5. \A d \in Clients : d # c => lookups'[d] = lookups[d]
    BY TypeFacts DEF VolumeInv, PricesInv, ValidateQuotation,
       GetSymbolPriceUsd, Priced, Lookup
  <1>6. positions' = [positions EXCEPT ![c] = r]
    BY DEF ValidateQuotation
  <1> HIDE DEF r
  <1> QED BY <1>3, <1>4, <1>5, <1>6, PositionKeeps

LEMMA GiveUpKeeps ==
  ASSUME VolumeInv, NEW c \in Clients, GiveUp(c) PROVE VolumeInv'
  <1> DEFINE r == [positions[c] EXCEPT !.usd = 0]
  <1>1. positions[c] \in PositionType /\ Sized(positions[c])
    BY DEF VolumeInv
  <1>2. r \in PositionType /\ Sized(r)
    BY <1>1 DEF PositionType, Sized, Entered, Exited
  <1>3. Lookup(c, NoLookup) /\ PricesInv'
    BY IdleKeeps DEF VolumeInv, GiveUp
  <1>4. lookups'[c].pc = "idle"
        /\ \A d \in Clients : d # c => lookups'[d] = lookups[d]
    BY <1>3, TypeFacts DEF VolumeInv, PricesInv, Lookup, NoLookup
  <1>5. positions' = [positions EXCEPT ![c] = r]
    BY DEF GiveUp
  <1> HIDE DEF r
  <1> QED BY <1>2, <1>3, <1>4, <1>5, PositionKeeps

\* An entry pays the budget, whatever the price.
LEMMA EntryIsSized ==
  ASSUME NEW usd \in Nat, MinBudget <= usd, usd <= MaxBudget,
         NEW price \in Prices \cup {1, NaN},
         Positive(MaxSellingAmount("quote", usd, price))
  PROVE  LET amount == MaxSellingAmount("quote", usd, price)
         IN  /\ amount \in Nat /\ amount > 0 /\ price \in Nat
             /\ MinBudget * Unit <= amount * price
             /\ amount * price <= MaxBudget * Unit
  <1> DEFINE amount == MaxSellingAmount("quote", usd, price)
  <1>1. amount = Over(usd * Unit, price) /\ amount # NaN /\ amount > 0
    BY DEF MaxSellingAmount, Positive
  <1>2. price # NaN
    BY <1>1 DEF Over
  <1>3. price \in Prices \cup {1} /\ price \in Nat /\ usd * Unit \in Nat
    BY <1>2, Bounds
  <1>4. amount \in 0..(usd * Unit) /\ amount * price = usd * Unit
    BY <1>1, <1>3, BudgetDivides, OverIsExact
  <1>5. MinBudget * Unit <= usd * Unit /\ usd * Unit <= MaxBudget * Unit
    BY Multiply, Bounds
  <1> HIDE DEF amount
  <1>6. amount \in Nat
    BY <1>3, <1>4
  <1> QED BY <1>1, <1>3, <1>4, <1>5, <1>6 DEF amount

\* An exit sells something, and no more than there is.
LEMMA ExitIsSized ==
  ASSUME NEW usd \in Nat, NEW price \in Prices \cup {1, NaN},
         NEW vol \in Nat, vol > 0,
         Positive(MaxSellingAmount("base", usd, price))
  PROVE  LET amount == Smaller(MaxSellingAmount("base", usd, price), vol)
         IN  amount \in Nat /\ amount > 0 /\ amount <= vol
  <1> DEFINE max == MaxSellingAmount("base", usd, price)
  <1>1. max = Times(usd * Unit, price) /\ max # NaN /\ max > 0
    BY DEF MaxSellingAmount, Positive
  <1>2. price # NaN
    BY <1>1 DEF Times
  <1>3. price \in Nat /\ usd * Unit \in Nat
    BY <1>2, Bounds
  <1>4. max = (usd * Unit) * price
    BY <1>1, <1>2, <1>3, Bounds DEF Times
  <1>5. max \in Nat
    BY <1>3, <1>4, Multiply
  <1> HIDE DEF max
  <1>6. Smaller(max, vol) = IF max < vol THEN max ELSE vol
    BY <1>5, Bounds DEF Smaller
  <1>7. Smaller(max, vol) \in Nat /\ Smaller(max, vol) > 0
        /\ Smaller(max, vol) <= vol
    BY <1>1, <1>5, <1>6
  <1> QED BY <1>7 DEF max

LEMMA SwapKeeps ==
  ASSUME VolumeInv, NEW c \in Clients, NEW rate \in Rates, Swap(c, rate)
  PROVE  VolumeInv'
  <1> DEFINE r == positions[c]
             price == lookups[c].price
             amount == TokenAmountToSell(c)
             s == IF r.phase = "none"
                  THEN [r EXCEPT !.phase = "open", !.usd = 0, !.paid = amount,
                                 !.price = price, !.vol = Times(amount, rate)]
                  ELSE [r EXCEPT !.phase = "closed", !.usd = 0,
                                 !.sold = amount]
  <1>1. /\ lookups[c].pc = "priced" /\ price # Null
        /\ Positive(MaxSellingAmount(Selling(c), r.usd, price))
        /\ positions' = [positions EXCEPT ![c] = s]
    BY DEF Swap
  <1>2. Lookup(c, NoLookup) /\ PricesInv'
    BY IdleKeeps DEF VolumeInv, Swap
  <1>3. lookups'[c].pc = "idle"
        /\ \A d \in Clients : d # c => lookups'[d] = lookups[d]
    BY <1>2, TypeFacts DEF VolumeInv, PricesInv, Lookup, NoLookup
  <1>4. r \in PositionType /\ Sized(r) /\ Budgeted(r)
    BY <1>1 DEF VolumeInv
  <1>5. price \in Prices \cup {1, NaN} /\ r.usd \in Nat
        /\ MinBudget <= r.usd /\ r.usd <= MaxBudget
    BY <1>1, <1>4, PriceOfLookup DEF VolumeInv, PositionType, Budgeted
  <1>6. s \in PositionType /\ Sized(s)
    <2>1. CASE r.phase = "none"
      <3>1. amount = MaxSellingAmount("quote", r.usd, price)
            /\ Selling(c) = "quote"
        BY <2>1 DEF TokenAmountToSell, Selling
      <3> HIDE DEF amount, price, r
      <3>2. /\ amount \in Nat /\ amount > 0 /\ price \in Nat
            /\ MinBudget * Unit <= amount * price
            /\ amount * price <= MaxBudget * Unit
        BY <1>1, <1>5, <3>1, EntryIsSized
      <3>3. rate \in Nat /\ rate > 0 /\ amount # NaN /\ rate # NaN
        BY <3>2, Bounds
      <3>4. Times(amount, rate) = amount * rate
        BY <3>3 DEF Times
      <3>5. Times(amount, rate) \in Nat /\ Times(amount, rate) > 0
        BY <3>2, <3>3, <3>4, Multiply
      <3> DEFINE vol == Times(amount, rate)
      <3>6. vol \in Nat /\ vol > 0 /\ price \in Answers
            /\ s = [r EXCEPT !.phase = "open", !.usd = 0, !.paid = amount,
                             !.price = price, !.vol = vol]
        BY <2>1, <3>2, <3>5 DEF Answers
      <3> HIDE DEF vol, s
      <3>7. /\ s \in PositionType /\ s.phase = "open" /\ s.paid = amount
            /\ s.price = price /\ s.vol = vol
        BY <1>4, <3>2, <3>6 DEF PositionType
      <3> QED BY <3>2, <3>6, <3>7 DEF Sized, Entered
    <2>2. CASE r.phase # "none"
      <3>1. amount = Smaller(MaxSellingAmount("base", r.usd, price), r.vol)
            /\ Selling(c) = "base"
        BY <2>2 DEF TokenAmountToSell, Selling
      <3> HIDE DEF amount, price, r
      <3>2. Entered(r)
        BY <1>4, <2>2 DEF Sized
      <3>3. amount \in Nat /\ amount > 0 /\ amount <= r.vol
        BY <1>1, <1>5, <3>1, <3>2, ExitIsSized DEF Entered
      <3>4. s = [r EXCEPT !.phase = "closed", !.usd = 0, !.sold = amount]
        BY <2>2
      <3> HIDE DEF s
      <3>5. /\ s \in PositionType /\ s.phase = "closed" /\ s.paid = r.paid
            /\ s.price = r.price /\ s.vol = r.vol /\ s.sold = amount
        BY <1>4, <3>3, <3>4 DEF PositionType
      <3> QED BY <3>2, <3>3, <3>5 DEF Sized, Entered, Exited
    <2> QED BY <2>1, <2>2
  <1> HIDE DEF s
  <1> QED BY <1>1, <1>2, <1>3, <1>6, PositionKeeps

\* The steps that are none of c's trades.
LEMMA StepKeeps ==
  ASSUME VolumeInv, UNCHANGED positions, PricesNext \/ UNCHANGED priceVars
  PROVE  VolumeInv'
  <1>1. PricesInv'
    <2>1. UNCHANGED priceVars => PricesInv'
      BY DEF VolumeInv, PricesInv, PricesTypeOK, MarketInv, CacheInv, ToldInv,
         PricedInv, Worth, priceVars
    <2> QED BY <2>1, PricesNextKeeps DEF VolumeInv
  <1>2. \A c \in Clients : lookups'[c].pc # "idle" => lookups[c].pc # "idle"
    <2>1. \A c \in Clients : \A r : Lookup(c, r) /\ lookups[c].pc # "idle"
            => \A d \in Clients :
                 lookups'[d].pc # "idle" => lookups[d].pc # "idle"
      BY TypeFacts DEF VolumeInv, PricesInv, Lookup
    <2>2. Tick => \A c \in Clients : lookups'[c].pc = lookups[c].pc
      <3>1. \A c \in Clients :
              [lookups[c] EXCEPT !.age = @ + 1].pc = lookups[c].pc
        BY TypeFacts DEF VolumeInv, PricesInv, LookupType
      <3> QED BY <3>1 DEF Tick
    <2> QED BY <2>1, <2>2 DEF PricesNext, LookupStep, RetryUntil,
            ExchangeTells, AnswerArrives, RequestFails, BalanceFetched,
            NativeCurrencyPrice, MarketMoves, Priced, InFlight, priceVars
  <1> QED BY <1>1, <1>2 DEF VolumeInv, Sized, Entered, Exited, Budgeted,
          PositionType, Answers

LEMMA InitVolume == ASSUME Init PROVE VolumeInv
  <1>1. NoPosition \in PositionType /\ Sized(NoPosition)
    BY DEF NoPosition, PositionType, Sized, Answers
  <1>2. PricesInv
    BY InitPrices DEF Init
  <1>3. \A c \in Clients : lookups[c].pc = "idle"
    BY DEF Init, PricesInit, NoLookup
  <1> QED BY <1>1, <1>2, <1>3 DEF Init, VolumeInv

LEMMA NextKeeps == ASSUME VolumeInv, [Next]_vars PROVE VolumeInv'
  BY ValidateKeeps, GiveUpKeeps, SwapKeeps, StepKeeps DEF Next, vars

-----------------------------------------------------------------------------
THEOREM Invariance == Spec => []VolumeInv
  <1>1. Init => VolumeInv
    BY InitVolume
  <1>2. VolumeInv /\ [Next]_vars => VolumeInv'
    BY NextKeeps
  <1> QED BY <1>1, <1>2, PTL DEF Spec

\* Every variable of the prices and the positions has its type.
THEOREM TypeCorrect == Spec => []TypeOK
  <1>1. VolumeInv => TypeOK
    BY DEF VolumeInv, PricesInv, TypeOK, PositionType
  <1> QED BY <1>1, Invariance, PTL

\* A price answered for a listed token was its market's at most Ttl + Flight
\* ticks ago.
THEOREM PricesAreRecent == Spec => []RecentPrice
  <1>1. VolumeInv => RecentPrice
    <2> SUFFICES ASSUME VolumeInv, NEW c \in Clients,
                        lookups[c].pc = "priced", quote[c] \in Listed,
                        lookups[c].price # Null
                 PROVE  /\ lookups[c].price \in Prices
                        /\ since[quote[c]][lookups[c].price] <= Ttl + Flight
      BY DEF RecentPrice
    <2>1. Kind[quote[c]] # "stable"
      BY DEF Listed
    <2> QED BY <2>1 DEF VolumeInv, PricesInv, PricedInv, Worth
  <1> QED BY <1>1, Invariance, PTL

\* Entries pay an amount within the budget at the price they were told, exits
\* sell at most what was bought.
THEOREM TradesSized == Spec => []TradesAreSized
  <1>1. VolumeInv => TradesAreSized
    BY DEF VolumeInv, TradesAreSized, Sized, Entered, Exited
  <1> QED BY <1>1, Invariance, PTL

-----------------------------------------------------------------------------
(* Lookups go forward: the safety half of LookupsReturn.                   *)

\* The awaits and retries a lookup may still go through.
Left(r) ==
  IF r.pc = "wait" THEN (MaxRetry - r.tries) + 3
  ELSE IF r.pc = "asked" THEN 2
  ELSE IF r.pc = "told" THEN 1 ELSE 0

\* A step of a lookup under way brings it nearer to its answer, and no other
\* step puts it back or takes it away.
LookupAdvances ==
  \A c \in Clients : Left(lookups[c]) > 0 =>
    /\ LookupStep(c) => Left(lookups'[c]) < Left(lookups[c])
    /\ Left(lookups'[c]) <= Left(lookups[c])
    /\ lookups'[c].pc # "idle"

LEMMA LeftOfSteps ==
  ASSUME PricesTypeOK, NEW c \in Clients
  PROVE  /\ lookups[c] \in LookupType
         /\ Left(lookups[c]) \in Nat
         /\ Left(lookups[c]) > 0 <=> lookups[c].pc \in {"wait", "asked", "told"}
  <1> DEFINE r == lookups[c]
  <1>1. r \in LookupType /\ MaxRetry \in Nat
    BY TypeFacts
  <1>2. r.tries \in 0..MaxRetry /\ MaxRetry - r.tries \in Nat
    BY <1>1 DEF LookupType
  <1> QED BY <1>1, <1>2 DEF Left

LEMMA LookupStepAdvances ==
  ASSUME PricesTypeOK, NEW c \in Clients, LookupStep(c)
  PROVE  /\ Left(lookups'[c]) < Left(lookups[c])
         /\ lookups'[c].pc # "idle"
         /\ \A d \in Clients : d # c => lookups'[d] = lookups[d]
  <1> DEFINE r == lookups[c]
  <1>1. r \in LookupType /\ MaxRetry \in Nat
    BY TypeFacts
  <1>2. r.tries \in 0..MaxRetry /\ MaxRetry - r.tries \in Nat
    BY <1>1 DEF LookupType
  <1>3. \A s : Lookup(c, s) => /\ lookups'[c] = s
                               /\ \A d \in Clients :
                                    d # c => lookups'[d] = lookups[d]
    BY TypeFacts DEF Lookup
  <1>4. ASSUME NEW price, Priced(c, price), r.pc \in {"wait", "asked", "told"}
        PROVE  /\ Left(lookups'[c]) < Left(r) /\ lookups'[c].pc = "priced"
               /\ \A d \in Clients : d # c => lookups'[d] = lookups[d]
    <2> DEFINE s == [NoLookup EXCEPT !.pc = "priced", !.price = price]
    <2>1. s.pc = "priced"
      BY DEF NoLookup
    <2>2. Left(s) = 0 /\ Left(r) > 0
      BY <1>2, <1>4, <2>1 DEF Left
    <2>3. Lookup(c, s)
      BY <1>4 DEF Priced
    <2> HIDE DEF s
    <2> QED BY <1>3, <2>1, <2>2, <2>3, LeftOfSteps
  <1>5. CASE RetryUntil(c)
    <2>1. r.pc = "wait"
      BY <1>5 DEF RetryUntil
    <2>2. CASE Lookup(c, [r EXCEPT !.pc = "asked"])
      <3> DEFINE s == [r EXCEPT !.pc = "asked"]
      <3>1. s.pc = "asked"
        BY <1>1 DEF LookupType
      <3>2. Left(s) = 2 /\ Left(r) = (MaxRetry - r.tries) + 3
        BY <2>1, <3>1 DEF Left
      <3> HIDE DEF s
      <3>3. Left(s) < Left(r)
        BY <1>2, <3>2
      <3> QED BY <1>3, <2>2, <3>1, <3>3 DEF s
    <2>3. CASE MaySleep(r) /\ Lookup(c, [r EXCEPT !.tries = @ + 1])
      <3> DEFINE s == [r EXCEPT !.tries = @ + 1]
      <3>1. s.pc = "wait" /\ s.tries = r.tries + 1
        BY <1>1, <2>1 DEF LookupType
      <3>2. /\ Left(s) = (MaxRetry - (r.tries + 1)) + 3
            /\ Left(r) = (MaxRetry - r.tries) + 3
        BY <2>1, <3>1 DEF Left
      <3> HIDE DEF s
      <3>3. Left(s) < Left(r)
        BY <1>1, <1>2, <3>2
      <3> QED BY <1>3, <2>3, <3>1, <3>3 DEF s
    <2>4. CASE Priced(c, Null)
      BY <1>4, <2>1, <2>4
    <2> QED BY <1>5, <2>2, <2>3, <2>4 DEF RetryUntil
  <1>6. CASE ExchangeTells(c)
    <2> DEFINE s(price) == [r EXCEPT !.pc = "told", !.price = price]
    <2>1. r.pc = "asked" /\ \E price : Lookup(c, s(price))
      BY <1>6 DEF ExchangeTells
    <2>2. \A price : s(price).pc = "told"
      BY <1>1 DEF LookupType
    <2>3. Left(r) = 2 /\ \A price : Left(s(price)) = 1
      BY <2>1, <2>2 DEF Left
    <2> HIDE DEF s
    <2> QED BY <1>3, <2>1, <2>2, <2>3
  <1>7. CASE AnswerArrives(c)
    BY <1>4, <1>7 DEF AnswerArrives
  <1>8. CASE RequestFails(c)
    BY <1>4, <1>8 DEF RequestFails, InFlight
  <1> QED BY <1>5, <1>6, <1>7, <1>8 DEF LookupStep

\* A lookup is through after MaxRetry + 3 steps at most, whatever the other
\* lookups, the market and the trades do in between.
THEOREM LookupsAdvance == Spec => [][LookupAdvances]_vars
  <1>1. VolumeInv /\ [Next]_vars => LookupAdvances
    <2> SUFFICES ASSUME VolumeInv, [Next]_vars, NEW c \in Clients,
                        Left(lookups[c]) > 0
                 PROVE  /\ LookupStep(c)
                             => Left(lookups'[c]) < Left(lookups[c])
                        /\ Left(lookups'[c]) <= Left(lookups[c])
                        /\ lookups'[c].pc # "idle"
      BY DEF LookupAdvances
    <2>1. PricesTypeOK /\ lookups[c].pc \in {"wait", "asked", "told"}
      BY LeftOfSteps DEF VolumeInv, PricesInv
    <2>2. Left(lookups[c]) \in Nat /\ lookups[c] \in LookupType
      BY <2>1, LeftOfSteps
    <2>3. CASE \E d \in Clients : LookupStep(d)
      <3>1. CASE LookupStep(c)
        <4>1. /\ Left(lookups'[c]) < Left(lookups[c])
              /\ lookups'[c].pc # "idle"
          BY <2>1, <3>1, LookupStepAdvances
        <4>2. Left(lookups'[c]) \in Int
          <5>1. VolumeInv'
            BY NextKeeps
          <5>2. lookups'[c] \in LookupType /\ MaxRetry \in Nat
            BY <2>1, <5>1, TypeFacts
               DEF VolumeInv, PricesInv, PricesTypeOK, LookupType
          <5>3. lookups'[c].tries \in 0..MaxRetry
            BY <5>2 DEF LookupType
          <5> QED BY <5>2, <5>3 DEF Left
        <4> DEFINE a == Left(lookups[c])
                   b == Left(lookups'[c])
        <4>3. a \in Nat /\ b \in Int /\ b < a
          BY <2>2, <4>1, <4>2
        <4> HIDE DEF a, b
        <4>4. b <= a
          BY <4>3
        <4> QED BY <4>1, <4>4 DEF a, b
      <3>2. CASE ~LookupStep(c)
        <4>1. lookups'[c] = lookups[c]
          BY <2>1, <2>3, <3>2, LookupStepAdvances
        <4> QED BY <2>1, <2>2, <3>2, <4>1
      <3> QED BY <3>1, <3>2
    <2>4. CASE Tick /\ ~LookupStep(c)
      <3>1. lookups[c] \in LookupType
        BY <2>2
      <3>2. /\ lookups'[c].pc = lookups[c].pc
            /\ lookups'[c].tries = lookups[c].tries
        BY <2>4, <3>1 DEF Tick, LookupType
      <3>3. Left(lookups'[c]) = Left(lookups[c])
        BY <3>2 DEF Left
      <3> QED BY <2>1, <2>2, <2>4, <3>2, <3>3
    <2>5. CASE lookups'[c] = lookups[c] /\ ~LookupStep(c)
      BY <2>1, <2>2, <2>5
    <2>6. ASSUME NEW d \in Clients, NEW r, Lookup(d, r),
                 lookups[d].pc \in {"idle", "priced"}
          PROVE  lookups'[c] = lookups[c]
      BY <2>1, <2>6, TypeFacts DEF Lookup
    <2>7. \/ (\E d \in Clients : LookupStep(d)) \/ Tick
          \/ lookups'[c] = lookups[c]
      BY <2>6 DEF Next, PricesNext, ValidateQuotation, GetSymbolPriceUsd,
                  Priced, GiveUp, Swap, BalanceFetched, NativeCurrencyPrice,
                  MarketMoves, vars, priceVars
    <2> QED BY <2>3, <2>4, <2>5, <2>7
  <1> QED BY <1>1, Invariance, PTL DEF Spec
=============================================================================
