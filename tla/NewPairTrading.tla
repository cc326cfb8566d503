--------------------------- MODULE NewPairTrading ---------------------------
(***************************************************************************)
(* The trading core: src/new-pair-trading/new-pair-trading.service.ts.     *)
(*                                                                         *)
(* One Node.js process runs the handlers of 'lp.created' and 'lp.updated'. *)
(* A handler runs without interruption from one await to the next, and the *)
(* handlers interleave at the awaits.  Handlers is a set of slots, each    *)
(* idle or holding the local variables of one running handler; its "pc"    *)
(* names the await the handler is suspended at.  An action is the effect   *)
(* of the awaited call together with the synchronous code that follows it, *)
(* up to the next await or the return.                                     *)
(*                                                                         *)
(* What the properties do not tell apart is abstracted: a price quotation  *)
(* is "up" (reaches tp_target), "down" (under sl_target) or "flat"; an     *)
(* entry price is positive or rounded to zero by its Decimal(24, 12)       *)
(* column; the liquidity of an event is big or small with respect to       *)
(* safe_lp_size_usd; time passes in ticks.                                 *)
(***************************************************************************)
EXTENDS Naturals, FiniteSets

CONSTANTS
  Pairs,          \* ids of the pairs of the exchange the bot supports
  Intents,        \* ids of trading_intend rows; bounds the rows created
  Handlers,       \* slots for event handlers running at the same time
  Tokens,         \* token contracts
  TokensOf,       \* [Pairs -> SUBSET Tokens], token0 and token1 of a pair
  Null,           \* no pair, no intent
  EntryMaxDelay,  \* entryMaxDelayInMin, in ticks
  SlDelay,        \* sl_start_after_mins, in ticks
  MaxSwaps,       \* swaps of an intent are counted 0..MaxSwaps
  LpSizes,        \* liquidities an event may carry, among "big" and "small"
  Overlap,        \* may an event of a pair arrive while one is being handled,
                  \* or before ActiveTradingPairs is loaded
  DbFaults,       \* may a database call fail
  LostReceipts,   \* may a mined swap be reported as failed
  Crashes         \* may the process stop and start again

ASSUME ConstantsAssumption ==
  /\ Null \notin Pairs \cup Intents
  /\ TokensOf \in [Pairs -> SUBSET Tokens]
  /\ EntryMaxDelay \in Nat
  /\ SlDelay \in Nat
  /\ MaxSwaps \in Nat \ {0}
  /\ LpSizes \subseteq {"big", "small"}
  /\ {Overlap, DbFaults, LostReceipts, Crashes} \subseteq BOOLEAN

VARIABLES
  intents,      \* table trading_intend
  age,          \* ticks since created_at of each intent, up to MaxAge
  buys,         \* swaps mined to enter, per intent
  sells,        \* swaps mined to exit, per intent
  history,      \* purposes with a row in table trade_history, per intent
  dynamicData,  \* pairs with a row in table pair_dynamic_data
  active,       \* the map in memory of ActiveTradingPairs
  persisted,    \* table active_trading_pairs
  loaded,       \* has ActiveTradingPairs.loadData finished since the start
  config,       \* is TradingDirectiveAuto.config other than null
  redList,      \* contracts of the red list of TradingMode
  run           \* the handlers

vars == <<intents, age, buys, sells, history, dynamicData, active, persisted,
          loaded, config, redList, run>>

market == <<buys, sells, history>>
tracking == <<active, persisted, redList>>
environment == <<loaded, config>>

-----------------------------------------------------------------------------
(* Values *)

Statuses == {"FindingEntry", "TakingEntry", "FindingExit", "TakingExit",
             "TP", "SL"}

Purposes == {"entry", "tp", "sl"}

Prices == {"up", "flat", "down"}

MaxAge == IF EntryMaxDelay + 1 > SlDelay THEN EntryMaxDelay + 1 ELSE SlDelay

\* The awaits a handler can be suspended at.
PCs == {"idle", "createDynamic", "findExisting", "insert", "track",
        "updateDynamic", "findEntry", "validateEntry", "findExit", "trySl",
        "lock", "quote", "swap", "history", "commit", "unlock"}

Absent == [pair |-> Null, status |-> "Absent", entry |-> "none"]

Idle == [pc |-> "idle", kind |-> "none", pair |-> Null, lp |-> "none",
         purpose |-> "none", intent |-> Null, entry |-> "none",
         quote |-> "none"]

IntentRows == [pair : Pairs, status : Statuses,
               entry : {"none", "zero", "pos"}]

Runs == [pc : PCs, kind : {"none", "created", "updated"},
         pair : Pairs \cup {Null}, lp : LpSizes \cup {"none"},
         purpose : Purposes \cup {"none"}, intent : Intents \cup {Null},
         entry : {"none", "zero", "pos"}, quote : Prices \cup {"none"}]

TypeOK ==
  /\ intents \in [Intents -> IntentRows \cup {Absent}]
  /\ age \in [Intents -> 0..MaxAge]
  /\ buys \in [Intents -> 0..MaxSwaps]
  /\ sells \in [Intents -> 0..MaxSwaps]
  /\ history \in [Intents -> SUBSET Purposes]
  /\ dynamicData \subseteq Pairs
  /\ active \subseteq Pairs
  /\ persisted \subseteq Pairs
  /\ loaded \in BOOLEAN
  /\ config \in BOOLEAN
  /\ redList \subseteq Tokens
  /\ run \in [Handlers -> Runs]

-----------------------------------------------------------------------------
(* Helpers *)

Exists(i) == intents[i].status # "Absent"

WithStatus(p, s) == {i \in Intents : intents[i].pair = p
                                       /\ intents[i].status = s}

At(h, pc) == run[h].pc = pc

Goto(h, r) == run' = [run EXCEPT ![h] = r]

\* The handler h continues at the await pc with its locals unchanged.
Await(h, pc) == Goto(h, [run[h] EXCEPT !.pc = pc])

\* What the handler does once tryPlaceBuyEntry, tryTp or trySl returns:
\* tryTp is followed by trySl, which gets its quotation; the buy entry of an
\* update is followed by the search for an exit.
RetryEntry(r) ==  \* mutant: a failed entry is tried again at once
  IF r.purpose = "entry" THEN [r EXCEPT !.pc = "validateEntry"] ELSE Idle
Returned(r) ==
  IF r.purpose = "tp"
  THEN [r EXCEPT !.pc = "trySl"]
  ELSE IF r.kind = "updated" /\ r.purpose # "sl"
  THEN [Idle EXCEPT !.pc = "findExit", !.kind = r.kind, !.pair = r.pair,
                    !.lp = r.lp]
  ELSE Idle

Return(h) == Goto(h, Returned(run[h]))

\* The status lockTrade and unlockTrade write for a purpose.
NeverLocked(purpose) ==  \* mutant: the status stays what it was
  IF purpose = "entry" THEN "FindingEntry" ELSE "FindingExit"
LockedStatus(purpose) ==
  IF purpose = "entry" THEN "TakingEntry" ELSE "TakingExit"

StillLocked(purpose) ==  \* mutant: unlockTrade writes what lockTrade wrote
  LockedStatus(purpose)
SlNotHandled(purpose) ==  \* mutant: 'sl' falls through to null
  IF purpose = "sl" THEN "null" ELSE NeverLocked(purpose)
UnlockedStatus(purpose) ==
  IF purpose = "entry" THEN "FindingEntry" ELSE "FindingExit"

\* The status of an intent whose swap is recorded.
SettledStatus(purpose) ==
  CASE purpose = "entry" -> "FindingExit"
    [] purpose = "tp" -> "TP"
    [] purpose = "sl" -> "SL"

\* An update of the status column; it may fail, and the error is swallowed.
WriteStatus(i, s) ==
  \/ intents' = [intents EXCEPT ![i].status = s]
  \/ DbFaults /\ UNCHANGED intents

\* The next value of a counter of mined swaps, which stops at MaxSwaps.
Mined(counter, i) ==
  [counter EXCEPT ![i] = IF @ < MaxSwaps THEN @ + 1 ELSE @]

\* ActiveTradingPairs.set: the memory first, then the table.  The write of
\* the table is not awaited and its errors are ignored: it may get lost.
SetActiveTradingPair(p, isActive) ==
  LET with(S) == IF isActive THEN S \cup {p} ELSE S \ {p}
  IN  /\ active' = with(active)
      /\ persisted' \in {persisted, with(persisted)}

StopNewPairTradingFlow(p) ==
  /\ SetActiveTradingPair(p, FALSE)
  /\ redList' = redList \ TokensOf[p]

-----------------------------------------------------------------------------
Init ==
  /\ intents = [i \in Intents |-> Absent]
  /\ age = [i \in Intents |-> 0]
  /\ buys = [i \in Intents |-> 0]
  /\ sells = [i \in Intents |-> 0]
  /\ history = [i \in Intents |-> {}]
  /\ dynamicData = {}
  /\ active = {}
  /\ persisted = {}
  /\ loaded = FALSE
  /\ config = FALSE
  /\ redList = {}
  /\ run = [h \in Handlers |-> Idle]

-----------------------------------------------------------------------------
(* The events arrive.  The feed is opened ten seconds after the start and  *)
(* throttled per pair, which makes it likely that loadData has finished    *)
(* and that no other event of the pair is being handled.  Nothing makes it *)
(* sure: the constant Overlap says whether it is.                          *)

MayArrive(p) ==
  Overlap \/ (loaded /\ \A h \in Handlers : run[h].pair # p)

\* Bound: every flow that has yet to insert its intent has an id left.
IntentLeft ==
  Cardinality({h \in Handlers :
                 run[h].pc \in {"createDynamic", "findExisting", "insert"}})
    < Cardinality({i \in Intents : ~Exists(i)})

Arrive(h, kind, pc, p, lp) ==
  /\ At(h, "idle")
  /\ MayArrive(p)
  /\ Goto(h, [Idle EXCEPT !.pc = pc, !.kind = kind, !.pair = p, !.lp = lp])
  /\ UNCHANGED <<intents, age, market, dynamicData, tracking, environment>>

HandleLpCreatedEvent(h, p, lp) ==
  /\ IntentLeft
  /\ Arrive(h, "created", "createDynamic", p, lp)

HandleLpUpdatedEvent(h, p, lp) ==
  Arrive(h, "updated", "updateDynamic", p, lp)

-----------------------------------------------------------------------------
(* handleLpCreatedEvent and startNewPairTradingFlow *)

\* pairDynamicData.create, whose error is ignored; then the pair is traded
\* when one of its symbols is an active quote symbol.
NeverCreated(h) ==  \* mutant: a lazy promise that is never awaited
  /\ At(h, "createDynamic")
  /\ \E tradeEnabled \in BOOLEAN :
       IF tradeEnabled THEN Await(h, "findExisting") ELSE Goto(h, Idle)
  /\ UNCHANGED <<intents, age, market, dynamicData, tracking, environment>>
CreateDynamicData(h) ==
  /\ At(h, "createDynamic")
  /\ \/ dynamicData' = dynamicData \cup {run[h].pair}
     \/ DbFaults /\ UNCHANGED dynamicData
  /\ \E tradeEnabled \in BOOLEAN :
       IF tradeEnabled THEN Await(h, "findExisting") ELSE Goto(h, Idle)
  /\ UNCHANGED <<intents, age, market, tracking, environment>>

\* createTradingIntend looks for an intent before it creates one.
AlwaysInsert(h) ==  \* mutant: the existing intent is not looked for
  /\ At(h, "findExisting")
  /\ Await(h, "insert")
  /\ UNCHANGED <<intents, age, market, dynamicData, tracking, environment>>
NeverInsert(h) ==  \* mutant: the pair is tracked without an intent
  /\ At(h, "findExisting")
  /\ Await(h, "track")
  /\ UNCHANGED <<intents, age, market, dynamicData, tracking, environment>>
FindExistingIntend(h) ==
  /\ At(h, "findExisting")
  /\ IF WithStatus(run[h].pair, "FindingEntry") # {}
     THEN Await(h, "track")
     ELSE Await(h, "insert")
  /\ UNCHANGED <<intents, age, market, dynamicData, tracking, environment>>

InsertIntend(h) ==
  /\ At(h, "insert")
  /\ \E i \in Intents :
       /\ ~Exists(i)
       /\ intents' = [intents EXCEPT ![i] = [pair |-> run[h].pair,
                                             status |-> "FindingEntry",
                                             entry |-> "none"]]
  /\ Await(h, "track")
  /\ UNCHANGED <<age, market, dynamicData, tracking, environment>>

\* The database refuses a read or the insert of createTradingIntend: the
\* flow, which nobody awaits, is abandoned.
AbandonFlow(h) ==
  /\ DbFaults
  /\ run[h].pc \in {"findExisting", "insert"}
  /\ Goto(h, Idle)
  /\ UNCHANGED <<intents, age, market, dynamicData, tracking, environment>>

\* setupPriceTracking; the pair is active when tryPlaceBuyEntry starts.
SetupPriceTracking(h) ==
  /\ At(h, "track")
  /\ SetActiveTradingPair(run[h].pair, TRUE)
  /\ Await(h, "validateEntry")
  /\ UNCHANGED <<intents, age, market, dynamicData, redList, environment>>

-----------------------------------------------------------------------------
(* handleLpUpdatedEvent *)

\* pairDynamicData.update: no row, no trading; another error is ignored.
UpdateDynamicData(h) ==
  /\ At(h, "updateDynamic")
  /\ \/ run[h].pair \in dynamicData /\ Await(h, "findEntry")
     \/ run[h].pair \notin dynamicData /\ Goto(h, Idle)
     \/ DbFaults /\ Await(h, "findEntry")
  /\ UNCHANGED <<intents, age, market, dynamicData, tracking, environment>>

\* Is there an intent looking for an entry, and is the pair active?
FindFindingEntry(h) ==
  /\ At(h, "findEntry")
  /\ \/ /\ WithStatus(run[h].pair, "FindingEntry") # {}
        /\ run[h].pair \in active
        /\ Await(h, "validateEntry")
     \/ /\ \/ WithStatus(run[h].pair, "FindingEntry") = {}
           \/ run[h].pair \notin active
           \/ DbFaults
        /\ Await(h, "findExit")
  /\ UNCHANGED <<intents, age, market, dynamicData, tracking, environment>>

\* tryTp starts with the intent just read: it is tried when the pair is
\* active and there is a configuration, otherwise trySl has its turn.
FindFindingExit(h) ==
  /\ At(h, "findExit")
  /\ \/ \E i \in WithStatus(run[h].pair, "FindingExit") :
          Goto(h, [run[h] EXCEPT
                     !.pc = IF run[h].pair \in active /\ config
                            THEN "lock" ELSE "trySl",
                     !.purpose = "tp", !.intent = i,
                     !.entry = intents[i].entry])
     \/ /\ WithStatus(run[h].pair, "FindingExit") = {} \/ DbFaults
        /\ Goto(h, Idle)
  /\ UNCHANGED <<intents, age, market, dynamicData, tracking, environment>>

\* trySl works on the intent tryTp was given, as it was read then.
SlDueTooEarly(r) ==  \* mutant: the comparison with it is inverted
  r.pair \in active /\ config /\ age[r.intent] < SlDelay
SlDue(r) == r.pair \in active /\ config /\ age[r.intent] >= SlDelay

TrySl(h) ==
  /\ At(h, "trySl")
  /\ IF SlDue(run[h])
     THEN Goto(h, [run[h] EXCEPT !.pc = "lock", !.purpose = "sl"])
     ELSE Goto(h, Idle)
  /\ UNCHANGED <<intents, age, market, dynamicData, tracking, environment>>

-----------------------------------------------------------------------------
(* tryPlaceBuyEntry, tryTp and trySl share their awaits; run[h].purpose    *)
(* says which of them the handler is in.                                   *)

\* validateTradingIntend re-reads the intent to enter.
ValidateEntry(h) ==
  /\ At(h, "validateEntry")
  /\ \/ \E i \in WithStatus(run[h].pair, "FindingEntry") :
          Goto(h, [run[h] EXCEPT !.pc = "lock", !.purpose = "entry",
                                 !.intent = i])
     \/ /\ WithStatus(run[h].pair, "FindingEntry") = {} \/ DbFaults
        /\ Return(h)
  /\ UNCHANGED <<intents, age, market, dynamicData, tracking, environment>>

\* validateLpSize does not throw.
SafeLpSize(r) == r.lp = "big"

\* lockTrade for an entry, then the checks of the configuration, of the
\* liquidity and of the age.  The last one returns and does not unlock.
LockEntry(h) ==
  LET r == run[h]
  IN  /\ At(h, "lock") /\ r.purpose = "entry"
      /\ WriteStatus(r.intent, LockedStatus(r.purpose))
      /\ \/ (~config \/ ~SafeLpSize(r)) /\ Await(h, "unlock")
         \/ /\ config /\ SafeLpSize(r)
            /\ IF age[r.intent] > EntryMaxDelay
               THEN Return(h)
               ELSE Await(h, "quote")
      /\ UNCHANGED <<age, market, dynamicData, tracking, environment>>

\* The await of a handler that holds a quotation at price q.
AfterQuote(purpose, q) ==
  IF \/ purpose = "entry"
     \/ purpose = "tp" /\ q = "up"
     \/ purpose = "sl" /\ q = "down"
  THEN "swap"
  ELSE "unlock"

\* lockTrade for an exit.  On a small liquidity lpInfo is undefined and its
\* destructuring throws out of tryTp or trySl: the handler ends there.
\* trySl uses the quotation tryTp returned, when it returned one.
LockExit(h) ==
  LET r == run[h]
  IN  /\ At(h, "lock") /\ r.purpose \in {"tp", "sl"}
      /\ WriteStatus(r.intent, LockedStatus(r.purpose))
      /\ \/ ~SafeLpSize(r) /\ Goto(h, Idle)
         \/ SafeLpSize(r) /\ r.entry # "pos" /\ Await(h, "unlock")
         \/ /\ SafeLpSize(r) /\ r.entry = "pos"
            /\ IF r.purpose = "sl" /\ r.quote # "none"
               THEN Await(h, AfterQuote("sl", r.quote))
               ELSE Await(h, "quote")
      /\ UNCHANGED <<age, market, dynamicData, tracking, environment>>

\* validateQuotation throws.
QuoteThrows(h) ==
  /\ At(h, "quote")
  /\ Await(h, "unlock")
  /\ UNCHANGED <<intents, age, market, dynamicData, tracking, environment>>

\* A quotation at price q: its price impact may be too high, which trySl
\* does not care about, otherwise the price decides.  tryTp returns it.
Quoted(h, q) ==
  LET r == run[h]
      kept == IF r.purpose = "tp" THEN q ELSE "none"
  IN  /\ At(h, "quote")
      /\ \/ /\ r.purpose # "sl"
            /\ Goto(h, [r EXCEPT !.pc = "unlock", !.quote = kept])
         \/ Goto(h, [r EXCEPT !.pc = AfterQuote(r.purpose, q),
                              !.quote = kept])
      /\ UNCHANGED <<intents, age, market, dynamicData, tracking,
                     environment>>

\* swapTokensWithTradeObject: the transaction is mined and its receipt read;
\* or it throws, because nothing was mined or because a mined transaction's
\* receipt was lost.
CountSwap(r) ==
  IF r.purpose = "entry"
  THEN buys' = Mined(buys, r.intent) /\ UNCHANGED sells
  ELSE sells' = Mined(sells, r.intent) /\ UNCHANGED buys

SwapMined(h) ==
  /\ At(h, "swap")
  /\ CountSwap(run[h])
  /\ Await(h, "history")
  /\ UNCHANGED <<intents, age, history, dynamicData, tracking, environment>>

SwapErrorIgnored(h) ==  \* mutant: the catch block does not return
  /\ At(h, "swap")
  /\ Await(h, "history")
  /\ UNCHANGED <<intents, age, market, dynamicData, tracking, environment>>
SwapThrows(h) ==
  /\ At(h, "swap")
  /\ \/ UNCHANGED <<buys, sells>>
     \/ LostReceipts /\ CountSwap(run[h])
  /\ Await(h, "unlock")
  /\ UNCHANGED <<intents, age, history, dynamicData, tracking, environment>>

\* After the try block that records a swap: an exit, recorded or not, stops
\* the pair from being followed.
RecordedAndStopped(h) ==  \* mutant: an entry stops the pair too
  StopNewPairTradingFlow(run[h].pair) /\ Return(h)
Recorded(h) ==
  /\ IF run[h].purpose = "entry"
     THEN UNCHANGED tracking
     ELSE StopNewPairTradingFlow(run[h].pair)
  /\ Return(h)

\* tradeHistory.create; when it throws the intent is not updated.
HistoryErrorIgnored(h) ==  \* mutant: when it throws the intent is updated
  LET r == run[h]
      saved == [history EXCEPT ![r.intent] = @ \cup {r.purpose}]
  IN  /\ At(h, "history")
      /\ history' = saved \/ (DbFaults /\ UNCHANGED history)
      /\ Await(h, "commit")
      /\ UNCHANGED <<intents, age, buys, sells, dynamicData, tracking,
                     environment>>
SaveHistory(h) ==
  LET r == run[h]
      saved == [history EXCEPT ![r.intent] = @ \cup {r.purpose}]
  IN  /\ At(h, "history")
      /\ \/ history' = saved /\ Await(h, "commit") /\ UNCHANGED tracking
         \/ DbFaults /\ history' \in {history, saved} /\ Recorded(h)
      /\ UNCHANGED <<intents, age, buys, sells, dynamicData, environment>>

\* tradingIntend.update with the outcome of the swap.
CommitIntend(h) ==
  LET r == run[h]
      entries == IF r.purpose = "entry" THEN {"zero", "pos"}
                                        ELSE {intents[r.intent].entry}
  IN  /\ At(h, "commit")
      /\ \/ \E e \in entries :
              intents' = [intents EXCEPT ![r.intent].status =
                                           SettledStatus(r.purpose),
                                         ![r.intent].entry = e]
         \/ DbFaults /\ UNCHANGED intents
      /\ Recorded(h)
      /\ UNCHANGED <<age, market, dynamicData, environment>>

\* unlockTrade, also called by reverseTradeOnError.
UnlockTrade(h) ==
  LET r == run[h]
  IN  /\ At(h, "unlock")
      /\ WriteStatus(r.intent, UnlockedStatus(r.purpose))
      /\ Return(h)
      /\ UNCHANGED <<age, market, dynamicData, tracking, environment>>

-----------------------------------------------------------------------------
(* The rest of the process and its environment *)

Tick ==
  /\ \E i \in Intents : Exists(i) /\ age[i] < MaxAge
  /\ age' = [i \in Intents |-> IF Exists(i) /\ age[i] < MaxAge
                               THEN age[i] + 1 ELSE age[i]]
  /\ UNCHANGED <<intents, market, dynamicData, tracking, environment, run>>

\* TradingDirectiveAuto reads its row every minute; the row may be missing.
RefreshConfig ==
  /\ config' \in BOOLEAN \ {config}
  /\ UNCHANGED <<intents, age, market, dynamicData, tracking, loaded, run>>

\* ActiveTradingPairs.loadData adds the rows of the table to the memory.
LoadActivePairs ==
  /\ ~loaded
  /\ loaded' = TRUE
  /\ active' = active \cup persisted
  /\ UNCHANGED <<intents, age, market, dynamicData, persisted, redList,
                 config, run>>

\* An operator adds a contract to the red list.
AddRedListContract(t) ==
  /\ t \notin redList
  /\ redList' = redList \cup {t}
  /\ UNCHANGED <<intents, age, market, dynamicData, active, persisted,
                 environment, run>>

\* The process stops and starts again: the memory is lost, the tables stay.
\* The red list is what its table, written without an await, gives back.
Crash ==
  /\ Crashes
  /\ loaded \/ config \/ \E h \in Handlers : ~At(h, "idle")
  /\ run' = [h \in Handlers |-> Idle]
  /\ active' = {}
  /\ loaded' = FALSE
  /\ config' = FALSE
  /\ redList' \in SUBSET Tokens
  /\ UNCHANGED <<intents, age, market, dynamicData, persisted>>

-----------------------------------------------------------------------------
Handle(h) ==
  \/ CreateDynamicData(h) \/ FindExistingIntend(h) \/ InsertIntend(h)
  \/ AbandonFlow(h) \/ SetupPriceTracking(h)
  \/ UpdateDynamicData(h) \/ FindFindingEntry(h) \/ FindFindingExit(h)
  \/ TrySl(h) \/ ValidateEntry(h) \/ LockEntry(h) \/ LockExit(h)
  \/ QuoteThrows(h) \/ (\E q \in Prices : Quoted(h, q))
  \/ SwapMined(h) \/ SwapThrows(h)
  \/ SaveHistory(h) \/ CommitIntend(h) \/ UnlockTrade(h)

Next ==
  \/ \E h \in Handlers : Handle(h)
  \/ \E h \in Handlers, p \in Pairs, lp \in LpSizes :
       HandleLpCreatedEvent(h, p, lp) \/ HandleLpUpdatedEvent(h, p, lp)
  \/ \E t \in Tokens : AddRedListContract(t)
  \/ Tick \/ RefreshConfig \/ LoadActivePairs \/ Crash

Spec == Init /\ [][Next]_vars
=============================================================================
