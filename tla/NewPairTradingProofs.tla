------------------------ MODULE NewPairTradingProofs ------------------------
(* What holds of the trading core for any numbers of pairs, intents and    *)
(* handlers.  The first theorems hold whatever overlaps, fails, gets lost  *)
(* or restarts; each of the later ones assumes that some of it does not    *)
(* happen, and says what.  The order: types; no phantom entry or exit;     *)
(* unfollowing; one FindingEntry intent per pair; the rows of              *)
(* pair_dynamic_data; the locks; the refinement of PositionLifecycle; the  *)
(* handlers go forward, and return when their awaits complete.             *)
EXTENDS NewPairTradingProps, TLAPS

-----------------------------------------------------------------------------
(* The strengthening of the type invariant: what the locals of a handler   *)
(* are at the awaits that use them.                                        *)

Attempting == {"lock", "quote", "swap", "history", "commit", "unlock"}

HandlerOK(r, rows) ==
  /\ r.pc # "idle" => r.pair \in Pairs /\ r.lp \in LpSizes
  /\ r.pc \in Attempting => r.purpose \in Purposes
  /\ r.pc = "trySl" => r.purpose = "tp"
  /\ r.purpose # "none" => /\ r.intent \in Intents
                           /\ rows[r.intent] \in IntentRows
                           /\ rows[r.intent].pair = r.pair

HandlersOK == \A h \in Handlers : HandlerOK(run[h], intents)

TypeInv == TypeOK /\ HandlersOK

\* The part of TypeOK about what the handlers share.
DataOK ==
  /\ intents \in [Intents -> IntentRows \cup {Absent}]
  /\ age \in [Intents -> 0..MaxAge]
  /\ buys \in [Intents -> 0..MaxSwaps]
  /\ sells \in [Intents -> 0..MaxSwaps]
  /\ history \in [Intents -> SUBSET Purposes]
  /\ dynamicData \subseteq Pairs
  /\ active \subseteq Pairs
  /\ persisted \subseteq Pairs
  /\ redList \subseteq Tokens

\* No step forgets an intent or moves it to another pair.
IntentsKept ==
  \A i \in Intents :
    intents[i] \in IntentRows =>
      intents'[i] \in IntentRows /\ intents'[i].pair = intents[i].pair

LEMMA DataTyped == TypeInv => DataOK
BY DEF TypeInv, TypeOK, DataOK

LEMMA HandlerTyped ==
  ASSUME TypeInv, NEW h \in Handlers
  PROVE  run[h] \in Runs /\ HandlerOK(run[h], intents)
BY DEF TypeInv, TypeOK, HandlersOK

LEMMA IdleOK ==
  Idle \in Runs /\ \A rows : HandlerOK(Idle, rows)
BY DEF Idle, Runs, PCs, HandlerOK, Attempting

LEMMA BoundsTyped == MaxAge \in Nat /\ MaxSwaps \in Nat
BY ConstantsAssumption DEF ConstantsAssumption, MaxAge

-----------------------------------------------------------------------------
(* The ways a handler continues                                            *)

\* The step of a handler h that leaves it with the locals r.
LEMMA TypeStep ==
  ASSUME TypeInv, NEW h \in Handlers, NEW r, Goto(h, r),
         r \in Runs, HandlerOK(r, intents'),
         IntentsKept, DataOK', UNCHANGED environment
  PROVE  TypeInv'
<1>1. run' \in [Handlers -> Runs]
  BY DEF TypeInv, TypeOK, Goto
<1>2. TypeOK'
  BY <1>1 DEF TypeInv, TypeOK, DataOK, environment
<1>3. ASSUME NEW g \in Handlers
      PROVE  HandlerOK(run[g], intents)'
  <2>1. CASE g = h
    BY <2>1 DEF TypeInv, TypeOK, Goto, HandlerOK
  <2>2. CASE g # h
    <3>1. run'[g] = run[g]
      BY <2>2 DEF TypeInv, TypeOK, Goto
    <3> QED
      BY <3>1, HandlerTyped DEF HandlerOK, IntentsKept
  <2> QED
    BY <2>1, <2>2
<1> QED
  BY <1>2, <1>3 DEF TypeInv, HandlersOK

\* It goes on at another await with the same locals.
LEMMA AwaitStep ==
  ASSUME TypeInv, NEW h \in Handlers, NEW pc \in PCs, Await(h, pc),
         run[h].pc # "idle",
         pc \in Attempting => run[h].purpose \in Purposes,
         pc = "trySl" => run[h].purpose = "tp",
         IntentsKept, DataOK', UNCHANGED environment
  PROVE  TypeInv'
<1> DEFINE r == [run[h] EXCEPT !.pc = pc]
<1>1. run[h] \in Runs /\ HandlerOK(run[h], intents)
  BY HandlerTyped
<1>2. r \in Runs
  BY <1>1 DEF Runs
<1>3. HandlerOK(r, intents')
  BY <1>1 DEF Runs, HandlerOK, IntentsKept
<1> QED
  BY <1>2, <1>3, TypeStep DEF Await

\* It ends.
LEMMA EndStep ==
  ASSUME TypeInv, NEW h \in Handlers, Goto(h, Idle),
         IntentsKept, DataOK', UNCHANGED environment
  PROVE  TypeInv'
BY TypeStep, IdleOK

\* It returns from tryPlaceBuyEntry, tryTp or trySl.
LEMMA ReturnStep ==
  ASSUME TypeInv, NEW h \in Handlers, Return(h), run[h].pc # "idle",
         IntentsKept, DataOK', UNCHANGED environment
  PROVE  TypeInv'
<1>1. run[h] \in Runs /\ HandlerOK(run[h], intents)
  BY HandlerTyped
<1>2. Returned(run[h]) \in Runs /\ HandlerOK(Returned(run[h]), intents')
  <2>1. CASE run[h].purpose = "tp"
    BY <1>1, <2>1
       DEF Returned, Runs, PCs, HandlerOK, IntentsKept, Attempting
  <2>2. CASE run[h].kind = "updated" /\ run[h].purpose \notin {"tp", "sl"}
    <3> DEFINE next == [Idle EXCEPT !.pc = "findExit", !.kind = run[h].kind,
                                    !.pair = run[h].pair, !.lp = run[h].lp]
    <3>1. Returned(run[h]) = next
      BY <2>2 DEF Returned
    <3>2. next \in Runs
      BY <1>1 DEF Runs, Idle, PCs
    <3>3. /\ next.pc = "findExit" /\ next.purpose = "none"
          /\ next.pair = run[h].pair /\ next.lp = run[h].lp
      BY DEF Idle
    <3>4. HandlerOK(next, intents')
      BY <1>1, <3>3 DEF HandlerOK, Attempting
    <3> QED
      BY <3>1, <3>2, <3>4
  <2>3. CASE /\ run[h].purpose # "tp"
             /\ run[h].kind # "updated" \/ run[h].purpose = "sl"
    <3>1. Returned(run[h]) = Idle
      BY <2>3 DEF Returned
    <3> QED
      BY <3>1, IdleOK
  <2> QED
    BY <2>1, <2>2, <2>3
<1> QED
  BY <1>2, TypeStep DEF Return

\* A step that leaves the intents and what the handlers share alone.
LEMMA NothingShared ==
  ASSUME TypeInv, UNCHANGED <<intents, age, market, dynamicData, tracking>>
  PROVE  IntentsKept /\ DataOK'
BY DataTyped DEF DataOK, IntentsKept, market, tracking

\* The update of the status of an intent that exists.
LEMMA StatusWritten ==
  ASSUME TypeInv, NEW i \in Intents, intents[i] \in IntentRows,
         NEW s \in Statuses, WriteStatus(i, s),
         UNCHANGED <<age, market, dynamicData, tracking>>
  PROVE  IntentsKept /\ DataOK'
<1>1. intents' \in [Intents -> IntentRows \cup {Absent}]
  BY DataTyped DEF DataOK, WriteStatus, IntentRows
<1>2. IntentsKept
  BY DataTyped DEF DataOK, WriteStatus, IntentRows, IntentsKept
<1> QED
  BY <1>1, <1>2, DataTyped DEF DataOK, market, tracking

LEMMA ActiveSet ==
  ASSUME TypeInv, NEW p \in Pairs, NEW b, SetActiveTradingPair(p, b)
  PROVE  active' \subseteq Pairs /\ persisted' \subseteq Pairs
BY DataTyped DEF DataOK, SetActiveTradingPair

-----------------------------------------------------------------------------
(* Every step keeps the type invariant.                                    *)

LEMMA InitTypeInv == Init => TypeInv
<1> SUFFICES ASSUME Init PROVE TypeInv
  OBVIOUS
<1>1. 0 \in 0..MaxAge /\ 0 \in 0..MaxSwaps
  BY BoundsTyped
<1>2. TypeOK
  BY <1>1, IdleOK DEF Init, TypeOK
<1>3. HandlersOK
  BY IdleOK DEF Init, HandlersOK
<1> QED
  BY <1>2, <1>3 DEF TypeInv

LEMMA ArriveType ==
  ASSUME TypeInv, NEW h \in Handlers, NEW p \in Pairs, NEW lp \in LpSizes,
         HandleLpCreatedEvent(h, p, lp) \/ HandleLpUpdatedEvent(h, p, lp)
  PROVE  TypeInv'
<1>1. PICK kind \in {"created", "updated"},
           pc \in {"createDynamic", "updateDynamic"} :
             Arrive(h, kind, pc, p, lp)
  BY DEF HandleLpCreatedEvent, HandleLpUpdatedEvent
<1> DEFINE r == [Idle EXCEPT !.pc = pc, !.kind = kind, !.pair = p, !.lp = lp]
<1>2. r \in Runs /\ HandlerOK(r, intents')
  BY DEF Idle, Runs, PCs, HandlerOK, Attempting
<1> QED
  BY <1>1, <1>2, NothingShared, TypeStep DEF Arrive

\* The steps of the two flows up to an attempt to trade.
LEMMA FlowType ==
  ASSUME TypeInv, NEW h \in Handlers,
         \/ CreateDynamicData(h) \/ FindExistingIntend(h) \/ InsertIntend(h)
         \/ AbandonFlow(h) \/ SetupPriceTracking(h)
         \/ UpdateDynamicData(h) \/ FindFindingEntry(h)
  PROVE  TypeInv'
<1> USE DEF At
<1>1. run[h] \in Runs /\ HandlerOK(run[h], intents)
  BY HandlerTyped
<1>2. CASE CreateDynamicData(h)
  <2>1. run[h].pair \in Pairs
    BY <1>1, <1>2 DEF CreateDynamicData, HandlerOK
  <2>2. IntentsKept /\ DataOK'
    BY <1>2, <2>1, DataTyped
       DEF CreateDynamicData, DataOK, IntentsKept, market, tracking
  <2> QED
    BY <1>2, <2>2, AwaitStep, EndStep DEF CreateDynamicData, PCs, Attempting
<1>3. CASE FindExistingIntend(h)
  BY <1>3, NothingShared, AwaitStep DEF FindExistingIntend, PCs, Attempting
<1>4. CASE InsertIntend(h)
  <2>1. run[h].pair \in Pairs
    BY <1>1, <1>4 DEF InsertIntend, HandlerOK
  <2>2. PICK i \in Intents :
          /\ ~Exists(i)
          /\ intents' = [intents EXCEPT ![i] = [pair |-> run[h].pair,
                                                status |-> "FindingEntry",
                                                entry |-> "none"]]
    BY <1>4 DEF InsertIntend
  <2>3. intents' \in [Intents -> IntentRows \cup {Absent}]
    BY <2>1, <2>2, DataTyped DEF DataOK, IntentRows, Statuses
  <2>4. IntentsKept
    BY <2>2, DataTyped DEF DataOK, IntentsKept, Exists, IntentRows, Statuses
  <2>5. DataOK'
    BY <1>4, <2>3, DataTyped DEF InsertIntend, DataOK, market, tracking
  <2> QED
    BY <1>4, <2>4, <2>5, AwaitStep DEF InsertIntend, PCs, Attempting
<1>5. CASE AbandonFlow(h)
  BY <1>5, NothingShared, EndStep DEF AbandonFlow
<1>6. CASE SetupPriceTracking(h)
  <2>1. run[h].pair \in Pairs
    BY <1>1, <1>6 DEF SetupPriceTracking, HandlerOK
  <2>2. IntentsKept /\ DataOK'
    BY <1>6, <2>1, ActiveSet, DataTyped
       DEF SetupPriceTracking, DataOK, IntentsKept, market
  <2> QED
    BY <1>6, <2>2, AwaitStep DEF SetupPriceTracking, PCs, Attempting
<1>7. CASE UpdateDynamicData(h)
  BY <1>7, NothingShared, AwaitStep, EndStep
     DEF UpdateDynamicData, PCs, Attempting
<1>8. CASE FindFindingEntry(h)
  BY <1>8, NothingShared, AwaitStep DEF FindFindingEntry, PCs, Attempting
<1> QED
  BY <1>2, <1>3, <1>4, <1>5, <1>6, <1>7, <1>8

\* The choice of an intent, and of what to try with it.
LEMMA ChoiceType ==
  ASSUME TypeInv, NEW h \in Handlers,
         FindFindingExit(h) \/ TrySl(h) \/ ValidateEntry(h)
  PROVE  TypeInv'
<1> USE DEF At
<1>1. run[h] \in Runs /\ HandlerOK(run[h], intents)
  BY HandlerTyped
<1>2. IntentsKept /\ DataOK' /\ UNCHANGED environment /\ UNCHANGED intents
  BY NothingShared DEF FindFindingExit, TrySl, ValidateEntry
<1>3. \A s : \A i \in WithStatus(run[h].pair, s) :
        run[h].pc # "idle" => i \in Intents /\ intents[i] \in IntentRows
                                /\ intents[i].pair = run[h].pair
  BY <1>1, DataTyped, ConstantsAssumption
     DEF WithStatus, DataOK, HandlerOK, Absent, ConstantsAssumption
<1>4. CASE FindFindingExit(h)
  <2>1. CASE Goto(h, Idle)
    BY <1>2, <2>1, EndStep
  <2>2. ASSUME NEW i \in WithStatus(run[h].pair, "FindingExit"),
               NEW pc \in {"lock", "trySl"},
               Goto(h, [run[h] EXCEPT !.pc = pc, !.purpose = "tp",
                                      !.intent = i,
                                      !.entry = intents[i].entry])
        PROVE  TypeInv'
    <3> DEFINE r == [run[h] EXCEPT !.pc = pc, !.purpose = "tp",
                                   !.intent = i, !.entry = intents[i].entry]
    <3>1. i \in Intents /\ intents[i] \in IntentRows
            /\ intents[i].pair = run[h].pair
      BY <1>3, <1>4 DEF FindFindingExit
    <3>2. r \in Runs
      BY <1>1, <3>1 DEF Runs, PCs, Purposes, IntentRows
    <3>3. HandlerOK(r, intents')
      BY <1>1, <1>2, <1>4, <3>1
         DEF HandlerOK, Runs, Attempting, Purposes, FindFindingExit
    <3> QED
      BY <1>2, <2>2, <3>2, <3>3, TypeStep
  <2> QED
    BY <1>4, <2>1, <2>2 DEF FindFindingExit
<1>5. CASE TrySl(h)
  <2> DEFINE r == [run[h] EXCEPT !.pc = "lock", !.purpose = "sl"]
  <2>1. r \in Runs /\ HandlerOK(r, intents')
    BY <1>1, <1>2, <1>5
       DEF TrySl, HandlerOK, Runs, PCs, Attempting, Purposes
  <2> QED
    BY <1>2, <1>5, <2>1, TypeStep, EndStep DEF TrySl
<1>6. CASE ValidateEntry(h)
  <2>1. CASE Return(h)
    BY <1>2, <1>6, <2>1, ReturnStep DEF ValidateEntry
  <2>2. ASSUME NEW i \in WithStatus(run[h].pair, "FindingEntry"),
               Goto(h, [run[h] EXCEPT !.pc = "lock", !.purpose = "entry",
                                      !.intent = i])
        PROVE  TypeInv'
    <3> DEFINE r == [run[h] EXCEPT !.pc = "lock", !.purpose = "entry",
                                   !.intent = i]
    <3>1. i \in Intents /\ intents[i] \in IntentRows
            /\ intents[i].pair = run[h].pair
      BY <1>3, <1>6 DEF ValidateEntry
    <3>2. r \in Runs /\ HandlerOK(r, intents')
      BY <1>1, <1>2, <1>6, <3>1
         DEF HandlerOK, Runs, PCs, Attempting, Purposes, ValidateEntry
    <3> QED
      BY <1>2, <2>2, <3>2, TypeStep
  <2> QED
    BY <1>6, <2>1, <2>2 DEF ValidateEntry
<1> QED
  BY <1>4, <1>5, <1>6

\* The locals of a handler that attempts to trade.
LEMMA AttemptTyped ==
  ASSUME TypeInv, NEW h \in Handlers, run[h].pc \in Attempting
  PROVE  /\ run[h] \in Runs
         /\ run[h].purpose \in Purposes
         /\ run[h].intent \in Intents
         /\ intents[run[h].intent] \in IntentRows
         /\ intents[run[h].intent].pair = run[h].pair
         /\ run[h].pair \in Pairs
         /\ run[h].lp \in LpSizes
BY HandlerTyped DEF HandlerOK, Purposes, Attempting

LEMMA LockType ==
  ASSUME TypeInv, NEW h \in Handlers,
         LockEntry(h) \/ LockExit(h) \/ UnlockTrade(h)
  PROVE  TypeInv'
<1> DEFINE r == run[h]
<1> USE DEF At, Attempting
<1>1. /\ r.intent \in Intents /\ intents[r.intent] \in IntentRows
      /\ r.purpose \in Purposes
  BY AttemptTyped DEF LockEntry, LockExit, UnlockTrade
<1>2. LockedStatus(r.purpose) \in Statuses
        /\ UnlockedStatus(r.purpose) \in Statuses
  BY DEF LockedStatus, UnlockedStatus, Statuses
<1>3. IntentsKept /\ DataOK' /\ UNCHANGED environment
  BY <1>1, <1>2, StatusWritten DEF LockEntry, LockExit, UnlockTrade
<1>4. CASE LockEntry(h)
  BY <1>1, <1>3, <1>4, AwaitStep, ReturnStep DEF LockEntry, PCs
<1>5. CASE LockExit(h)
  BY <1>1, <1>3, <1>5, AwaitStep, EndStep DEF LockExit, PCs, AfterQuote
<1>6. CASE UnlockTrade(h)
  BY <1>3, <1>6, ReturnStep DEF UnlockTrade
<1> QED
  BY <1>4, <1>5, <1>6

LEMMA SwapType ==
  ASSUME TypeInv, NEW h \in Handlers,
         \/ QuoteThrows(h) \/ \E q \in Prices : Quoted(h, q)
         \/ SwapMined(h) \/ SwapThrows(h)
  PROVE  TypeInv'
<1> DEFINE r == run[h]
<1> USE DEF At, Attempting
<1>1. r \in Runs /\ r.purpose \in Purposes /\ r.intent \in Intents
  BY AttemptTyped DEF QuoteThrows, Quoted, SwapMined, SwapThrows
<1>2. CASE QuoteThrows(h)
  BY <1>1, <1>2, NothingShared, AwaitStep DEF QuoteThrows, PCs
<1>3. ASSUME NEW q \in Prices, Quoted(h, q)
      PROVE  TypeInv'
  <2>1. PICK pc \in {"unlock", "swap"}, kept \in Prices \cup {"none"} :
          Goto(h, [r EXCEPT !.pc = pc, !.quote = kept])
    BY <1>3 DEF Quoted, AfterQuote
  <2> DEFINE s == [r EXCEPT !.pc = pc, !.quote = kept]
  <2>2. s \in Runs
    BY <1>1 DEF Runs, PCs
  <2>3. HandlerOK(s, intents)
    BY <1>1, <1>3, HandlerTyped DEF Runs, HandlerOK, Quoted
  <2>4. IntentsKept /\ DataOK' /\ UNCHANGED environment /\ UNCHANGED intents
    BY <1>3, NothingShared DEF Quoted
  <2> QED
    BY <2>1, <2>2, <2>3, <2>4, TypeStep
<1>4. ASSUME SwapMined(h) \/ SwapThrows(h)
      PROVE  TypeInv'
  <2>1. buys' \in [Intents -> 0..MaxSwaps] /\ sells' \in [Intents -> 0..MaxSwaps]
    BY <1>4, <1>1, DataTyped, BoundsTyped
       DEF SwapMined, SwapThrows, CountSwap, Mined, DataOK
  <2>2. IntentsKept /\ DataOK' /\ UNCHANGED environment
    BY <1>4, <2>1, DataTyped
       DEF SwapMined, SwapThrows, DataOK, IntentsKept, tracking
  <2> QED
    BY <1>1, <1>4, <2>2, AwaitStep DEF SwapMined, SwapThrows, PCs
<1> QED
  BY <1>2, <1>3, <1>4

LEMMA RecordType ==
  ASSUME TypeInv, NEW h \in Handlers, SaveHistory(h) \/ CommitIntend(h)
  PROVE  TypeInv'
<1> DEFINE r == run[h]
<1> USE DEF At, Attempting
<1>1. /\ r.intent \in Intents /\ intents[r.intent] \in IntentRows
      /\ r.purpose \in Purposes /\ r.pair \in Pairs
  BY AttemptTyped DEF SaveHistory, CommitIntend
<1>2. active' \subseteq Pairs /\ persisted' \subseteq Pairs
        /\ redList' \subseteq Tokens
  <2>1. CASE UNCHANGED tracking
    BY <2>1, DataTyped DEF DataOK, tracking
  <2>2. CASE StopNewPairTradingFlow(r.pair)
    BY <1>1, <2>2, ActiveSet, DataTyped DEF DataOK, StopNewPairTradingFlow
  <2> QED
    BY <2>1, <2>2 DEF SaveHistory, CommitIntend, Recorded
<1>3. CASE SaveHistory(h)
  <2>1. history' \in [Intents -> SUBSET Purposes]
    BY <1>1, <1>3, DataTyped DEF SaveHistory, DataOK
  <2>2. IntentsKept /\ DataOK' /\ UNCHANGED environment
    BY <1>2, <1>3, <2>1, DataTyped DEF SaveHistory, DataOK, IntentsKept
  <2> QED
    BY <1>1, <1>3, <2>2, AwaitStep, ReturnStep DEF SaveHistory, Recorded, PCs
<1>4. CASE CommitIntend(h)
  <2>1. SettledStatus(r.purpose) \in Statuses
    BY <1>1 DEF SettledStatus, Purposes, Statuses
  <2>2. intents' \in [Intents -> IntentRows \cup {Absent}] /\ IntentsKept
    <3>1. CASE UNCHANGED intents
      BY <3>1, DataTyped DEF DataOK, IntentsKept
    <3>2. ASSUME NEW e \in {"none", "zero", "pos"},
                 intents' = [intents EXCEPT
                               ![r.intent].status = SettledStatus(r.purpose),
                               ![r.intent].entry = e]
          PROVE  intents' \in [Intents -> IntentRows \cup {Absent}]
                   /\ IntentsKept
      BY <1>1, <2>1, <3>2, DataTyped DEF DataOK, IntentsKept, IntentRows
    <3> QED
      BY <1>1, <1>4, <3>1, <3>2 DEF CommitIntend, IntentRows
  <2>3. DataOK' /\ UNCHANGED environment
    BY <1>2, <1>4, <2>2, DataTyped DEF CommitIntend, DataOK, market
  <2> QED
    BY <1>4, <2>2, <2>3, ReturnStep DEF CommitIntend, Recorded
<1> QED
  BY <1>3, <1>4

LEMMA EnvironmentType ==
  ASSUME TypeInv,
         \/ \E t \in Tokens : AddRedListContract(t)
         \/ Tick \/ RefreshConfig \/ LoadActivePairs \/ Crash
         \/ UNCHANGED vars
  PROVE  TypeInv'
<1>1. IntentsKept /\ UNCHANGED intents
  BY DEF IntentsKept, AddRedListContract, Tick, RefreshConfig,
         LoadActivePairs, Crash, vars
<1>2. run' \in [Handlers -> Runs] /\ HandlersOK'
  BY <1>1, HandlerTyped, IdleOK
     DEF TypeInv, TypeOK, HandlersOK, AddRedListContract, Tick, RefreshConfig,
         LoadActivePairs, Crash, vars
<1>3. age' \in [Intents -> 0..MaxAge]
  BY DataTyped, BoundsTyped
     DEF DataOK, AddRedListContract, Tick, RefreshConfig, LoadActivePairs,
         Crash, vars
<1>4. TypeOK'
  BY <1>1, <1>2, <1>3
     DEF TypeInv, TypeOK, AddRedListContract, Tick, RefreshConfig,
         LoadActivePairs, Crash, vars, market, tracking, environment
<1> QED
  BY <1>2, <1>4 DEF TypeInv

LEMMA NextTypeInv == TypeInv /\ [Next]_vars => TypeInv'
BY ArriveType, FlowType, ChoiceType, LockType, SwapType, RecordType,
   EnvironmentType
   DEF Next, Handle

THEOREM TypeInvariant == Spec => []TypeInv
BY InitTypeInv, NextTypeInv, PTL DEF Spec

\* Every variable keeps its type, whatever overlaps, fails or crashes.
THEOREM TypeCorrect == Spec => []TypeOK
<1>1. TypeInv => TypeOK
  BY DEF TypeInv
<1> QED
  BY <1>1, TypeInvariant, PTL

-----------------------------------------------------------------------------
(* Nothing phantom.  EntryBacked, ExitBacked and ActiveHasIntent are not   *)
(* inductive: they need to know what a handler between its swap and its    *)
(* commit has done.  StopLossDelayed adds when trySl was entered.          *)

RowBacked(i) ==
  /\ intents[i].status \in Bought => "entry" \in history[i]
  /\ intents[i].status = "TP" => "tp" \in history[i]
  /\ intents[i].status = "SL" => "sl" \in history[i]
  /\ history[i] # {} => buys[i] > 0
  /\ history[i] \cap {"tp", "sl"} # {} => sells[i] > 0
  /\ sells[i] > 0 => "entry" \in history[i]
  /\ "sl" \in history[i] => age[i] >= SlDelay

HandlerBacked(h) ==
  LET r == run[h]
  IN  /\ r.purpose \in {"tp", "sl"} => "entry" \in history[r.intent]
      /\ r.purpose = "sl" => age[r.intent] >= SlDelay
      /\ r.pc \in {"history", "commit"} =>
           /\ r.purpose = "entry" => buys[r.intent] > 0
           /\ r.purpose \in {"tp", "sl"} => sells[r.intent] > 0
      /\ r.pc = "commit" => r.purpose \in history[r.intent]
      /\ r.pc = "track" => \E i \in Intents : intents[i].pair = r.pair

BackedInv ==
  /\ TypeInv
  /\ \A i \in Intents : RowBacked(i)
  /\ \A h \in Handlers : HandlerBacked(h)
  /\ ActiveHasIntent

\* What only grows.
Grows ==
  \A i \in Intents :
    /\ history[i] \subseteq history'[i]
    /\ buys[i] > 0 => buys'[i] > 0
    /\ sells[i] > 0 => sells'[i] > 0
    /\ age[i] >= SlDelay => age'[i] >= SlDelay
    /\ \A p \in Pairs : intents[i].pair = p => intents'[i].pair = p

\* A step in which only the handler h moves keeps the invariant when the
\* rows, the handler h and the followed pairs stay backed.
LEMMA BackedStep ==
  ASSUME BackedInv, TypeInv', NEW h \in Handlers, NEW r, Goto(h, r), Grows,
         \A i \in Intents : RowBacked(i)',
         HandlerBacked(h)',
         active' \cup persisted' \subseteq active \cup persisted
  PROVE  BackedInv'
<1>1. ASSUME NEW g \in Handlers
      PROVE  HandlerBacked(g)'
  <2>1. CASE g = h
    BY <2>1
  <2>2. CASE g # h
    <3>1. run'[g] = run[g]
      BY <2>2 DEF BackedInv, TypeInv, TypeOK, Goto
    <3>2. /\ run[g].purpose \in Purposes => run[g].intent \in Intents
          /\ run[g].pc = "track" => run[g].pair \in Pairs
          /\ run[g].pc \in {"history", "commit"} => run[g].purpose \in Purposes
      BY HandlerTyped DEF BackedInv, HandlerOK, Purposes, Attempting
    <3>3. HandlerBacked(g)
      BY DEF BackedInv
    <3> QED
      BY <3>1, <3>2, <3>3 DEF HandlerBacked, Grows, Purposes
  <2> QED
    BY <2>1, <2>2
<1>2. ActiveHasIntent'
  <2>1. active \cup persisted \subseteq Pairs
    BY DEF BackedInv, TypeInv, TypeOK
  <2> QED
    BY <2>1 DEF BackedInv, ActiveHasIntent, Grows
<1> QED
  BY <1>1, <1>2 DEF BackedInv

LEMMA InitBacked == Init => BackedInv
<1> SUFFICES ASSUME Init PROVE BackedInv
  OBVIOUS
<1>1. \A i \in Intents : RowBacked(i)
  BY DEF Init, RowBacked, Absent, Bought
<1>2. \A h \in Handlers : HandlerBacked(h)
  BY DEF Init, HandlerBacked, Idle
<1>3. ActiveHasIntent
  BY DEF Init, ActiveHasIntent
<1> QED
  BY <1>1, <1>2, <1>3, InitTypeInv DEF BackedInv

\* A step that leaves the shared state alone.
LEMMA QuietStep ==
  ASSUME BackedInv, TypeInv', NEW h \in Handlers, NEW r, Goto(h, r),
         UNCHANGED <<intents, age, market, tracking>>,
         HandlerBacked(h)'
  PROVE  BackedInv'
<1>1. Grows
  BY DEF Grows, market
<1>2. \A i \in Intents : RowBacked(i)'
  BY DEF BackedInv, RowBacked, market
<1>3. active' \cup persisted' \subseteq active \cup persisted
  BY DEF tracking
<1> QED
  BY <1>1, <1>2, <1>3, BackedStep

\* A handler that returned has forgotten its intent, or is in trySl with it.
LEMMA ReturnedLocals ==
  ASSUME NEW r \in Runs
  PROVE  LET s == Returned(r)
         IN  /\ s.pc \in {"idle", "findExit", "trySl"}
             /\ \/ s.purpose = "none"
                \/ s.purpose = r.purpose /\ s.intent = r.intent
<1>1. CASE r.purpose = "tp"
  BY <1>1 DEF Returned, Runs
<1>2. CASE r.kind = "updated" /\ r.purpose \notin {"tp", "sl"}
  BY <1>2 DEF Returned, Idle
<1> QED
  BY <1>1, <1>2 DEF Returned, Idle

LEMMA QuietBacked ==
  ASSUME BackedInv, TypeInv', NEW h \in Handlers,
         \/ \E p \in Pairs, lp \in LpSizes :
              HandleLpCreatedEvent(h, p, lp) \/ HandleLpUpdatedEvent(h, p, lp)
         \/ CreateDynamicData(h) \/ FindExistingIntend(h) \/ AbandonFlow(h)
         \/ UpdateDynamicData(h) \/ FindFindingEntry(h) \/ FindFindingExit(h)
         \/ TrySl(h) \/ ValidateEntry(h) \/ QuoteThrows(h)
         \/ \E q \in Prices : Quoted(h, q)
  PROVE  BackedInv'
<1> USE DEF At
<1>0. /\ TypeInv /\ run \in [Handlers -> Runs] /\ HandlerBacked(h)
      /\ UNCHANGED <<intents, age, market, tracking>>
  BY DEF BackedInv, TypeInv, TypeOK, HandleLpCreatedEvent,
         HandleLpUpdatedEvent, Arrive, CreateDynamicData, FindExistingIntend,
         AbandonFlow, UpdateDynamicData, FindFindingEntry, FindFindingExit,
         TrySl, ValidateEntry, QuoteThrows, Quoted
<1>1. ASSUME NEW r, Goto(h, r), r.purpose = "none" \/ r.purpose = "entry",
             r.pc \notin {"history", "commit", "track"}
      PROVE  BackedInv'
  BY <1>0, <1>1, QuietStep DEF HandlerBacked, Goto
<1>2. ASSUME NEW r, Goto(h, r), r.purpose = run[h].purpose,
             r.intent = run[h].intent,
             r.pc \notin {"history", "commit", "track"}
      PROVE  BackedInv'
  BY <1>0, <1>2, QuietStep DEF HandlerBacked, Goto, market
<1>3. CASE Return(h)
  BY <1>0, <1>1, <1>2, <1>3, ReturnedLocals DEF Return
<1>4. CASE Goto(h, Idle)
  BY <1>1, <1>4 DEF Idle
<1>5. ASSUME NEW pc \in PCs \ {"history", "commit", "track"}, Await(h, pc)
      PROVE  BackedInv'
  <2> DEFINE r == [run[h] EXCEPT !.pc = pc]
  <2>1. r.purpose = run[h].purpose /\ r.intent = run[h].intent /\ r.pc = pc
    BY <1>0 DEF Runs
  <2> QED
    BY <1>2, <1>5, <2>1 DEF Await
<1>6. ASSUME NEW p \in Pairs, NEW lp \in LpSizes,
             HandleLpCreatedEvent(h, p, lp) \/ HandleLpUpdatedEvent(h, p, lp)
      PROVE  BackedInv'
  BY <1>1, <1>6 DEF HandleLpCreatedEvent, HandleLpUpdatedEvent, Arrive, Idle
<1>7. CASE CreateDynamicData(h)
  BY <1>4, <1>5, <1>7 DEF CreateDynamicData, PCs
<1>8. CASE FindExistingIntend(h)
  <2>1. CASE Await(h, "insert")
    BY <1>5, <2>1 DEF PCs
  <2>2. CASE Await(h, "track") /\ WithStatus(run[h].pair, "FindingEntry") # {}
    <3>1. run'[h] = [run[h] EXCEPT !.pc = "track"]
      BY <1>0, <2>2 DEF Await, Goto
    <3>2. HandlerBacked(h)'
      BY <1>0, <2>2, <3>1 DEF HandlerBacked, WithStatus, Runs, market
    <3> QED
      BY <1>0, <2>2, <3>2, QuietStep DEF Await
  <2> QED
    BY <1>8, <2>1, <2>2 DEF FindExistingIntend
<1>9. CASE AbandonFlow(h)
  BY <1>4, <1>9 DEF AbandonFlow
<1>10. CASE UpdateDynamicData(h) \/ FindFindingEntry(h) \/ QuoteThrows(h)
  BY <1>4, <1>5, <1>10
     DEF UpdateDynamicData, FindFindingEntry, QuoteThrows, PCs
<1>11. CASE FindFindingExit(h)
  <2>1. ASSUME NEW i \in WithStatus(run[h].pair, "FindingExit"),
               NEW pc \in {"lock", "trySl"},
               Goto(h, [run[h] EXCEPT !.pc = pc, !.purpose = "tp",
                                      !.intent = i,
                                      !.entry = intents[i].entry])
        PROVE  BackedInv'
    <3>1. "entry" \in history[i]
      BY <2>1 DEF WithStatus, BackedInv, RowBacked, Bought
    <3>2. /\ run'[h].purpose = "tp" /\ run'[h].intent = i /\ run'[h].pc = pc
      BY <1>0, <2>1 DEF Goto, Runs
    <3>3. HandlerBacked(h)'
      BY <1>0, <3>1, <3>2 DEF HandlerBacked, market
    <3> QED
      BY <1>0, <2>1, <3>3, QuietStep
  <2> QED
    BY <1>4, <1>11, <2>1 DEF FindFindingExit
<1>12. CASE TrySl(h)
  <2>1. CASE Goto(h, [run[h] EXCEPT !.pc = "lock", !.purpose = "sl"])
               /\ SlDue(run[h])
    <3>1. /\ run'[h].purpose = "sl" /\ run'[h].intent = run[h].intent
          /\ run'[h].pc = "lock"
      BY <1>0, <2>1 DEF Goto, Runs
    <3>2. run[h].purpose = "tp"
      BY <1>0, <1>12, HandlerTyped DEF TrySl, HandlerOK
    <3>3. HandlerBacked(h)'
      BY <1>0, <2>1, <3>1, <3>2 DEF HandlerBacked, SlDue, market
    <3> QED
      BY <1>0, <2>1, <3>3, QuietStep
  <2> QED
    BY <1>4, <1>12, <2>1 DEF TrySl
<1>13. CASE ValidateEntry(h)
  <2>1. ASSUME NEW i \in Intents,
               Goto(h, [run[h] EXCEPT !.pc = "lock", !.purpose = "entry",
                                      !.intent = i])
        PROVE  BackedInv'
    BY <1>0, <1>1, <2>1 DEF Runs
  <2> QED
    BY <1>3, <1>13, <2>1 DEF ValidateEntry, WithStatus
<1>14. ASSUME NEW q \in Prices, Quoted(h, q)
       PROVE  BackedInv'
  <2>1. PICK pc \in {"unlock", "swap"}, kept \in Prices \cup {"none"} :
          Goto(h, [run[h] EXCEPT !.pc = pc, !.quote = kept])
    BY <1>14 DEF Quoted, AfterQuote
  <2> QED
    BY <1>0, <1>2, <2>1 DEF Runs
<1> QED
  BY <1>6, <1>7, <1>8, <1>9, <1>10, <1>11, <1>12, <1>13, <1>14

\* What the update of a status may change.
LEMMA StatusEffect ==
  ASSUME intents \in [Intents -> IntentRows \cup {Absent}],
         NEW i \in Intents, intents[i] \in IntentRows,
         NEW s, WriteStatus(i, s)
  PROVE  /\ \A j \in Intents \ {i} : intents'[j] = intents[j]
         /\ intents'[i].pair = intents[i].pair
         /\ intents'[i].entry = intents[i].entry
         /\ intents'[i].status \in {s, intents[i].status}
         /\ ~DbFaults => intents'[i].status = s
BY DEF WriteStatus, IntentRows

LEMMA LockBacked ==
  ASSUME BackedInv, TypeInv', NEW h \in Handlers,
         LockEntry(h) \/ LockExit(h) \/ UnlockTrade(h)
  PROVE  BackedInv'
<1> DEFINE r == run[h]
<1> USE DEF At, Attempting
<1>1. /\ TypeInv /\ run \in [Handlers -> Runs] /\ HandlerBacked(h)
      /\ UNCHANGED <<age, market, tracking>>
      /\ intents \in [Intents -> IntentRows \cup {Absent}]
  BY DEF BackedInv, TypeInv, TypeOK, LockEntry, LockExit, UnlockTrade
<1>2. r \in Runs /\ r.intent \in Intents /\ r.purpose \in Purposes
        /\ intents[r.intent] \in IntentRows
  BY <1>1, AttemptTyped DEF LockEntry, LockExit, UnlockTrade
<1>3. PICK s \in {LockedStatus(r.purpose), UnlockedStatus(r.purpose)} :
        WriteStatus(r.intent, s)
  BY DEF LockEntry, LockExit, UnlockTrade
<1>4. s \in Bought => "entry" \in history[r.intent]
  BY <1>1, <1>2, <1>3
     DEF LockedStatus, UnlockedStatus, Bought, Purposes, HandlerBacked
<1>5. s \notin {"TP", "SL"}
  BY DEF LockedStatus, UnlockedStatus
<1>6. Grows
  <2>1. \A i \in Intents : intents'[i].pair = intents[i].pair
    BY <1>1, <1>2, <1>3, StatusEffect
  <2> QED
    BY <1>1, <2>1 DEF Grows, market
<1>7. ASSUME NEW i \in Intents
      PROVE  RowBacked(i)'
  <2>1. RowBacked(i)
    BY DEF BackedInv
  <2>2. \/ intents'[i].status = intents[i].status
        \/ i = r.intent /\ intents'[i].status = s
    BY <1>1, <1>2, <1>3, StatusEffect
  <2> QED
    BY <1>1, <1>4, <1>5, <2>1, <2>2 DEF RowBacked, market
<1> DEFINE GoesOn(t) == /\ Goto(h, t)
                        /\ t.pc \notin {"history", "commit", "track"}
                        /\ \/ t.purpose = "none"
                           \/ t.purpose = r.purpose /\ t.intent = r.intent
<1>8. PICK t : GoesOn(t)
  <2>1. CASE Return(h)
    BY <1>2, <2>1, ReturnedLocals DEF Return
  <2>2. CASE Goto(h, Idle)
    BY <2>2 DEF Idle
  <2>3. ASSUME NEW pc \in PCs \ {"history", "commit", "track"}, Await(h, pc)
        PROVE  \E t : GoesOn(t)
    BY <1>2, <2>3 DEF Await, Runs
  <2> QED
    BY <2>1, <2>2, <2>3
       DEF LockEntry, LockExit, UnlockTrade, AfterQuote, PCs
<1>9. HandlerBacked(h)'
  BY <1>1, <1>8 DEF HandlerBacked, Goto, market
<1>10. active' \cup persisted' \subseteq active \cup persisted
  BY <1>1 DEF tracking
<1> QED
  BY <1>6, <1>7, <1>8, <1>9, <1>10, BackedStep

LEMMA SwapBacked ==
  ASSUME BackedInv, TypeInv', NEW h \in Handlers,
         SwapMined(h) \/ SwapThrows(h)
  PROVE  BackedInv'
<1> DEFINE r == run[h]
<1> USE DEF At, Attempting
<1>1. /\ TypeInv /\ run \in [Handlers -> Runs] /\ HandlerBacked(h)
      /\ UNCHANGED <<age, history, intents, tracking>>
      /\ buys \in [Intents -> 0..MaxSwaps] /\ sells \in [Intents -> 0..MaxSwaps]
  BY DEF BackedInv, TypeInv, TypeOK, SwapMined, SwapThrows
<1>2. r \in Runs /\ r.intent \in Intents /\ r.purpose \in Purposes
  BY <1>1, AttemptTyped DEF SwapMined, SwapThrows
<1>3. \A i \in Intents : (buys[i] > 0 => buys'[i] > 0)
                           /\ (sells[i] > 0 => sells'[i] > 0)
  BY <1>1, BoundsTyped DEF SwapMined, SwapThrows, CountSwap, Mined
<1>4. Grows
  BY <1>1, <1>3 DEF Grows
<1>5. ASSUME NEW i \in Intents
      PROVE  RowBacked(i)'
  <2>1. RowBacked(i)
    BY DEF BackedInv
  <2>2. sells'[i] # sells[i] => i = r.intent /\ r.purpose \in {"tp", "sl"}
    BY <1>1, <1>2 DEF SwapMined, SwapThrows, CountSwap, Mined, Purposes
  <2>3. sells'[i] > 0 => "entry" \in history[i]
    BY <1>1, <2>1, <2>2 DEF RowBacked, HandlerBacked
  <2> QED
    BY <1>1, <1>3, <2>1, <2>3 DEF RowBacked
<1>6. PICK pc \in {"history", "unlock"} :
        /\ Await(h, pc)
        /\ pc = "history" => CountSwap(r)
  BY DEF SwapMined, SwapThrows
<1>7. run'[h].pc = pc /\ run'[h].purpose = r.purpose
        /\ run'[h].intent = r.intent
  BY <1>1, <1>2, <1>6 DEF Await, Goto, Runs
<1>8. CountSwap(r) => /\ r.purpose = "entry" => buys'[r.intent] > 0
                      /\ r.purpose \in {"tp", "sl"} => sells'[r.intent] > 0
  <2>1. MaxSwaps > 0
    BY ConstantsAssumption DEF ConstantsAssumption
  <2> QED
    BY <1>1, <1>2, <2>1, BoundsTyped DEF CountSwap, Mined
<1>9. HandlerBacked(h)'
  BY <1>1, <1>6, <1>7, <1>8 DEF HandlerBacked
<1>10. active' \cup persisted' \subseteq active \cup persisted
  BY <1>1 DEF tracking
<1> QED
  BY <1>4, <1>5, <1>6, <1>9, <1>10, BackedStep DEF Await

\* SaveHistory and CommitIntend end with Recorded, which only stops pairs.
LEMMA RecordedTracking ==
  ASSUME NEW h, Recorded(h)
  PROVE  active' \cup persisted' \subseteq active \cup persisted
BY DEF Recorded, StopNewPairTradingFlow, SetActiveTradingPair, tracking

LEMMA RecordBacked ==
  ASSUME BackedInv, TypeInv', NEW h \in Handlers,
         SaveHistory(h) \/ CommitIntend(h)
  PROVE  BackedInv'
<1> DEFINE r == run[h]
<1> USE DEF At, Attempting
<1>1. /\ TypeInv /\ run \in [Handlers -> Runs] /\ HandlerBacked(h)
      /\ UNCHANGED <<age, buys, sells>>
      /\ intents \in [Intents -> IntentRows \cup {Absent}]
      /\ history \in [Intents -> SUBSET Purposes]
  BY DEF BackedInv, TypeInv, TypeOK, SaveHistory, CommitIntend, market
<1>2. r \in Runs /\ r.intent \in Intents /\ r.purpose \in Purposes
        /\ intents[r.intent] \in IntentRows
  BY <1>1, AttemptTyped DEF SaveHistory, CommitIntend
<1>3. active' \cup persisted' \subseteq active \cup persisted
  BY RecordedTracking DEF SaveHistory, CommitIntend, tracking
<1>4. RowBacked(r.intent)
  BY <1>2 DEF BackedInv
<1> DEFINE GoesOn(t) == /\ Goto(h, t)
                        /\ t.pc \notin {"history", "track"}
                        /\ t.pc = "commit" => r.purpose \in history'[r.intent]
                        /\ \/ t.purpose = "none" /\ t.pc # "commit"
                           \/ t.purpose = r.purpose /\ t.intent = r.intent
<1>5. ASSUME Return(h)
      PROVE  \E t : GoesOn(t)
  BY <1>2, <1>5, ReturnedLocals DEF Return
<1>6. CASE SaveHistory(h)
  <2>1. /\ \A i \in Intents \ {r.intent} : history'[i] = history[i]
        /\ history'[r.intent] \in {history[r.intent],
                                   history[r.intent] \cup {r.purpose}}
        /\ UNCHANGED intents
    BY <1>1, <1>2, <1>6 DEF SaveHistory
  <2>2. Grows
    BY <1>1, <2>1 DEF Grows
  <2>3. ASSUME NEW i \in Intents, i = r.intent
        PROVE  RowBacked(i)'
    BY <1>1, <1>2, <1>4, <1>6, <2>1, <2>3
       DEF RowBacked, HandlerBacked, SaveHistory, Purposes
  <2>4. \A i \in Intents : RowBacked(i)'
    BY <1>1, <2>1, <2>3 DEF BackedInv, RowBacked
  <2>5. CASE Await(h, "commit") /\ r.purpose \in history'[r.intent]
    <3>1. GoesOn([r EXCEPT !.pc = "commit"])
      BY <1>2, <2>5 DEF Await, Runs
    <3> QED
      BY <1>1, <1>2, <1>3, <1>6, <2>2, <2>4, <3>1, BackedStep
         DEF HandlerBacked, Goto, SaveHistory
  <2>6. CASE Return(h)
    <3>1. PICK t : GoesOn(t) /\ t.pc # "commit"
      BY <1>2, <2>6, ReturnedLocals DEF Return
    <3>2. HandlerBacked(h)'
      BY <1>1, <1>2, <2>2, <3>1 DEF HandlerBacked, Goto, Grows
    <3> QED
      BY <1>3, <2>2, <2>4, <3>1, <3>2, BackedStep
  <2> QED
    BY <1>1, <1>2, <1>6, <2>5, <2>6 DEF SaveHistory, Recorded
<1>7. CASE CommitIntend(h)
  <2>1. /\ \A i \in Intents \ {r.intent} : intents'[i] = intents[i]
        /\ intents'[r.intent].pair = intents[r.intent].pair
        /\ intents'[r.intent].status \in {intents[r.intent].status,
                                          SettledStatus(r.purpose)}
        /\ UNCHANGED history
    <3>1. CASE UNCHANGED intents
      BY <1>7, <3>1 DEF CommitIntend, market
    <3>2. CASE \E e : intents' = [intents EXCEPT
                            ![r.intent].status = SettledStatus(r.purpose),
                            ![r.intent].entry = e]
      BY <1>1, <1>2, <1>7, <3>2 DEF CommitIntend, IntentRows, market
    <3> QED
      BY <1>7, <3>1, <3>2 DEF CommitIntend
  <2>2. Grows
    BY <1>1, <2>1 DEF Grows
  <2>3. r.purpose \in history[r.intent]
          /\ (r.purpose \in {"tp", "sl"} => "entry" \in history[r.intent])
    BY <1>1, <1>7 DEF CommitIntend, HandlerBacked
  <2>4. ASSUME NEW i \in Intents, i = r.intent
        PROVE  RowBacked(i)'
    BY <1>1, <1>2, <1>4, <2>1, <2>3, <2>4
       DEF RowBacked, SettledStatus, Purposes, Bought
  <2>5. \A i \in Intents : RowBacked(i)'
    BY <1>1, <2>1, <2>4 DEF BackedInv, RowBacked
  <2>6. PICK t : GoesOn(t) /\ t.pc # "commit"
    BY <1>2, <1>7, ReturnedLocals DEF CommitIntend, Recorded, Return
  <2>7. HandlerBacked(h)'
    BY <1>1, <1>2, <2>2, <2>6 DEF HandlerBacked, Goto, Grows
  <2> QED
    BY <1>3, <2>2, <2>5, <2>6, <2>7, BackedStep
<1> QED
  BY <1>6, <1>7

LEMMA InsertBacked ==
  ASSUME BackedInv, TypeInv', NEW h \in Handlers, InsertIntend(h)
  PROVE  BackedInv'
<1> DEFINE r == run[h]
<1>1. /\ run \in [Handlers -> Runs] /\ HandlerBacked(h) /\ TypeInv
      /\ intents \in [Intents -> IntentRows \cup {Absent}]
      /\ UNCHANGED <<age, market, tracking>>
      /\ Goto(h, [r EXCEPT !.pc = "track"]) /\ r.pc = "insert"
  BY DEF BackedInv, TypeInv, TypeOK, InsertIntend, Await, At
<1>2. r.pair \in Pairs
  BY <1>1, HandlerTyped DEF HandlerOK
<1>3. PICK i \in Intents :
        /\ ~Exists(i)
        /\ intents' = [intents EXCEPT ![i] = [pair |-> r.pair,
                                              status |-> "FindingEntry",
                                              entry |-> "none"]]
  BY DEF InsertIntend
<1>4. intents[i].pair = Null /\ intents'[i].pair = r.pair
        /\ intents'[i].status = "FindingEntry"
  BY <1>1, <1>3 DEF Exists, Absent, IntentRows, Statuses
<1>5. \A j \in Intents \ {i} : intents'[j] = intents[j]
  BY <1>1, <1>3
<1>6. Grows
  BY <1>1, <1>4, <1>5, ConstantsAssumption
     DEF Grows, market, ConstantsAssumption
<1>7. \A j \in Intents : RowBacked(j)'
  BY <1>1, <1>4, <1>5 DEF BackedInv, RowBacked, market, Bought
<1>8. HandlerBacked(h)'
  <2>1. run'[h] = [r EXCEPT !.pc = "track"]
    BY <1>1 DEF Goto
  <2>2. /\ run'[h].pc = "track" /\ run'[h].pair = r.pair
        /\ run'[h].purpose = r.purpose /\ run'[h].intent = r.intent
    BY <1>1, <2>1 DEF Runs
  <2> QED
    BY <1>1, <1>4, <2>2 DEF HandlerBacked, market
<1>9. active' \cup persisted' \subseteq active \cup persisted
  BY <1>1 DEF tracking
<1> QED
  BY <1>1, <1>6, <1>7, <1>8, <1>9, BackedStep

LEMMA TrackBacked ==
  ASSUME BackedInv, TypeInv', NEW h \in Handlers, SetupPriceTracking(h)
  PROVE  BackedInv'
<1> DEFINE r == run[h]
<1>1. /\ run \in [Handlers -> Runs] /\ HandlerBacked(h) /\ TypeInv
      /\ UNCHANGED <<age, market, intents>>
      /\ Goto(h, [r EXCEPT !.pc = "validateEntry"]) /\ r.pc = "track"
  BY DEF BackedInv, TypeInv, TypeOK, SetupPriceTracking, Await, At
<1>2. \A i \in Intents : RowBacked(i)'
  BY <1>1 DEF BackedInv, RowBacked, market
<1>3. ASSUME NEW g \in Handlers
      PROVE  HandlerBacked(g)'
  <2>1. HandlerBacked(g)
    BY DEF BackedInv
  <2>2. /\ run'[g].purpose = run[g].purpose /\ run'[g].intent = run[g].intent
        /\ run'[g].pair = run[g].pair
        /\ run'[g].pc \in {run[g].pc, "validateEntry"}
    BY <1>1 DEF Goto, Runs
  <2> QED
    BY <1>1, <2>1, <2>2 DEF HandlerBacked, market
<1>4. active' \cup persisted' \subseteq active \cup persisted \cup {r.pair}
  BY DEF SetupPriceTracking, SetActiveTradingPair
<1>5. ActiveHasIntent'
  BY <1>1, <1>4 DEF BackedInv, ActiveHasIntent, HandlerBacked
<1> QED
  BY <1>2, <1>3, <1>5 DEF BackedInv

LEMMA EnvironmentBacked ==
  ASSUME BackedInv, TypeInv',
         \/ \E t \in Tokens : AddRedListContract(t)
         \/ Tick \/ RefreshConfig \/ LoadActivePairs \/ Crash
         \/ UNCHANGED vars
  PROVE  BackedInv'
<1>1. UNCHANGED <<intents, market>>
  BY DEF AddRedListContract, Tick, RefreshConfig, LoadActivePairs, Crash, vars,
         market
<1>2. \A i \in Intents : age[i] >= SlDelay => age'[i] >= SlDelay
  <2>1. CASE Tick
    <3>1. \A i \in Intents : age[i] \in Nat /\ age'[i] \in {age[i], age[i] + 1}
      BY <2>1, BoundsTyped DEF BackedInv, TypeInv, TypeOK, Tick
    <3>2. SlDelay \in Nat
      BY ConstantsAssumption DEF ConstantsAssumption
    <3> QED
      BY <3>1, <3>2
  <2>2. CASE UNCHANGED age
    BY <2>2
  <2> QED
    BY <2>1, <2>2
       DEF AddRedListContract, RefreshConfig, LoadActivePairs, Crash, vars
<1>3. \A i \in Intents : RowBacked(i)'
  BY <1>1, <1>2 DEF BackedInv, RowBacked, market
<1>4. ASSUME NEW h \in Handlers
      PROVE  HandlerBacked(h)'
  <2>1. CASE run'[h] = run[h]
    <3>1. run[h].purpose # "none" => run[h].intent \in Intents
      BY HandlerTyped DEF BackedInv, HandlerOK
    <3> QED
      BY <1>1, <1>2, <2>1, <3>1 DEF BackedInv, HandlerBacked, market
  <2>2. CASE run'[h] = Idle
    BY <2>2 DEF HandlerBacked, Idle
  <2> QED
    BY <2>1, <2>2
       DEF AddRedListContract, Tick, RefreshConfig, LoadActivePairs, Crash,
           vars
<1>5. active' \cup persisted' \subseteq active \cup persisted
  BY DEF AddRedListContract, Tick, RefreshConfig, LoadActivePairs, Crash,
         vars, tracking
<1>6. ActiveHasIntent'
  BY <1>1, <1>5 DEF BackedInv, ActiveHasIntent
<1> QED
  BY <1>3, <1>4, <1>6 DEF BackedInv

LEMMA NextBacked == BackedInv /\ [Next]_vars => BackedInv'
<1> SUFFICES ASSUME BackedInv, [Next]_vars PROVE BackedInv'
  OBVIOUS
<1>1. TypeInv'
  BY NextTypeInv DEF BackedInv
<1> QED
  BY <1>1, QuietBacked, LockBacked, SwapBacked, RecordBacked, InsertBacked,
     TrackBacked, EnvironmentBacked
     DEF Next, Handle

THEOREM BackedInvariant == Spec => []BackedInv
BY InitBacked, NextBacked, PTL DEF Spec

\* No intent reaches the exit side, and no handler tries to sell it, without
\* a buy that was mined and recorded.
THEOREM NoPhantomEntry == Spec => []EntryBacked
<1>1. BackedInv => EntryBacked
  BY DEF BackedInv, EntryBacked, RowBacked, HandlerBacked
<1> QED
  BY <1>1, BackedInvariant, PTL

\* No intent ends as TP or SL without a sale that was mined and recorded as
\* such, and nothing is sold whose buy is not in the history.
THEOREM NoPhantomExit == Spec => []ExitBacked
<1>1. BackedInv => ExitBacked
  BY DEF BackedInv, ExitBacked, RowBacked
<1> QED
  BY <1>1, BackedInvariant, PTL

\* A stop loss is recorded only sl_start_after_mins after the creation of its
\* intent, from which trySl counts.  schema.prisma says that the delay starts
\* after the entry was placed; nothing is claimed about that.
THEOREM StopLossDelayed ==
  Spec => [](\A i \in Intents : "sl" \in history[i] => age[i] >= SlDelay)
<1>1. BackedInv => \A i \in Intents : "sl" \in history[i] => age[i] >= SlDelay
  BY DEF BackedInv, RowBacked
<1> QED
  BY <1>1, BackedInvariant, PTL

\* Only pairs that have an intent are followed.
THEOREM FollowedPairsHaveIntents == Spec => []ActiveHasIntent
<1>1. BackedInv => ActiveHasIntent
  BY DEF BackedInv
<1> QED
  BY <1>1, BackedInvariant, PTL

-----------------------------------------------------------------------------
(* Unfollowing                                                             *)

\* Stopping the flow of a sold intent is a step that may unfollow its pair.
LEMMA StopUnfollows ==
  ASSUME BackedInv, NEW h \in Handlers, Recorded(h),
         run[h].pc \in {"history", "commit"}
  PROVE  UnfollowStep
<1> DEFINE i == run[h].intent
<1>1. /\ run[h].purpose \in Purposes /\ i \in Intents
      /\ intents[i] \in IntentRows /\ intents[i].pair = run[h].pair
  BY HandlerTyped DEF BackedInv, HandlerOK, Attempting, Purposes
<1>2. CASE run[h].purpose = "entry"
  BY <1>2 DEF Recorded, tracking, UnfollowStep
<1>3. CASE run[h].purpose # "entry"
  <2>1. sells[i] > 0
    BY <1>1, <1>3 DEF BackedInv, HandlerBacked, Purposes
  <2>2. Exists(i)
    BY <1>1 DEF Exists, IntentRows, Statuses
  <2>3. /\ active \ active' \subseteq {run[h].pair}
        /\ redList \ redList' \subseteq TokensOf[run[h].pair]
    BY <1>3 DEF Recorded, StopNewPairTradingFlow, SetActiveTradingPair
  <2> QED
    BY <1>1, <2>1, <2>2, <2>3 DEF UnfollowStep
<1> QED
  BY <1>2, <1>3

\* Every other step of a handler, and every step of the environment but a
\* crash, keeps the pairs and the contracts that are followed.
LEMMA HandlerUnfollows ==
  ASSUME BackedInv, NEW h \in Handlers, Handle(h)
  PROVE  UnfollowStep
<1>1. CASE SaveHistory(h)
  <2>1. Recorded(h) \/ UNCHANGED tracking
    BY <1>1 DEF SaveHistory
  <2> QED
    BY <1>1, <2>1, StopUnfollows DEF SaveHistory, At, tracking, UnfollowStep
<1>2. CASE CommitIntend(h)
  BY <1>2, StopUnfollows DEF CommitIntend, At
<1>3. CASE SetupPriceTracking(h)
  BY <1>3 DEF SetupPriceTracking, SetActiveTradingPair, UnfollowStep
<1>4. CASE UNCHANGED tracking
  BY <1>4 DEF tracking, UnfollowStep
<1> QED
  BY <1>1, <1>2, <1>3, <1>4
     DEF Handle, CreateDynamicData, FindExistingIntend, InsertIntend,
         AbandonFlow, UpdateDynamicData, FindFindingEntry, FindFindingExit,
         TrySl, ValidateEntry, LockEntry, LockExit, QuoteThrows, Quoted,
         SwapMined, SwapThrows, UnlockTrade

LEMMA NextUnfollows == BackedInv /\ [Next]_vars => [UnfollowStep]_vars
<1> SUFFICES ASSUME BackedInv, Next PROVE UnfollowStep
  OBVIOUS
<1>1. CASE \E h \in Handlers : Handle(h)
  BY <1>1, HandlerUnfollows
<1>2. CASE \E h \in Handlers, p \in Pairs, lp \in LpSizes :
             HandleLpCreatedEvent(h, p, lp) \/ HandleLpUpdatedEvent(h, p, lp)
  <2>1. UNCHANGED tracking
    BY <1>2 DEF HandleLpCreatedEvent, HandleLpUpdatedEvent, Arrive
  <2> QED
    BY <2>1 DEF tracking, UnfollowStep
<1>3. CASE \/ \E t \in Tokens : AddRedListContract(t)
           \/ Tick \/ RefreshConfig \/ LoadActivePairs
  <2>1. active \subseteq active' /\ redList \subseteq redList'
    BY <1>3 DEF AddRedListContract, Tick, RefreshConfig, LoadActivePairs,
                tracking
  <2> QED
    BY <2>1 DEF UnfollowStep
<1>4. CASE Crash
  BY <1>4 DEF UnfollowStep
<1> QED
  BY <1>1, <1>2, <1>3, <1>4 DEF Next

\* A running process stops following a pair, or drops a red list contract,
\* only after a sale of an intent of that pair was mined.
THEOREM UnfollowedAfterExit == Spec => UnfollowOnlyAfterExit
BY BackedInvariant, NextUnfollows, PTL DEF Spec, UnfollowOnlyAfterExit

-----------------------------------------------------------------------------
(* What a step of a handler leaves alone                                   *)

\* It changes only rows of its pair, or creates one; it counts swaps only of
\* intents of its pair, and only its pair may become active.
Frame(h) ==
  /\ loaded' = loaded
  /\ active' \subseteq active \cup {run[h].pair}
  /\ \A i \in Intents :
       /\ intents'[i] # intents[i] => /\ intents[i].pair \in {run[h].pair, Null}
                                      /\ intents'[i].pair = run[h].pair
       /\ buys'[i] # buys[i] \/ sells'[i] # sells[i]
            => intents[i].pair = run[h].pair

\* It stays with its pair or ends.
Stays(h, r) == Goto(h, r) /\ r.pair \in {run[h].pair, Null}

LEMMA ReturnStays ==
  ASSUME NEW r \in Runs
  PROVE  Returned(r).pair \in {r.pair, Null}
BY DEF Returned, Idle, Runs

LEMMA GoesStays ==
  ASSUME TypeInv, NEW h \in Handlers,
         \/ Return(h) \/ Goto(h, Idle)
         \/ \E pc \in PCs : Await(h, pc)
  PROVE  \E r : Stays(h, r)
<1>1. run[h] \in Runs
  BY HandlerTyped
<1>2. CASE Return(h)
  BY <1>1, <1>2, ReturnStays DEF Return, Stays
<1>3. CASE Goto(h, Idle)
  BY <1>3 DEF Stays, Idle
<1>4. ASSUME NEW pc \in PCs, Await(h, pc)
      PROVE  \E r : Stays(h, r)
  <2>1. [run[h] EXCEPT !.pc = pc].pair = run[h].pair
    BY <1>1 DEF Runs
  <2> QED
    BY <1>4, <2>1 DEF Await, Stays
<1> QED
  BY <1>2, <1>3, <1>4

LEMMA WriteFrame ==
  ASSUME TypeInv, NEW h \in Handlers, run[h].pc \in Attempting,
         NEW s, WriteStatus(run[h].intent, s),
         UNCHANGED <<market, tracking, environment>>
  PROVE  Frame(h)
<1>1. /\ run[h].intent \in Intents /\ intents[run[h].intent] \in IntentRows
      /\ intents[run[h].intent].pair = run[h].pair
  BY AttemptTyped
<1>2. \A j \in Intents \ {run[h].intent} : intents'[j] = intents[j]
  BY <1>1, DataTyped, StatusEffect DEF DataOK
<1>3. intents'[run[h].intent].pair = run[h].pair
  BY <1>1, DataTyped, StatusEffect DEF DataOK
<1> QED
  BY <1>1, <1>2, <1>3 DEF Frame, market, tracking, environment

\* The steps that leave the rows, the swaps and the pairs alone.
LEMMA QuietFrame ==
  ASSUME TypeInv, NEW h \in Handlers,
         \/ CreateDynamicData(h) \/ FindExistingIntend(h) \/ AbandonFlow(h)
         \/ UpdateDynamicData(h) \/ FindFindingEntry(h) \/ FindFindingExit(h)
         \/ TrySl(h) \/ ValidateEntry(h) \/ QuoteThrows(h)
         \/ \E q \in Prices : Quoted(h, q)
  PROVE  Frame(h) /\ \E r : Stays(h, r)
<1>1. run[h] \in Runs
  BY HandlerTyped
<1>2. Frame(h)
  BY DEF Frame, CreateDynamicData, FindExistingIntend, AbandonFlow,
         UpdateDynamicData, FindFindingEntry, FindFindingExit, TrySl,
         ValidateEntry, QuoteThrows, Quoted, market, tracking, environment
<1>3. ASSUME NEW pc, NEW purpose, NEW i, NEW entry,
             Goto(h, [run[h] EXCEPT !.pc = pc, !.purpose = purpose,
                                    !.intent = i, !.entry = entry])
      PROVE  \E r : Stays(h, r)
  <2>1. [run[h] EXCEPT !.pc = pc, !.purpose = purpose,
                       !.intent = i, !.entry = entry].pair = run[h].pair
    BY <1>1 DEF Runs
  <2> QED
    BY <1>3, <2>1 DEF Stays
<1>4. CASE FindFindingExit(h)
  BY <1>2, <1>3, <1>4, GoesStays DEF FindFindingExit
<1>5. CASE TrySl(h)
  <2>1. [run[h] EXCEPT !.pc = "lock", !.purpose = "sl"].pair = run[h].pair
    BY <1>1 DEF Runs
  <2> QED
    BY <1>2, <1>5, <2>1, GoesStays DEF TrySl, Stays
<1>6. CASE ValidateEntry(h)
  <2>1. ASSUME NEW i, Goto(h, [run[h] EXCEPT !.pc = "lock",
                                             !.purpose = "entry",
                                             !.intent = i])
        PROVE  \E r : Stays(h, r)
    <3>1. [run[h] EXCEPT !.pc = "lock", !.purpose = "entry",
                         !.intent = i].pair = run[h].pair
      BY <1>1 DEF Runs
    <3> QED
      BY <2>1, <3>1 DEF Stays
  <2> QED
    BY <1>2, <1>6, <2>1, GoesStays DEF ValidateEntry
<1>7. ASSUME NEW q \in Prices, Quoted(h, q)
      PROVE  \E r : Stays(h, r)
  <2>1. PICK pc, kept : Goto(h, [run[h] EXCEPT !.pc = pc, !.quote = kept])
    BY <1>7 DEF Quoted
  <2>2. [run[h] EXCEPT !.pc = pc, !.quote = kept].pair = run[h].pair
    BY <1>1 DEF Runs
  <2> QED
    BY <2>1, <2>2 DEF Stays
<1>8. CASE \/ CreateDynamicData(h) \/ FindExistingIntend(h) \/ AbandonFlow(h)
           \/ UpdateDynamicData(h) \/ FindFindingEntry(h) \/ QuoteThrows(h)
  BY <1>2, <1>8, GoesStays
     DEF CreateDynamicData, FindExistingIntend, AbandonFlow,
         UpdateDynamicData, FindFindingEntry, QuoteThrows, PCs
<1> QED
  BY <1>2, <1>4, <1>5, <1>6, <1>7, <1>8

LEMMA HandlerFrame ==
  ASSUME TypeInv, NEW h \in Handlers, Handle(h)
  PROVE  Frame(h) /\ \E r : Stays(h, r)
<1> USE DEF At
<1>1. CASE InsertIntend(h)
  <2>1. PICK i \in Intents :
          /\ ~Exists(i)
          /\ intents' = [intents EXCEPT ![i] = [pair |-> run[h].pair,
                                                status |-> "FindingEntry",
                                                entry |-> "none"]]
    BY <1>1 DEF InsertIntend
  <2>2. intents[i].pair = Null
    BY <2>1, DataTyped DEF DataOK, Exists, Absent, IntentRows, Statuses
  <2>3. intents'[i].pair = run[h].pair
    BY <2>1, DataTyped DEF DataOK
  <2>4. \A j \in Intents \ {i} : intents'[j] = intents[j]
    BY <2>1, DataTyped DEF DataOK
  <2> QED
    BY <1>1, <2>2, <2>3, <2>4, GoesStays
       DEF InsertIntend, Frame, market, tracking, environment, PCs
<1>2. CASE SetupPriceTracking(h)
  BY <1>2, GoesStays
     DEF SetupPriceTracking, SetActiveTradingPair, Frame, market, environment,
         PCs
<1>3. CASE LockEntry(h) \/ LockExit(h) \/ UnlockTrade(h)
  <2>1. Frame(h)
    BY <1>3, WriteFrame DEF LockEntry, LockExit, UnlockTrade, Attempting
  <2> QED
    BY <1>3, <2>1, GoesStays
       DEF LockEntry, LockExit, UnlockTrade, AfterQuote, PCs
<1>4. CASE SwapMined(h) \/ SwapThrows(h)
  <2>1. run[h].intent \in Intents
          /\ intents[run[h].intent].pair = run[h].pair
    BY <1>4, AttemptTyped DEF SwapMined, SwapThrows, Attempting
  <2>2. \A i \in Intents \ {run[h].intent} : buys'[i] = buys[i]
                                               /\ sells'[i] = sells[i]
    BY <1>4, <2>1, DataTyped
       DEF SwapMined, SwapThrows, CountSwap, Mined, DataOK
  <2>3. Frame(h)
    BY <1>4, <2>1, <2>2
       DEF SwapMined, SwapThrows, Frame, tracking, environment
  <2> QED
    BY <1>4, <2>3, GoesStays DEF SwapMined, SwapThrows, PCs
<1>5. CASE SaveHistory(h)
  <2>1. Frame(h)
    BY <1>5 DEF SaveHistory, Recorded, StopNewPairTradingFlow,
                SetActiveTradingPair, Frame, tracking, environment
  <2> QED
    BY <1>5, <2>1, GoesStays DEF SaveHistory, Recorded, PCs
<1>6. CASE CommitIntend(h)
  <2>1. /\ run[h].intent \in Intents /\ intents[run[h].intent] \in IntentRows
        /\ intents[run[h].intent].pair = run[h].pair
    BY <1>6, AttemptTyped DEF CommitIntend, Attempting
  <2>2. /\ \A i \in Intents \ {run[h].intent} : intents'[i] = intents[i]
        /\ intents'[run[h].intent].pair = run[h].pair
    <3>1. CASE UNCHANGED intents
      BY <2>1, <3>1
    <3>2. CASE \E e : intents' = [intents EXCEPT
                         ![run[h].intent].status = SettledStatus(run[h].purpose),
                         ![run[h].intent].entry = e]
      BY <2>1, <3>2, DataTyped DEF DataOK, IntentRows
    <3> QED
      BY <1>6, <3>1, <3>2 DEF CommitIntend
  <2>3. Frame(h)
    BY <1>6, <2>1, <2>2
       DEF CommitIntend, Recorded, StopNewPairTradingFlow,
           SetActiveTradingPair, Frame, market, tracking, environment
  <2> QED
    BY <1>6, <2>3, GoesStays DEF CommitIntend, Recorded
<1> QED
  BY <1>1, <1>2, <1>3, <1>4, <1>5, <1>6, QuietFrame DEF Handle

\* What is not a step of a handler changes no row; it may start a handler or
\* end them all.
LEMMA OutsideSteps ==
  ASSUME TypeInv, [Next]_vars, ~\E h \in Handlers : Handle(h)
  PROVE  /\ UNCHANGED intents
         /\ \A g \in Handlers :
              \/ run'[g] = run[g]
              \/ /\ run'[g].pc \in {"idle", "createDynamic", "updateDynamic"}
                 /\ run'[g].purpose = "none"
<1>1. run \in [Handlers -> Runs]
  BY DEF TypeInv, TypeOK
<1>2. ASSUME NEW h \in Handlers, NEW p \in Pairs, NEW lp \in LpSizes,
             HandleLpCreatedEvent(h, p, lp) \/ HandleLpUpdatedEvent(h, p, lp)
      PROVE  /\ UNCHANGED intents
             /\ \A g \in Handlers \ {h} : run'[g] = run[g]
             /\ run'[h].pc \in {"createDynamic", "updateDynamic"}
             /\ run'[h].purpose = "none"
  <2>1. PICK kind \in {"created", "updated"},
             pc \in {"createDynamic", "updateDynamic"} :
               Arrive(h, kind, pc, p, lp)
    BY <1>2 DEF HandleLpCreatedEvent, HandleLpUpdatedEvent
  <2> DEFINE r == [Idle EXCEPT !.pc = pc, !.kind = kind, !.pair = p,
                               !.lp = lp]
  <2>2. r.pc = pc /\ r.purpose = "none"
    BY DEF Idle
  <2>3. run' = [run EXCEPT ![h] = r] /\ UNCHANGED intents
    BY <2>1 DEF Arrive, Goto
  <2> HIDE DEF r
  <2> QED
    BY <1>1, <2>1, <2>2, <2>3
<1>3. CASE Crash
  BY <1>3 DEF Crash, Idle
<1>4. CASE \/ \E t \in Tokens : AddRedListContract(t)
           \/ Tick \/ RefreshConfig \/ LoadActivePairs \/ UNCHANGED vars
  BY <1>4 DEF AddRedListContract, Tick, RefreshConfig, LoadActivePairs, vars
<1> QED
  BY <1>2, <1>3, <1>4 DEF Next

\* Only InsertIntend creates a row.
LEMMA OnlyInserts ==
  ASSUME TypeInv, NEW h \in Handlers, Handle(h), NEW i \in Intents,
         ~Exists(i), Exists(i)'
  PROVE  InsertIntend(h)
<1> USE DEF At
<1>1. CASE LockEntry(h) \/ LockExit(h) \/ UnlockTrade(h)
  <2>1. run[h].intent \in Intents /\ intents[run[h].intent] \in IntentRows
    BY <1>1, AttemptTyped DEF LockEntry, LockExit, UnlockTrade, Attempting
  <2>2. i # run[h].intent
    BY <2>1 DEF Exists, IntentRows, Statuses
  <2>3. intents'[i] = intents[i]
    BY <1>1, <2>1, <2>2, StatusEffect, DataTyped
       DEF DataOK, LockEntry, LockExit, UnlockTrade
  <2> QED
    BY <2>3 DEF Exists
<1>2. CASE CommitIntend(h)
  <2>1. run[h].intent \in Intents /\ intents[run[h].intent] \in IntentRows
    BY <1>2, AttemptTyped DEF CommitIntend, Attempting
  <2>2. i # run[h].intent
    BY <2>1 DEF Exists, IntentRows, Statuses
  <2>3. intents'[i] = intents[i]
    BY <1>2, <2>2, DataTyped DEF DataOK, CommitIntend
  <2> QED
    BY <2>3 DEF Exists
<1>3. CASE UNCHANGED intents
  BY <1>3 DEF Exists
<1> QED
  BY <1>1, <1>2, <1>3
     DEF Handle, CreateDynamicData, FindExistingIntend, AbandonFlow,
         SetupPriceTracking, UpdateDynamicData, FindFindingEntry,
         FindFindingExit, TrySl, ValidateEntry, QuoteThrows, Quoted,
         SwapMined, SwapThrows, SaveHistory

-----------------------------------------------------------------------------
(* The intents that exist are followed until their pair is sold            *)

\* What a pair that is not followed owes: every intent of it was created by
\* a flow that is about to follow the pair, or the pair has been sold.
SaleMined(p) == \E j \in Intents : intents[j].pair = p /\ sells[j] > 0

AboutToFollow(p) == \E h \in Handlers : At(h, "track") /\ run[h].pair = p

FollowedOrSold ==
  \A i \in Intents :
    Exists(i) /\ intents[i].pair \notin active =>
      AboutToFollow(intents[i].pair) \/ SaleMined(intents[i].pair)

\* Sales and the pairs of intents are never forgotten.
LEMMA SoldStays ==
  ASSUME BackedInv, [Next]_vars, NEW p \in Pairs, SaleMined(p)
  PROVE  SaleMined(p)'
<1>1. TypeInv
  BY DEF BackedInv
<1>2. PICK j \in Intents : intents[j].pair = p /\ sells[j] > 0
  BY DEF SaleMined
<1>3. CASE \E h \in Handlers : Handle(h)
  <2>1. PICK h \in Handlers : Handle(h)
    BY <1>3
  <2>2. intents'[j].pair = p
    BY <1>1, <1>2, <2>1, HandlerFrame, ConstantsAssumption
       DEF Frame, ConstantsAssumption
  <2>3. sells'[j] > 0
    <3>1. CASE SwapMined(h) \/ SwapThrows(h)
      <4>1. run[h].intent \in Intents
        BY <1>1, <3>1, AttemptTyped DEF SwapMined, SwapThrows, At, Attempting
      <4>2. sells \in [Intents -> 0..MaxSwaps] /\ MaxSwaps \in Nat
        BY <1>1, DataTyped, BoundsTyped DEF DataOK
      <4>3. UNCHANGED sells \/ sells' = Mined(sells, run[h].intent)
        BY <3>1 DEF SwapMined, SwapThrows, CountSwap
      <4> QED
        BY <1>2, <4>1, <4>2, <4>3 DEF Mined
    <3>2. CASE UNCHANGED sells
      BY <1>2, <3>2
    <3> QED
      BY <2>1, <3>1, <3>2
         DEF Handle, CreateDynamicData, FindExistingIntend, InsertIntend,
             AbandonFlow, SetupPriceTracking, UpdateDynamicData,
             FindFindingEntry, FindFindingExit, TrySl, ValidateEntry,
             LockEntry, LockExit, QuoteThrows, Quoted, SaveHistory,
             CommitIntend, UnlockTrade, market
  <2> QED
    BY <2>2, <2>3 DEF SaleMined
<1>4. CASE UNCHANGED <<intents, sells>>
  BY <1>2, <1>4 DEF SaleMined
<1> QED
  BY <1>3, <1>4
     DEF Next, HandleLpCreatedEvent, HandleLpUpdatedEvent, Arrive,
         AddRedListContract, Tick, RefreshConfig, LoadActivePairs, Crash,
         market, vars

\* A flow that is about to follow its pair waits, or follows it.
LEMMA FlowFollows ==
  ASSUME BackedInv, ~Crashes, [Next]_vars, NEW p \in Pairs, AboutToFollow(p)
  PROVE  AboutToFollow(p)' \/ p \in active'
<1> USE DEF At
<1>1. TypeInv /\ run \in [Handlers -> Runs]
  BY DEF BackedInv, TypeInv, TypeOK
<1>2. PICK g \in Handlers : run[g].pc = "track" /\ run[g].pair = p
  BY DEF AboutToFollow
<1>3. CASE run'[g] = run[g]
  BY <1>2, <1>3 DEF AboutToFollow
<1>4. CASE Handle(g)
  <2>1. SetupPriceTracking(g)
    BY <1>2, <1>4
       DEF Handle, CreateDynamicData, FindExistingIntend, InsertIntend,
           AbandonFlow, UpdateDynamicData, FindFindingEntry,
           FindFindingExit, TrySl, ValidateEntry, LockEntry, LockExit,
           QuoteThrows, Quoted, SwapMined, SwapThrows, SaveHistory,
           CommitIntend, UnlockTrade
  <2> QED
    BY <1>2, <2>1 DEF SetupPriceTracking, SetActiveTradingPair
<1>5. ASSUME NEW h \in Handlers \ {g}, NEW r, Goto(h, r)
      PROVE  run'[g] = run[g]
  BY <1>1, <1>5 DEF Goto
<1>6. ASSUME NEW h \in Handlers \ {g}, Handle(h)
      PROVE  run'[g] = run[g]
  BY <1>1, <1>5, <1>6, HandlerFrame DEF Stays
<1>7. ASSUME NEW h \in Handlers, NEW q \in Pairs, NEW lp \in LpSizes,
             HandleLpCreatedEvent(h, q, lp) \/ HandleLpUpdatedEvent(h, q, lp)
      PROVE  run'[g] = run[g]
  <2>1. run[h].pc = "idle" /\ \E r : Goto(h, r)
    BY <1>7 DEF HandleLpCreatedEvent, HandleLpUpdatedEvent, Arrive
  <2> QED
    BY <1>2, <1>5, <2>1
<1>8. CASE UNCHANGED run
  BY <1>3, <1>8
<1> QED
  BY <1>3, <1>4, <1>6, <1>7, <1>8
     DEF Next, AddRedListContract, Tick, RefreshConfig, LoadActivePairs,
         Crash, vars

\* The flow that creates an intent is about to follow its pair.
LEMMA InsertedFollows ==
  ASSUME BackedInv, [Next]_vars, NEW i \in Intents, ~Exists(i), Exists(i)'
  PROVE  AboutToFollow(intents[i].pair)'
<1>1. TypeInv /\ run \in [Handlers -> Runs]
  BY DEF BackedInv, TypeInv, TypeOK
<1>2. \E h \in Handlers : Handle(h)
  BY <1>1, OutsideSteps DEF Exists
<1>3. PICK h \in Handlers : Handle(h) /\ InsertIntend(h)
  BY <1>1, <1>2, OnlyInserts
<1>4. intents'[i].pair = run[h].pair
  BY <1>1, <1>3, HandlerFrame DEF Frame, Exists
<1>5. run'[h].pc = "track" /\ run'[h].pair = run[h].pair
  BY <1>1, <1>3 DEF InsertIntend, Await, Goto, Runs
<1> QED
  BY <1>4, <1>5 DEF AboutToFollow, At

LEMMA NextFollows ==
  ASSUME ~Crashes
  PROVE  BackedInv /\ FollowedOrSold /\ [Next]_vars => FollowedOrSold'
<1> SUFFICES ASSUME BackedInv, FollowedOrSold, [Next]_vars,
                    NEW i \in Intents, Exists(i)',
                    intents'[i].pair \notin active'
             PROVE  AboutToFollow(intents[i].pair)' \/ SaleMined(intents[i].pair)'
  BY DEF FollowedOrSold
<1>1. CASE ~Exists(i)
  BY <1>1, InsertedFollows
<1>2. CASE Exists(i)
  <2> DEFINE p == intents[i].pair
  <2>1. TypeInv /\ intents[i] \in IntentRows
    BY <1>2 DEF BackedInv, TypeInv, TypeOK, Exists, Absent
  <2>2. p \in Pairs /\ p # Null
    BY <2>1, ConstantsAssumption DEF IntentRows, ConstantsAssumption
  <2>3. intents'[i].pair = p
    BY <2>1, <2>2, HandlerFrame, OutsideSteps DEF Frame
  <2>4. CASE p \in active
    <3>1. UnfollowStep
      BY <2>3, <2>4, NextUnfollows DEF vars
    <3>2. SaleMined(p)
      BY <2>3, <2>4, <3>1 DEF UnfollowStep, Crash, SaleMined
    <3> QED
      BY <2>2, <2>3, <3>2, SoldStays DEF SaleMined
  <2>5. CASE p \notin active
    <3>1. AboutToFollow(p) \/ SaleMined(p)
      BY <1>2, <2>5 DEF FollowedOrSold
    <3>2. CASE SaleMined(p)
      BY <2>2, <2>3, <3>2, SoldStays DEF SaleMined
    <3>3. CASE AboutToFollow(p)
      BY <2>2, <2>3, <3>3, FlowFollows DEF AboutToFollow
    <3> QED
      BY <3>1, <3>2, <3>3
  <2> QED
    BY <2>4, <2>5
<1> QED
  BY <1>1, <1>2

\* As long as the process runs, whatever overlaps, fails or gets lost, the
\* pair of an intent is followed, is about to be, or had a sale of one of its
\* intents mined: no error path of a handler leaves a pair that was never
\* sold without a follower.  (A restart may: the write of the table is not
\* awaited.)
THEOREM FollowedUntilExit ==
  ASSUME ~Crashes
  PROVE  Spec => []FollowedOrSold
<1>1. Init => FollowedOrSold
  BY DEF Init, FollowedOrSold, Exists, Absent
<1>2. BackedInv /\ FollowedOrSold /\ [Next]_vars => FollowedOrSold'
  BY NextFollows
<1> QED
  BY <1>1, <1>2, BackedInvariant, PTL DEF Spec

-----------------------------------------------------------------------------
(* When the events of a pair do not overlap.  A pair has one handler at     *)
(* most, and handlers run only once the active pairs are loaded.           *)

Serial ==
  /\ \A g, h \in Handlers :
       run[g].pair = run[h].pair /\ run[g].pair # Null => g = h
  /\ \A h \in Handlers : run[h].pair # Null => loaded

LEMMA InitSerial == Init => Serial
BY DEF Init, Serial, Idle

LEMMA NextSerial ==
  ASSUME ~Overlap, TypeInv, Serial, [Next]_vars
  PROVE  Serial'
<1>0. run \in [Handlers -> Runs]
  BY DEF TypeInv, TypeOK
<1>1. ASSUME NEW h \in Handlers, Handle(h)
      PROVE  Serial'
  <2>1. PICK r : Stays(h, r)
    BY <1>1, HandlerFrame
  <2>2. \A g \in Handlers : run'[g] = IF g = h THEN r ELSE run[g]
    BY <1>0, <2>1 DEF Stays, Goto
  <2>3. \A g \in Handlers : run'[g].pair \in {run[g].pair, Null}
    BY <2>1, <2>2 DEF Stays
  <2>4. loaded' = loaded
    BY <1>1, HandlerFrame DEF Frame
  <2> QED
    BY <2>3, <2>4 DEF Serial
<1>2. ASSUME NEW h \in Handlers, NEW p \in Pairs, NEW lp \in LpSizes,
             HandleLpCreatedEvent(h, p, lp) \/ HandleLpUpdatedEvent(h, p, lp)
      PROVE  Serial'
  <2>1. PICK kind, pc : Arrive(h, kind, pc, p, lp)
    BY <1>2 DEF HandleLpCreatedEvent, HandleLpUpdatedEvent
  <2> DEFINE r == [Idle EXCEPT !.pc = pc, !.kind = kind, !.pair = p,
                               !.lp = lp]
  <2>2. r.pair = p
    BY DEF Idle
  <2>3. run' = [run EXCEPT ![h] = r]
    BY <2>1 DEF Arrive, Goto
  <2> HIDE DEF r
  <2>4. \A g \in Handlers : run'[g].pair = IF g = h THEN p ELSE run[g].pair
    BY <1>0, <2>2, <2>3
  <2>5. /\ loaded /\ loaded' = loaded
        /\ \A g \in Handlers : run[g].pair # p
    BY <2>1 DEF Arrive, MayArrive, environment
  <2> QED
    BY <2>4, <2>5 DEF Serial
<1>3. CASE Crash
  BY <1>3 DEF Crash, Serial, Idle
<1>4. CASE \/ \E t \in Tokens : AddRedListContract(t)
           \/ Tick \/ RefreshConfig \/ LoadActivePairs \/ UNCHANGED vars
  BY <1>4 DEF AddRedListContract, Tick, RefreshConfig, LoadActivePairs, vars,
              environment, Serial
<1> QED
  BY <1>1, <1>2, <1>3, <1>4 DEF Next

-----------------------------------------------------------------------------
(* One FindingEntry intent per pair                                        *)

\* Between looking for an intent and creating one, and between locking one
\* to enter and letting it go, a handler knows of no other.
HandlerAlone(h) ==
  LET r == run[h]
  IN  /\ r.pc = "insert" => WithStatus(r.pair, "FindingEntry") = {}
      /\ r.pc \in Attempting /\ r.purpose = "entry"
           => WithStatus(r.pair, "FindingEntry") \subseteq {r.intent}

AloneInv ==
  /\ TypeInv /\ Serial /\ OneFindingEntryPerPair
  /\ \A h \in Handlers : HandlerAlone(h)

LEMMA OthersAlone ==
  ASSUME AloneInv, NEW h \in Handlers, Handle(h),
         NEW g \in Handlers, g # h
  PROVE  HandlerAlone(g)'
<1>1. run'[g] = run[g]
  BY HandlerFrame DEF AloneInv, Stays, Goto, TypeInv, TypeOK
<1>2. CASE run[g].pc \in Attempting \cup {"insert"}
  <2>1. run[g].pair \in Pairs
    BY <1>2, HandlerTyped DEF AloneInv, HandlerOK, Attempting
  <2>2. run[g].pair # Null
    BY <2>1, ConstantsAssumption DEF ConstantsAssumption
  <2>3. run[h].pair # run[g].pair
    BY <2>2 DEF AloneInv, Serial
  <2>4. \A i \in Intents : intents'[i].pair = run[g].pair
                             => intents'[i] = intents[i]
    BY <2>3, HandlerFrame DEF AloneInv, Frame
  <2>5. \A i \in WithStatus(run[g].pair, "FindingEntry")' :
          i \in WithStatus(run[g].pair, "FindingEntry")
    BY <1>1, <2>4 DEF WithStatus
  <2> QED
    BY <1>1, <2>5 DEF AloneInv, HandlerAlone
<1>3. CASE run[g].pc \notin Attempting \cup {"insert"}
  BY <1>1, <1>3 DEF HandlerAlone
<1> QED
  BY <1>2, <1>3

\* A handler that keeps trying to enter keeps its intent, and it comes to
\* createTradingIntend by the insert of pair_dynamic_data only.
KeepsTrying(h, r) ==
  /\ Goto(h, r)
  /\ r.pc # "insert"
  /\ r.pc = "findExisting" => CreateDynamicData(h)
  /\ r.pc \in Attempting /\ r.purpose = "entry"
       => /\ run[h].pc \in Attempting /\ run[h].purpose = "entry"
          /\ r.intent = run[h].intent /\ r.pair = run[h].pair

LEMMA TryingGoesOn ==
  ASSUME TypeInv, NEW h \in Handlers,
         \/ Return(h) \/ Goto(h, Idle)
         \/ \E pc \in PCs \ {"insert"} :
              /\ Await(h, pc)
              /\ pc \in Attempting => run[h].pc \in Attempting
              /\ pc = "findExisting" => CreateDynamicData(h)
  PROVE  \E r : KeepsTrying(h, r)
<1>1. run[h] \in Runs
  BY HandlerTyped
<1>2. CASE Return(h)
  BY <1>1, <1>2, ReturnedLocals DEF Return, KeepsTrying, Attempting
<1>3. CASE Goto(h, Idle)
  BY <1>3 DEF KeepsTrying, Idle, Attempting
<1>4. ASSUME NEW pc \in PCs \ {"insert"}, Await(h, pc),
             pc \in Attempting => run[h].pc \in Attempting,
             pc = "findExisting" => CreateDynamicData(h)
      PROVE  \E r : KeepsTrying(h, r)
  <2> DEFINE r == [run[h] EXCEPT !.pc = pc]
  <2>1. /\ r.pc = pc /\ r.purpose = run[h].purpose
        /\ r.intent = run[h].intent /\ r.pair = run[h].pair
    BY <1>1 DEF Runs
  <2> QED
    BY <1>4, <2>1 DEF Await, KeepsTrying
<1> QED
  BY <1>2, <1>3, <1>4

LEMMA StillTrying ==
  ASSUME TypeInv, NEW h \in Handlers, Handle(h),
         ~FindExistingIntend(h), ~ValidateEntry(h)
  PROVE  \E r : KeepsTrying(h, r)
<1> USE DEF At
<1>1. run[h] \in Runs
  BY HandlerTyped
<1>2. CASE FindFindingExit(h)
  <2>1. ASSUME NEW pc, NEW i, NEW entry,
               Goto(h, [run[h] EXCEPT !.pc = pc, !.purpose = "tp",
                                      !.intent = i, !.entry = entry]),
               pc # "insert", pc # "findExisting"
        PROVE  \E r : KeepsTrying(h, r)
    <3> DEFINE r == [run[h] EXCEPT !.pc = pc, !.purpose = "tp",
                                   !.intent = i, !.entry = entry]
    <3>1. r.purpose = "tp" /\ r.pc = pc
      BY <1>1 DEF Runs
    <3> QED
      BY <2>1, <3>1 DEF KeepsTrying
  <2>2. CASE Goto(h, Idle)
    BY <2>2, TryingGoesOn
  <2>3. ASSUME NEW i \in WithStatus(run[h].pair, "FindingExit"),
               Goto(h, [run[h] EXCEPT
                          !.pc = IF run[h].pair \in active /\ config
                                 THEN "lock" ELSE "trySl",
                          !.purpose = "tp", !.intent = i,
                          !.entry = intents[i].entry])
        PROVE  \E r : KeepsTrying(h, r)
    BY <2>1, <2>3
  <2> QED
    BY <1>2, <2>2, <2>3 DEF FindFindingExit
<1>3. CASE TrySl(h)
  <2> DEFINE r == [run[h] EXCEPT !.pc = "lock", !.purpose = "sl"]
  <2>1. r.purpose = "sl" /\ r.pc = "lock"
    BY <1>1 DEF Runs
  <2> QED
    BY <1>3, <2>1, TryingGoesOn DEF TrySl, KeepsTrying
<1>4. ASSUME NEW q \in Prices, Quoted(h, q)
      PROVE  \E r : KeepsTrying(h, r)
  <2>1. PICK pc \in {"unlock", "swap"}, kept \in Prices \cup {"none"} :
          Goto(h, [run[h] EXCEPT !.pc = pc, !.quote = kept])
    BY <1>4 DEF Quoted, AfterQuote
  <2> DEFINE r == [run[h] EXCEPT !.pc = pc, !.quote = kept]
  <2>2. /\ r.pc = pc /\ r.purpose = run[h].purpose
        /\ r.intent = run[h].intent /\ r.pair = run[h].pair
    BY <1>1 DEF Runs
  <2>3. run[h].pc \in Attempting
    BY <1>4 DEF Quoted, Attempting
  <2> QED
    BY <2>1, <2>2, <2>3 DEF KeepsTrying
<1>5. CASE \/ InsertIntend(h) \/ AbandonFlow(h) \/ SetupPriceTracking(h)
           \/ UpdateDynamicData(h) \/ FindFindingEntry(h)
  <2>1. \/ Goto(h, Idle)
        \/ \E pc \in {"track", "validateEntry", "findEntry", "findExit"} :
             Await(h, pc)
    BY <1>5 DEF InsertIntend, AbandonFlow, SetupPriceTracking,
                UpdateDynamicData, FindFindingEntry
  <2> QED
    BY <2>1, TryingGoesOn DEF PCs, Attempting
<1>6. CASE LockEntry(h) \/ LockExit(h) \/ UnlockTrade(h) \/ QuoteThrows(h)
  BY <1>6, TryingGoesOn
     DEF LockEntry, LockExit, UnlockTrade, QuoteThrows, AfterQuote, PCs,
         Attempting
<1>7. CASE SwapMined(h) \/ SwapThrows(h) \/ SaveHistory(h) \/ CommitIntend(h)
  BY <1>7, TryingGoesOn
     DEF SwapMined, SwapThrows, SaveHistory, CommitIntend, Recorded, PCs,
         Attempting
<1>8. CASE CreateDynamicData(h)
  <2>1. Goto(h, Idle) \/ Await(h, "findExisting")
    BY <1>8 DEF CreateDynamicData
  <2> QED
    BY <1>8, <2>1, TryingGoesOn DEF PCs, Attempting
<1> QED
  BY <1>2, <1>3, <1>4, <1>5, <1>6, <1>7, <1>8 DEF Handle

\* The rows in FindingEntry after a step of h: an intent that was created, or
\* the one that h lets go, else no new one.
LEMMA NewFinding ==
  ASSUME TypeInv, NEW h \in Handlers, Handle(h), NEW i \in Intents,
         intents'[i].status = "FindingEntry",
         intents[i].status # "FindingEntry"
  PROVE  /\ intents'[i].pair = run[h].pair
         /\ \/ InsertIntend(h)
            \/ /\ run[h].pc \in Attempting /\ run[h].purpose = "entry"
               /\ i = run[h].intent
<1> USE DEF At
<1>1. intents'[i].pair = run[h].pair
  BY HandlerFrame DEF Frame
<1>2. CASE LockEntry(h) \/ LockExit(h) \/ UnlockTrade(h)
  <2>1. run[h].intent \in Intents /\ intents[run[h].intent] \in IntentRows
          /\ run[h].purpose \in Purposes /\ run[h].pc \in Attempting
    BY <1>2, AttemptTyped DEF LockEntry, LockExit, UnlockTrade, Attempting
  <2>2. PICK s : /\ WriteStatus(run[h].intent, s)
                 /\ s = "FindingEntry" => run[h].purpose = "entry"
    BY <1>2 DEF LockEntry, LockExit, UnlockTrade, LockedStatus, UnlockedStatus
  <2> QED
    BY <1>1, <2>1, <2>2, StatusEffect, DataTyped DEF DataOK
<1>3. CASE CommitIntend(h)
  <2>1. run[h].intent \in Intents /\ intents[run[h].intent] \in IntentRows
          /\ run[h].purpose \in Purposes
    BY <1>3, AttemptTyped DEF CommitIntend, Attempting
  <2>2. SettledStatus(run[h].purpose) # "FindingEntry"
    BY <2>1 DEF SettledStatus, Purposes
  <2>3. \E e : intents' = [intents EXCEPT
                    ![run[h].intent].status = SettledStatus(run[h].purpose),
                    ![run[h].intent].entry = e]
    BY <1>3 DEF CommitIntend
  <2> QED
    BY <2>1, <2>2, <2>3, DataTyped DEF DataOK, IntentRows
<1>4. CASE UNCHANGED intents
  BY <1>4
<1>5. CASE InsertIntend(h)
  BY <1>1, <1>5
<1> QED
  BY <1>2, <1>3, <1>4, <1>5
     DEF Handle, CreateDynamicData, FindExistingIntend, AbandonFlow,
         SetupPriceTracking, UpdateDynamicData, FindFindingEntry,
         FindFindingExit, TrySl, ValidateEntry, QuoteThrows, Quoted,
         SwapMined, SwapThrows, SaveHistory

LEMMA HandlerAloneKept ==
  ASSUME AloneInv, TypeInv', Serial', NEW h \in Handlers, Handle(h)
  PROVE  AloneInv'
<1> USE DEF At
<1>0. TypeInv /\ run[h] \in Runs /\ run \in [Handlers -> Runs]
  BY HandlerTyped DEF AloneInv, TypeInv, TypeOK
<1>1. OneFindingEntryPerPair'
  <2> SUFFICES ASSUME NEW i \in Intents, NEW j \in Intents,
                      intents'[i].status = "FindingEntry",
                      intents'[j].status = "FindingEntry",
                      intents'[i].pair = intents'[j].pair
               PROVE  i = j
    BY DEF OneFindingEntryPerPair
  <2>1. \A k \in Intents : intents'[k] # intents[k]
          => intents[k].pair \in {run[h].pair, Null}
               /\ intents'[k].pair = run[h].pair
    BY <1>0, HandlerFrame DEF Frame
  <2>2. \A k \in Intents : intents[k].status = "FindingEntry"
          => intents[k].pair # Null
    BY <1>0, DataTyped, ConstantsAssumption
       DEF DataOK, IntentRows, Absent, ConstantsAssumption
  <2>3. \A k \in Intents : intents[k].status = "FindingEntry"
          => intents'[k].pair = intents[k].pair
    BY <2>1, <2>2
  <2>4. ASSUME NEW k \in Intents, NEW l \in Intents,
               intents[k].status # "FindingEntry",
               intents'[k].status = "FindingEntry",
               intents'[l].status = "FindingEntry",
               intents'[l].pair = intents'[k].pair
        PROVE  k = l
    <3>1. intents'[k].pair = run[h].pair
      BY <1>0, <2>4, NewFinding
    <3>2. CASE run[h].pc \in Attempting /\ run[h].purpose = "entry"
                 /\ k = run[h].intent
      <4>1. CASE intents[l].status = "FindingEntry"
        BY <2>3, <2>4, <3>1, <3>2, <4>1
           DEF AloneInv, HandlerAlone, WithStatus
      <4>2. CASE intents[l].status # "FindingEntry"
        BY <1>0, <2>4, <3>2, <4>2, NewFinding DEF InsertIntend, Attempting
      <4> QED
        BY <4>1, <4>2
    <3>3. CASE InsertIntend(h)
      <4>1. WithStatus(run[h].pair, "FindingEntry") = {}
        BY <3>3 DEF InsertIntend, AloneInv, HandlerAlone
      <4>2. intents[l].status # "FindingEntry"
        BY <2>3, <2>4, <3>1, <4>1 DEF WithStatus
      <4>3. intents'[k] # intents[k] /\ intents'[l] # intents[l]
        BY <2>4, <4>2
      <4> QED
        BY <1>0, <3>3, <4>3, DataTyped DEF InsertIntend, DataOK
    <3> QED
      BY <1>0, <2>4, <3>2, <3>3, NewFinding
  <2> QED
    BY <2>3, <2>4 DEF AloneInv, OneFindingEntryPerPair
<1>2. HandlerAlone(h)'
  <2>1. CASE FindExistingIntend(h)
    <3>1. PICK pc \in {"track", "insert"} :
            /\ run'[h] = [run[h] EXCEPT !.pc = pc]
            /\ pc = "insert" => WithStatus(run[h].pair, "FindingEntry") = {}
      BY <1>0, <2>1 DEF FindExistingIntend, Await, Goto
    <3>2. run'[h].pc = pc /\ run'[h].pair = run[h].pair
      BY <1>0, <3>1 DEF Runs
    <3> QED
      BY <2>1, <3>1, <3>2
         DEF HandlerAlone, Attempting, FindExistingIntend, WithStatus
  <2>2. CASE ValidateEntry(h)
    <3>1. CASE Return(h)
      <4>1. \E r : KeepsTrying(h, r)
        BY <1>0, <3>1, TryingGoesOn
      <4> QED
        BY <1>0, <2>2, <4>1
           DEF ValidateEntry, KeepsTrying, Goto, HandlerAlone, Attempting
    <3>2. ASSUME NEW i \in WithStatus(run[h].pair, "FindingEntry"),
                 Goto(h, [run[h] EXCEPT !.pc = "lock", !.purpose = "entry",
                                        !.intent = i])
          PROVE  HandlerAlone(h)'
      <4>1. /\ run'[h].pc = "lock" /\ run'[h].intent = i
            /\ run'[h].pair = run[h].pair
        BY <1>0, <3>2 DEF Goto, Runs
      <4>2. WithStatus(run[h].pair, "FindingEntry") \subseteq {i}
        BY <3>2 DEF AloneInv, OneFindingEntryPerPair, WithStatus
      <4>3. intents' = intents
        BY <2>2 DEF ValidateEntry
      <4> QED
        BY <4>1, <4>2, <4>3 DEF HandlerAlone, WithStatus
    <3> QED
      BY <2>2, <3>1, <3>2 DEF ValidateEntry
  <2>3. CASE ~FindExistingIntend(h) /\ ~ValidateEntry(h)
    <3>1. PICK r : KeepsTrying(h, r)
      BY <1>0, <2>3, StillTrying
    <3>2. run'[h] = r
      BY <1>0, <3>1 DEF KeepsTrying, Goto
    <3>3. CASE r.pc \in Attempting /\ r.purpose = "entry"
      <4>1. /\ run[h].pc \in Attempting /\ run[h].purpose = "entry"
            /\ r.intent = run[h].intent /\ r.pair = run[h].pair
            /\ r.pc # "insert"
        BY <3>1, <3>3 DEF KeepsTrying
      <4>2. WithStatus(run[h].pair, "FindingEntry") \subseteq {run[h].intent}
        BY <4>1 DEF AloneInv, HandlerAlone
      <4>3. ~InsertIntend(h)
        BY <4>1 DEF InsertIntend, Attempting
      <4>4. ASSUME NEW i \in Intents, intents'[i].status = "FindingEntry",
                   intents'[i].pair = run[h].pair
            PROVE  i = run[h].intent
        <5>1. CASE intents[i].status = "FindingEntry"
          <6>1. intents[i].pair # Null
            BY <1>0, <5>1, DataTyped, ConstantsAssumption
               DEF DataOK, IntentRows, Absent, ConstantsAssumption
          <6>2. intents[i].pair = run[h].pair
            BY <1>0, <4>4, <6>1, HandlerFrame DEF Frame
          <6> QED
            BY <4>2, <5>1, <6>2 DEF WithStatus
        <5>2. CASE intents[i].status # "FindingEntry"
          BY <1>0, <4>3, <4>4, <5>2, NewFinding
        <5> QED
          BY <5>1, <5>2
      <4> QED
        BY <3>2, <4>1, <4>4 DEF HandlerAlone, WithStatus
    <3>4. CASE ~(r.pc \in Attempting /\ r.purpose = "entry")
      BY <3>1, <3>2, <3>4 DEF KeepsTrying, HandlerAlone
    <3> QED
      BY <3>3, <3>4
  <2> QED
    BY <2>1, <2>2, <2>3
<1>3. \A g \in Handlers \ {h} : HandlerAlone(g)'
  BY OthersAlone
<1> QED
  BY <1>1, <1>2, <1>3 DEF AloneInv

LEMMA NextAlone ==
  ASSUME ~Overlap, AloneInv, [Next]_vars
  PROVE  AloneInv'
<1>0. TypeInv' /\ Serial'
  BY NextTypeInv, NextSerial DEF AloneInv
<1>1. CASE \E h \in Handlers : Handle(h)
  BY <1>0, <1>1, HandlerAloneKept
<1>2. ASSUME ~\E h \in Handlers : Handle(h)
      PROVE  AloneInv'
  <2>1. UNCHANGED intents
    BY <1>2, OutsideSteps DEF AloneInv
  <2>2. \A h \in Handlers : \/ run'[h] = run[h]
                            \/ run'[h].pc \in {"idle", "createDynamic",
                                              "updateDynamic"}
    BY <1>2, OutsideSteps DEF AloneInv
  <2>3. ASSUME NEW h \in Handlers
        PROVE  HandlerAlone(h)'
    BY <2>1, <2>2 DEF AloneInv, HandlerAlone, WithStatus, Attempting
  <2> QED
    BY <1>0, <2>1, <2>3 DEF AloneInv, OneFindingEntryPerPair
<1> QED
  BY <1>1, <1>2

\* When the events of a pair do not overlap, createTradingIntend keeps one
\* FindingEntry intent per pair, whatever fails, gets lost or restarts.
THEOREM OneFindingEntry ==
  ASSUME ~Overlap
  PROVE  Spec => []OneFindingEntryPerPair
<1>1. Init => AloneInv
  BY InitTypeInv, InitSerial
     DEF Init, AloneInv, OneFindingEntryPerPair, Absent, HandlerAlone, Idle,
         Attempting
<1>2. AloneInv /\ [Next]_vars => AloneInv'
  BY NextAlone
<1>3. AloneInv => OneFindingEntryPerPair
  BY DEF AloneInv
<1> QED
  BY <1>1, <1>2, <1>3, PTL DEF Spec

-----------------------------------------------------------------------------
(* When the database does not fail: the rows of pair_dynamic_data          *)

\* Every pair that has an intent, or is about to get one, has its row.
RowsKept ==
  /\ TypeInv
  /\ \A i \in Intents : Exists(i) => intents[i].pair \in dynamicData
  /\ \A h \in Handlers : run[h].pc \in {"findExisting", "insert"}
                           => run[h].pair \in dynamicData

LEMMA HandlerKeepsRows ==
  ASSUME ~DbFaults, RowsKept, TypeInv', NEW h \in Handlers, Handle(h)
  PROVE  RowsKept'
<1> USE DEF At
<1>0. /\ TypeInv /\ run[h] \in Runs /\ run \in [Handlers -> Runs]
      /\ \A i \in Intents : Exists(i) => intents[i].pair # Null
  BY HandlerTyped, DataTyped, ConstantsAssumption
     DEF RowsKept, TypeInv, TypeOK, DataOK, Exists, IntentRows, Absent,
         ConstantsAssumption
<1>1. dynamicData \subseteq dynamicData'
  BY DEF Handle, CreateDynamicData, FindExistingIntend, InsertIntend,
         AbandonFlow, SetupPriceTracking, UpdateDynamicData,
         FindFindingEntry, FindFindingExit, TrySl, ValidateEntry, LockEntry,
         LockExit, QuoteThrows, Quoted, SwapMined, SwapThrows, SaveHistory,
         CommitIntend, UnlockTrade
<1>2. \A g \in Handlers \ {h} : run'[g] = run[g]
  BY <1>0, HandlerFrame DEF Stays, Goto
<1>3. CASE CreateDynamicData(h)
  <2>1. run[h].pair \in dynamicData' /\ UNCHANGED intents
    BY <1>3 DEF CreateDynamicData
  <2>2. run'[h].pair \in {run[h].pair, Null}
          /\ (run'[h].pair = Null => run'[h].pc = "idle")
    <3>1. CASE Await(h, "findExisting")
      <4>1. [run[h] EXCEPT !.pc = "findExisting"].pair = run[h].pair
              /\ [run[h] EXCEPT !.pc = "findExisting"].pc = "findExisting"
        BY <1>0 DEF Runs
      <4>2. run[h].pair # Null
        BY <1>0, <1>3, HandlerTyped, ConstantsAssumption
           DEF CreateDynamicData, HandlerOK, ConstantsAssumption
      <4> QED
        BY <1>0, <3>1, <4>1, <4>2 DEF Await, Goto
    <3>2. CASE Goto(h, Idle)
      BY <1>0, <3>2 DEF Goto, Idle
    <3> QED
      BY <1>3, <3>1, <3>2 DEF CreateDynamicData
  <2> QED
    BY <1>1, <1>2, <2>1, <2>2 DEF RowsKept, Exists
<1>4. CASE FindExistingIntend(h)
  <2>1. PICK pc \in PCs : Await(h, pc)
    BY <1>4 DEF FindExistingIntend, PCs
  <2>2. run'[h].pair = run[h].pair
    BY <1>0, <2>1 DEF Await, Goto, Runs
  <2> QED
    BY <1>1, <1>2, <1>4, <2>2 DEF RowsKept, FindExistingIntend, Exists
<1>5. CASE ~CreateDynamicData(h) /\ ~FindExistingIntend(h)
  <2>1. run'[h].pc \notin {"findExisting", "insert"}
    <3>1. CASE ValidateEntry(h)
      <4>1. CASE Return(h)
        BY <1>0, <4>1, ReturnedLocals DEF Return, Goto
      <4>2. ASSUME NEW i \in Intents,
                   Goto(h, [run[h] EXCEPT !.pc = "lock",
                                          !.purpose = "entry", !.intent = i])
            PROVE  run'[h].pc = "lock"
        BY <1>0, <4>2 DEF Goto, Runs
      <4> QED
        BY <3>1, <4>1, <4>2 DEF ValidateEntry, WithStatus
    <3>2. CASE ~ValidateEntry(h)
      <4>1. PICK r : KeepsTrying(h, r)
        BY <1>0, <1>5, <3>2, StillTrying
      <4>2. run'[h] = r
        BY <1>0, <4>1 DEF KeepsTrying, Goto
      <4> QED
        BY <1>5, <4>1, <4>2 DEF KeepsTrying
    <3> QED
      BY <3>1, <3>2
  <2>2. ASSUME NEW i \in Intents, Exists(i)'
        PROVE  intents'[i].pair \in dynamicData'
    <3>1. CASE Exists(i)
      <4>1. intents'[i].pair = intents[i].pair
        BY <1>0, <3>1, HandlerFrame DEF Frame
      <4> QED
        BY <1>1, <3>1, <4>1 DEF RowsKept
    <3>2. CASE ~Exists(i)
      <4>1. InsertIntend(h)
        BY <1>0, <2>2, <3>2, OnlyInserts
      <4>2. intents'[i].pair = run[h].pair
        BY <1>0, <2>2, <3>2, HandlerFrame DEF Frame, Exists
      <4> QED
        BY <1>1, <4>1, <4>2 DEF InsertIntend, RowsKept
    <3> QED
      BY <3>1, <3>2
  <2> QED
    BY <1>1, <1>2, <2>1, <2>2 DEF RowsKept
<1> QED
  BY <1>3, <1>4, <1>5

LEMMA NextKeepsRows ==
  ASSUME ~DbFaults, RowsKept, [Next]_vars
  PROVE  RowsKept'
<1>0. TypeInv'
  BY NextTypeInv DEF RowsKept
<1>1. CASE \E h \in Handlers : Handle(h)
  BY <1>0, <1>1, HandlerKeepsRows
<1>2. ASSUME ~\E h \in Handlers : Handle(h)
      PROVE  RowsKept'
  <2>1. UNCHANGED dynamicData
    BY <1>2 DEF Next, HandleLpCreatedEvent, HandleLpUpdatedEvent, Arrive,
                AddRedListContract, Tick, RefreshConfig, LoadActivePairs,
                Crash, vars
  <2> QED
    BY <1>0, <1>2, <2>1, OutsideSteps DEF RowsKept, Exists
<1> QED
  BY <1>1, <1>2

\* When no insert of pair_dynamic_data fails, no position is deaf to the
\* updates of its pair, whatever overlaps, gets lost or restarts.
THEOREM BoughtPairsHear ==
  ASSUME ~DbFaults
  PROVE  Spec => []BoughtPairGetsUpdates
<1>1. Init => RowsKept
  BY InitTypeInv DEF Init, RowsKept, Exists, Absent, Idle
<1>2. RowsKept /\ [Next]_vars => RowsKept'
  BY NextKeepsRows
<1>3. RowsKept => BoughtPairGetsUpdates
  BY DEF RowsKept, BoughtPairGetsUpdates, Exists
<1> QED
  BY <1>1, <1>2, <1>3, PTL DEF Spec

-----------------------------------------------------------------------------
(* The locks, when the liquidity is safe, the database does not fail and   *)
(* the process does not stop                                               *)

Owning == {"quote", "swap", "history", "commit", "unlock"}

Taking == {"TakingEntry", "TakingExit"}

\* After a step of h a row that is being taken is owned by h, or is too old
\* to enter, or h neither wrote nor owned it.
LockedAfter(h, i) ==
  \/ run'[h].intent = i /\ run'[h].pc \in Owning
  \/ intents'[i].status = "TakingEntry" /\ age'[i] > EntryMaxDelay
  \/ /\ intents'[i].status = intents[i].status
     /\ ~(run[h].intent = i /\ run[h].pc \in Owning)

LEMMA GoesOnOwning ==
  ASSUME TypeInv, NEW h \in Handlers, NEW pc \in Owning, Await(h, pc)
  PROVE  run'[h].intent = run[h].intent /\ run'[h].pc \in Owning
<1>1. run[h] \in Runs /\ run \in [Handlers -> Runs]
  BY HandlerTyped DEF TypeInv, TypeOK
<1> QED
  BY <1>1 DEF Await, Goto, Runs

LEMMA LockLocks ==
  ASSUME "small" \notin LpSizes, ~DbFaults, TypeInv, NEW h \in Handlers,
         LockEntry(h) \/ LockExit(h), NEW i \in Intents
  PROVE  LockedAfter(h, i)
<1> USE DEF At
<1>1. /\ run[h].intent \in Intents /\ intents[run[h].intent] \in IntentRows
      /\ run[h].lp \in LpSizes /\ run[h].purpose \in Purposes
      /\ run[h].pc = "lock"
  BY AttemptTyped DEF LockEntry, LockExit, Attempting
<1>2. WriteStatus(run[h].intent, LockedStatus(run[h].purpose))
  BY DEF LockEntry, LockExit
<1>3. CASE i # run[h].intent
  BY <1>1, <1>2, <1>3, StatusEffect, DataTyped
     DEF DataOK, LockedAfter, Owning
<1>4. CASE i = run[h].intent
  <2>1. CASE \E pc \in Owning : Await(h, pc)
    BY <1>4, <2>1, GoesOnOwning DEF LockedAfter
  <2>2. CASE LockEntry(h)
    <3>1. CASE age[i] > EntryMaxDelay
      <4>1. intents'[i].status = "TakingEntry"
        BY <1>1, <1>2, <1>4, <2>2, StatusEffect, DataTyped
           DEF DataOK, LockEntry, LockedStatus
      <4>2. age' = age
        BY <2>2 DEF LockEntry
      <4> QED
        BY <3>1, <4>1, <4>2 DEF LockedAfter
    <3>2. CASE ~(age[i] > EntryMaxDelay)
      BY <1>4, <2>1, <2>2, <3>2 DEF LockEntry, Owning
    <3> QED
      BY <3>1, <3>2
  <2>3. CASE LockExit(h)
    <3>1. run[h].lp = "big"
      BY <1>1, ConstantsAssumption DEF ConstantsAssumption
    <3>2. \E pc \in Owning : Await(h, pc)
      BY <2>3, <3>1 DEF LockExit, SafeLpSize, AfterQuote, Owning
    <3> QED
      BY <2>1, <3>2
  <2> QED
    BY <2>2, <2>3
<1> QED
  BY <1>3, <1>4

\* Letting an intent go and recording its swap end the lock.
LEMMA LetGo ==
  ASSUME ~DbFaults, TypeInv, NEW h \in Handlers,
         UnlockTrade(h) \/ CommitIntend(h),
         NEW i \in Intents, intents'[i].status \in Taking
  PROVE  LockedAfter(h, i)
<1> USE DEF At
<1>1. /\ run[h].intent \in Intents /\ intents[run[h].intent] \in IntentRows
      /\ run[h].purpose \in Purposes
  BY AttemptTyped DEF UnlockTrade, CommitIntend, Attempting
<1>2. /\ \A j \in Intents \ {run[h].intent} : intents'[j] = intents[j]
      /\ intents'[run[h].intent].status \notin Taking
  <2>1. CASE UnlockTrade(h)
    <3>1. UnlockedStatus(run[h].purpose) \notin Taking
      BY DEF UnlockedStatus, Taking
    <3> QED
      BY <1>1, <2>1, <3>1, StatusEffect, DataTyped DEF DataOK, UnlockTrade
  <2>2. CASE CommitIntend(h)
    <3>1. SettledStatus(run[h].purpose) \notin Taking
      BY <1>1 DEF SettledStatus, Taking, Purposes
    <3>2. PICK e : intents' = [intents EXCEPT
                       ![run[h].intent].status = SettledStatus(run[h].purpose),
                       ![run[h].intent].entry = e]
      BY <2>2 DEF CommitIntend
    <3> QED
      BY <1>1, <3>1, <3>2, DataTyped DEF DataOK, IntentRows
  <2> QED
    BY <2>1, <2>2
<1>3. i # run[h].intent
  BY <1>2
<1> QED
  BY <1>2, <1>3 DEF LockedAfter

LEMMA HandlerLocks ==
  ASSUME "small" \notin LpSizes, ~DbFaults, TypeInv, NEW h \in Handlers,
         Handle(h), NEW i \in Intents, intents'[i].status \in Taking
  PROVE  LockedAfter(h, i)
<1> USE DEF At
<1>1. CASE LockEntry(h) \/ LockExit(h)
  BY <1>1, LockLocks
<1>2. CASE UnlockTrade(h) \/ CommitIntend(h)
  BY <1>2, LetGo
<1>3. CASE \/ QuoteThrows(h) \/ SwapMined(h) \/ SwapThrows(h)
           \/ SaveHistory(h)
  <2>1. \E pc \in Owning : Await(h, pc)
    BY <1>3 DEF QuoteThrows, SwapMined, SwapThrows, SaveHistory, Owning
  <2>2. UNCHANGED intents
    BY <1>3 DEF QuoteThrows, SwapMined, SwapThrows, SaveHistory
  <2>3. run'[h].intent = run[h].intent /\ run'[h].pc \in Owning
    BY <2>1, GoesOnOwning
  <2> QED
    BY <2>2, <2>3 DEF LockedAfter
<1>4. ASSUME NEW q \in Prices, Quoted(h, q)
      PROVE  LockedAfter(h, i)
  <2>1. PICK pc \in Owning, kept \in Prices \cup {"none"} :
          Goto(h, [run[h] EXCEPT !.pc = pc, !.quote = kept])
    BY <1>4 DEF Quoted, AfterQuote, Owning
  <2>2. run[h] \in Runs /\ run \in [Handlers -> Runs]
    BY HandlerTyped DEF TypeInv, TypeOK
  <2>3. run'[h].intent = run[h].intent /\ run'[h].pc \in Owning
    BY <2>1, <2>2 DEF Goto, Runs
  <2> QED
    BY <1>4, <2>3 DEF LockedAfter, Quoted
<1>5. CASE InsertIntend(h)
  <2>1. intents'[i] = intents[i]
    BY <1>5, DataTyped DEF InsertIntend, DataOK, Taking
  <2> QED
    BY <1>5, <2>1 DEF LockedAfter, InsertIntend, Owning
<1>6. CASE \/ CreateDynamicData(h) \/ FindExistingIntend(h) \/ AbandonFlow(h)
           \/ SetupPriceTracking(h) \/ UpdateDynamicData(h)
           \/ FindFindingEntry(h) \/ FindFindingExit(h) \/ TrySl(h)
           \/ ValidateEntry(h)
  BY <1>6 DEF CreateDynamicData, FindExistingIntend, AbandonFlow,
              SetupPriceTracking, UpdateDynamicData, FindFindingEntry,
              FindFindingExit, TrySl, ValidateEntry, LockedAfter, Owning
<1> QED
  BY <1>1, <1>2, <1>3, <1>4, <1>5, <1>6 DEF Handle

\* Every lock has an owner, but that of an intent too old to enter.
LocksOwned ==
  \A i \in Intents :
    intents[i].status \in Taking
      => \/ Owners(i) # {}
         \/ intents[i].status = "TakingEntry" /\ age[i] > EntryMaxDelay

LEMMA NextLocks ==
  ASSUME "small" \notin LpSizes, ~DbFaults, ~Crashes,
         TypeInv, LocksOwned, [Next]_vars
  PROVE  LocksOwned'
<1> USE DEF At
<1>1. ASSUME NEW h \in Handlers, Handle(h)
      PROVE  LocksOwned'
  <2> SUFFICES ASSUME NEW i \in Intents, intents'[i].status \in Taking
               PROVE  \/ (Owners(i) # {})'
                      \/ /\ intents'[i].status = "TakingEntry"
                         /\ age'[i] > EntryMaxDelay
    BY DEF LocksOwned
  <2>1. LockedAfter(h, i)
    BY <1>1, HandlerLocks
  <2>2. CASE run'[h].intent = i /\ run'[h].pc \in Owning
    BY <2>2 DEF Owners, Owning
  <2>3. CASE /\ intents'[i].status = intents[i].status
             /\ ~(run[h].intent = i /\ run[h].pc \in Owning)
    <3>1. age' = age
      BY <1>1 DEF Handle, CreateDynamicData, FindExistingIntend,
                  InsertIntend, AbandonFlow, SetupPriceTracking,
                  UpdateDynamicData, FindFindingEntry, FindFindingExit,
                  TrySl, ValidateEntry, LockEntry, LockExit, QuoteThrows,
                  Quoted, SwapMined, SwapThrows, SaveHistory, CommitIntend,
                  UnlockTrade
    <3>2. ASSUME NEW g \in Owners(i)
          PROVE  g \in Owners(i)'
      <4>1. g # h
        BY <2>3 DEF Owners, Owning
      <4>2. run'[g] = run[g]
        BY <1>1, <4>1, HandlerFrame DEF Stays, Goto, Owners, TypeInv, TypeOK
      <4> QED
        BY <4>2 DEF Owners
    <3> QED
      BY <2>3, <3>1, <3>2 DEF LocksOwned
  <2> QED
    BY <2>1, <2>2, <2>3 DEF LockedAfter
<1>2. CASE Tick
  <2>1. UNCHANGED <<intents, run>>
    BY <1>2 DEF Tick
  <2>2. \A i \in Intents : age'[i] \in {age[i], age[i] + 1}
                             /\ age[i] \in Nat
    BY <1>2, DataTyped, BoundsTyped DEF Tick, DataOK
  <2>3. EntryMaxDelay \in Nat
    BY ConstantsAssumption DEF ConstantsAssumption
  <2>4. \A i \in Intents : age[i] > EntryMaxDelay
                             => age'[i] > EntryMaxDelay
    BY <2>2, <2>3
  <2> QED
    BY <2>1, <2>4 DEF LocksOwned, Owners
<1>3. CASE UNCHANGED <<intents, age, run>>
  BY <1>3 DEF LocksOwned, Owners
<1>4. ASSUME NEW h \in Handlers, NEW p \in Pairs, NEW lp \in LpSizes,
             HandleLpCreatedEvent(h, p, lp) \/ HandleLpUpdatedEvent(h, p, lp)
      PROVE  LocksOwned'
  <2>1. PICK kind, pc : Arrive(h, kind, pc, p, lp)
    BY <1>4 DEF HandleLpCreatedEvent, HandleLpUpdatedEvent
  <2>2. \A g \in Handlers \ {h} : run'[g] = run[g]
    BY <2>1 DEF Arrive, Goto, TypeInv, TypeOK
  <2>3. \A i \in Intents : h \notin Owners(i)
    BY <2>1 DEF Arrive, Owners
  <2>4. \A i \in Intents : \A g \in Owners(i) : g \in Owners(i)'
    BY <2>2, <2>3 DEF Owners
  <2>5. UNCHANGED <<intents, age>>
    BY <2>1 DEF Arrive
  <2> QED
    BY <2>4, <2>5 DEF LocksOwned
<1> QED
  BY <1>1, <1>2, <1>3, <1>4
     DEF Next, AddRedListContract, RefreshConfig, LoadActivePairs, Crash,
         vars

LEMMA LocksOwnedInvariant ==
  ASSUME "small" \notin LpSizes, ~DbFaults, ~Crashes
  PROVE  Spec => [](TypeInv /\ LocksOwned)
<1>1. Init => TypeInv /\ LocksOwned
  BY InitTypeInv DEF Init, LocksOwned, Absent, Taking
<1>2. TypeInv /\ LocksOwned /\ [Next]_vars => (TypeInv /\ LocksOwned)'
  BY NextTypeInv, NextLocks
<1> QED
  BY <1>1, <1>2, PTL DEF Spec

\* While the liquidity is safe, the database answers and the process runs,
\* no row is stuck in TakingExit, although the handlers of a pair overlap:
\* whoever locks it to exit leads it out of the lock.
THEOREM ExitLocksOwned ==
  ASSUME "small" \notin LpSizes, ~DbFaults, ~Crashes
  PROVE  Spec => []ExitLockOwned
<1>1. LocksOwned => ExitLockOwned
  BY DEF LocksOwned, ExitLockOwned, Taking
<1> QED
  BY <1>1, LocksOwnedInvariant, PTL

\* Under the same conditions only an intent that was too old to enter when
\* it was locked is stuck in TakingEntry: that early return does not unlock.
THEOREM EntryLocksOwned ==
  ASSUME "small" \notin LpSizes, ~DbFaults, ~Crashes
  PROVE  Spec => []EntryLockOwned
<1>1. LocksOwned => EntryLockOwned
  BY DEF LocksOwned, EntryLockOwned, Taking
<1> QED
  BY <1>1, LocksOwnedInvariant, PTL

-----------------------------------------------------------------------------
(* The life of an intent: the trading core implements PositionLifecycle    *)
(* when the events of a pair do not overlap, the database answers and the  *)
(* receipt of a mined swap is read.                                        *)

\* The swaps mined for the attempt of r.
Swaps(r) == IF r.purpose = "entry" THEN buys[r.intent] ELSE sells[r.intent]

\* What the row of an intent is while a handler attempts to trade it.
LifeOf(r) ==
  /\ r.pc \notin Attempting \cup {"trySl"} => r.purpose = "none"
  /\ r.pc = "trySl" => \/ intents[r.intent].status = "FindingExit"
                       \/ r.pair \notin active
  /\ r.pc = "lock" => intents[r.intent].status = UnlockedStatus(r.purpose)
  /\ r.pc \in Owning
       => /\ intents[r.intent].status = LockedStatus(r.purpose)
          /\ Swaps(r) = IF r.pc \in {"history", "commit"} THEN 1 ELSE 0

\* An intent that is not entered has no buy, one that is not exited no sale.
RowLife(i) ==
  /\ intents[i].status \in {"Absent", "FindingEntry"} => buys[i] = 0
  /\ intents[i].status \in {"Absent", "FindingEntry", "TakingEntry",
                            "FindingExit"} => sells[i] = 0

LifeInv ==
  /\ TypeInv /\ Serial
  /\ \A i \in Intents : RowLife(i)
  /\ \A h \in Handlers : LifeOf(run[h])

LifeStep == [Lifecycle!Next]_(Lifecycle!lifecycleVars)

\* The effect of a step of h on its own intent and on itself.
OwnLife(h) ==
  LifeStep /\ (\A i \in Intents : RowLife(i)') /\ LifeOf(run[h])'

LEMMA MoveMaps ==
  ASSUME DataOK, DataOK', NEW i \in Intents, NEW from, NEW to,
         intents[i].status = from, intents'[i].status = to,
         \A j \in Intents \ {i} : intents'[j].status = intents[j].status,
         UNCHANGED <<buys, sells>>
  PROVE  Lifecycle!Move(i, from, to)
<1> DEFINE before == [j \in Intents |-> intents[j].status]
           after == [j \in Intents |-> intents'[j].status]
<1>1. after = [before EXCEPT ![i] = to] /\ before[i] = from
  OBVIOUS
<1> QED
  BY <1>1 DEF Lifecycle!Move

\* The writes of a status that PositionLifecycle allows.
LEMMA StatusMaps ==
  ASSUME LifeInv, DataOK', NEW i \in Intents,
         \A j \in Intents \ {i} : intents'[j].status = intents[j].status,
         UNCHANGED <<buys, sells>>,
         LET from == intents[i].status
             to == intents'[i].status
         IN  \/ from = "Absent" /\ to = "FindingEntry"
             \/ from = "FindingEntry" /\ to = "TakingEntry"
             \/ from = "FindingExit" /\ to = "TakingExit"
             \/ from = "TakingEntry" /\ to = "FindingEntry" /\ buys[i] = 0
             \/ from = "TakingExit" /\ to = "FindingExit" /\ sells[i] = 0
             \/ from = "TakingEntry" /\ to = "FindingExit" /\ buys[i] = 1
             \/ from = "TakingExit" /\ to \in {"TP", "SL"} /\ sells[i] = 1
  PROVE  LifeStep
<1>1. DataOK
  BY DataTyped DEF LifeInv
<1>2. \/ Lifecycle!Open(i) \/ Lifecycle!Lock(i)
      \/ Lifecycle!Release(i) \/ Lifecycle!Settle(i)
  BY <1>1, MoveMaps
     DEF Lifecycle!Open, Lifecycle!Lock, Lifecycle!Release, Lifecycle!Settle
<1> QED
  BY <1>2 DEF LifeStep, Lifecycle!Next

LEMMA StutterMaps ==
  ASSUME UNCHANGED <<buys, sells>>,
         \A j \in Intents : intents'[j].status = intents[j].status
  PROVE  LifeStep
BY DEF LifeStep, Lifecycle!lifecycleVars

\* A handler that awaits something else keeps its other locals.
LEMMA AwaitLocals ==
  ASSUME TypeInv, NEW h \in Handlers, NEW pc \in PCs, Await(h, pc)
  PROVE  /\ run'[h].pc = pc /\ run'[h].purpose = run[h].purpose
         /\ run'[h].intent = run[h].intent /\ run'[h].pair = run[h].pair
<1>1. run[h] \in Runs /\ run \in [Handlers -> Runs]
  BY HandlerTyped DEF TypeInv, TypeOK
<1> QED
  BY <1>1 DEF Await, Goto, Runs

\* Only a take profit that returns has a trySl after it.
LEMMA ReturnLocals ==
  ASSUME TypeInv, NEW h \in Handlers, Return(h)
  PROVE  \/ /\ run[h].purpose # "tp"
            /\ run'[h].pc \in {"idle", "findExit"} /\ run'[h].purpose = "none"
         \/ /\ run[h].purpose = "tp" /\ run'[h].pc = "trySl"
            /\ run'[h].intent = run[h].intent /\ run'[h].pair = run[h].pair
<1>1. run[h] \in Runs /\ run \in [Handlers -> Runs]
  BY HandlerTyped DEF TypeInv, TypeOK
<1>2. run'[h] = Returned(run[h])
  BY <1>1 DEF Return, Goto
<1>3. CASE run[h].purpose = "tp"
  BY <1>1, <1>2, <1>3 DEF Returned, Runs
<1>4. CASE run[h].purpose # "tp"
  BY <1>2, <1>4 DEF Returned, Idle
<1> QED
  BY <1>3, <1>4

\* A step that writes no row and counts no swap.
LEMMA RowsStay ==
  ASSUME LifeInv, NEW h \in Handlers, UNCHANGED <<intents, buys, sells>>,
         LifeOf(run[h])'
  PROVE  OwnLife(h)
<1>1. LifeStep
  BY StutterMaps
<1> QED
  BY <1>1 DEF OwnLife, LifeInv, RowLife

\* The searches of a handler, up to the choice of an intent.
LEMMA SearchLife ==
  ASSUME LifeInv, NEW h \in Handlers,
         \/ CreateDynamicData(h) \/ FindExistingIntend(h) \/ AbandonFlow(h)
         \/ SetupPriceTracking(h) \/ UpdateDynamicData(h)
         \/ FindFindingEntry(h)
  PROVE  OwnLife(h)
<1> USE DEF At
<1>1. TypeInv /\ run \in [Handlers -> Runs] /\ run[h].purpose = "none"
  BY DEF LifeInv, LifeOf, TypeInv, TypeOK, Attempting, CreateDynamicData,
         FindExistingIntend, AbandonFlow, SetupPriceTracking,
         UpdateDynamicData, FindFindingEntry
<1>2. UNCHANGED <<intents, buys, sells>>
  BY DEF CreateDynamicData, FindExistingIntend, AbandonFlow,
         SetupPriceTracking, UpdateDynamicData, FindFindingEntry, market
<1>3. \/ Goto(h, Idle)
      \/ \E pc \in {"findExisting", "track", "insert", "validateEntry",
                    "findEntry", "findExit"} : Await(h, pc)
  BY DEF CreateDynamicData, FindExistingIntend, AbandonFlow,
         SetupPriceTracking, UpdateDynamicData, FindFindingEntry
<1>4. run'[h].purpose = "none" /\ run'[h].pc \notin Attempting \cup {"trySl"}
  <2>1. CASE Goto(h, Idle)
    BY <1>1, <2>1 DEF Goto, Idle, Attempting
  <2>2. ASSUME NEW pc \in {"findExisting", "track", "insert",
                           "validateEntry", "findEntry", "findExit"},
               Await(h, pc)
        PROVE  run'[h].purpose = "none" /\ run'[h].pc = pc
    BY <1>1, <2>2, AwaitLocals DEF PCs
  <2> QED
    BY <1>3, <2>1, <2>2 DEF Attempting
<1>5. LifeOf(run[h])'
  BY <1>4 DEF LifeOf, Attempting, Owning
<1> QED
  BY <1>2, <1>5, RowsStay

\* The choice of an intent.
LEMMA ChoiceLife ==
  ASSUME LifeInv, NEW h \in Handlers,
         FindFindingExit(h) \/ TrySl(h) \/ ValidateEntry(h)
  PROVE  OwnLife(h)
<1> USE DEF At
<1>1. TypeInv /\ run[h] \in Runs /\ run \in [Handlers -> Runs]
  BY HandlerTyped DEF LifeInv, TypeInv, TypeOK
<1>2. UNCHANGED <<intents, buys, sells, active>>
  BY DEF FindFindingExit, TrySl, ValidateEntry, market, tracking
<1>3. CASE Goto(h, Idle)
  <2>1. run'[h] = Idle
    BY <1>1, <1>3 DEF Goto
  <2>2. LifeOf(run[h])'
    BY <2>1 DEF LifeOf, Idle, Attempting, Owning
  <2> QED
    BY <1>2, <2>2, RowsStay
<1>4. CASE FindFindingExit(h)
  <2>1. ASSUME NEW i \in WithStatus(run[h].pair, "FindingExit"),
               NEW pc \in {"lock", "trySl"}, NEW entry,
               Goto(h, [run[h] EXCEPT !.pc = pc, !.purpose = "tp",
                                      !.intent = i, !.entry = entry])
        PROVE  OwnLife(h)
    <3>1. run'[h].pc = pc /\ run'[h].purpose = "tp" /\ run'[h].intent = i
      BY <1>1, <2>1 DEF Goto, Runs
    <3>2. intents'[i].status = "FindingExit"
      BY <1>2 DEF WithStatus
    <3>3. LifeOf(run[h])'
      BY <3>1, <3>2 DEF LifeOf, Attempting, Owning, UnlockedStatus
    <3> QED
      BY <1>2, <3>3, RowsStay
  <2>2. ASSUME NEW i \in WithStatus(run[h].pair, "FindingExit"),
               Goto(h, [run[h] EXCEPT
                          !.pc = IF run[h].pair \in active /\ config
                                 THEN "lock" ELSE "trySl",
                          !.purpose = "tp", !.intent = i,
                          !.entry = intents[i].entry])
        PROVE  OwnLife(h)
    BY <2>1, <2>2
  <2> QED
    BY <1>3, <1>4, <2>2 DEF FindFindingExit
<1>5. CASE TrySl(h) /\ ~Goto(h, Idle)
  <2>1. /\ run[h].pair \in active
        /\ Goto(h, [run[h] EXCEPT !.pc = "lock", !.purpose = "sl"])
    BY <1>5 DEF TrySl, SlDue
  <2>2. /\ run'[h].pc = "lock" /\ run'[h].purpose = "sl"
        /\ run'[h].intent = run[h].intent
    BY <1>1, <2>1 DEF Goto, Runs
  <2>3. intents[run[h].intent].status = "FindingExit"
    BY <1>5, <2>1 DEF LifeInv, LifeOf, TrySl
  <2>4. LifeOf(run[h])'
    BY <1>2, <2>2, <2>3 DEF LifeOf, Attempting, Owning, UnlockedStatus
  <2> QED
    BY <1>2, <2>4, RowsStay
<1>6. CASE ValidateEntry(h)
  <2>1. CASE Return(h)
    <3>1. run[h].purpose = "none"
      BY <1>6 DEF LifeInv, LifeOf, ValidateEntry, Attempting
    <3>2. LifeOf(run[h])'
      BY <1>1, <2>1, <3>1, ReturnLocals DEF LifeOf, Attempting, Owning
    <3> QED
      BY <1>2, <3>2, RowsStay
  <2>2. ASSUME NEW i \in WithStatus(run[h].pair, "FindingEntry"),
               Goto(h, [run[h] EXCEPT !.pc = "lock", !.purpose = "entry",
                                      !.intent = i])
        PROVE  OwnLife(h)
    <3>1. run'[h].pc = "lock" /\ run'[h].purpose = "entry"
            /\ run'[h].intent = i
      BY <1>1, <2>2 DEF Goto, Runs
    <3>2. intents'[i].status = "FindingEntry"
      BY <1>2 DEF WithStatus
    <3>3. LifeOf(run[h])'
      BY <3>1, <3>2 DEF LifeOf, Attempting, Owning, UnlockedStatus
    <3> QED
      BY <1>2, <3>3, RowsStay
  <2> QED
    BY <1>6, <2>1, <2>2 DEF ValidateEntry
<1> QED
  BY <1>3, <1>4, <1>5, <1>6

LEMMA InsertLife ==
  ASSUME LifeInv, TypeInv', NEW h \in Handlers, InsertIntend(h)
  PROVE  OwnLife(h)
<1> USE DEF At
<1>1. TypeInv /\ DataOK /\ DataOK'
  BY DataTyped DEF LifeInv, TypeInv, TypeOK, DataOK
<1>2. PICK i \in Intents :
        /\ ~Exists(i)
        /\ intents' = [intents EXCEPT ![i] = [pair |-> run[h].pair,
                                              status |-> "FindingEntry",
                                              entry |-> "none"]]
  BY DEF InsertIntend
<1>3. /\ \A j \in Intents \ {i} : intents'[j] = intents[j]
      /\ intents[i].status = "Absent"
      /\ intents'[i].status = "FindingEntry"
  BY <1>1, <1>2 DEF DataOK, Exists
<1>4. UNCHANGED <<buys, sells>>
  BY DEF InsertIntend, market
<1>5. LifeStep
  BY <1>1, <1>3, <1>4, StatusMaps
<1>6. \A j \in Intents : RowLife(j)'
  BY <1>3, <1>4 DEF LifeInv, RowLife
<1>7. LifeOf(run[h])'
  <2>1. run'[h].pc = "track" /\ run'[h].purpose = run[h].purpose
    BY <1>1, AwaitLocals DEF InsertIntend, PCs
  <2>2. run[h].purpose = "none"
    BY DEF LifeInv, LifeOf, InsertIntend, Attempting
  <2> QED
    BY <2>1, <2>2 DEF LifeOf, Attempting, Owning
<1> QED
  BY <1>5, <1>6, <1>7 DEF OwnLife

\* The lock is taken from the status the intent was found in.
LEMMA LockLife ==
  ASSUME ~DbFaults, LifeInv, TypeInv', NEW h \in Handlers,
         LockEntry(h) \/ LockExit(h)
  PROVE  OwnLife(h)
<1> USE DEF At
<1> DEFINE i == run[h].intent
<1>1. TypeInv /\ DataOK /\ DataOK' /\ run \in [Handlers -> Runs]
  BY DataTyped DEF LifeInv, TypeInv, TypeOK, DataOK
<1>2. /\ i \in Intents /\ intents[i] \in IntentRows
      /\ run[h].purpose \in Purposes /\ run[h].pc = "lock"
  BY <1>1, AttemptTyped DEF LockEntry, LockExit, Attempting
<1>3. intents[i].status = UnlockedStatus(run[h].purpose)
  BY <1>2 DEF LifeInv, LifeOf
<1>4. WriteStatus(i, LockedStatus(run[h].purpose))
  BY DEF LockEntry, LockExit
<1>5. /\ \A j \in Intents \ {i} : intents'[j] = intents[j]
      /\ intents'[i].status = LockedStatus(run[h].purpose)
  BY <1>1, <1>2, <1>4, StatusEffect DEF DataOK
<1>6. UNCHANGED <<buys, sells>>
  BY DEF LockEntry, LockExit, market
<1>7. LifeStep
  BY <1>1, <1>2, <1>3, <1>5, <1>6, StatusMaps
     DEF UnlockedStatus, LockedStatus
<1>8. \A j \in Intents : RowLife(j)'
  BY <1>2, <1>3, <1>5, <1>6
     DEF LifeInv, RowLife, UnlockedStatus, LockedStatus
<1>9. LifeOf(run[h])'
  <2>1. CASE Goto(h, Idle)
    BY <1>1, <2>1 DEF Goto, LifeOf, Idle, Attempting, Owning
  <2>2. CASE Return(h) /\ run[h].purpose = "entry"
    BY <1>1, <2>2, ReturnLocals DEF LifeOf, Attempting, Owning
  <2>3. ASSUME NEW pc \in {"quote", "swap", "unlock"}, Await(h, pc)
        PROVE  LifeOf(run[h])'
    <3>1. /\ run'[h].pc = pc /\ run'[h].purpose = run[h].purpose
          /\ run'[h].intent = i
      BY <1>1, <2>3, AwaitLocals DEF PCs
    <3>2. Swaps(run[h])' = 0
      BY <1>2, <1>3, <1>6, <3>1
         DEF Swaps, LifeInv, RowLife, UnlockedStatus
    <3> QED
      BY <1>5, <3>1, <3>2 DEF LifeOf, Attempting, Owning
  <2> QED
    BY <2>1, <2>2, <2>3 DEF LockEntry, LockExit, AfterQuote
<1> QED
  BY <1>7, <1>8, <1>9 DEF OwnLife

\* The quotation and the history of a swap leave the lock as it is, and so
\* does a swap that throws, whose receipt is never lost.
LEMMA QuoteLife ==
  ASSUME ~DbFaults, ~LostReceipts, LifeInv, NEW h \in Handlers,
         \/ QuoteThrows(h) \/ SwapThrows(h) \/ SaveHistory(h)
         \/ \E q \in Prices : Quoted(h, q)
  PROVE  OwnLife(h)
<1> USE DEF At
<1>1. TypeInv /\ run[h] \in Runs /\ run \in [Handlers -> Runs]
  BY HandlerTyped DEF LifeInv, TypeInv, TypeOK
<1>2. UNCHANGED <<intents, buys, sells>>
  BY DEF QuoteThrows, SwapThrows, SaveHistory, Quoted, market
<1> DEFINE KeepsOwning ==
      /\ run[h].pc \in Owning /\ run'[h].pc \in Owning
      /\ run'[h].pc \in {"history", "commit"}
           <=> run[h].pc \in {"history", "commit"}
      /\ run'[h].purpose = run[h].purpose /\ run'[h].intent = run[h].intent
<1>3. KeepsOwning
  <2>1. CASE QuoteThrows(h) \/ SwapThrows(h)
    <3>1. Await(h, "unlock") /\ run[h].pc \in {"quote", "swap"}
      BY <2>1 DEF QuoteThrows, SwapThrows
    <3> QED
      BY <1>1, <3>1, AwaitLocals DEF PCs, Owning
  <2>2. CASE SaveHistory(h)
    <3>1. Await(h, "commit") /\ run[h].pc = "history"
      BY <2>2 DEF SaveHistory
    <3> QED
      BY <1>1, <3>1, AwaitLocals DEF PCs, Owning
  <2>3. ASSUME NEW q \in Prices, Quoted(h, q)
        PROVE  KeepsOwning
    <3>1. PICK pc \in {"swap", "unlock"}, kept \in Prices \cup {"none"} :
            Goto(h, [run[h] EXCEPT !.pc = pc, !.quote = kept])
      BY <2>3 DEF Quoted, AfterQuote
    <3>2. /\ run'[h].pc = pc /\ run'[h].purpose = run[h].purpose
          /\ run'[h].intent = run[h].intent
      BY <1>1, <3>1 DEF Goto, Runs
    <3> QED
      BY <2>3, <3>1, <3>2 DEF Quoted, Owning
  <2> QED
    BY <2>1, <2>2, <2>3
<1>4. LifeOf(run[h])'
  BY <1>2, <1>3 DEF LifeInv, LifeOf, Attempting, Owning, Swaps
<1> QED
  BY <1>2, <1>4, RowsStay

\* A swap that is mined is the only one of its kind.
LEMMA SwapLife ==
  ASSUME LifeInv, TypeInv', NEW h \in Handlers, SwapMined(h)
  PROVE  OwnLife(h)
<1> USE DEF At
<1> DEFINE i == run[h].intent
<1>1. TypeInv /\ DataOK
  BY DataTyped DEF LifeInv
<1>2. /\ i \in Intents /\ run[h].purpose \in Purposes /\ run[h].pc = "swap"
  BY <1>1, AttemptTyped DEF SwapMined, Attempting
<1>3. intents[i].status = LockedStatus(run[h].purpose) /\ Swaps(run[h]) = 0
  BY <1>2 DEF LifeInv, LifeOf, Owning
<1>4. UNCHANGED intents /\ CountSwap(run[h])
  BY DEF SwapMined
<1>5. 0 < MaxSwaps
  BY ConstantsAssumption DEF ConstantsAssumption
<1>6. /\ run'[h].pc = "history" /\ run'[h].purpose = run[h].purpose
      /\ run'[h].intent = i
  BY <1>1, AwaitLocals DEF SwapMined, PCs
<1>7. CASE run[h].purpose = "entry"
  <2>1. /\ buys[i] = 0 /\ buys' = [buys EXCEPT ![i] = 1]
        /\ UNCHANGED sells
    BY <1>3, <1>4, <1>5, <1>7 DEF CountSwap, Mined, Swaps
  <2>2. intents[i].status = "TakingEntry"
    BY <1>3, <1>7 DEF LockedStatus
  <2>3. LifeStep
    <3>1. [j \in Intents |-> intents[j].status][i] = "TakingEntry"
      BY <1>2, <2>2
    <3>2. \E j \in Intents : Lifecycle!Buy(j)
      BY <1>2, <2>1, <3>1, <1>4 DEF Lifecycle!Buy
    <3> QED
      BY <3>2 DEF LifeStep, Lifecycle!Next
  <2>4. \A j \in Intents : RowLife(j)'
    BY <1>1, <1>2, <1>4, <2>1, <2>2 DEF LifeInv, RowLife, DataOK
  <2>5. LifeOf(run[h])'
    BY <1>1, <1>2, <1>4, <1>6, <1>7, <2>1, <2>2
       DEF LifeOf, Swaps, LockedStatus, Attempting, Owning, DataOK
  <2> QED
    BY <2>3, <2>4, <2>5 DEF OwnLife
<1>8. CASE run[h].purpose # "entry"
  <2>1. /\ sells[i] = 0 /\ sells' = [sells EXCEPT ![i] = 1]
        /\ UNCHANGED buys
    BY <1>3, <1>4, <1>5, <1>8 DEF CountSwap, Mined, Swaps
  <2>2. intents[i].status = "TakingExit"
    BY <1>3, <1>8 DEF LockedStatus
  <2>3. LifeStep
    <3>1. [j \in Intents |-> intents[j].status][i] = "TakingExit"
      BY <1>2, <2>2
    <3>2. \E j \in Intents : Lifecycle!Sell(j)
      BY <1>2, <2>1, <3>1, <1>4 DEF Lifecycle!Sell
    <3> QED
      BY <3>2 DEF LifeStep, Lifecycle!Next
  <2>4. \A j \in Intents : RowLife(j)'
    BY <1>1, <1>2, <1>4, <2>1, <2>2 DEF LifeInv, RowLife, DataOK
  <2>5. LifeOf(run[h])'
    BY <1>1, <1>2, <1>4, <1>6, <1>8, <2>1, <2>2
       DEF LifeOf, Swaps, LockedStatus, Attempting, Owning, DataOK
  <2> QED
    BY <2>3, <2>4, <2>5 DEF OwnLife
<1> QED
  BY <1>7, <1>8

\* The outcome of a swap settles the intent; an exit unfollows its pair.
LEMMA CommitLife ==
  ASSUME ~DbFaults, LifeInv, TypeInv', NEW h \in Handlers, CommitIntend(h)
  PROVE  OwnLife(h)
<1> USE DEF At
<1> DEFINE i == run[h].intent
<1>1. TypeInv /\ DataOK /\ DataOK'
  BY DataTyped DEF LifeInv, TypeInv, TypeOK, DataOK
<1>2. /\ i \in Intents /\ intents[i] \in IntentRows
      /\ run[h].purpose \in Purposes /\ run[h].pc = "commit"
  BY <1>1, AttemptTyped DEF CommitIntend, Attempting
<1>3. intents[i].status = LockedStatus(run[h].purpose) /\ Swaps(run[h]) = 1
  BY <1>2 DEF LifeInv, LifeOf, Owning
<1>4. PICK e : intents' = [intents EXCEPT
                 ![i].status = SettledStatus(run[h].purpose), ![i].entry = e]
  BY DEF CommitIntend
<1>5. /\ \A j \in Intents \ {i} : intents'[j] = intents[j]
      /\ intents'[i].status = SettledStatus(run[h].purpose)
  BY <1>1, <1>2, <1>4 DEF DataOK, IntentRows
<1>6. UNCHANGED <<buys, sells>>
  BY DEF CommitIntend, market
<1>7. LifeStep
  BY <1>1, <1>2, <1>3, <1>5, <1>6, StatusMaps
     DEF LockedStatus, SettledStatus, Swaps, Purposes
<1>8. \A j \in Intents : RowLife(j)'
  BY <1>2, <1>3, <1>5, <1>6
     DEF LifeInv, RowLife, LockedStatus, SettledStatus, Purposes
<1>9. LifeOf(run[h])'
  <2>1. CASE run[h].purpose # "tp"
    BY <1>1, <2>1, ReturnLocals
       DEF CommitIntend, Recorded, LifeOf, Attempting, Owning
  <2>2. CASE run[h].purpose = "tp"
    <3>1. run[h].pair \notin active'
      BY <2>2 DEF CommitIntend, Recorded, StopNewPairTradingFlow,
                  SetActiveTradingPair
    <3> QED
      BY <1>1, <2>2, <3>1, ReturnLocals
         DEF CommitIntend, Recorded, LifeOf, Attempting, Owning
  <2> QED
    BY <2>1, <2>2
<1> QED
  BY <1>7, <1>8, <1>9 DEF OwnLife

\* Only an intent that was not swapped is let go.
LEMMA UnlockLife ==
  ASSUME ~DbFaults, LifeInv, TypeInv', NEW h \in Handlers, UnlockTrade(h)
  PROVE  OwnLife(h)
<1> USE DEF At
<1> DEFINE i == run[h].intent
<1>1. TypeInv /\ DataOK /\ DataOK'
  BY DataTyped DEF LifeInv, TypeInv, TypeOK, DataOK
<1>2. /\ i \in Intents /\ intents[i] \in IntentRows
      /\ run[h].purpose \in Purposes /\ run[h].pc = "unlock"
  BY <1>1, AttemptTyped DEF UnlockTrade, Attempting
<1>3. intents[i].status = LockedStatus(run[h].purpose) /\ Swaps(run[h]) = 0
  BY <1>2 DEF LifeInv, LifeOf, Owning
<1>4. WriteStatus(i, UnlockedStatus(run[h].purpose))
  BY DEF UnlockTrade
<1>5. /\ \A j \in Intents \ {i} : intents'[j] = intents[j]
      /\ intents'[i].status = UnlockedStatus(run[h].purpose)
  BY <1>1, <1>2, <1>4, StatusEffect DEF DataOK
<1>6. UNCHANGED <<buys, sells>>
  BY DEF UnlockTrade, market
<1>7. LifeStep
  BY <1>1, <1>2, <1>3, <1>5, <1>6, StatusMaps
     DEF LockedStatus, UnlockedStatus, Swaps
<1>8. \A j \in Intents : RowLife(j)'
  BY <1>2, <1>3, <1>5, <1>6
     DEF LifeInv, RowLife, LockedStatus, UnlockedStatus, Swaps
<1>9. LifeOf(run[h])'
  BY <1>1, <1>5, ReturnLocals
     DEF UnlockTrade, UnlockedStatus, LifeOf, Attempting, Owning
<1> QED
  BY <1>7, <1>8, <1>9 DEF OwnLife

\* A step of h does not concern the attempt of another handler, which has
\* another pair.
LEMMA OthersLife ==
  ASSUME LifeInv, NEW h \in Handlers, Handle(h), NEW g \in Handlers, g # h
  PROVE  LifeOf(run[g])'
<1>1. TypeInv /\ run'[g] = run[g]
  BY HandlerFrame DEF LifeInv, Stays, Goto, TypeInv, TypeOK
<1>2. CASE run[g].pc \in Attempting \cup {"trySl"}
  <2>1. /\ run[g].pair \in Pairs /\ run[g].intent \in Intents
        /\ intents[run[g].intent].pair = run[g].pair
    BY <1>1, <1>2, HandlerTyped DEF HandlerOK, Attempting, Purposes
  <2>2. run[g].pair # Null
    BY <2>1, ConstantsAssumption DEF ConstantsAssumption
  <2>3. run[h].pair # run[g].pair
    BY <2>2 DEF LifeInv, Serial
  <2>4. /\ intents'[run[g].intent] = intents[run[g].intent]
        /\ buys'[run[g].intent] = buys[run[g].intent]
        /\ sells'[run[g].intent] = sells[run[g].intent]
    BY <1>1, <2>1, <2>2, <2>3, HandlerFrame DEF Frame
  <2>5. run[g].pair \notin active => run[g].pair \notin active'
    BY <1>1, <2>3, HandlerFrame DEF Frame
  <2> QED
    BY <1>1, <2>4, <2>5 DEF LifeInv, LifeOf, Swaps
<1>3. CASE run[g].pc \notin Attempting \cup {"trySl"}
  BY <1>1, <1>3 DEF LifeInv, LifeOf, Attempting, Owning
<1> QED
  BY <1>2, <1>3

LEMMA HandlerLife ==
  ASSUME ~DbFaults, ~LostReceipts, LifeInv, TypeInv',
         NEW h \in Handlers, Handle(h)
  PROVE  OwnLife(h)
BY SearchLife, ChoiceLife, InsertLife, LockLife, QuoteLife, SwapLife,
   CommitLife, UnlockLife DEF Handle

\* What is not a step of a handler does not concern any attempt.
LEMMA OutsideLife ==
  ASSUME LifeInv, [Next]_vars, ~\E h \in Handlers : Handle(h)
  PROVE  /\ LifeStep
         /\ \A i \in Intents : RowLife(i)'
         /\ \A h \in Handlers : LifeOf(run[h])'
<1>1. TypeInv
  BY DEF LifeInv
<1>2. UNCHANGED <<intents, buys, sells>>
  BY DEF Next, HandleLpCreatedEvent, HandleLpUpdatedEvent, Arrive,
         AddRedListContract, Tick, RefreshConfig, LoadActivePairs, Crash,
         vars, market
<1>3. active' \subseteq active \/ ~loaded
  BY DEF Next, HandleLpCreatedEvent, HandleLpUpdatedEvent, Arrive,
         AddRedListContract, Tick, RefreshConfig, LoadActivePairs, Crash,
         vars, tracking
<1>4. ASSUME NEW h \in Handlers
      PROVE  LifeOf(run[h])'
  <2>1. CASE run'[h] = run[h]
    <3>1. CASE run[h].pc = "trySl"
      <4>1. run[h].pair # Null
        BY <1>1, <3>1, HandlerTyped, ConstantsAssumption
           DEF HandlerOK, ConstantsAssumption
      <4>2. active' \subseteq active
        BY <1>3, <4>1 DEF LifeInv, Serial
      <4> QED
        BY <1>2, <2>1, <3>1, <4>2 DEF LifeInv, LifeOf, Owning
    <3>2. CASE run[h].pc # "trySl"
      BY <1>2, <2>1, <3>2 DEF LifeInv, LifeOf, Swaps
    <3> QED
      BY <3>1, <3>2
  <2>2. CASE /\ run'[h].pc \in {"idle", "createDynamic", "updateDynamic"}
             /\ run'[h].purpose = "none"
    BY <2>2 DEF LifeOf, Attempting, Owning
  <2> QED
    BY <1>1, <2>1, <2>2, OutsideSteps
<1> QED
  BY <1>2, <1>4, StutterMaps DEF LifeInv, RowLife

LEMMA NextLife ==
  ASSUME ~Overlap, ~DbFaults, ~LostReceipts, LifeInv, [Next]_vars
  PROVE  LifeInv' /\ LifeStep
<1>1. TypeInv' /\ Serial'
  BY NextTypeInv, NextSerial DEF LifeInv
<1>2. ASSUME NEW h \in Handlers, Handle(h)
      PROVE  LifeInv' /\ LifeStep
  <2>1. OwnLife(h)
    BY <1>1, <1>2, HandlerLife
  <2>2. \A g \in Handlers : LifeOf(run[g])'
    BY <1>2, <2>1, OthersLife DEF OwnLife
  <2> QED
    BY <1>1, <2>1, <2>2 DEF LifeInv, OwnLife
<1>3. CASE ~\E h \in Handlers : Handle(h)
  BY <1>1, <1>3, OutsideLife DEF LifeInv
<1> QED
  BY <1>2, <1>3

LEMMA InitLife == Init => LifeInv /\ Lifecycle!Init
<1> SUFFICES ASSUME Init
             PROVE  LifeInv /\ Lifecycle!Init
  OBVIOUS
<1>1. TypeInv /\ Serial
  BY InitTypeInv, InitSerial
<1>2. \A i \in Intents : intents[i].status = "Absent" /\ buys[i] = 0
                           /\ sells[i] = 0
  BY DEF Init, Absent
<1>3. \A h \in Handlers : LifeOf(run[h])
  BY DEF Init, Idle, LifeOf, Attempting, Owning
<1>4. Lifecycle!Init
  BY <1>2 DEF Init, Lifecycle!Init
<1> QED
  BY <1>1, <1>2, <1>3, <1>4 DEF LifeInv, RowLife

\* When the events of a pair do not overlap, the database answers and no
\* receipt is lost, every intent of every number of pairs, whatever restarts,
\* lives the life of PositionLifecycle: it is bought once at most and sold
\* once at most, each under its lock, and it is let go only unswapped.
THEOREM LifecycleImplemented ==
  ASSUME ~Overlap, ~DbFaults, ~LostReceipts
  PROVE  Spec => ImplementsLifecycle
<1>1. Init => LifeInv /\ Lifecycle!Init
  BY InitLife
<1>2. LifeInv /\ [Next]_vars
        => LifeInv' /\ [Lifecycle!Next]_(Lifecycle!lifecycleVars)
  BY NextLife DEF LifeStep
<1> QED
  BY <1>1, <1>2, PTL DEF Spec, ImplementsLifecycle, Lifecycle!Spec

-----------------------------------------------------------------------------
(* The handlers go forward                                                 *)

\* The awaits a handler may still go through: those of an attempt, of which
\* an update may make three, an entry, a take profit and a stop loss; and
\* those of the searches before them.
AttemptRank ==
  [lock |-> 5, quote |-> 4, swap |-> 3, history |-> 2, commit |-> 1,
   unlock |-> 1]
PurposeRank == [sl |-> 0, tp |-> 6, entry |-> 12]
SearchRank ==
  [idle |-> 0, trySl |-> 6, findExit |-> 12, validateEntry |-> 18,
   findEntry |-> 19, track |-> 19, updateDynamic |-> 20, insert |-> 20,
   findExisting |-> 21, createDynamic |-> 22]

Rank(r) ==
  IF r.pc \in Attempting THEN PurposeRank[r.purpose] + AttemptRank[r.pc]
                         ELSE SearchRank[r.pc]

LEMMA RankBounds ==
  ASSUME NEW r \in Runs, r.pc \in Attempting => r.purpose \in Purposes
  PROVE  Rank(r) \in 0..22 /\ (Rank(r) = 0 <=> r.pc = "idle")
<1>1. CASE r.pc \in Attempting
  <2>1. PurposeRank[r.purpose] \in {0, 6, 12} /\ AttemptRank[r.pc] \in 1..5
    BY <1>1 DEF Attempting, Purposes, PurposeRank, AttemptRank
  <2> QED
    BY <1>1, <2>1 DEF Rank, Attempting
<1>2. CASE r.pc \notin Attempting
  BY <1>2 DEF Rank, Runs, PCs, Attempting, SearchRank
<1> QED
  BY <1>1, <1>2

LEMMA ReturnedAdvances ==
  ASSUME NEW r \in Runs,
         \/ r.pc \in Attempting /\ r.purpose \in Purposes
         \/ r.pc = "validateEntry"
  PROVE  Rank(Returned(r)) < Rank(r)
<1>1. CASE r.pc \in Attempting
  <2>1. /\ AttemptRank[r.pc] \in 1..5
        /\ Rank(r) = PurposeRank[r.purpose] + AttemptRank[r.pc]
    BY <1>1 DEF Attempting, AttemptRank, Rank
  <2>2. CASE r.purpose = "tp"
    <3>1. Rank(Returned(r)) = 6 /\ PurposeRank[r.purpose] = 6
      BY <2>2 DEF Returned, Rank, Runs, Attempting, SearchRank, PurposeRank
    <3> QED
      BY <2>1, <3>1
  <2>3. CASE r.purpose = "sl"
    <3>1. Rank(Returned(r)) = 0 /\ PurposeRank[r.purpose] = 0
      BY <2>3 DEF Returned, Rank, Idle, Attempting, SearchRank, PurposeRank
    <3> QED
      BY <2>1, <3>1
  <2>4. CASE r.purpose = "entry"
    <3>1. Rank(Returned(r)) \in {0, 12} /\ PurposeRank[r.purpose] = 12
      BY <2>4 DEF Returned, Rank, Idle, Attempting, SearchRank, PurposeRank
    <3> QED
      BY <2>1, <3>1
  <2> QED
    BY <1>1, <2>2, <2>3, <2>4 DEF Purposes, Attempting
<1>2. CASE r.pc = "validateEntry"
  <2>1. Rank(r) = 18
    BY <1>2 DEF Rank, Attempting, SearchRank
  <2>2. Rank(Returned(r)) \in {0, 6, 12}
    BY DEF Returned, Rank, Runs, Idle, Attempting, SearchRank
  <2> QED
    BY <2>1, <2>2
<1> QED
  BY <1>1, <1>2

\* A handler that goes on at another await of the same attempt.
LEMMA AwaitAdvances ==
  ASSUME NEW r \in Runs, r.pc \in Attempting, r.purpose \in Purposes,
         NEW pc \in Attempting, AttemptRank[pc] < AttemptRank[r.pc]
  PROVE  Rank([r EXCEPT !.pc = pc]) < Rank(r)
<1>1. /\ [r EXCEPT !.pc = pc].pc = pc
      /\ [r EXCEPT !.pc = pc].purpose = r.purpose
  BY DEF Runs
<1>2. /\ PurposeRank[r.purpose] \in Nat
      /\ AttemptRank[pc] \in Nat /\ AttemptRank[r.pc] \in Nat
  BY DEF Purposes, PurposeRank, Attempting, AttemptRank
<1> QED
  BY <1>1, <1>2 DEF Rank

\* Every step of a handler shortens its way, whatever overlaps or fails.
LEMMA HandleAdvances ==
  ASSUME TypeInv, NEW h \in Handlers, Handle(h)
  PROVE  /\ ~At(h, "idle")
         /\ Rank(run'[h]) < Rank(run[h])
         /\ \A g \in Handlers \ {h} : run'[g] = run[g]
<1> DEFINE r == run[h]
<1>1. r \in Runs /\ HandlerOK(r, intents)
  BY HandlerTyped
<1>2. \A s : Goto(h, s) => /\ run'[h] = s
                           /\ \A g \in Handlers \ {h} : run'[g] = run[g]
  BY DEF Goto, TypeInv, TypeOK
<1>3. /\ \A pc : Await(h, pc) => Goto(h, [r EXCEPT !.pc = pc])
      /\ Return(h) => Goto(h, Returned(r))
  BY DEF Await, Return
<1>4. Rank(Idle) = 0
  BY DEF Rank, Idle, Attempting, SearchRank
<1>5. r.pc # "idle" => 0 < Rank(r)
  BY <1>1, RankBounds DEF HandlerOK
<1>6. r.pc # "idle"
  BY DEF Handle, At, CreateDynamicData, FindExistingIntend, InsertIntend,
         AbandonFlow, SetupPriceTracking, UpdateDynamicData,
         FindFindingEntry, FindFindingExit, TrySl, ValidateEntry, LockEntry,
         LockExit, QuoteThrows, Quoted, SwapMined, SwapThrows, SaveHistory,
         CommitIntend, UnlockTrade
<1>7. \E s : Goto(h, s) /\ Rank(s) < Rank(r)
  <2>1. CASE Goto(h, Idle)
    BY <1>4, <1>5, <1>6, <2>1
  <2>2. CASE Return(h) /\ \/ r.pc \in Attempting
                          \/ r.pc = "validateEntry"
    BY <1>1, <1>3, <2>2, ReturnedAdvances DEF HandlerOK
  <2>3. ASSUME NEW pc \in Attempting, Await(h, pc), r.pc \in Attempting,
               AttemptRank[pc] < AttemptRank[r.pc]
        PROVE  <1>7
    BY <1>1, <1>3, <2>3, AwaitAdvances DEF HandlerOK
  <2>4. ASSUME NEW pc \in PCs \ Attempting, Await(h, pc),
               r.pc \notin Attempting, SearchRank[pc] < SearchRank[r.pc]
        PROVE  <1>7
    <3>1. [r EXCEPT !.pc = pc].pc = pc
      BY <1>1 DEF Runs
    <3>2. Rank([r EXCEPT !.pc = pc]) < Rank(r)
      BY <2>4, <3>1 DEF Rank
    <3> QED
      BY <1>3, <2>4, <3>2
  <2>5. CASE \/ CreateDynamicData(h) \/ FindExistingIntend(h)
             \/ InsertIntend(h) \/ AbandonFlow(h) \/ SetupPriceTracking(h)
             \/ UpdateDynamicData(h) \/ FindFindingEntry(h)
    <3> DEFINE goesTo(from, pc) == r.pc = from /\ Await(h, pc)
    <3>1. ASSUME NEW from \in PCs \ Attempting, NEW pc \in PCs \ Attempting,
                 SearchRank[pc] < SearchRank[from], goesTo(from, pc)
          PROVE  <1>7
      BY <2>4, <3>1
    <3>2. /\ SearchRank["idle"] = 0 /\ SearchRank["findExit"] = 12
          /\ SearchRank["validateEntry"] = 18
          /\ SearchRank["findEntry"] = 19 /\ SearchRank["track"] = 19
          /\ SearchRank["updateDynamic"] = 20 /\ SearchRank["insert"] = 20
          /\ SearchRank["findExisting"] = 21
          /\ SearchRank["createDynamic"] = 22
      BY DEF SearchRank
    <3>3. {"findExit", "validateEntry", "findEntry", "track",
           "updateDynamic", "insert", "findExisting", "createDynamic"}
            \subseteq PCs \ Attempting
      BY DEF PCs, Attempting
    <3>4. \/ Goto(h, Idle)
          \/ goesTo("createDynamic", "findExisting")
          \/ goesTo("findExisting", "track")
          \/ goesTo("findExisting", "insert")
          \/ goesTo("insert", "track")
          \/ goesTo("track", "validateEntry")
          \/ goesTo("updateDynamic", "findEntry")
          \/ goesTo("findEntry", "validateEntry")
          \/ goesTo("findEntry", "findExit")
      BY <2>5 DEF At, CreateDynamicData, FindExistingIntend, InsertIntend,
                  AbandonFlow, SetupPriceTracking, UpdateDynamicData,
                  FindFindingEntry
    <3> HIDE DEF goesTo
    <3>5. CASE Goto(h, Idle)
      BY <2>1, <3>5
    <3>6. CASE goesTo("createDynamic", "findExisting")
      BY <3>1, <3>2, <3>3, <3>6
    <3>7. CASE \/ goesTo("findExisting", "track")
               \/ goesTo("findExisting", "insert")
      BY <3>1, <3>2, <3>3, <3>7
    <3>8. CASE goesTo("insert", "track") \/ goesTo("track", "validateEntry")
      BY <3>1, <3>2, <3>3, <3>8
    <3>9. CASE \/ goesTo("updateDynamic", "findEntry")
               \/ goesTo("findEntry", "validateEntry")
               \/ goesTo("findEntry", "findExit")
      BY <3>1, <3>2, <3>3, <3>9
    <3> QED
      BY <3>4, <3>5, <3>6, <3>7, <3>8, <3>9
  <2>6. CASE FindFindingExit(h)
    <3>1. CASE Goto(h, Idle)
      BY <2>1, <3>1
    <3>2. ASSUME NEW i, NEW pc \in {"lock", "trySl"},
                 Goto(h, [r EXCEPT !.pc = pc, !.purpose = "tp",
                                   !.intent = i, !.entry = intents[i].entry])
          PROVE  <1>7
      <4> DEFINE s == [r EXCEPT !.pc = pc, !.purpose = "tp", !.intent = i,
                                !.entry = intents[i].entry]
      <4>1. s.pc = pc /\ s.purpose = "tp"
        BY <1>1 DEF Runs
      <4>2. Rank(s) \in {6, 11}
        BY <4>1 DEF Rank, Attempting, AttemptRank, PurposeRank, SearchRank
      <4>3. r.pc = "findExit"
        BY <2>6 DEF At, FindFindingExit
      <4>4. Rank(r) = 12
        BY <4>3 DEF Rank, Attempting, SearchRank
      <4> HIDE DEF s
      <4>5. Rank(s) < Rank(r)
        BY <4>2, <4>4
      <4> QED
        BY <3>2, <4>5 DEF s
    <3> DEFINE pc == IF r.pair \in active /\ config THEN "lock" ELSE "trySl"
    <3>3. pc \in {"lock", "trySl"}
      OBVIOUS
    <3>4. \/ Goto(h, Idle)
          \/ \E i \in Intents :
               Goto(h, [r EXCEPT !.pc = pc, !.purpose = "tp", !.intent = i,
                                 !.entry = intents[i].entry])
      BY <2>6 DEF FindFindingExit, WithStatus
    <3> HIDE DEF pc
    <3> QED
      BY <3>1, <3>2, <3>3, <3>4
  <2>7. CASE TrySl(h)
    <3>1. CASE Goto(h, Idle)
      BY <2>1, <3>1
    <3>2. CASE Goto(h, [r EXCEPT !.pc = "lock", !.purpose = "sl"])
      <4> DEFINE s == [r EXCEPT !.pc = "lock", !.purpose = "sl"]
      <4>1. s.pc = "lock" /\ s.purpose = "sl"
        BY <1>1 DEF Runs
      <4>2. Rank(s) = 5
        BY <4>1 DEF Rank, Attempting, AttemptRank, PurposeRank
      <4>3. Rank(r) = 6
        BY <2>7 DEF At, TrySl, Rank, Attempting, SearchRank
      <4> HIDE DEF s
      <4>4. Rank(s) < Rank(r)
        BY <4>2, <4>3
      <4> QED
        BY <3>2, <4>4 DEF s
    <3> QED
      BY <2>7, <3>1, <3>2 DEF TrySl
  <2>8. CASE ValidateEntry(h)
    <3>1. r.pc = "validateEntry"
      BY <2>8 DEF At, ValidateEntry
    <3>2. ASSUME NEW i, Goto(h, [r EXCEPT !.pc = "lock", !.purpose = "entry",
                                          !.intent = i])
          PROVE  <1>7
      <4> DEFINE s == [r EXCEPT !.pc = "lock", !.purpose = "entry",
                                !.intent = i]
      <4>1. s.pc = "lock" /\ s.purpose = "entry"
        BY <1>1 DEF Runs
      <4>2. Rank(s) = 17
        BY <4>1 DEF Rank, Attempting, AttemptRank, PurposeRank
      <4>3. Rank(r) = 18
        BY <3>1 DEF Rank, Attempting, SearchRank
      <4> HIDE DEF s
      <4>4. Rank(s) < Rank(r)
        BY <4>2, <4>3
      <4> QED
        BY <3>2, <4>4 DEF s
    <3> QED
      BY <2>2, <2>8, <3>1, <3>2 DEF ValidateEntry
  <2>9. CASE LockEntry(h) \/ LockExit(h)
    <3>1. r.pc = "lock"
      BY <2>9 DEF At, LockEntry, LockExit
    <3>2. \/ Goto(h, Idle) \/ Return(h)
          \/ \E pc \in {"unlock", "quote", "swap"} : Await(h, pc)
      BY <2>9 DEF LockEntry, LockExit, AfterQuote
    <3> QED
      BY <2>1, <2>2, <2>3, <3>1, <3>2 DEF Attempting, AttemptRank
  <2>10. ASSUME NEW q \in Prices, Quoted(h, q)
         PROVE  <1>7
    <3>1. r.pc = "quote"
      BY <2>10 DEF At, Quoted
    <3>2. PICK pc \in {"swap", "unlock"}, kept \in Prices \cup {"none"} :
            Goto(h, [r EXCEPT !.pc = pc, !.quote = kept])
      BY <2>10 DEF Quoted, AfterQuote
    <3> DEFINE s == [r EXCEPT !.pc = pc, !.quote = kept]
    <3>3. s.pc = pc /\ s.purpose = r.purpose /\ r.purpose \in Purposes
      BY <1>1, <3>1 DEF Runs, HandlerOK, Attempting
    <3>4. /\ Rank(s) = PurposeRank[r.purpose] + AttemptRank[pc]
          /\ Rank(r) = PurposeRank[r.purpose] + AttemptRank[r.pc]
      BY <3>1, <3>3 DEF Rank, Attempting
    <3>5. /\ PurposeRank[r.purpose] \in Nat
          /\ AttemptRank[pc] \in 1..3 /\ AttemptRank[r.pc] = 4
      BY <3>1, <3>3 DEF Purposes, PurposeRank, AttemptRank
    <3> HIDE DEF s
    <3>6. Rank(s) < Rank(r)
      BY <3>4, <3>5
    <3> QED
      BY <3>2, <3>6 DEF s
  <2>11. CASE QuoteThrows(h) \/ SwapMined(h) \/ SwapThrows(h)
    BY <2>3, <2>11
    DEF At, QuoteThrows, SwapMined, SwapThrows, Attempting, AttemptRank
  <2>12. CASE SaveHistory(h) \/ CommitIntend(h) \/ UnlockTrade(h)
    BY <2>2, <2>3, <2>12
    DEF At, SaveHistory, CommitIntend, UnlockTrade, Recorded, Attempting,
        AttemptRank
  <2> QED
    BY <2>5, <2>6, <2>7, <2>8, <2>9, <2>10, <2>11, <2>12 DEF Handle
<1> QED
  BY <1>2, <1>6, <1>7 DEF At

\* A handler that is not idle keeps its place or goes forward: no event
\* takes its place, and no step of any other handler moves it.  A restart
\* ends it.
AdvanceStep ==
  \A h \in Handlers :
    /\ Handle(h) => Rank(run'[h]) < Rank(run[h])
    /\ ~At(h, "idle") /\ run'[h] # run[h] => Rank(run'[h]) < Rank(run[h])

LEMMA BusyRank ==
  ASSUME TypeInv, NEW h \in Handlers
  PROVE  Rank(run[h]) \in 0..22 /\ (Rank(run[h]) = 0 <=> At(h, "idle"))
BY HandlerTyped, RankBounds DEF HandlerOK, At

LEMMA NextAdvances == TypeInv /\ [Next]_vars => AdvanceStep
<1> SUFFICES ASSUME TypeInv, [Next]_vars, NEW h \in Handlers
             PROVE  /\ Handle(h) => Rank(run'[h]) < Rank(run[h])
                    /\ ~At(h, "idle") /\ run'[h] # run[h]
                         => Rank(run'[h]) < Rank(run[h])
  BY DEF AdvanceStep
<1>1. Handle(h) => Rank(run'[h]) < Rank(run[h])
  BY HandleAdvances
<1>2. ASSUME ~At(h, "idle"), run'[h] # run[h]
      PROVE  Rank(run'[h]) < Rank(run[h])
  <2>1. CASE \E g \in Handlers : Handle(g)
    BY <1>1, <1>2, <2>1, HandleAdvances
  <2>2. ASSUME NEW g \in Handlers, NEW kind, NEW pc, NEW p, NEW lp,
               Arrive(g, kind, pc, p, lp)
        PROVE  FALSE
    BY <1>2, <2>2 DEF Arrive, Goto, At, TypeInv, TypeOK
  <2>3. CASE Crash
    <3>1. Rank(run'[h]) = 0
      BY <2>3 DEF Crash, Rank, Idle, Attempting, SearchRank
    <3> QED
      BY <1>2, <3>1, BusyRank
  <2>4. ~ \/ (\E t \in Tokens : AddRedListContract(t))
          \/ Tick \/ RefreshConfig \/ LoadActivePairs \/ UNCHANGED vars
    BY <1>2 DEF AddRedListContract, Tick, RefreshConfig, LoadActivePairs,
                vars
  <2> QED
    BY <2>1, <2>2, <2>3, <2>4
       DEF Next, HandleLpCreatedEvent, HandleLpUpdatedEvent
<1> QED
  BY <1>1, <1>2

\* Whatever overlaps, fails, gets lost or restarts, a handler goes forward
\* only, through 22 awaits at most, until it returns: no answer sends it
\* back to an await it has left, and no event takes its place.
THEOREM HandlersAdvance == Spec => [][AdvanceStep]_vars
BY TypeInvariant, NextAdvances, PTL DEF Spec

\* The awaits of a handler complete: as long as it is not idle, a step of
\* it follows.  It is what AwaitsComplete says of a handler that can step.
Served(h) == [](<><<Handle(h)>>_vars \/ <>At(h, "idle"))

AtMost(h, n) == Rank(run[h]) <= n

\* From n awaits at most it comes to m at most.
Shortens(h, n, m) == [](AtMost(h, n) => <>AtMost(h, m))

LEMMA OneAwaitFewer ==
  ASSUME NEW h \in Handlers, NEW n \in 1..22, NEW m \in 0..21, m = n - 1
  PROVE  Spec /\ Served(h) => Shortens(h, n, m)
<1>1. /\ TypeInv /\ [Next]_vars
      /\ AtMost(h, n) /\ ~AtMost(h, m)
      => AtMost(h, n)'
  <2> SUFFICES ASSUME TypeInv, [Next]_vars, Rank(run[h]) <= n,
                      ~(Rank(run[h]) <= m)
               PROVE  Rank(run'[h]) <= n
    BY DEF AtMost
  <2>1. ~At(h, "idle")
    BY BusyRank
  <2>2. CASE run'[h] = run[h]
    BY <2>2
  <2>3. CASE Rank(run'[h]) < Rank(run[h])
    <3> DEFINE a == Rank(run[h])
               b == Rank(run'[h])
    <3>1. a \in 0..22 /\ a <= n /\ b < a
      BY <2>3, BusyRank
    <3>2. TypeInv'
      BY NextTypeInv
    <3>3. run'[h] \in Runs /\ HandlerOK(run'[h], intents')
      BY <3>2 DEF TypeInv, TypeOK, HandlersOK
    <3>4. b \in 0..22
      BY <3>3, RankBounds DEF HandlerOK
    <3> HIDE DEF a, b
    <3>5. b <= n
      BY <3>1, <3>4
    <3> QED
      BY <3>5 DEF b
  <2> QED
    BY <2>1, <2>2, <2>3, NextAdvances DEF AdvanceStep
<1>2. /\ TypeInv /\ <<Handle(h)>>_vars
      /\ AtMost(h, n)
      => AtMost(h, m)'
  <2> SUFFICES ASSUME TypeInv, Handle(h), [Next]_vars, Rank(run[h]) <= n
               PROVE  Rank(run'[h]) <= m
    BY DEF Next, AtMost
  <2> DEFINE a == Rank(run[h])
             b == Rank(run'[h])
  <2>1. a \in 0..22 /\ a <= n /\ b < a
    BY BusyRank, HandleAdvances
  <2>2. TypeInv'
    BY NextTypeInv
  <2>3. run'[h] \in Runs /\ HandlerOK(run'[h], intents')
    BY <2>2 DEF TypeInv, TypeOK, HandlersOK
  <2>4. b \in 0..22
    BY <2>3, RankBounds DEF HandlerOK
  <2> HIDE DEF a, b
  <2>5. b <= m
    BY <2>1, <2>4
  <2> QED
    BY <2>5 DEF b
<1>3. TypeInv /\ At(h, "idle") => AtMost(h, m)
  BY BusyRank DEF AtMost
<1>4. Spec => []TypeInv /\ [][Next]_vars
  BY TypeInvariant, PTL DEF Spec
<1> QED
  BY <1>1, <1>2, <1>3, <1>4, PTL DEF Served, Shortens

LEMMA ShortensFurther ==
  ASSUME NEW h \in Handlers, NEW n, NEW k, NEW m
  PROVE  Shortens(h, n, k) /\ Shortens(h, k, m) => Shortens(h, n, m)
BY PTL DEF Shortens

\* Whatever overlaps, fails or restarts, a handler whose awaits complete
\* returns.  It is HandlersReturn for one handler, with the fairness spelled
\* out as the completion of its awaits.
THEOREM ServedHandlerReturns ==
  ASSUME NEW h \in Handlers
  PROVE  Spec /\ Served(h) => (~At(h, "idle") ~> At(h, "idle"))
<1>1. Spec /\ Served(h) => /\ Shortens(h, 1, 0) /\ Shortens(h, 2, 1)
                           /\ Shortens(h, 3, 2) /\ Shortens(h, 4, 3)
                           /\ Shortens(h, 5, 4) /\ Shortens(h, 6, 5)
                           /\ Shortens(h, 7, 6) /\ Shortens(h, 8, 7)
  BY OneAwaitFewer
<1>2. Spec /\ Served(h) => Shortens(h, 8, 0)
  BY <1>1, ShortensFurther
<1>3. Spec /\ Served(h) => /\ Shortens(h, 9, 8) /\ Shortens(h, 10, 9)
                           /\ Shortens(h, 11, 10) /\ Shortens(h, 12, 11)
                           /\ Shortens(h, 13, 12) /\ Shortens(h, 14, 13)
                           /\ Shortens(h, 15, 14) /\ Shortens(h, 16, 15)
  BY OneAwaitFewer
<1>4. Spec /\ Served(h) => Shortens(h, 16, 8)
  BY <1>3, ShortensFurther
<1>5. Spec /\ Served(h) => /\ Shortens(h, 17, 16) /\ Shortens(h, 18, 17)
                           /\ Shortens(h, 19, 18) /\ Shortens(h, 20, 19)
                           /\ Shortens(h, 21, 20) /\ Shortens(h, 22, 21)
  BY OneAwaitFewer
<1>6. Spec /\ Served(h) => Shortens(h, 22, 16)
  BY <1>5, ShortensFurther
<1>7. Spec /\ Served(h) => Shortens(h, 22, 0)
  BY <1>2, <1>4, <1>6, ShortensFurther
<1>8. Shortens(h, 22, 0) => [](AtMost(h, 22) => <>AtMost(h, 0))
  BY DEF Shortens
<1>9. Spec => []TypeInv
  BY TypeInvariant
<1>10. TypeInv => AtMost(h, 22) /\ (AtMost(h, 0) => At(h, "idle"))
  BY BusyRank DEF AtMost
<1> QED
  BY <1>7, <1>8, <1>9, <1>10, PTL
=============================================================================
