---------------------------- MODULE PairTracking ----------------------------
(***************************************************************************)
(* Which pairs the bot follows, and for how long: the modes and the red    *)
(* list of src/pair-info/TradingMode.ts, the mutations of                  *)
(* src/pair-info/pair-info.resolver.ts that change them, the filter of     *)
(* PairInfoServiceAuto, and the pairs that the trading core sets active    *)
(* and, after an exit, removes together with their contracts.              *)
(*                                                                         *)
(* The steps of a trade are those of NewPairTrading, one trade of a pair   *)
(* at a time: the pair is tracked, its position is open, then closed.      *)
(***************************************************************************)
EXTENDS Naturals, FiniteSets

CONSTANTS
  Pairs,         \* pairs of the feed
  Contracts,     \* contracts an operator may enable
  ContractsOf,   \* [Pairs -> SUBSET Contracts], those among token0 and token1
  Null,          \* no pair
  Rows,          \* the red list in the table when the bot is first started
  MaxMutations,  \* bound: mutations an operator fires
  MaxCrashes     \* bound: restarts of the process

ASSUME TrackingAssumption ==
  /\ Null \notin Pairs
  /\ ContractsOf \in [Pairs -> SUBSET Contracts]
  /\ Rows \subseteq Contracts
  /\ MaxMutations \in Nat /\ MaxCrashes \in Nat

VARIABLES
  mode,        \* tradingMode
  singlePair,  \* singlePairModeData.pairOnChainId
  redList,     \* contractsModeData.enabled_contracts and its table
  active,      \* ActiveTradingPairs
  phase,       \* how far the trade of each pair is
  let,         \* pairs with an event that was let in and is being handled
  mutations, crashes,
  excused      \* pairs that something has cut off since the filter last let
               \* in an event of theirs

vars == <<mode, singlePair, redList, active, phase, let, mutations, crashes,
          excused>>

RedList == INSTANCE PersistedSet WITH Keys <- Contracts, set <- redList
Active == INSTANCE PersistedSet WITH Keys <- Pairs, set <- active

-----------------------------------------------------------------------------
TypeOK ==
  /\ mode \in {"all", "contracts", "singlePair"}
  /\ singlePair \in Pairs \cup {Null}
  /\ RedList!SetType /\ Active!SetType
  /\ phase \in [Pairs -> {"new", "tracked", "open", "closed"}]
  /\ let \subseteq Pairs /\ excused \subseteq Pairs
  /\ mutations \in 0..MaxMutations /\ crashes \in 0..MaxCrashes

Init ==
  /\ mode = "contracts" /\ singlePair = Null
  /\ RedList!SetInit(Rows) /\ Active!SetInit({})
  /\ phase = [p \in Pairs |-> "new"]
  /\ let = {} /\ excused = {}
  /\ mutations = 0 /\ crashes = 0

-----------------------------------------------------------------------------
(* The mutations of an operator                                            *)

\* What a pair needs to be followed in mode 'contracts': a contract that is
\* meant to be enabled and is safe in the red list.
Safe(p) ==
  ContractsOf[p] \cap (redList'.intended \ redList'.troubled) # {}

Mutation == mutations < MaxMutations /\ mutations' = mutations + 1

SetTradeModeAllContracts ==
  /\ Mutation
  /\ mode' = "all"
  /\ UNCHANGED <<singlePair, redList, active, phase, let, crashes, excused>>

SetTradeModeSinglePair(p) ==
  /\ Mutation
  /\ mode' = "singlePair" /\ singlePair' = p
  /\ excused' = excused \cup (Pairs \ {p})
  /\ UNCHANGED <<redList, active, phase, let, crashes>>

\* In mode 'contracts' the contract in ts is enabled, or none when the
\* argument is empty; coming from another mode only the pairs of that contract
\* are sure to be followed.
SetTradeModeSomeContracts(ts) ==
  /\ Mutation
  /\ mode' = "contracts"
  /\ RedList!Change(ts, "create")
  /\ excused' = IF mode = "contracts" THEN excused
                ELSE excused \cup {p \in Pairs : ContractsOf[p] \cap ts = {}}
  /\ UNCHANGED <<singlePair, active, phase, let, crashes>>

-----------------------------------------------------------------------------
(* The events of the feed                                                  *)

\* shouldHandlePair.
LetIn(p) ==
  \/ mode = "all"
  \/ mode = "singlePair" /\ p = singlePair
  \/ mode = "contracts" /\ ContractsOf[p] \cap redList.memory # {}

HandlePairEvent(p) ==
  /\ LetIn(p) /\ p \notin let
  /\ let' = let \cup {p}
  /\ excused' = excused \ {p}
  /\ UNCHANGED <<mode, singlePair, redList, active, phase, mutations, crashes>>

\* setupPriceTracking.
SetupPriceTracking(p) == Active!Change({p}, "create")

\* removePriceTracking.
RemovePriceTracking(p) ==
  Active!Change({p}, "delete") /\ RedList!Change(ContractsOf[p], "delete")

Handled(p) == p \in let /\ let' = let \ {p}

\* 'lp.created': the pair is tracked from here on.
LpCreated(p) ==
  /\ Handled(p) /\ phase[p] = "new"
  /\ phase' = [phase EXCEPT ![p] = "tracked"]
  /\ SetupPriceTracking(p)
  /\ UNCHANGED <<mode, singlePair, redList, mutations, crashes, excused>>

\* An event that leads to no trade.
NoTrade(p) ==
  /\ Handled(p)
  /\ UNCHANGED <<mode, singlePair, redList, active, phase, mutations, crashes,
                 excused>>

Enter(p) ==
  /\ Handled(p) /\ phase[p] = "tracked" /\ p \in active.memory
  /\ phase' = [phase EXCEPT ![p] = "open"]
  /\ UNCHANGED <<mode, singlePair, redList, active, mutations, crashes,
                 excused>>

\* An exit takes the contracts of the pair from the red list, also those it
\* has in common with other pairs, which may be cut off by it.
Exit(p) ==
  /\ Handled(p) /\ phase[p] = "open" /\ p \in active.memory
  /\ phase' = [phase EXCEPT ![p] = "closed"]
  /\ RemovePriceTracking(p)
  /\ excused' = excused \cup
       {q \in Pairs : ~Safe(q) /\ ContractsOf[q] \cap ContractsOf[p] # {}}
  /\ UNCHANGED <<mode, singlePair, mutations, crashes>>

\* forceLpCreatedEvent of an operator, past the filter, for a pair that is
\* not being traded.
ForceLpCreatedEvent(p) ==
  /\ Mutation
  /\ phase[p] \in {"new", "closed"} /\ p \notin let
  /\ phase' = [phase EXCEPT ![p] = "tracked"]
  /\ SetupPriceTracking(p)
  /\ let' = let \cup {p}
  /\ excused' = excused \cup {p}
  /\ UNCHANGED <<mode, singlePair, redList, crashes>>

-----------------------------------------------------------------------------
Crash ==
  /\ crashes < MaxCrashes /\ crashes' = crashes + 1
  /\ mode' = "contracts" /\ singlePair' = Null
  /\ redList' = RedList!Restarted /\ active' = Active!Restarted
  /\ let' = {}
  /\ excused' = excused \cup {p \in Pairs : ~Safe(p)}
  /\ UNCHANGED <<phase, mutations>>

PersistRedList ==
  /\ RedList!Persist
  /\ UNCHANGED <<mode, singlePair, active, phase, let, mutations, crashes,
                 excused>>
PersistActive ==
  /\ Active!Persist
  /\ UNCHANGED <<mode, singlePair, redList, phase, let, mutations, crashes,
                 excused>>

Next ==
  \/ SetTradeModeAllContracts
  \/ \E p \in Pairs : SetTradeModeSinglePair(p)
  \/ \E ts \in {{}} \cup {{t} : t \in Contracts} :
       SetTradeModeSomeContracts(ts)
  \/ \E p \in Pairs : \/ HandlePairEvent(p) \/ LpCreated(p) \/ NoTrade(p)
                      \/ Enter(p) \/ Exit(p) \/ ForceLpCreatedEvent(p)
  \/ Crash \/ PersistRedList \/ PersistActive

Spec == Init /\ [][Next]_vars

-----------------------------------------------------------------------------
(* Properties                                                              *)

\* Both sets are what they were changed to, in memory and in the table, over
\* restarts, late writes and late loads, but for the keys in trouble.
SetsSurvive == RedList!Survives /\ Active!Survives

\* A position that is open keeps being followed: its pair is let in by the
\* filter and active, unless the operator chose another mode, the exit of a
\* pair with a common contract has disabled that, or the process stopped
\* while no contract of the pair was safe in the table.
OpenPairsFollowed ==
  (redList.loader = "done" /\ active.loader = "done") =>
     \A p \in Pairs : phase[p] = "open" /\ p \notin excused =>
       LetIn(p) /\ (p \in active.memory \/ p \in active.troubled)
=============================================================================
