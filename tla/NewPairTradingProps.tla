------------------------ MODULE NewPairTradingProps -------------------------
(* The properties of the trading core.                                     *)
EXTENDS NewPairTrading

Bought == {"FindingExit", "TakingExit", "TP", "SL"}
Sold == {"TP", "SL"}

\* The handlers between lockTrade and the end of the attempt on intent i.
Owners(i) ==
  {h \in Handlers : run[h].intent = i
                      /\ run[h].pc \in {"quote", "swap", "history", "commit",
                                        "unlock"}}

-----------------------------------------------------------------------------
(* Safety, whatever overlaps, fails or crashes                             *)

\* A row is on the exit side only after a buy was mined and recorded, and a
\* handler tries to sell only such an intent: no phantom position.
EntryBacked ==
  /\ \A i \in Intents :
       /\ intents[i].status \in Bought => "entry" \in history[i]
       /\ history[i] # {} => buys[i] > 0
  /\ \A h \in Handlers :
       run[h].purpose \in {"tp", "sl"} => "entry" \in history[run[h].intent]

\* A row says TP or SL only after a sale was mined and recorded under that
\* name, and nothing is ever sold whose buy is not in the history, whatever
\* the row became meanwhile: the handler counts on the row it read awaits
\* ago.
ExitBacked ==
  \A i \in Intents :
    /\ intents[i].status = "TP" => "tp" \in history[i]
    /\ intents[i].status = "SL" => "sl" \in history[i]
    /\ history[i] \cap {"tp", "sl"} # {} => sells[i] > 0
    /\ sells[i] > 0 => "entry" \in history[i]

\* A pair is followed, in memory or in the table, only on behalf of some
\* intent: createTradingIntend comes before setupPriceTracking.
ActiveHasIntent ==
  \A p \in active \cup persisted : \E i \in Intents : intents[i].pair = p

\* A running process stops following a pair, or takes a contract off the
\* red list, only after a sale of that pair was mined.
UnfollowStep ==
  \/ Crash
  \/ /\ \A p \in active \ active' :
          \E i \in Intents : intents[i].pair = p /\ sells[i] > 0
     /\ \A t \in redList \ redList' :
          \E i \in Intents : /\ Exists(i) /\ sells[i] > 0
                             /\ t \in TokensOf[intents[i].pair]

UnfollowOnlyAfterExit == [][UnfollowStep]_vars

-----------------------------------------------------------------------------
(* Safety when the events of one pair do not overlap                       *)

\* Every intent lives the life PositionLifecycle promises: one buy, one
\* sale, each under its lock, and nothing after TP or SL.
Lifecycle == INSTANCE PositionLifecycle WITH
  Positions <- Intents,
  status <- [i \in Intents |-> intents[i].status],
  bought <- buys,
  sold <- sells

ImplementsLifecycle == Lifecycle!Spec

\* createTradingIntend keeps one FindingEntry intent per pair.
OneFindingEntryPerPair ==
  \A i, j \in Intents :
    /\ intents[i].status = "FindingEntry"
    /\ intents[j].status = "FindingEntry"
    /\ intents[i].pair = intents[j].pair
    => i = j

\* A position, whenever the process restarted while its pair was announced,
\* keeps getting the updates it needs to be sold: handleLpUpdatedEvent drops
\* those of a pair without a row.  The code counts on the database for it.
BoughtPairGetsUpdates ==
  \A i \in Intents :
    intents[i].status \in {"FindingExit", "TakingExit"}
      => intents[i].pair \in dynamicData

-----------------------------------------------------------------------------
(* Safety of the locks, when the process does not crash                    *)

\* An intent is in TakingExit only while a handler works on it.
ExitLockOwned ==
  \A i \in Intents : intents[i].status = "TakingExit" => Owners(i) # {}

\* An intent is in TakingEntry only while a handler works on it, unless it
\* was locked when it was too old to enter.
EntryLockOwned ==
  \A i \in Intents :
    intents[i].status = "TakingEntry"
      => Owners(i) # {} \/ age[i] > EntryMaxDelay

-----------------------------------------------------------------------------
(* Liveness.  Every await of a handler completes: the calls it waits for    *)
(* return or throw.  The rest is about the world: time passes, the feed    *)
(* goes on sending updates of a pair with enough liquidity, the price falls *)
(* again and again and a transaction is not refused for ever.              *)

AwaitsComplete == \A h \in Handlers : WF_vars(Handle(h))

FallingMarket ==
  /\ WF_vars(Tick)
  /\ \A p \in Pairs :
       SF_vars(\E h \in Handlers : HandleLpUpdatedEvent(h, p, "big"))
  /\ \A h \in Handlers : SF_vars(Quoted(h, "down")) /\ SF_vars(SwapMined(h))

FairSpec == Spec /\ AwaitsComplete /\ FallingMarket

\* Every event handler returns.
HandlersReturn ==
  \A h \in Handlers : ~At(h, "idle") ~> At(h, "idle")

\* Once the configuration stays loaded, a position whose entry price is
\* known is sold in a falling market, unless its pair is bought a second
\* time: the exit of one position stops the pair for the other.
StopLossFires ==
  <>[]config =>
    \A i \in Intents :
      intents[i].status = "FindingExit" /\ intents[i].entry = "pos"
        ~> \/ intents[i].status \in Sold
           \/ \E j \in Intents \ {i} : /\ intents[j].status \in Bought
                                       /\ intents[j].pair = intents[i].pair

-----------------------------------------------------------------------------
(* What comments of the code say                                           *)

\* "so other request will ignore this pair while we're placing entry"
OneEntryAtATime ==
  \A g, h \in Handlers :
    /\ run[g].pc \in {"quote", "swap"} /\ run[h].pc \in {"quote", "swap"}
    /\ run[g].purpose = "entry" /\ run[h].purpose = "entry"
    /\ run[g].intent = run[h].intent
    => g = h
=============================================================================
