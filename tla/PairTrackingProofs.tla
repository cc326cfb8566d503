------------------------- MODULE PairTrackingProofs -------------------------
(***************************************************************************)
(* Proofs about PairTracking, for any pairs, contracts, table and bounds:  *)
(* its type correctness, that both sets survive, and that the open         *)
(* positions stay followed.  The facts about the two sets are those of     *)
(* PersistedSetProofs.                                                     *)
(***************************************************************************)
EXTENDS PairTracking, TLAPS

RP == INSTANCE PersistedSetProofs WITH Keys <- Contracts, set <- redList
AP == INSTANCE PersistedSetProofs WITH Keys <- Pairs, set <- active

TypesOK ==
  /\ mode \in {"all", "contracts", "singlePair"}
  /\ singlePair \in Pairs \cup {Null}
  /\ phase \in [Pairs -> {"new", "tracked", "open", "closed"}]
  /\ let \subseteq Pairs /\ excused \subseteq Pairs
  /\ mutations \in 0..MaxMutations /\ crashes \in 0..MaxCrashes

InTrade(p) == phase[p] \in {"tracked", "open"}

\* The contract is enabled, or will be once the red list is loaded.
Enabled(t) ==
  t \in redList.memory \/ (t \in redList.intended /\ t \notin redList.troubled)

\* The filter lets p in, or will.
Followed(p) ==
  \/ mode = "all"
  \/ mode = "singlePair" /\ p = singlePair
  \/ mode = "contracts" /\ \E t \in ContractsOf[p] : Enabled(t)

TradedAreActive == \A p \in Pairs : InTrade(p) => p \in active.intended

TradedAreFollowed ==
  \A p \in Pairs : (p \in let \/ InTrade(p)) /\ p \notin excused => Followed(p)

TrackInv ==
  TypesOK /\ RP!SetInv /\ AP!SetInv /\ TradedAreActive /\ TradedAreFollowed

-----------------------------------------------------------------------------
(* The two sets                                                            *)

LEMMA RedListSame ==
  /\ RP!SetType <=> RedList!SetType
  /\ RP!Survives <=> RedList!Survives
  /\ \A ks \in SUBSET Contracts : \A op \in {"create", "delete"} :
       RedList!Change(ks, op) <=> RP!Change(ks, op)
  /\ RedList!Persist <=> RP!Persist
  /\ RedList!Restarted = RP!Restarted
  /\ \A table : RedList!SetInit(table) <=> RP!SetInit(table)
  BY DEF RP!SetType, RedList!SetType, RP!Loaders, RedList!Loaders, RP!Ops,
     RedList!Ops, RP!Survives, RedList!Survives, RP!PendingKeys,
     RedList!PendingKeys, RP!Pending, RedList!Pending, RP!Change,
     RedList!Change, RP!Changed, RedList!Changed, RP!With, RedList!With,
     RP!SendWrite, RedList!SendWrite, RP!Persist, RedList!Persist,
     RP!WriteArrives, RedList!WriteArrives, RP!WriteFails,
     RedList!WriteFails, RP!LoadReads, RedList!LoadReads, RP!LoadAdds,
     RedList!LoadAdds, RP!Restarted, RedList!Restarted, RP!SetInit,
     RedList!SetInit

LEMMA ActiveSame ==
  /\ AP!SetType <=> Active!SetType
  /\ AP!Survives <=> Active!Survives
  /\ \A ks \in SUBSET Pairs : \A op \in {"create", "delete"} :
       Active!Change(ks, op) <=> AP!Change(ks, op)
  /\ Active!Persist <=> AP!Persist
  /\ Active!Restarted = AP!Restarted
  /\ \A table : Active!SetInit(table) <=> AP!SetInit(table)
  BY DEF AP!SetType, Active!SetType, AP!Loaders, Active!Loaders, AP!Ops,
     Active!Ops, AP!Survives, Active!Survives, AP!PendingKeys,
     Active!PendingKeys, AP!Pending, Active!Pending, AP!Change,
     Active!Change, AP!Changed, Active!Changed, AP!With, Active!With,
     AP!SendWrite, Active!SendWrite, AP!Persist, Active!Persist,
     AP!WriteArrives, Active!WriteArrives, AP!WriteFails,
     Active!WriteFails, AP!LoadReads, Active!LoadReads, AP!LoadAdds,
     Active!LoadAdds, AP!Restarted, Active!Restarted, AP!SetInit,
     Active!SetInit

\* What the changes and the steps of the database do to them.
LEMMA RedListChange ==
  ASSUME NEW ks \in SUBSET Contracts, NEW op \in {"create", "delete"},
         TrackInv, RedList!Change(ks, op)
  PROVE  /\ RP!SetInv'
         /\ redList'.intended = RP!With(redList.intended, ks, op)
         /\ redList'.memory = RP!With(redList.memory, ks, op)
         /\ redList'.troubled \subseteq redList.troubled \cup ks
  BY RedListSame, RP!ChangeSet DEF TrackInv, RP!Ops

LEMMA ActiveChange ==
  ASSUME NEW ks \in SUBSET Pairs, NEW op \in {"create", "delete"},
         TrackInv, Active!Change(ks, op)
  PROVE  AP!SetInv' /\ active'.intended = AP!With(active.intended, ks, op)
  BY ActiveSame, AP!ChangeSet DEF TrackInv, AP!Ops

LEMMA RedListStill == TrackInv /\ UNCHANGED redList => RP!SetInv'
  BY RP!StillSet DEF TrackInv

LEMMA ActiveStill == TrackInv /\ UNCHANGED active => AP!SetInv'
  BY AP!StillSet DEF TrackInv

-----------------------------------------------------------------------------
(* The pairs                                                               *)

\* A pair is followed as long as the mode is and none of its enabled
\* contracts is taken away.
LEMMA StillFollowed ==
  ASSUME NEW p \in Pairs, Followed(p), UNCHANGED <<mode, singlePair>>,
         \A t \in ContractsOf[p] : Enabled(t) => Enabled(t)'
  PROVE  Followed(p)'
  BY DEF Followed

LEMMA StillTraded ==
  ASSUME TrackInv, UNCHANGED <<mode, singlePair, redList>>,
         excused \subseteq excused',
         \A p \in Pairs : p \in let' \/ InTrade(p)'
                            => p \in let \/ InTrade(p) \/ p \in excused'
  PROVE  TradedAreFollowed'
  <1>1. \A t : Enabled(t) => Enabled(t)'
    BY DEF Enabled
  <1>2. \A p \in Pairs : Followed(p) => Followed(p)'
    BY <1>1, StillFollowed
  <1> QED BY <1>2 DEF TrackInv, TradedAreFollowed

LEMMA StillActive ==
  ASSUME TrackInv, active'.intended = active.intended,
         \A p \in Pairs : InTrade(p)' => InTrade(p)
  PROVE  TradedAreActive'
  BY DEF TrackInv, TradedAreActive

LEMMA InitInv == ASSUME Init PROVE TrackInv
  <1>1. TypesOK
    BY TrackingAssumption DEF Init, TypesOK
  <1>2. RP!SetInv
    BY RedListSame, RP!InitSet, TrackingAssumption DEF Init
  <1>3. AP!SetInv
    BY ActiveSame, AP!InitSet DEF Init
  <1>4. \A p \in Pairs : ~InTrade(p) /\ p \notin let
    BY DEF Init, InTrade
  <1> QED BY <1>1, <1>2, <1>3, <1>4 DEF TrackInv, TradedAreActive,
          TradedAreFollowed

-----------------------------------------------------------------------------
(* The mutations                                                           *)

LEMMA MutationKeeps ==
  ASSUME TypesOK, Mutation PROVE mutations' \in 0..MaxMutations
  BY TrackingAssumption DEF TypesOK, Mutation

LEMMA AllContractsKeeps ==
  ASSUME TrackInv, SetTradeModeAllContracts PROVE TrackInv'
  <1> USE DEF SetTradeModeAllContracts
  <1>1. TypesOK'
    BY MutationKeeps DEF TrackInv, TypesOK
  <1>2. RP!SetInv' /\ AP!SetInv'
    BY RedListStill, ActiveStill
  <1>3. TradedAreActive'
    BY DEF TrackInv, TradedAreActive, InTrade
  <1>4. TradedAreFollowed'
    BY DEF TradedAreFollowed, Followed
  <1> QED BY <1>1, <1>2, <1>3, <1>4 DEF TrackInv

LEMMA SinglePairKeeps ==
  ASSUME TrackInv, NEW p \in Pairs, SetTradeModeSinglePair(p)
  PROVE  TrackInv'
  <1> USE DEF SetTradeModeSinglePair
  <1>1. TypesOK'
    BY MutationKeeps DEF TrackInv, TypesOK
  <1>2. RP!SetInv' /\ AP!SetInv'
    BY RedListStill, ActiveStill
  <1>3. TradedAreActive'
    BY DEF TrackInv, TradedAreActive, InTrade
  <1>4. TradedAreFollowed'
    BY DEF TradedAreFollowed, Followed
  <1> QED BY <1>1, <1>2, <1>3, <1>4 DEF TrackInv

LEMMA SomeContractsKeeps ==
  ASSUME TrackInv, NEW ts \in SUBSET Contracts, SetTradeModeSomeContracts(ts)
  PROVE  TrackInv'
  <1>0. RedList!Change(ts, "create")
        /\ Mutation /\ mode' = "contracts"
        /\ UNCHANGED <<singlePair, active, phase, let, crashes>>
    BY DEF SetTradeModeSomeContracts
  <1>1. TypesOK'
    BY <1>0, MutationKeeps DEF TrackInv, TypesOK, SetTradeModeSomeContracts
  <1>2. /\ RP!SetInv'
        /\ redList'.intended = redList.intended \cup ts
        /\ redList'.memory = redList.memory \cup ts
        /\ redList'.troubled \subseteq redList.troubled \cup ts
    BY <1>0, RedListChange DEF RP!With
  <1>3. AP!SetInv' /\ TradedAreActive'
    BY <1>0, ActiveStill DEF TrackInv, TradedAreActive, InTrade
  <1>4. TradedAreFollowed'
    <2>1. \A u : Enabled(u) => Enabled(u)'
      BY <1>2 DEF Enabled
    <2>2. \A t \in ts : Enabled(t)'
      BY <1>2 DEF Enabled
    <2>3. CASE mode = "contracts"
      <3>1. \A q \in Pairs : Followed(q) => Followed(q)'
        BY <1>0, <2>1, <2>3, StillFollowed
      <3> QED BY <1>0, <2>3, <3>1 DEF TrackInv, TradedAreFollowed, InTrade,
              SetTradeModeSomeContracts
    <2>4. CASE mode # "contracts"
      BY <1>0, <2>2, <2>4 DEF TradedAreFollowed, Followed,
         SetTradeModeSomeContracts
    <2> QED BY <2>3, <2>4
  <1> QED BY <1>1, <1>2, <1>3, <1>4 DEF TrackInv

LEMMA ForceKeeps ==
  ASSUME TrackInv, NEW p \in Pairs, ForceLpCreatedEvent(p) PROVE TrackInv'
  <1>0. Active!Change({p}, "create") /\ {p} \in SUBSET Pairs
    BY DEF ForceLpCreatedEvent, SetupPriceTracking
  <1>1. TypesOK'
    BY MutationKeeps DEF TrackInv, TypesOK, ForceLpCreatedEvent
  <1>2. AP!SetInv' /\ active'.intended = active.intended \cup {p}
    BY <1>0, ActiveChange DEF AP!With
  <1>3. RP!SetInv'
    BY RedListStill DEF ForceLpCreatedEvent
  <1>4. TradedAreActive'
    BY <1>2 DEF TrackInv, TypesOK, TradedAreActive, InTrade,
       ForceLpCreatedEvent
  <1>5. TradedAreFollowed'
    <2>1. \A q \in Pairs : q \in let' \/ InTrade(q)'
                             => q \in let \/ InTrade(q) \/ q \in excused'
      BY DEF TrackInv, TypesOK, InTrade, ForceLpCreatedEvent
    <2> QED BY <2>1, StillTraded DEF ForceLpCreatedEvent
  <1> QED BY <1>1, <1>2, <1>3, <1>4, <1>5 DEF TrackInv

-----------------------------------------------------------------------------
(* The events of the feed                                                  *)

LEMMA PairEventKeeps ==
  ASSUME TrackInv, NEW p \in Pairs, HandlePairEvent(p) PROVE TrackInv'
  <1> USE DEF HandlePairEvent
  <1>1. TypesOK'
    BY DEF TrackInv, TypesOK
  <1>2. RP!SetInv' /\ AP!SetInv'
    BY RedListStill, ActiveStill
  <1>3. TradedAreActive'
    BY DEF TrackInv, TradedAreActive, InTrade
  <1>4. Followed(p)
    BY DEF LetIn, Followed, Enabled
  <1>5. TradedAreFollowed'
    <2>1. \A q \in Pairs : Followed(q) => Followed(q)'
      BY StillFollowed DEF Enabled
    <2> QED BY <1>4, <2>1 DEF TrackInv, TradedAreFollowed, InTrade
  <1> QED BY <1>1, <1>2, <1>3, <1>5 DEF TrackInv

LEMMA LpCreatedKeeps ==
  ASSUME TrackInv, NEW p \in Pairs, LpCreated(p) PROVE TrackInv'
  <1>0. Active!Change({p}, "create") /\ {p} \in SUBSET Pairs
    BY DEF LpCreated, SetupPriceTracking
  <1>1. TypesOK'
    BY DEF TrackInv, TypesOK, LpCreated, Handled
  <1>2. AP!SetInv' /\ active'.intended = active.intended \cup {p}
    BY <1>0, ActiveChange DEF AP!With
  <1>3. RP!SetInv'
    BY RedListStill DEF LpCreated
  <1>4. TradedAreActive'
    BY <1>2 DEF TrackInv, TypesOK, TradedAreActive, InTrade, LpCreated
  <1>5. TradedAreFollowed'
    <2>1. \A q \in Pairs : q \in let' \/ InTrade(q)'
                             => q \in let \/ InTrade(q) \/ q \in excused'
      BY DEF TrackInv, TypesOK, InTrade, LpCreated, Handled
    <2> QED BY <2>1, StillTraded DEF LpCreated
  <1> QED BY <1>1, <1>2, <1>3, <1>4, <1>5 DEF TrackInv

LEMMA NoTradeKeeps ==
  ASSUME TrackInv, NEW p \in Pairs, NoTrade(p) \/ Enter(p) PROVE TrackInv'
  <1>1. TypesOK'
    BY DEF TrackInv, TypesOK, NoTrade, Enter, Handled
  <1>2. RP!SetInv' /\ AP!SetInv'
    BY RedListStill, ActiveStill DEF NoTrade, Enter
  <1>3. \A q \in Pairs : InTrade(q)' => InTrade(q)
    BY DEF TrackInv, TypesOK, InTrade, NoTrade, Enter
  <1>4. TradedAreActive'
    BY <1>3, StillActive DEF NoTrade, Enter
  <1>5. TradedAreFollowed'
    BY <1>3, StillTraded DEF NoTrade, Enter, Handled
  <1> QED BY <1>1, <1>2, <1>4, <1>5 DEF TrackInv

LEMMA ExitKeeps ==
  ASSUME TrackInv, NEW p \in Pairs, Exit(p) PROVE TrackInv'
  <1>0. /\ Active!Change({p}, "delete") /\ {p} \in SUBSET Pairs
        /\ RedList!Change(ContractsOf[p], "delete")
        /\ ContractsOf[p] \in SUBSET Contracts
    BY TrackingAssumption DEF Exit, RemovePriceTracking
  <1>1. TypesOK'
    BY DEF TrackInv, TypesOK, Exit, Handled
  <1>2. AP!SetInv' /\ active'.intended = active.intended \ {p}
    BY <1>0, ActiveChange DEF AP!With
  <1>3. /\ RP!SetInv'
        /\ redList'.intended = redList.intended \ ContractsOf[p]
        /\ redList'.memory = redList.memory \ ContractsOf[p]
        /\ redList'.troubled \subseteq redList.troubled \cup ContractsOf[p]
    BY <1>0, RedListChange DEF RP!With
  <1>4. \A q \in Pairs : InTrade(q)' <=> InTrade(q) /\ q # p
    BY DEF TrackInv, TypesOK, InTrade, Exit
  <1>5. TradedAreActive'
    BY <1>2, <1>4 DEF TrackInv, TradedAreActive
  <1>6. TradedAreFollowed'
    <2> SUFFICES ASSUME NEW q \in Pairs, q \in let \/ InTrade(q),
                        q \notin excused'
                 PROVE  Followed(q)'
      BY <1>4 DEF TradedAreFollowed, Exit, Handled
    <2>1. q \notin excused /\ UNCHANGED <<mode, singlePair>>
      BY DEF Exit
    <2>2. Followed(q)
      BY <2>1 DEF TrackInv, TradedAreFollowed
    <2>3. CASE ContractsOf[q] \cap ContractsOf[p] = {}
      <3>1. \A t \in ContractsOf[q] : Enabled(t) => Enabled(t)'
        BY <1>3, <2>3 DEF Enabled
      <3> QED BY <2>1, <2>2, <3>1, StillFollowed
    <2>4. CASE ContractsOf[q] \cap ContractsOf[p] # {}
      <3>1. PICK t \in ContractsOf[q] :
              t \in redList'.intended /\ t \notin redList'.troubled
        BY <2>4 DEF Exit, Safe
      <3> QED BY <2>1, <2>2, <3>1 DEF Followed, Enabled
    <2> QED BY <2>3, <2>4
  <1> QED BY <1>1, <1>2, <1>3, <1>5, <1>6 DEF TrackInv

-----------------------------------------------------------------------------
(* The process and the database                                            *)

LEMMA CrashKeeps == ASSUME TrackInv, Crash PROVE TrackInv'
  <1>1. TypesOK'
    BY TrackingAssumption DEF TrackInv, TypesOK, Crash
  <1>2. RP!SetInv'
    BY RedListSame, RP!RestartSet DEF TrackInv, Crash
  <1>3. AP!SetInv' /\ active'.intended = active.intended
    BY ActiveSame, AP!RestartSet DEF TrackInv, Crash
  <1>4. TradedAreActive'
    BY <1>3, StillActive DEF Crash, InTrade
  <1>5. TradedAreFollowed'
    <2> SUFFICES ASSUME NEW q \in Pairs, q \notin excused'
                 PROVE  Followed(q)'
      BY DEF TradedAreFollowed
    <2>1. PICK t \in ContractsOf[q] :
            t \in redList'.intended /\ t \notin redList'.troubled
      BY DEF Crash, Safe
    <2> QED BY <2>1 DEF Followed, Enabled, Crash
  <1> QED BY <1>1, <1>2, <1>3, <1>4, <1>5 DEF TrackInv

LEMMA RedListPersists == ASSUME TrackInv, PersistRedList PROVE TrackInv'
  <1> USE DEF PersistRedList
  <1>1. TypesOK'
    BY DEF TrackInv, TypesOK
  <1>2. RP!SetInv' /\ RP!Kept
    BY RedListSame, RP!PersistSet DEF TrackInv
  <1>3. AP!SetInv' /\ TradedAreActive'
    BY ActiveStill DEF TrackInv, TradedAreActive, InTrade
  <1>4. \A t \in Contracts : Enabled(t) => Enabled(t)'
    BY <1>2 DEF RP!Kept, Enabled
  <1>5. \A q \in Pairs : Followed(q) => Followed(q)'
    BY <1>4, StillFollowed, TrackingAssumption
  <1>6. TradedAreFollowed'
    BY <1>5 DEF TrackInv, TradedAreFollowed, InTrade
  <1> QED BY <1>1, <1>2, <1>3, <1>6 DEF TrackInv

LEMMA ActivePersists == ASSUME TrackInv, PersistActive PROVE TrackInv'
  <1> USE DEF PersistActive
  <1>1. TypesOK'
    BY DEF TrackInv, TypesOK
  <1>2. AP!SetInv' /\ AP!Kept
    BY ActiveSame, AP!PersistSet DEF TrackInv
  <1>3. RP!SetInv'
    BY RedListStill
  <1>4. TradedAreActive'
    BY <1>2, StillActive DEF AP!Kept, InTrade
  <1>5. TradedAreFollowed'
    BY StillTraded DEF InTrade
  <1> QED BY <1>1, <1>2, <1>3, <1>4, <1>5 DEF TrackInv

LEMMA StutterKeeps == ASSUME TrackInv, UNCHANGED vars PROVE TrackInv'
  <1> USE DEF vars
  <1>1. TypesOK'
    BY DEF TrackInv, TypesOK
  <1>2. RP!SetInv' /\ AP!SetInv'
    BY RedListStill, ActiveStill
  <1>3. TradedAreActive' /\ TradedAreFollowed'
    BY StillActive, StillTraded DEF InTrade
  <1> QED BY <1>1, <1>2, <1>3 DEF TrackInv

LEMMA NextInv == ASSUME TrackInv, [Next]_vars PROVE TrackInv'
  BY AllContractsKeeps, SinglePairKeeps, SomeContractsKeeps, ForceKeeps,
     PairEventKeeps, LpCreatedKeeps, NoTradeKeeps, ExitKeeps, CrashKeeps,
     RedListPersists, ActivePersists, StutterKeeps DEF Next

-----------------------------------------------------------------------------
\* The inductive invariant holds: the types, what each set keeps of its
\* callers' changes, and why an open pair is followed.
THEOREM Invariance == Spec => []TrackInv
  <1>1. Init => TrackInv
    BY InitInv
  <1>2. TrackInv /\ [Next]_vars => TrackInv'
    BY NextInv
  <1> QED BY <1>1, <1>2, PTL DEF Spec

\* Every variable has its type: modes and sets never hold anything else.
THEOREM TypeCorrect == Spec => []TypeOK
  <1>1. TrackInv => TypeOK
    BY RedListSame, ActiveSame DEF TrackInv, TypesOK, TypeOK, RP!SetInv,
       AP!SetInv
  <1> QED BY <1>1, Invariance, PTL

\* The red list and the active pairs survive restarts, late writes and late
\* loads, but for the keys in trouble.
THEOREM Survival == Spec => []SetsSurvive
  <1>1. TrackInv => SetsSurvive
    BY RedListSame, ActiveSame DEF TrackInv, SetsSurvive, RP!SetInv,
       AP!SetInv
  <1> QED BY <1>1, Invariance, PTL

\* An open position keeps being followed unless something excuses its pair.
THEOREM Followership == Spec => []OpenPairsFollowed
  <1>1. TrackInv => OpenPairsFollowed
    <2> SUFFICES ASSUME TrackInv, redList.loader = "done",
                        active.loader = "done", NEW p \in Pairs,
                        phase[p] = "open", p \notin excused
                 PROVE  LetIn(p) /\ (p \in active.memory
                                       \/ p \in active.troubled)
      BY DEF OpenPairsFollowed
    <2>1. Followed(p)
      BY DEF TrackInv, TradedAreFollowed, InTrade
    <2>2. \A t \in Contracts : Enabled(t) => t \in redList.memory
      BY DEF TrackInv, RP!SetInv, RP!Survives, Enabled
    <2>3. LetIn(p)
      BY <2>1, <2>2, TrackingAssumption DEF Followed, LetIn
    <2>4. p \in active.memory \/ p \in active.troubled
      BY DEF TrackInv, TradedAreActive, InTrade, AP!SetInv, AP!Survives
    <2> QED BY <2>3, <2>4
  <1> QED BY <1>1, Invariance, PTL
=============================================================================
