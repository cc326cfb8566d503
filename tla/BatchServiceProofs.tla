------------------------- MODULE BatchServiceProofs -------------------------
(***************************************************************************)
(* Proofs of the safety properties of BatchService, for any items, any     *)
(* number of flushes at a time, any batch length and any number of retries,*)
(* and that an item which waits has a timer or a flush to move it.         *)
(*                                                                         *)
(* What an item can rely on is in the arrays of the running flushes: a     *)
(* flush whose array is this.items has seen all of it that was not pushed  *)
(* since, and one with an array of its own shares nothing with this.items. *)
(***************************************************************************)
EXTENDS BatchService, Integers, TLAPS

Ordinary == items \ (late \cup early)

\* What has been pushed, and what has not.
Pushed ==
  /\ \A i \in Items : adds[i] = "new" => i \notin pushed
  /\ items \cup done \cup late \cup early \subseteq pushed

\* What the array of a running flush is.
Arrays ==
  \A f \in Slots : Busy(f) =>
    /\ Array(f) \subseteq pushed
    /\ flushes[f].seen \subseteq Array(f)
    /\ flushes[f].aliased => Ordinary \subseteq flushes[f].seen
    /\ ~flushes[f].aliased => /\ items \subseteq late
                              /\ flushes[f].own \cap items = {}

\* Only what two flushes had at a time is in both of their arrays.
Apart ==
  /\ \A f, g \in Slots :
       f # g /\ Busy(f) /\ Busy(g) => Array(f) \cap Array(g) \subseteq shared
  /\ \A f \in Slots : Busy(f) => Array(f) \cap done \subseteq shared
  /\ items \cap done = {}

\* Nothing is given to an executeBatch before the options are set.
Waiting == ~configured => items \subseteq early

BatchInv ==
  /\ TypeOK /\ KeysMatch /\ NoSilentLoss /\ DoneOnce
  /\ Pushed /\ Arrays /\ Apart /\ Waiting

-----------------------------------------------------------------------------
LEMMA InitBatch == Init => BatchInv
  <1> SUFFICES ASSUME Init PROVE BatchInv
    OBVIOUS
  <1> USE DEF Init
  <1>1. TypeOK
    <2>1. {} \in SUBSET Items
      OBVIOUS
    <2>2. NoFlush \in FlushStates
      BY <2>1 DEF NoFlush, FlushStates
    <2>3. flushes \in [Slots -> FlushStates]
      BY <2>2
    <2>4. adds \in [Items -> AddStates] /\ retryCount \in 0..MaxRetry
      BY BatchAssumption DEF AddStates
    <2>5. {pushed, done, again, late, shared, early} \subseteq SUBSET Items
      BY <2>1
    <2> QED BY <2>3, <2>4, <2>5 DEF TypeOK
  <1>2. KeysMatch /\ NoSilentLoss /\ DoneOnce
    BY DEF KeysMatch, NoSilentLoss, DoneOnce, KeysOf
  <1>3. Pushed /\ Arrays /\ Apart /\ Waiting
    BY DEF Pushed, Arrays, Apart, Busy, NoFlush, Waiting
  <1> QED BY <1>1, <1>2, <1>3 DEF BatchInv

-----------------------------------------------------------------------------
(* The steps that leave the flushes alone                                  *)

LEMMA ConfigureBatch == BatchInv /\ Configure => BatchInv'
  <1> SUFFICES ASSUME BatchInv, Configure PROVE BatchInv'
    OBVIOUS
  <1> USE DEF Configure, past
  <1>1. TypeOK' /\ KeysMatch' /\ NoSilentLoss' /\ DoneOnce'
    BY DEF BatchInv, TypeOK, KeysMatch, NoSilentLoss, DoneOnce
  <1>2. Pushed' /\ Arrays' /\ Apart' /\ Waiting'
    BY DEF BatchInv, Pushed, Arrays, Apart, Waiting, Busy, Array, Ordinary
  <1> QED BY <1>1, <1>2 DEF BatchInv

LEMMA TimerBatch ==
  ASSUME NEW i \in Items, BatchInv, AddAutoResolveTask(i) PROVE BatchInv'
  <1> USE DEF AddAutoResolveTask, past
  <1>1. TypeOK'
    BY DEF BatchInv, TypeOK, AddStates
  <1>2. KeysMatch' /\ NoSilentLoss' /\ DoneOnce'
    BY DEF BatchInv, KeysMatch, NoSilentLoss, DoneOnce
  <1>3. Pushed'
    BY DEF BatchInv, Pushed, TypeOK
  <1>4. Arrays' /\ Apart' /\ Waiting'
    BY DEF BatchInv, Arrays, Apart, Waiting, Busy, Array, Ordinary
  <1> QED BY <1>1, <1>2, <1>3, <1>4 DEF BatchInv

-----------------------------------------------------------------------------
(* prepareNewBatch                                                         *)

\* What prepareNewBatch leaves of the flushes: each other one keeps the
\* content of its array, as an array of its own.
LEMMA Prepared ==
  ASSUME NEW f \in Slots, TypeOK, PrepareNewBatch(f)
  PROVE  /\ flushes' \in [Slots -> FlushStates]
         /\ flushes'[f].pc = "idle"
         /\ \A g \in Slots \ {f} :
              /\ flushes'[g].pc = flushes[g].pc
              /\ flushes'[g].seen = flushes[g].seen
              /\ ~flushes'[g].aliased
              /\ flushes'[g].own = Array(g)
  <1>0. /\ {} \in SUBSET Items /\ items \in SUBSET Items
        /\ \A g \in Slots : flushes[g] \in FlushStates
    BY DEF TypeOK
  <1>1. \A g \in Slots : flushes'[g] =
          IF g = f THEN NoFlush
          ELSE IF flushes[g].aliased
          THEN [flushes[g] EXCEPT !.aliased = FALSE, !.own = items]
          ELSE flushes[g]
    BY DEF PrepareNewBatch
  <1>2. NoFlush \in FlushStates /\ NoFlush.pc = "idle"
    BY <1>0 DEF NoFlush, FlushStates
  <1>3. ASSUME NEW g \in Slots \ {f}
        PROVE  /\ flushes'[g] \in FlushStates
               /\ flushes'[g].pc = flushes[g].pc
               /\ flushes'[g].seen = flushes[g].seen
               /\ ~flushes'[g].aliased
               /\ flushes'[g].own = Array(g)
    <2>1. CASE flushes[g].aliased
      <3>1. flushes'[g]
              = [flushes[g] EXCEPT !.aliased = FALSE, !.own = items]
        BY <1>1, <2>1
      <3> QED BY <1>0, <2>1, <3>1 DEF FlushStates, Array
    <2>2. CASE ~flushes[g].aliased
      BY <1>0, <1>1, <2>2 DEF Array
    <2> QED BY <2>1, <2>2
  <1>4. flushes' \in [Slots -> FlushStates]
    <2>1. DOMAIN flushes' = Slots
          /\ flushes' = [g \in Slots |-> flushes'[g]]
      BY DEF PrepareNewBatch
    <2>2. \A g \in Slots : flushes'[g] \in FlushStates
      BY <1>1, <1>2, <1>3
    <2> QED BY <2>1, <2>2
  <1> QED BY <1>1, <1>2, <1>3, <1>4

LEMMA PreparedBatch ==
  ASSUME NEW f \in Slots, BatchInv, PrepareNewBatch(f),
         pushed' = pushed, late' = late, early' = early,
         shared \subseteq shared', adds' \in [Items -> AddStates],
         \A i \in Items : adds'[i] = "new" => adds[i] = "new",
         \/ done' = done
         \/ Busy(f) /\ done' = done \cup flushes[f].seen
  PROVE  KeysMatch' /\ Pushed' /\ Arrays' /\ Apart' /\ Waiting'
  <1> USE DEF BatchInv
  <1>0. items' = {} /\ itemKeys' = {} /\ configured' = configured
    BY DEF PrepareNewBatch
  <1>1. /\ ~Busy(f)'
        /\ \A g \in Slots : Busy(g)' =>
             /\ g # f /\ Busy(g) /\ ~flushes'[g].aliased
             /\ Array(g)' = Array(g) /\ flushes'[g].own = Array(g)
             /\ flushes'[g].seen = flushes[g].seen
    BY Prepared DEF Busy, Array
  <1>2. KeysMatch' /\ Waiting'
    BY <1>0 DEF KeysMatch, KeysOf, Waiting
  <1>3. Pushed'
    <2>1. done' \subseteq pushed
      BY <1>1 DEF Pushed, Arrays
    <2> QED BY <1>0, <2>1 DEF Pushed
  <1>4. Arrays'
    BY <1>0, <1>1 DEF Arrays
  <1>5. Apart'
    <2>1. ASSUME NEW g \in Slots, Busy(g)'
          PROVE  Array(g)' \cap done' \subseteq shared'
      <3>1. Array(g)' = Array(g) /\ g # f /\ Busy(g)
        BY <1>1, <2>1
      <3>2. Array(g) \cap done \subseteq shared
        BY <3>1 DEF Apart
      <3>3. Busy(f) => Array(g) \cap flushes[f].seen \subseteq shared
        BY <3>1 DEF Apart, Arrays
      <3> QED BY <3>1, <3>2, <3>3
    <2>2. ASSUME NEW g \in Slots, NEW h \in Slots,
                 g # h, Busy(g)', Busy(h)'
          PROVE  Array(g)' \cap Array(h)' \subseteq shared'
      BY <1>1, <2>2 DEF Apart
    <2> QED BY <1>0, <2>1, <2>2 DEF Apart
  <1> QED BY <1>2, <1>3, <1>4, <1>5

\* executeBatch or onBatchError returned.
LEMMA FinishBatch ==
  ASSUME NEW f \in Slots, Busy(f), BatchInv, Finish(f) PROVE BatchInv'
  <1> USE DEF BatchInv, Finish
  <1>0. flushes[f].seen \in SUBSET Items /\ flushes[f].seen \subseteq Array(f)
    BY DEF TypeOK, FlushStates, Arrays
  <1>1. /\ adds' \in [Items -> AddStates]
        /\ \A i \in Items : adds'[i] = "new" => adds[i] = "new"
    BY DEF Ended, TypeOK, AddStates
  <1>2. TypeOK'
    <2>1. flushes' \in [Slots -> FlushStates]
      BY Prepared
    <2>2. retryCount' \in 0..MaxRetry
      <3>1. retryCount' = 0
        BY DEF PrepareNewBatch
      <3> QED BY <3>1, BatchAssumption
    <2>3. {pushed', done', again', late', shared', early'}
            \subseteq SUBSET Items
      BY <1>0 DEF TypeOK
    <2> QED BY <1>1, <2>1, <2>2, <2>3 DEF TypeOK, PrepareNewBatch
  <1>3. KeysMatch' /\ Pushed' /\ Arrays' /\ Apart' /\ Waiting'
    BY <1>1, PreparedBatch
  <1>4. NoSilentLoss'
    <2>1. items \ (late \cup early) \subseteq flushes[f].seen
      BY DEF Arrays, Ordinary
    <2> QED BY <2>1 DEF NoSilentLoss, PrepareNewBatch
  <1>5. DoneOnce'
    BY <1>0 DEF DoneOnce, Apart
  <1> QED BY <1>2, <1>3, <1>4, <1>5

-----------------------------------------------------------------------------
(* The start of a flush                                                    *)

\* What StartFlush and NoteShared leave, when the batch grows at most by
\* an item that is new, and that is late if another flush runs.
LEMMA StartedBatch ==
  ASSUME NEW f \in Slots, NEW batch \in SUBSET Items, BatchInv,
         StartFlush(f, batch), NoteShared,
         items' = batch, items \subseteq batch, done' = done,
         (batch \ items) \cap pushed = {},
         pushed' = pushed \cup (batch \ items),
         late \subseteq late', early \subseteq early',
         Running # {} => batch \ items \subseteq late',
         ~configured => batch \subseteq early'
  PROVE  /\ flushes' \in [Slots -> FlushStates]
         /\ Arrays' /\ Apart' /\ shared' \in SUBSET Items
  <1> USE DEF BatchInv
  <1> DEFINE given == IF configured THEN batch ELSE {}
             new == [pc |-> "execute", aliased |-> TRUE, own |-> {},
                     seen |-> given]
  <1>0. {} \in SUBSET Items /\ given \in SUBSET Items
    OBVIOUS
  <1>1. new \in FlushStates
    BY <1>0 DEF FlushStates
  <1>2. flushes' = [flushes EXCEPT ![f] = new]
    BY DEF StartFlush
  <1>3. flushes' \in [Slots -> FlushStates]
    BY <1>1, <1>2 DEF TypeOK
  <1>4. \A g \in Slots : flushes'[g] = IF g = f THEN new ELSE flushes[g]
    BY <1>2 DEF TypeOK
  <1>5. shared' \in SUBSET Items /\ shared \subseteq shared'
    BY DEF NoteShared, TypeOK
  <1>6. Arrays'
    <2> SUFFICES ASSUME NEW g \in Slots, Busy(g)'
                 PROVE  /\ Array(g)' \subseteq pushed'
                        /\ flushes'[g].seen \subseteq Array(g)'
                        /\ flushes'[g].aliased =>
                             Ordinary' \subseteq flushes'[g].seen
                        /\ ~flushes'[g].aliased =>
                             /\ items' \subseteq late'
                             /\ flushes'[g].own \cap items' = {}
      BY DEF Arrays
    <2>1. batch \subseteq pushed'
      BY DEF Pushed
    <2>2. CASE g = f
      <3>1. flushes'[g].aliased /\ Array(g)' = batch
            /\ flushes'[g].seen = given
        BY <1>4, <2>2 DEF Array
      <3>2. Ordinary' \subseteq given
        BY DEF Ordinary
      <3> QED BY <2>1, <3>1, <3>2
    <2>3. CASE g # f
      <3>1. flushes'[g] = flushes[g] /\ Busy(g)
        BY <1>4, <2>3 DEF Busy
      <3>2. batch \ items \subseteq late'
        BY <3>1 DEF Running
      <3>3. CASE flushes[g].aliased
        <4>1. Array(g)' = batch /\ Array(g) = items
          BY <3>1, <3>3 DEF Array
        <4>2. Ordinary' \subseteq Ordinary
          BY <3>2 DEF Ordinary
        <4> QED BY <2>1, <3>1, <3>3, <4>1, <4>2 DEF Arrays
      <3>4. CASE ~flushes[g].aliased
        <4>1. Array(g)' = flushes[g].own /\ Array(g) = flushes[g].own
          BY <3>1, <3>4 DEF Array
        <4> QED BY <3>1, <3>2, <3>4, <4>1 DEF Arrays
      <3> QED BY <3>3, <3>4
    <2> QED BY <2>2, <2>3
  <1>7. Apart'
    <2>1. items' \cap done' = {}
      BY DEF Apart, Pushed
    <2>2. ASSUME NEW g \in Slots, Busy(g)'
          PROVE  Array(g)' \cap done' \subseteq shared'
      <3>1. CASE flushes'[g].aliased
        BY <2>1, <3>1 DEF Array
      <3>2. CASE ~flushes'[g].aliased
        <4>1. flushes'[g] = flushes[g]
          BY <1>4, <3>2
        <4> QED BY <1>5, <2>2, <3>2, <4>1 DEF Array, Apart, Busy
      <3> QED BY <3>1, <3>2
    <2>3. ASSUME NEW g \in Slots, NEW h \in Slots,
                 g # h, Busy(g)', Busy(h)'
          PROVE  Array(g)' \cap Array(h)' \subseteq shared'
      <3>1. items' \subseteq shared'
        BY <2>3 DEF NoteShared, Busy
      <3>2. CASE flushes'[g].aliased \/ flushes'[h].aliased
        BY <3>1, <3>2 DEF Array
      <3>3. CASE ~flushes'[g].aliased /\ ~flushes'[h].aliased
        <4>1. flushes'[g] = flushes[g] /\ flushes'[h] = flushes[h]
          BY <1>4, <3>3
        <4> QED BY <1>5, <2>3, <3>3, <4>1 DEF Array, Apart, Busy
      <3> QED BY <3>2, <3>3
    <2> QED BY <2>1, <2>2, <2>3 DEF Apart
  <1> QED BY <1>3, <1>5, <1>6, <1>7

LEMMA AddItemBatch ==
  ASSUME NEW i \in Items, BatchInv, AddItem(i) PROVE BatchInv'
  <1> DEFINE batch == IF Duplicate(i) THEN items ELSE items \cup {i}
  <1>0. /\ batch \in SUBSET Items /\ items \subseteq batch
        /\ batch \ items \subseteq {i} /\ i \notin pushed
        /\ i \notin items \cup done \cup late \cup early
    BY DEF AddItem, BatchInv, TypeOK, Pushed
  <1>1. /\ items' = batch
        /\ pushed' = pushed \cup (batch \ items)
        /\ late' = IF Running = {} THEN late ELSE late \cup (batch \ items)
        /\ early' = IF configured THEN early ELSE early \cup {i}
        /\ done' = done /\ again' = again /\ configured' = configured
        /\ NoteShared
    BY DEF AddItem
  <1>2. ~Duplicate(i) => batch = items \cup {i}
    OBVIOUS
  <1>a. ~configured => batch = items \cup {i}
    BY <1>2 DEF Duplicate
  <1> HIDE DEF batch
  <1>3. /\ adds' \in [Items -> AddStates] /\ adds'[i] # "new"
        /\ \A j \in Items : adds'[j] = "new" => adds[j] = "new"
    <2>1. adds' = [adds EXCEPT ![i] = "flushing"]
          \/ adds' = [adds EXCEPT ![i] = "awaiting"]
      BY DEF AddItem
    <2> QED BY <2>1 DEF BatchInv, TypeOK, AddStates
  <1>4. Pushed'
    BY <1>0, <1>1, <1>3, <1>a DEF BatchInv, Pushed
  <1>5. KeysMatch'
    <2>1. itemKeys' = IF configured THEN itemKeys \cup {KeyOf[i]}
                                    ELSE itemKeys
      BY DEF AddItem
    <2>2. CASE ~configured
      <3>1. items' \ early' = items \ early
        BY <1>0, <1>1, <1>a, <2>2
      <3> QED BY <2>1, <2>2, <3>1 DEF BatchInv, KeysMatch
    <2>3. CASE configured /\ Duplicate(i)
      <3>1. batch = items
        BY <2>3 DEF batch
      <3> QED BY <1>1, <2>1, <2>3, <3>1
            DEF BatchInv, KeysMatch, Duplicate
    <2>4. CASE configured /\ ~Duplicate(i)
      <3>1. items' \ early' = (items \ early) \cup {i}
        BY <1>0, <1>1, <1>2, <2>4
      <3> QED BY <2>1, <2>4, <3>1 DEF BatchInv, KeysMatch, KeysOf
    <2> QED BY <2>2, <2>3, <2>4
  <1>6. NoSilentLoss' /\ DoneOnce' /\ Waiting'
    <2>1. shared \subseteq shared'
      BY <1>1 DEF NoteShared
    <2> QED BY <1>1, <1>0, <1>a, <2>1
          DEF BatchInv, NoSilentLoss, DoneOnce, Waiting
  <1>7. /\ flushes' \in [Slots -> FlushStates]
        /\ Arrays' /\ Apart' /\ shared' \in SUBSET Items
    <2>1. CASE StartFlush(i, batch)
      <3>1. i \in Slots
        BY DEF Slots
      <3>2. /\ (batch \ items) \cap pushed = {}
            /\ late \subseteq late' /\ early \subseteq early'
            /\ Running # {} => batch \ items \subseteq late'
            /\ ~configured => batch \subseteq early'
        BY <1>0, <1>1, <1>a DEF BatchInv, Waiting
      <3> QED BY <1>0, <1>1, <2>1, <3>1, <3>2, StartedBatch
    <2>2. CASE flushes' = flushes
      <3>1. flushes' \in [Slots -> FlushStates]
        BY <2>2 DEF BatchInv, TypeOK
      <3>2. shared' \in SUBSET Items /\ shared \subseteq shared'
        BY <1>0, <1>1 DEF NoteShared, BatchInv, TypeOK
      <3>3. Arrays'
        <4> SUFFICES ASSUME NEW g \in Slots, Busy(g)
                     PROVE  /\ Array(g)' \subseteq pushed'
                            /\ flushes[g].seen \subseteq Array(g)'
                            /\ flushes[g].aliased =>
                                 Ordinary' \subseteq flushes[g].seen
                            /\ ~flushes[g].aliased =>
                                 /\ items' \subseteq late'
                                 /\ flushes[g].own \cap items' = {}
          BY <2>2 DEF Arrays, Busy
        <4>1. batch \ items \subseteq late'
          BY <1>1 DEF Running
        <4>2. CASE flushes[g].aliased
          <5>1. Array(g)' = batch /\ Array(g) = items
            BY <1>1, <2>2, <4>2 DEF Array
          <5>2. Ordinary' \subseteq Ordinary
            BY <1>1, <4>1 DEF Ordinary
          <5> QED BY <1>0, <1>1, <4>2, <5>1, <5>2 DEF BatchInv, Arrays
        <4>3. CASE ~flushes[g].aliased
          <5>1. Array(g)' = flushes[g].own /\ Array(g) = flushes[g].own
            BY <2>2, <4>3 DEF Array
          <5> QED BY <1>0, <1>1, <4>1, <4>3, <5>1 DEF BatchInv, Arrays
        <4> QED BY <4>2, <4>3
      <3>4. Apart'
        <4>1. items' \cap done' = {}
          BY <1>0, <1>1 DEF BatchInv, Apart
        <4>2. ASSUME NEW g \in Slots, Busy(g)
              PROVE  Array(g)' \cap done' \subseteq shared'
          BY <1>1, <2>2, <3>2, <4>1, <4>2 DEF Array, BatchInv, Apart
        <4>3. ASSUME NEW g \in Slots, NEW h \in Slots,
                     g # h, Busy(g), Busy(h)
              PROVE  Array(g)' \cap Array(h)' \subseteq shared'
          <5>1. items' \subseteq shared'
            BY <1>1, <2>2, <4>3 DEF NoteShared, Busy
          <5>2. CASE flushes[g].aliased \/ flushes[h].aliased
            BY <2>2, <5>1, <5>2 DEF Array
          <5>3. CASE ~flushes[g].aliased /\ ~flushes[h].aliased
            BY <2>2, <3>2, <4>3, <5>3 DEF Array, BatchInv, Apart
          <5> QED BY <5>2, <5>3
        <4> QED BY <2>2, <4>1, <4>2, <4>3 DEF Apart, Busy
      <3> QED BY <3>1, <3>2, <3>3, <3>4
    <2> QED BY <2>1, <2>2 DEF AddItem, batch
  <1>8. TypeOK'
    <2>1. items' \subseteq Items /\ itemKeys' \subseteq KeysOf(Items)
      <3>1. KeyOf[i] \in KeysOf(Items)
        BY DEF KeysOf
      <3> QED BY <1>0, <1>1, <3>1 DEF AddItem, BatchInv, TypeOK
    <2>2. /\ {pushed', done', again', late', shared', early'}
               \subseteq SUBSET Items
      BY <1>0, <1>1, <1>7 DEF BatchInv, TypeOK
    <2>3. UNCHANGED <<configured, timer, retryCount, threw>>
      BY DEF AddItem
    <2> QED BY <1>3, <1>7, <2>1, <2>2, <2>3 DEF BatchInv, TypeOK
  <1> QED BY <1>4, <1>5, <1>6, <1>7, <1>8 DEF BatchInv

-----------------------------------------------------------------------------
\* A flush the timer or anybody starts.
LEMMA FlushBatch ==
  ASSUME NEW f \in Slots, BatchInv, Flush(f), timer' \in BOOLEAN
  PROVE  BatchInv'
  <1> USE DEF BatchInv
  <1>0. UNCHANGED <<configured, adds, pushed, done, again, late, early, threw>>
    BY DEF Flush
  <1>1. shared \subseteq shared'
    BY DEF Flush, NoteShared
  <1>2. CASE items # {}
    <2>1. StartFlush(f, items) /\ NoteShared
          /\ UNCHANGED <<items, itemKeys, retryCount>>
      BY <1>2 DEF Flush
    <2>2. /\ flushes' \in [Slots -> FlushStates]
          /\ Arrays' /\ Apart' /\ shared' \in SUBSET Items
      <3>1. /\ items \in SUBSET Items /\ (items \ items) \cap pushed = {}
            /\ pushed' = pushed \cup (items \ items)
            /\ ~configured => items \subseteq early'
        BY <1>0 DEF TypeOK, Waiting
      <3> QED BY <1>0, <2>1, <3>1, StartedBatch
    <2>3. TypeOK'
      BY <1>0, <2>1, <2>2 DEF TypeOK
    <2>4. KeysMatch' /\ NoSilentLoss' /\ DoneOnce' /\ Pushed' /\ Waiting'
      BY <1>0, <1>1, <2>1
        DEF KeysMatch, NoSilentLoss, DoneOnce, Pushed, Waiting
    <2> QED BY <2>2, <2>3, <2>4
  <1>3. CASE items = {}
    <2>1. PrepareNewBatch(f) /\ NoteShared
      BY <1>3 DEF Flush
    <2>2. KeysMatch' /\ Pushed' /\ Arrays' /\ Apart' /\ Waiting'
      <3>1. adds' \in [Items -> AddStates]
        BY <1>0 DEF TypeOK
      <3> QED BY <1>0, <1>1, <2>1, <3>1, PreparedBatch
    <2>3. TypeOK'
      <3>1. flushes' \in [Slots -> FlushStates]
        BY <2>1, Prepared
      <3>2. retryCount' = 0 /\ items' = {} /\ itemKeys' = {}
        BY <2>1 DEF PrepareNewBatch
      <3>3. retryCount' \in 0..MaxRetry
        BY <3>2, BatchAssumption
      <3>4. shared' \in SUBSET Items
        BY <2>1, <3>2 DEF NoteShared, TypeOK
      <3> QED BY <1>0, <3>1, <3>2, <3>3, <3>4 DEF TypeOK
    <2>4. NoSilentLoss' /\ DoneOnce'
      BY <1>0, <1>1, <1>3, <2>1
        DEF NoSilentLoss, DoneOnce, PrepareNewBatch
    <2> QED BY <2>2, <2>3, <2>4
  <1> QED BY <1>2, <1>3

-----------------------------------------------------------------------------
(* The outcomes of executeBatch and onBatchError                           *)

\* The awaited call is another one, and was given the array as it is.
LEMMA ThrowsBatch ==
  ASSUME NEW f \in Slots, BatchInv, ExecuteBatchThrows(f) PROVE BatchInv'
  <1> USE DEF BatchInv, past
  <1>0. UNCHANGED <<configured, items, itemKeys, timer, adds, past>>
    BY DEF ExecuteBatchThrows
  <1>1. Array(f) \in SUBSET Items /\ flushes[f] \in FlushStates
        /\ flushes[f].pc = "execute"
    BY DEF Array, TypeOK, FlushStates, ExecuteBatchThrows
  <1>2. /\ flushes' \in [Slots -> FlushStates]
        /\ \A g \in Slots : /\ Busy(g)' <=> Busy(g)
                            /\ flushes'[g].aliased = flushes[g].aliased
                            /\ flushes'[g].own = flushes[g].own
                            /\ flushes'[g].seen = IF g = f THEN Array(f)
                                                  ELSE flushes[g].seen
    <2>1. CASE flushes' = [flushes EXCEPT ![f].seen = Array(f)]
      BY <1>1, <2>1 DEF TypeOK, FlushStates, Busy
    <2>2. CASE flushes' = [flushes EXCEPT ![f].pc = "onError",
                                          ![f].seen = Array(f)]
      BY <1>1, <2>2 DEF TypeOK, FlushStates, Busy
    <2> QED BY <2>1, <2>2 DEF ExecuteBatchThrows
  <1>3. \A g \in Slots : Array(g)' = Array(g)
    BY <1>0, <1>2 DEF Array
  <1>4. TypeOK'
    <2>1. retryCount' \in 0..MaxRetry
      <3>1. \/ retryCount' = retryCount
            \/ retryCount < MaxRetry /\ retryCount' = retryCount + 1
        BY DEF ExecuteBatchThrows, MayRetry
      <3> QED BY <3>1, BatchAssumption DEF TypeOK
    <2> QED BY <1>0, <1>2, <2>1 DEF TypeOK
  <1>5. KeysMatch' /\ NoSilentLoss' /\ DoneOnce' /\ Pushed' /\ Waiting'
    BY <1>0 DEF KeysMatch, NoSilentLoss, DoneOnce, Pushed, Waiting
  <1>6. Arrays'
    <2> SUFFICES ASSUME NEW g \in Slots, Busy(g)
                 PROVE  /\ Array(g) \subseteq pushed
                        /\ flushes'[g].seen \subseteq Array(g)
                        /\ flushes[g].aliased =>
                             Ordinary \subseteq flushes'[g].seen
                        /\ ~flushes[g].aliased =>
                             /\ items \subseteq late
                             /\ flushes[g].own \cap items = {}
      BY <1>0, <1>2, <1>3 DEF Arrays, Ordinary
    <2>1. CASE g = f
      BY <1>2, <2>1 DEF Arrays, Array, Ordinary
    <2>2. CASE g # f
      BY <1>2, <2>2 DEF Arrays
    <2> QED BY <2>1, <2>2
  <1>7. Apart'
    BY <1>0, <1>2, <1>3 DEF Apart
  <1> QED BY <1>4, <1>5, <1>6, <1>7

LEMMA ErrorThrowsBatch ==
  ASSUME NEW f \in Slots, BatchInv, OnBatchErrorThrows(f) PROVE BatchInv'
  <1> USE DEF BatchInv, buffer
  <1>0. UNCHANGED <<configured, items, itemKeys, timer, retryCount,
                    pushed, done, again, late, shared, early>>
    BY DEF OnBatchErrorThrows
  <1>1. /\ flushes' \in [Slots -> FlushStates]
        /\ ~Busy(f)'
        /\ \A g \in Slots : g # f => flushes'[g] = flushes[g]
    <2>1. {} \in SUBSET Items
      OBVIOUS
    <2>2. NoFlush \in FlushStates /\ NoFlush.pc = "idle"
      BY <2>1 DEF NoFlush, FlushStates
    <2> QED BY <2>2 DEF OnBatchErrorThrows, TypeOK, Busy
  <1>2. /\ adds' \in [Items -> AddStates]
        /\ \A i \in Items : adds'[i] = "new" => adds[i] = "new"
    BY DEF OnBatchErrorThrows, Ended, TypeOK, AddStates
  <1>3. TypeOK'
    BY <1>0, <1>1, <1>2 DEF OnBatchErrorThrows, TypeOK
  <1>4. KeysMatch' /\ NoSilentLoss' /\ DoneOnce' /\ Pushed' /\ Waiting'
    BY <1>0, <1>2 DEF KeysMatch, NoSilentLoss, DoneOnce, Pushed, Waiting
  <1>5. \A g \in Slots : Busy(g)' => /\ g # f /\ Busy(g)
                                     /\ flushes'[g] = flushes[g]
                                     /\ Array(g)' = Array(g)
    BY <1>0, <1>1 DEF Busy, Array
  <1>6. Arrays'
    BY <1>0, <1>5 DEF Arrays, Ordinary
  <1>7. Apart'
    BY <1>0, <1>5 DEF Apart
  <1> QED BY <1>3, <1>4, <1>6, <1>7

-----------------------------------------------------------------------------
LEMMA NextBatch == BatchInv /\ [Next]_vars => BatchInv'
  <1> SUFFICES ASSUME BatchInv, [Next]_vars PROVE BatchInv'
    OBVIOUS
  <1>1. CASE Configure
    BY <1>1, ConfigureBatch
  <1>2. ASSUME NEW i \in Items, AddItem(i) PROVE BatchInv'
    BY <1>2, AddItemBatch
  <1>3. ASSUME NEW i \in Items, AddAutoResolveTask(i) PROVE BatchInv'
    BY <1>3, TimerBatch
  <1>4. ASSUME NEW f \in Flushers, CallFlush(f) \/ TimerFires(f)
        PROVE  BatchInv'
    <2>1. f \in Slots /\ Flush(f)
      BY <1>4 DEF Slots, CallFlush, TimerFires
    <2>2. timer' \in BOOLEAN
      <3>1. items = {} => timer' = FALSE
        BY <2>1 DEF Flush, PrepareNewBatch
      <3>2. items # {} => timer' = timer \/ timer' = FALSE
        BY <1>4 DEF CallFlush, TimerFires
      <3> QED BY <3>1, <3>2 DEF BatchInv, TypeOK
    <2> QED BY <2>1, <2>2, FlushBatch
  <1>5. ASSUME NEW f \in Slots, Outcome(f) PROVE BatchInv'
    <2>1. CASE ExecuteBatchReturns(f) \/ OnBatchErrorReturns(f)
      BY <2>1, FinishBatch DEF ExecuteBatchReturns, OnBatchErrorReturns, Busy
    <2>2. CASE ExecuteBatchThrows(f)
      BY <2>2, ThrowsBatch
    <2>3. CASE OnBatchErrorThrows(f)
      BY <2>3, ErrorThrowsBatch
    <2> QED BY <1>5, <2>1, <2>2, <2>3 DEF Outcome
  <1>6. CASE UNCHANGED vars
    <2>1. UNCHANGED <<configured, items, itemKeys, timer, retryCount, adds,
                      flushes, pushed, done, again, late, shared, early, threw>>
      BY <1>6 DEF vars, buffer, past
    <2>2. TypeOK' /\ KeysMatch' /\ NoSilentLoss' /\ DoneOnce'
      BY <2>1 DEF BatchInv, TypeOK, KeysMatch, NoSilentLoss, DoneOnce
    <2>3. Pushed' /\ Arrays' /\ Apart' /\ Waiting'
      BY <2>1 DEF BatchInv, Pushed, Arrays, Apart, Waiting, Busy, Array,
                  Ordinary
    <2> QED BY <2>2, <2>3 DEF BatchInv
  <1> QED BY <1>1, <1>2, <1>3, <1>4, <1>5, <1>6 DEF Next

LEMMA BatchInvHolds == Spec => []BatchInv
  BY InitBatch, NextBatch, PTL DEF Spec

-----------------------------------------------------------------------------
(* The theorems                                                            *)

\* Every value the batch and its flushes take has its type: no more retries
\* than MAX_RETRY, whatever flushes share the counter.
THEOREM TypeCorrect == Spec => []TypeOK
  BY BatchInvHolds, PTL DEF BatchInv

\* What is pushed while no flush runs is never lost without onBatchError
\* having had it.
THEOREM NothingLost == Spec => []NoSilentLoss
  BY BatchInvHolds, PTL DEF BatchInv

\* Only an item that two flushes had at a time can be done with twice.
THEOREM NothingTwice == Spec => []DoneOnce
  BY BatchInvHolds, PTL DEF BatchInv

\* The keys are those of the items that wait, so that no item is taken for
\* a duplicate of one that has left.
THEOREM KeysAreOfItems == Spec => []KeysMatch
  BY BatchInvHolds, PTL DEF BatchInv

-----------------------------------------------------------------------------
(* No item is stranded: the safety half of EveryItemLeaves.                *)

\* What will still take the items out of the batch.
Ahead ==
  \/ timer
  \/ \E i \in Items : adds[i] = "awaiting"
  \/ \E f \in Slots : flushes[f].pc # "idle"
  \/ threw

NeverStranded == items # {} => Ahead

LEMMA NextStranded == BatchInv /\ NeverStranded /\ [Next]_vars => NeverStranded'
  <1> SUFFICES ASSUME BatchInv, NeverStranded, [Next]_vars,
                      items' # {}
               PROVE  Ahead'
    BY DEF NeverStranded
  <1>1. TypeOK
    BY DEF BatchInv
  <1>2. \A f \in Slots : ~PrepareNewBatch(f)
    BY DEF PrepareNewBatch
  <1>3. ASSUME NEW i \in Items, AddItem(i) PROVE Ahead'
    <2>1. CASE adds' = [adds EXCEPT ![i] = "awaiting"]
      <3>1. adds'[i] = "awaiting"
        BY <1>1, <2>1 DEF TypeOK
      <3> QED BY <3>1 DEF Ahead
    <2>2. CASE \E batch : StartFlush(i, batch)
      <3>1. i \in Slots /\ flushes'[i].pc = "execute"
        BY <1>1, <2>2 DEF TypeOK, StartFlush, Slots
      <3> QED BY <3>1 DEF Ahead
    <2> QED BY <1>3, <2>1, <2>2 DEF AddItem
  <1>4. ASSUME NEW i \in Items, AddAutoResolveTask(i) PROVE Ahead'
    BY <1>4 DEF AddAutoResolveTask, Ahead
  <1>5. ASSUME NEW f \in Flushers, CallFlush(f) \/ TimerFires(f) PROVE Ahead'
    <2>1. f \in Slots /\ StartFlush(f, items)
      BY <1>2, <1>5 DEF CallFlush, TimerFires, Flush, Slots
    <2>2. flushes'[f].pc = "execute"
      BY <1>1, <2>1 DEF TypeOK, StartFlush
    <2> QED BY <2>1, <2>2 DEF Ahead
  <1>6. ASSUME NEW f \in Slots, Outcome(f) PROVE Ahead'
    <2>1. ~ExecuteBatchReturns(f) /\ ~OnBatchErrorReturns(f)
      BY <1>2, <1>6 DEF ExecuteBatchReturns, OnBatchErrorReturns, Finish
    <2>2. CASE OnBatchErrorThrows(f)
      BY <2>2 DEF OnBatchErrorThrows, Ahead
    <2>3. CASE ExecuteBatchThrows(f)
      <3>1. flushes'[f].pc # "idle"
        BY <1>1, <2>3 DEF TypeOK, ExecuteBatchThrows, FlushStates
      <3> QED BY <3>1 DEF Ahead
    <2> QED BY <1>6, <2>1, <2>2, <2>3 DEF Outcome
  <1>7. CASE Configure \/ UNCHANGED vars
    BY <1>7 DEF Configure, NeverStranded, Ahead, vars, buffer, past
  <1> QED BY <1>3, <1>4, <1>5, <1>6, <1>7 DEF Next

\* As long as items wait in the batch there is a timer, an addItem about to
\* set one, or a running flush that will take them along, however flushes
\* overlap and retry, unless onBatchError has thrown.
THEOREM NothingStranded == Spec => []NeverStranded
  <1>1. Init => NeverStranded
    BY DEF Init, NeverStranded
  <1> QED BY <1>1, NextStranded, BatchInvHolds, PTL DEF Spec

-----------------------------------------------------------------------------
(* Flushes go forward: what EveryItemLeaves relies on besides a timer.     *)

\* The calls of executeBatch and onBatchError a flush may still go through
\* before the batch is replaced.
Left(f) ==
  IF flushes[f].pc = "execute" THEN (MaxRetry - retryCount) + 2
  ELSE IF flushes[f].pc = "onError" THEN 1 ELSE 0

\* The retries are counted for all flushes at once, and the count starts
\* over with a new batch only: as long as an item waits, every outcome of a
\* call takes its flush further, and nothing takes another flush back.
FlushesAdvance ==
  items \cap items' # {} => \A f \in Slots :
    /\ Outcome(f) => Left(f)' < Left(f)
    /\ Busy(f) => Left(f)' <= Left(f)

\* The slot of an item is busy exactly while its addItem awaits the flush.
FlushOwned == \A i \in Items : Busy(i) <=> adds[i] = "flushing"

LEMMA NextOwned == BatchInv /\ FlushOwned /\ [Next]_vars => FlushOwned'
  <1> SUFFICES ASSUME BatchInv, FlushOwned, [Next]_vars PROVE FlushOwned'
    OBVIOUS
  <1>1. /\ TypeOK /\ Items \subseteq Slots
        /\ Items \cap Flushers = {}
        /\ adds \in [Items -> AddStates]
        /\ flushes \in [Slots -> FlushStates]
    BY BatchAssumption DEF BatchInv, TypeOK, Slots
  <1>2. \A f \in Slots : NoFlush.pc = "idle"
    BY DEF NoFlush
  <1>3. ASSUME NEW f \in Slots, NEW batch, StartFlush(f, batch)
        PROVE  /\ flushes'[f].pc = "execute"
               /\ \A g \in Slots \ {f} : flushes'[g] = flushes[g]
    BY <1>1, <1>3 DEF StartFlush
  <1>4. ASSUME NEW f \in Slots, PrepareNewBatch(f)
        PROVE  /\ flushes'[f].pc = "idle"
               /\ \A g \in Slots \ {f} : flushes'[g].pc = flushes[g].pc
    BY <1>1, <1>4, Prepared
  <1>5. ASSUME NEW i \in Items, AddItem(i) PROVE FlushOwned'
    <2>1. CASE /\ \E batch : StartFlush(i, batch)
               /\ adds' = [adds EXCEPT ![i] = "flushing"]
      <3>1. /\ flushes'[i].pc = "execute"
            /\ \A g \in Slots \ {i} : flushes'[g] = flushes[g]
        BY <1>1, <1>3, <2>1
      <3> QED BY <1>1, <2>1, <3>1 DEF FlushOwned, Busy
    <2>2. CASE adds' = [adds EXCEPT ![i] = "awaiting"] /\ UNCHANGED flushes
      <3>1. ~Busy(i)
        BY <1>5 DEF AddItem, FlushOwned
      <3> QED BY <1>1, <2>2, <3>1 DEF FlushOwned, Busy
    <2> QED BY <1>5, <2>1, <2>2 DEF AddItem
  <1>6. ASSUME NEW i \in Items, AddAutoResolveTask(i) PROVE FlushOwned'
    BY <1>1, <1>6 DEF AddAutoResolveTask, FlushOwned, Busy
  <1>7. ASSUME NEW f \in Flushers, CallFlush(f) \/ TimerFires(f)
        PROVE  FlushOwned'
    <2>1. f \in Slots /\ f \notin Items /\ adds' = adds
          /\ (PrepareNewBatch(f) \/ StartFlush(f, items))
      BY <1>1, <1>7 DEF CallFlush, TimerFires, Flush, Slots
    <2>2. \A i \in Items : flushes'[i].pc = flushes[i].pc
      BY <1>1, <1>3, <1>4, <2>1
    <2> QED BY <2>1, <2>2 DEF FlushOwned, Busy
  <1>8. ASSUME NEW f \in Slots, Outcome(f) PROVE FlushOwned'
    <2>1. CASE ExecuteBatchThrows(f)
      <3>1. /\ flushes[f].pc = "execute" /\ flushes'[f].pc # "idle"
            /\ \A g \in Slots \ {f} : flushes'[g] = flushes[g]
            /\ adds' = adds
        BY <1>1, <2>1 DEF ExecuteBatchThrows, FlushStates
      <3> QED BY <1>1, <3>1 DEF FlushOwned, Busy
    <2>2. ASSUME NEW state \in {"awaiting", "rejected"}, Ended(f, state),
                 flushes'[f].pc = "idle",
                 \A g \in Slots \ {f} : flushes'[g].pc = flushes[g].pc
          PROVE  FlushOwned'
      BY <1>1, <2>2 DEF Ended, FlushOwned, Busy
    <2>3. CASE ExecuteBatchReturns(f) \/ OnBatchErrorReturns(f)
      <3>1. PrepareNewBatch(f) /\ Ended(f, "awaiting")
        BY <2>3 DEF ExecuteBatchReturns, OnBatchErrorReturns, Finish
      <3> QED BY <1>4, <2>2, <3>1
    <2>4. CASE OnBatchErrorThrows(f)
      <3>1. /\ flushes'[f].pc = "idle" /\ Ended(f, "rejected")
            /\ \A g \in Slots \ {f} : flushes'[g] = flushes[g]
        BY <1>1, <1>2, <2>4 DEF OnBatchErrorThrows
      <3> QED BY <2>2, <3>1
    <2> QED BY <1>8, <2>1, <2>3, <2>4 DEF Outcome
  <1>9. CASE Configure \/ UNCHANGED vars
    BY <1>9 DEF Configure, vars, FlushOwned, Busy
  <1> QED BY <1>5, <1>6, <1>7, <1>8, <1>9 DEF Next

LEMMA NextFlushesAdvance ==
  BatchInv /\ FlushOwned /\ [Next]_vars => FlushesAdvance
  <1> SUFFICES ASSUME BatchInv, FlushOwned, [Next]_vars,
                      items \cap items' # {}, NEW f \in Slots
               PROVE  /\ Outcome(f) => Left(f)' < Left(f)
                      /\ Busy(f) => Left(f)' <= Left(f)
    BY DEF FlushesAdvance
  <1>1. /\ TypeOK /\ MaxRetry \in Nat /\ retryCount \in 0..MaxRetry
        /\ flushes \in [Slots -> FlushStates]
    BY BatchAssumption DEF BatchInv, TypeOK
  <1>2. \A g \in Slots : ~PrepareNewBatch(g)
    BY DEF PrepareNewBatch
  <1>3. /\ Left(f) \in Nat
        /\ flushes[f].pc = "execute" => Left(f) >= 2
        /\ flushes[f].pc = "onError" => Left(f) = 1
    BY <1>1 DEF Left
  <1>4. ASSUME retryCount' = retryCount, flushes'[f].pc = flushes[f].pc
        PROVE  Left(f)' = Left(f)
    BY <1>4 DEF Left
  <1>5. ASSUME Outcome(f)
        PROVE  Left(f)' < Left(f)
    <2>1. CASE ExecuteBatchThrows(f)
      <3>1. CASE MayRetry
        <4>1. /\ flushes[f].pc = "execute" /\ flushes'[f].pc = "execute"
              /\ retryCount' = retryCount + 1
          BY <1>1, <2>1, <3>1 DEF ExecuteBatchThrows, FlushStates
        <4> QED BY <1>1, <4>1 DEF Left
      <3>2. CASE ~MayRetry
        <4>1. flushes[f].pc = "execute" /\ flushes'[f].pc = "onError"
          BY <1>1, <2>1, <3>2 DEF ExecuteBatchThrows, FlushStates
        <4>2. Left(f)' = 1
          BY <4>1 DEF Left
        <4> QED BY <1>3, <4>1, <4>2
      <3> QED BY <3>1, <3>2
    <2>2. CASE OnBatchErrorThrows(f)
      <3>1. flushes[f].pc = "onError" /\ flushes'[f].pc = "idle"
        BY <1>1, <2>2 DEF OnBatchErrorThrows, NoFlush
      <3>2. Left(f)' = 0
        BY <3>1 DEF Left
      <3> QED BY <1>3, <3>1, <3>2
    <2>3. ~ExecuteBatchReturns(f) /\ ~OnBatchErrorReturns(f)
      BY <1>2 DEF ExecuteBatchReturns, OnBatchErrorReturns, Finish
    <2> QED BY <1>5, <2>1, <2>2, <2>3 DEF Outcome
  <1>6. ASSUME Busy(f) PROVE Left(f)' <= Left(f)
    <2>1. ASSUME NEW g \in Slots, Outcome(g), g # f
          PROVE  Left(f)' <= Left(f)
      <3>1. CASE ExecuteBatchThrows(g)
        <4>1. /\ flushes'[f] = flushes[f]
              /\ retryCount' = retryCount \/ retryCount' = retryCount + 1
          BY <1>1, <2>1, <3>1 DEF ExecuteBatchThrows
        <4> QED BY <1>1, <4>1 DEF Left
      <3>2. CASE OnBatchErrorThrows(g)
        <4>1. flushes'[f] = flushes[f] /\ retryCount' = retryCount
          BY <1>1, <2>1, <3>2 DEF OnBatchErrorThrows, buffer
        <4> QED BY <1>3, <1>4, <4>1
      <3>3. ~ExecuteBatchReturns(g) /\ ~OnBatchErrorReturns(g)
        BY <1>2 DEF ExecuteBatchReturns, OnBatchErrorReturns, Finish
      <3> QED BY <2>1, <3>1, <3>2, <3>3 DEF Outcome
    <2>2. ASSUME NEW g \in Slots, NEW batch, StartFlush(g, batch), g # f,
                 retryCount' = retryCount
          PROVE  Left(f)' <= Left(f)
      <3>1. flushes'[f] = flushes[f]
        BY <1>1, <2>2 DEF StartFlush
      <3> QED BY <1>3, <1>4, <2>2, <3>1
    <2>3. ASSUME NEW i \in Items, AddItem(i)
          PROVE  Left(f)' <= Left(f)
      <3>1. i # f /\ i \in Slots
        BY <1>6, <2>3 DEF AddItem, FlushOwned, Slots
      <3>2. retryCount' = retryCount
            /\ (UNCHANGED flushes \/ \E batch : StartFlush(i, batch))
        BY <2>3 DEF AddItem
      <3> QED BY <1>3, <1>4, <2>2, <3>1, <3>2
    <2>4. ASSUME NEW g \in Flushers, CallFlush(g) \/ TimerFires(g)
          PROVE  Left(f)' <= Left(f)
      <3>1. g # f /\ g \in Slots /\ StartFlush(g, items)
            /\ retryCount' = retryCount
        BY <1>2, <1>6, <2>4 DEF CallFlush, TimerFires, Flush, Slots
      <3> QED BY <2>2, <3>1
    <2>5. CASE \/ Configure \/ \E i \in Items : AddAutoResolveTask(i)
               \/ UNCHANGED vars
      <3>1. retryCount' = retryCount /\ flushes' = flushes
        BY <2>5 DEF Configure, AddAutoResolveTask, vars, buffer
      <3> QED BY <1>3, <1>4, <3>1
    <2>6. CASE Outcome(f)
      <3>1. Left(f)' < Left(f)
        BY <1>5, <2>6
      <3>2. BatchInv'
        BY NextBatch
      <3>3. Left(f)' \in Int
        BY <1>1, <3>2 DEF BatchInv, TypeOK, Left
      <3> DEFINE a == Left(f)
                 b == Left(f)'
      <3>4. a \in Nat /\ b \in Int /\ b < a
        BY <1>3, <3>1, <3>3
      <3> HIDE DEF a, b
      <3>5. b <= a
        BY <3>4
      <3> QED BY <3>5 DEF a, b
    <2> QED BY <2>1, <2>3, <2>4, <2>5, <2>6 DEF Next
  <1> QED BY <1>5, <1>6

\* While an item waits every flush ends after MaxRetry + 2 calls at most,
\* however many of them overlap: there are no retries without end.
THEOREM FlushesGoForward == Spec => [][FlushesAdvance]_vars
  <1>1. Init => FlushOwned
    BY DEF Init, FlushOwned, Busy, NoFlush, Slots
  <1>2. Spec => []FlushOwned
    BY <1>1, NextOwned, BatchInvHolds, PTL DEF Spec
  <1> QED BY <1>2, NextFlushesAdvance, BatchInvHolds, PTL DEF Spec
=============================================================================
