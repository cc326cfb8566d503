---------------------------- MODULE BatchService ----------------------------
(***************************************************************************)
(* src/utils/batch.service.ts: items are collected and executed in batches,*)
(* when the batch is full or some time after the last item.                *)
(*                                                                         *)
(* A flush gives executeBatch the array this.items itself and, when it is  *)
(* done, replaces this.items by an empty array.  Nothing keeps two flushes *)
(* apart: each addItem that finds the array full, the timer and any caller *)
(* of flush start one.  A running flush works on the array it started      *)
(* with, which is this.items ("aliased") until another flush replaces it   *)
(* and is then its own.  An element of Items is one call of addItem.       *)
(***************************************************************************)
EXTENDS Naturals, FiniteSets

CONSTANTS
  Items,          \* the items, each added once
  KeyOf,          \* [Items -> keys], getItemUniqueKeyValue
  Flushers,       \* slots for flushes that no addItem awaits
  BatchLength,    \* batchLength
  DefaultLength,  \* batchLength before the options are set
  MaxRetry,       \* MAX_RETRY
  ErrorsThrow     \* may onBatchError throw

ASSUME BatchAssumption ==
  /\ Items \cap Flushers = {}
  /\ IsFiniteSet(Items)
  /\ BatchLength \in Nat \ {0}
  /\ DefaultLength \in Nat \ {0}
  /\ MaxRetry \in Nat
  /\ ErrorsThrow \in BOOLEAN

VARIABLES
  configured,  \* are the options set, a tick after the constructor
  items,       \* this.items
  itemKeys,    \* this.itemKeys
  timer,       \* does autoResolveJobId name a timer that will fire
  retryCount,  \* this.retryCount, shared by all flushes
  adds,        \* the call of addItem of each item
  flushes,     \* the running flushes
  \* history, for the properties
  pushed,      \* items that were pushed
  done,        \* items of a batch executeBatch or onBatchError finished with
  again,       \* items that became done a second time
  late,        \* items pushed while a flush was running
  shared,      \* items that were in this.items while two flushes ran
  early,       \* items pushed before the options were set
  threw        \* has onBatchError thrown

buffer == <<configured, items, itemKeys, timer, retryCount>>
past == <<pushed, done, again, late, shared, early, threw>>
vars == <<buffer, adds, flushes, past>>

-----------------------------------------------------------------------------
Slots == Items \cup Flushers

KeysOf(S) == {KeyOf[i] : i \in S}

\* "awaiting": addItem is about to set the timer.
AddStates == {"new", "flushing", "awaiting", "added", "rejected"}

NoFlush == [pc |-> "idle", aliased |-> FALSE, own |-> {}, seen |-> {}]

FlushStates == [pc : {"idle", "execute", "onError"},
                aliased : BOOLEAN,    \* does it work on this.items
                own : SUBSET Items,   \* its array, when it does not
                seen : SUBSET Items]  \* what the awaited call was given

TypeOK ==
  /\ configured \in BOOLEAN
  /\ items \subseteq Items
  /\ itemKeys \subseteq KeysOf(Items)
  /\ timer \in BOOLEAN
  /\ retryCount \in 0..MaxRetry
  /\ adds \in [Items -> AddStates]
  /\ flushes \in [Slots -> FlushStates]
  /\ {pushed, done, again, late, shared, early} \subseteq SUBSET Items
  /\ threw \in BOOLEAN

Init ==
  /\ configured = FALSE
  /\ items = {}
  /\ itemKeys = {}
  /\ timer = FALSE
  /\ retryCount = 0
  /\ adds = [i \in Items |-> "new"]
  /\ flushes = [f \in Slots |-> NoFlush]
  /\ pushed = {} /\ done = {} /\ again = {}
  /\ late = {} /\ shared = {} /\ early = {}
  /\ threw = FALSE

-----------------------------------------------------------------------------
(* Helpers                                                                 *)

Busy(f) == flushes[f].pc # "idle"

Running == {f \in Slots : Busy(f)}

Array(f) == IF flushes[f].aliased THEN items ELSE flushes[f].own

IsFull(S) ==
  Cardinality(S) >= IF configured THEN BatchLength ELSE DefaultLength

\* flush, with a batch that is not empty: executeBatch gets the array.  The
\* executeBatch there is before the options are set does nothing with it.
StartFlush(f, batch) ==
  /\ flushes' = [flushes EXCEPT ![f] =
                   [pc |-> "execute", aliased |-> TRUE, own |-> {},
                    seen |-> IF configured THEN batch ELSE {}]]

NoteShared ==
  shared' = IF \E f, g \in Slots : /\ f # g
                                   /\ flushes'[f].pc # "idle"
                                   /\ flushes'[g].pc # "idle"
            THEN shared \cup items'
            ELSE shared

\* The flush of f ends; one that addItem awaits lets it go on.
Ended(f, state) ==
  adds' = IF f \in Items THEN [adds EXCEPT ![f] = state] ELSE adds

\* prepareNewBatch: this.items is a new array; the flushes that worked on
\* the old one keep it.
KeepsKeys(f) ==  \* mutant: itemKeys is not reset
  /\ items' = {} /\ retryCount' = 0 /\ timer' = FALSE
  /\ flushes' = [g \in Slots |->
       IF g = f THEN NoFlush
       ELSE IF flushes[g].aliased
       THEN [flushes[g] EXCEPT !.aliased = FALSE, !.own = items]
       ELSE flushes[g]]
  /\ UNCHANGED <<configured, itemKeys>>
KeepsItems(f) ==  \* mutant: this.items is not reset
  /\ itemKeys' = {} /\ retryCount' = 0 /\ timer' = FALSE
  /\ flushes' = [flushes EXCEPT ![f] = NoFlush]
  /\ UNCHANGED <<configured, items>>
PrepareNewBatch(f) ==
  /\ items' = {} /\ itemKeys' = {} /\ retryCount' = 0 /\ timer' = FALSE
  /\ flushes' = [g \in Slots |->
       IF g = f THEN NoFlush
       ELSE IF flushes[g].aliased
       THEN [flushes[g] EXCEPT !.aliased = FALSE, !.own = items]
       ELSE flushes[g]]
  /\ UNCHANGED configured

\* What f gave away last is done with.
Finish(f) ==
  /\ done' = done \cup flushes[f].seen
  /\ again' = again \cup (done \cap flushes[f].seen)
  /\ PrepareNewBatch(f)
  /\ Ended(f, "awaiting")
  /\ UNCHANGED <<pushed, late, shared, early, threw>>

-----------------------------------------------------------------------------
\* The promise the constructor does not wait for: reset sets the options.
Configure ==
  /\ ~configured
  /\ configured' = TRUE
  /\ UNCHANGED <<items, itemKeys, timer, retryCount, adds, flushes, past>>

\* addItem up to its await: a duplicate is not pushed, but a full batch is
\* flushed all the same.
Duplicate(i) == configured /\ KeyOf[i] \in itemKeys

AddItem(i) ==
  LET batch == IF Duplicate(i) THEN items ELSE items \cup {i}
  IN  /\ adds[i] = "new"
      /\ items' = batch
      /\ itemKeys' = IF configured THEN itemKeys \cup {KeyOf[i]} ELSE itemKeys
      /\ pushed' = pushed \cup (batch \ items)
      /\ late' = IF Running = {} THEN late ELSE late \cup (batch \ items)
      /\ early' = IF configured THEN early ELSE early \cup {i}
      /\ IF IsFull(batch)
         THEN /\ StartFlush(i, batch)
              /\ adds' = [adds EXCEPT ![i] = "flushing"]
         ELSE /\ adds' = [adds EXCEPT ![i] = "awaiting"]
              /\ UNCHANGED flushes
      /\ NoteShared
      /\ UNCHANGED <<configured, timer, retryCount, done, again, threw>>

\* After handleFullState: addAutoResolveTask starts the time anew.
AddAutoResolveTask(i) ==
  /\ adds[i] = "awaiting"
  /\ adds' = [adds EXCEPT ![i] = "added"]
  /\ timer' = TRUE
  /\ UNCHANGED <<configured, items, itemKeys, retryCount, flushes, past>>

-----------------------------------------------------------------------------
(* flush and safeExecute                                                   *)

\* flush, called by the timer or by anybody; nothing to do when the batch is
\* empty, but the options start over.
Flush(f) ==
  /\ ~Busy(f)
  /\ IF items # {}
     THEN /\ StartFlush(f, items)
          /\ UNCHANGED <<items, itemKeys, retryCount>>
     ELSE PrepareNewBatch(f)
  /\ NoteShared
  /\ UNCHANGED <<configured, adds, pushed, done, again, late, early, threw>>

CallFlush(f) ==
  /\ Flush(f)
  /\ items # {} => UNCHANGED timer

\* Timers fire when no promise is left to be resolved.
FlushesWhenFull(f) ==  \* mutant: the timer calls handleFullState
  /\ timer /\ configured /\ \A i \in Items : adds[i] # "awaiting"
  /\ IF IsFull(items) THEN Flush(f)
                      ELSE UNCHANGED <<configured, items, itemKeys,
                                       retryCount, adds, flushes, past>>
  /\ timer' = FALSE
TimerFires(f) ==
  /\ timer /\ configured /\ \A i \in Items : adds[i] # "awaiting"
  /\ Flush(f)
  /\ timer' = FALSE

ExecuteBatchReturns(f) ==
  /\ flushes[f].pc = "execute"
  /\ Finish(f)

\* executeBatch throws: it is called again at once, with the array as it is
\* now, or onBatchError is.
OneTooMany == retryCount <= MaxRetry  \* mutant: one retry more
MayRetry == retryCount < MaxRetry

DropOnError(f) ==  \* mutant: the catch block is empty
  /\ flushes[f].pc = "execute" /\ flushes[f].seen # {}
  /\ PrepareNewBatch(f)
  /\ Ended(f, "awaiting")
  /\ UNCHANGED past
ExecuteBatchThrows(f) ==
  /\ flushes[f].pc = "execute" /\ flushes[f].seen # {}
  /\ IF MayRetry
     THEN /\ retryCount' = retryCount + 1
          /\ flushes' = [flushes EXCEPT ![f].seen = Array(f)]
     ELSE /\ flushes' = [flushes EXCEPT ![f].pc = "onError",
                                        ![f].seen = Array(f)]
          /\ UNCHANGED retryCount
  /\ UNCHANGED <<configured, items, itemKeys, timer, adds, past>>

OnBatchErrorReturns(f) ==
  /\ flushes[f].pc = "onError"
  /\ Finish(f)

\* The error leaves flush before prepareNewBatch and addItem before
\* addAutoResolveTask.
OnBatchErrorThrows(f) ==
  /\ ErrorsThrow
  /\ flushes[f].pc = "onError"
  /\ flushes' = [flushes EXCEPT ![f] = NoFlush]
  /\ Ended(f, "rejected")
  /\ threw' = TRUE
  /\ UNCHANGED <<buffer, pushed, done, again, late, shared, early>>

-----------------------------------------------------------------------------
Outcome(f) ==
  \/ ExecuteBatchReturns(f) \/ ExecuteBatchThrows(f)
  \/ OnBatchErrorReturns(f) \/ OnBatchErrorThrows(f)

Next ==
  \/ Configure
  \/ \E i \in Items : AddItem(i) \/ AddAutoResolveTask(i)
  \/ \E f \in Flushers : CallFlush(f) \/ TimerFires(f)
  \/ \E f \in Slots : Outcome(f)

\* Promises are resolved, timers fire, executeBatch and onBatchError end.
Spec ==
  /\ Init /\ [][Next]_vars
  /\ WF_vars(Configure)
  /\ \A i \in Items : WF_vars(AddAutoResolveTask(i))
  /\ WF_vars(\E f \in Flushers : TimerFires(f))
  /\ \A f \in Slots : WF_vars(Outcome(f))

-----------------------------------------------------------------------------
(* Properties                                                              *)

\* An item that was pushed while no flush was running waits in the batch or
\* was given to an executeBatch that returned or to onBatchError, however
\* flushes overlap, fail or throw.  One that is pushed during a flush is
\* dropped with the batch that is not its own, which is what the code does.
NoSilentLoss == pushed \ (late \cup early) \subseteq items \cup done

\* An item is done with once, unless two flushes ran while it was in the
\* batch: a full batch and the timer start one whether another runs or not.
DoneOnce == again \subseteq shared

\* An item is taken for a duplicate exactly of one that still waits in the
\* batch: one that was flushed may be added again.
KeysMatch == itemKeys = KeysOf(items \ early)

\* Every item leaves the batch, unless onBatchError threw: then the timer
\* may be gone and the item waits for the next addItem or flush.
EveryItemLeaves ==
  \A i \in Items : i \in items ~> i \notin items \/ threw
=============================================================================
