------------------------------ MODULE PairFeed ------------------------------
(***************************************************************************)
(* From the feed of pool events to 'lp.created' and 'lp.updated':          *)
(* src/pair-info, that is PairInfoServiceAuto (the filter by TradingMode   *)
(* and one throttle per pair, kept in an LRU cache) and PairInfoService    *)
(* (the row of table pairs, the events it announces).                      *)
(*                                                                         *)
(* The events of a pair are numbered in the order the feed sends them; an  *)
(* event is its number, 0 is none.  A throttle passes an event through and *)
(* then, for one window, keeps only the latest; when the window ends it    *)
(* passes that one on.  A throttle dropped from the cache keeps its timer. *)
(***************************************************************************)
EXTENDS Naturals, Sequences, SequencesExt

CONSTANTS
  Pairs,         \* ids of pairs
  Throttles,     \* slots for throttles, cached or with a timer
  MaxThrottles,  \* capacity of the LRU cache pairThrottles
  Calls,         \* slots for runs of updateOrCreatePool
  MaxEvents,     \* bound: [Pairs -> Nat], events the feed sends of a pair
  MaxCrashes,    \* bound: restarts of the process
  Null           \* no pair

ASSUME FeedAssumption ==
  /\ MaxThrottles \in Nat \ {0}
  /\ MaxEvents \in [Pairs -> Nat]
  /\ MaxCrashes \in Nat
  /\ Null \notin Pairs

VARIABLES
  throttles,  \* the throttles
  cache,      \* pairThrottles: the cached throttles, most recent first
  calls,      \* the runs of updateOrCreatePool
  rows,       \* table pairs: the event each row holds, 0 when there is none
  sent,       \* events the feed has sent
  accepted,   \* the last event of each pair that was let in
  passed,     \* the last event of each pair its throttles passed on
  created,    \* times 'lp.created' was emitted
  updated,    \* the event of the last 'lp.updated', 0 when there is none
  disturbed,  \* pairs whose events more than one throttle or call handled
              \* at a time, or which an error or a restart interrupted
  crashes

vars == <<throttles, cache, calls, rows, sent,
          accepted, passed, created, updated, disturbed, crashes>>

announced == <<created, updated>>

NoThrottle == [pair |-> Null, open |-> FALSE, waiting |-> 0]
NoCall == [pc |-> "idle", pair |-> Null, event |-> 0]

CallPCs == {"idle", "update", "create", "emitCreated", "emitUpdated"}

\* No event is handled before the feed has sent it.
TypeOK ==
  /\ throttles \in [Throttles -> [pair : Pairs \cup {Null}, open : BOOLEAN,
                                  waiting : Nat]]
  /\ cache \in Seq(Throttles) /\ Len(cache) <= MaxThrottles
  /\ calls \in [Calls -> [pc : CallPCs, pair : Pairs \cup {Null},
                          event : Nat]]
  /\ {rows, sent, accepted, passed, updated} \subseteq [Pairs -> Nat]
  /\ \A p \in Pairs :
       /\ {rows[p], accepted[p], passed[p], updated[p]} \subseteq 0..sent[p]
       /\ sent[p] <= MaxEvents[p]
  /\ created \in [Pairs -> 0..2]
  /\ disturbed \subseteq Pairs
  /\ crashes \in 0..MaxCrashes

-----------------------------------------------------------------------------
Init ==
  /\ throttles = [t \in Throttles |-> NoThrottle]
  /\ cache = <<>>
  /\ calls = [c \in Calls |-> NoCall]
  /\ rows = [p \in Pairs |-> 0]
  /\ sent = [p \in Pairs |-> 0]
  /\ accepted = [p \in Pairs |-> 0]
  /\ passed = [p \in Pairs |-> 0]
  /\ created = [p \in Pairs |-> 0]
  /\ updated = [p \in Pairs |-> 0]
  /\ disturbed = {}
  /\ crashes = 0

-----------------------------------------------------------------------------
(* The throttle                                                            *)

CachedOf(p) == {t \in ToSet(cache) : throttles[t].pair = p}

\* The slots of throttles that are neither cached nor waiting for a timer.
FreeThrottles ==
  {t \in Throttles : ~throttles[t].open /\ t \notin ToSet(cache)}

\* pairThrottles.get and set: the throttle comes first, those it was behind
\* move down, and the last one may go.
Place(t) == IF t \in ToSet(cache)
            THEN CHOOSE i \in DOMAIN cache : cache[i] = t
            ELSE Len(cache) + 1

Untrimmed(t) ==  \* mutant: the cache has no capacity
  [i \in 1..(IF Place(t) > Len(cache) THEN Place(t) ELSE Len(cache)) |->
     IF i = 1 THEN t ELSE IF i <= Place(t) THEN cache[i - 1] ELSE cache[i]]
Touched(t) ==
  [i \in 1..(IF Place(t) > Len(cache) /\ Len(cache) < MaxThrottles
             THEN Len(cache) + 1 ELSE Len(cache)) |->
     IF i = 1 THEN t ELSE IF i <= Place(t) THEN cache[i - 1] ELSE cache[i]]

\* The pairs whose throttle t evicts although its window is still open.
Evicted(t) ==
  {throttles[u].pair : u \in {w \in ToSet(cache) \ ToSet(Touched(t)) :
                                throttles[w].open}}

Running(p) == \E c \in Calls : calls[c].pair = p

\* A throttle passes the event n of p on: updateOrCreatePool starts.
Pass(p, n) ==
  /\ \E c \in Calls :
       /\ calls[c].pc = "idle"
       /\ calls' = [calls EXCEPT ![c] = [pc |-> "update", pair |-> p,
                                         event |-> n]]
  /\ passed' = [passed EXCEPT ![p] = n]

\* The call of throttle t with event n.
KeepsFirst(th, n) ==  \* mutant: the first event of a window is kept
  [th EXCEPT !.waiting = IF @ = 0 THEN n ELSE @]
Waiting(th, n) == [th EXCEPT !.waiting = n]

Throttle(t, p, n) ==
  LET th == IF t \in ToSet(cache) THEN throttles[t]
                                  ELSE [NoThrottle EXCEPT !.pair = p]
  IN  /\ cache' = Touched(t)
      /\ IF th.open
         THEN /\ throttles' = [throttles EXCEPT ![t] = Waiting(th, n)]
              /\ disturbed' = disturbed \cup Evicted(t)
              /\ UNCHANGED <<calls, passed>>
         ELSE /\ throttles' = [throttles EXCEPT ![t] =
                                 [th EXCEPT !.open = TRUE]]
              /\ Pass(p, n)
              /\ disturbed' = disturbed \cup Evicted(t)
                                \cup {q \in {p} : Running(q)}

\* handlePairEvent: the next event of p.  shouldHandlePair lets it in or not,
\* as the mode of TradingMode and its red list, which change at any time, say.
HandlePairEvent(p) ==
  LET n == sent[p] + 1
  IN  /\ sent[p] < MaxEvents[p]
      /\ sent' = [sent EXCEPT ![p] = n]
      /\ \/ /\ accepted' = [accepted EXCEPT ![p] = n]
            /\ \E t \in IF CachedOf(p) # {} THEN CachedOf(p)
                                            ELSE FreeThrottles :
                 Throttle(t, p, n)
         \/ UNCHANGED <<accepted, throttles, cache, calls, passed,
                        disturbed>>
      /\ UNCHANGED <<rows, announced, crashes>>

\* The window of t ends.  The event that waited is passed on; whether the
\* next one then waits again depends on when the previous call came.
TrailingDropped(t) ==  \* mutant: { trailing: false }
  /\ throttles[t].open
  /\ throttles' = [throttles EXCEPT ![t].open = FALSE, ![t].waiting = 0]
  /\ UNCHANGED <<cache, calls, rows, sent, accepted, passed,
                 announced, disturbed, crashes>>
StaleWaiting(t) ==  \* mutant: the event that waited is passed on again
  LET p == throttles[t].pair
      n == throttles[t].waiting
  IN  /\ throttles[t].open /\ n # 0
      /\ Pass(p, n)
      /\ throttles' = [throttles EXCEPT ![t].open = FALSE]
      /\ disturbed' = disturbed \cup {q \in {p} : Running(q)}
      /\ UNCHANGED <<cache, rows, sent, accepted, announced, crashes>>
WindowEnds(t) ==
  LET p == throttles[t].pair
      n == throttles[t].waiting
  IN  /\ throttles[t].open
      /\ IF n = 0
         THEN /\ throttles' = [throttles EXCEPT ![t].open = FALSE]
              /\ UNCHANGED <<calls, passed, disturbed>>
         ELSE /\ Pass(p, n)
              /\ \E open \in BOOLEAN :
                   throttles' = [throttles EXCEPT ![t].open = open,
                                                  ![t].waiting = 0]
              /\ disturbed' = disturbed \cup {q \in {p} : Running(q)}
      /\ UNCHANGED <<cache, rows, sent, accepted, announced,
                     crashes>>

-----------------------------------------------------------------------------
(* updateOrCreatePool and createPool                                       *)

EndCall(c) == calls' = [calls EXCEPT ![c] = NoCall]
Goto(c, pc) == calls' = [calls EXCEPT ![c].pc = pc]

Store(c) == rows' = [rows EXCEPT ![calls[c].pair] = calls[c].event]

\* pair.update; without a row the pool is created, unless it is too old.
UpsertPool(c) ==  \* mutant: a pair without a row is announced as updated
  /\ calls[c].pc = "update"
  /\ Store(c) /\ Goto(c, "emitUpdated")
  /\ UNCHANGED <<throttles, cache, sent, accepted, passed,
                 announced, disturbed, crashes>>
UpdatePool(c) ==
  LET p == calls[c].pair
  IN  /\ calls[c].pc = "update"
      /\ IF rows[p] # 0
         THEN Store(c) /\ Goto(c, "emitUpdated")
         ELSE UNCHANGED rows /\ (Goto(c, "create") \/ EndCall(c))
      /\ UNCHANGED <<throttles, cache, sent, accepted, passed,
                     announced, disturbed, crashes>>

\* pair.create; the key is unique and a duplicate is skipped.
DuplicateAnnounced(c) ==  \* mutant: a duplicate is announced too
  /\ calls[c].pc = "create"
  /\ Goto(c, "emitCreated")
  /\ Store(c)
  /\ UNCHANGED <<throttles, cache, sent, accepted, passed,
                 announced, disturbed, crashes>>
CreatePool(c) ==
  /\ calls[c].pc = "create"
  /\ IF rows[calls[c].pair] = 0
     THEN Store(c) /\ Goto(c, "emitCreated")
     ELSE UNCHANGED rows /\ EndCall(c)
  /\ UNCHANGED <<throttles, cache, sent, accepted, passed,
                 announced, disturbed, crashes>>

\* The database throws: the error is logged.
DbError(c) ==
  /\ calls[c].pc \in {"update", "create"}
  /\ EndCall(c)
  /\ disturbed' = disturbed \cup {calls[c].pair}
  /\ UNCHANGED <<throttles, cache, rows, sent, accepted, passed,
                 announced, crashes>>

OnPoolCreated(c) ==
  /\ calls[c].pc = "emitCreated"
  /\ created' = [created EXCEPT ![calls[c].pair] = IF @ < 2 THEN @ + 1 ELSE @]
  /\ EndCall(c)
  /\ UNCHANGED <<throttles, cache, rows, sent, accepted, passed,
                 updated, disturbed, crashes>>

OnPoolUpdated(c) ==
  /\ calls[c].pc = "emitUpdated"
  /\ updated' = [updated EXCEPT ![calls[c].pair] = calls[c].event]
  /\ EndCall(c)
  /\ UNCHANGED <<throttles, cache, rows, sent, accepted, passed,
                 created, disturbed, crashes>>

-----------------------------------------------------------------------------
\* The process stops and starts again.
Crash ==
  /\ crashes < MaxCrashes
  /\ crashes' = crashes + 1
  /\ throttles' = [t \in Throttles |-> NoThrottle]
  /\ cache' = <<>>
  /\ calls' = [c \in Calls |-> NoCall]
  /\ disturbed' = disturbed
       \cup {p \in Pairs : \/ Running(p)
                           \/ \E t \in Throttles : throttles[t].pair = p
                                                     /\ throttles[t].open}
  /\ UNCHANGED <<rows, sent, accepted, passed, announced>>

Call(c) ==
  \/ UpdatePool(c) \/ CreatePool(c) \/ DbError(c)
  \/ OnPoolCreated(c) \/ OnPoolUpdated(c)

Next ==
  \/ \E p \in Pairs : HandlePairEvent(p)
  \/ \E t \in Throttles : WindowEnds(t)
  \/ \E c \in Calls : Call(c)
  \/ Crash

\* Timers fire and the calls of the database return.
Spec ==
  /\ Init /\ [][Next]_vars
  /\ \A t \in Throttles : WF_vars(WindowEnds(t))
  /\ \A c \in Calls : WF_vars(Call(c))

-----------------------------------------------------------------------------
(* Properties                                                              *)

\* 'lp.created' is emitted at most once per pair, whatever overlaps, fails
\* or restarts: the trading core relies on it to start one flow per pair.
CreatedAtMostOnce == \A p \in Pairs : created[p] <= 1

\* One throttle at a time passes the events of a pair on in the order the
\* feed sent them: an event never comes after a newer one.
PassedInOrder ==
  [][\A p \in Pairs : p \notin disturbed' => passed'[p] >= passed[p]]_vars

\* When everything of an undisturbed pair has come to rest, its row, if any,
\* holds the last event that was let in, and the last 'lp.updated' was that
\* of the row: the trading core does not decide on an older price.
FreshWhenQuiet ==
  \A p \in Pairs :
    /\ p \notin disturbed /\ rows[p] # 0
    /\ ~Running(p)
    /\ \A t \in Throttles : throttles[t].pair = p => throttles[t].waiting = 0
    => rows[p] = accepted[p] /\ (updated[p] # 0 => updated[p] = rows[p])

\* The core hears of an undisturbed pair as created before it hears of an
\* update of it.
CreatedBeforeUpdated ==
  \A p \in Pairs \ disturbed : updated[p] # 0 => created[p] = 1

\* What the core hears is what Announcements promises: of every pair one
\* creation at most, and of an undisturbed pair first the creation and then
\* updates that do not go back in time.
Promise == INSTANCE Announcements WITH
  Events <- UNION {1..MaxEvents[p] : p \in Pairs},
  inOrder <- Pairs \ disturbed

ImplementsAnnouncements == Promise!Spec

\* An event that waits in a throttle, or a later one, is passed on, unless
\* the process stops; a throttle that was dropped from the cache still does.
AcceptedIsPassed ==
  \A t \in Throttles, p \in Pairs : \A n \in 1..MaxEvents[p] :
    throttles[t].pair = p /\ throttles[t].waiting = n
      ~> passed[p] >= n \/ crashes > 0
=============================================================================
