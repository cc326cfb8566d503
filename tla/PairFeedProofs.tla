--------------------------- MODULE PairFeedProofs ---------------------------
(* Theorems about PairFeed, for any number of pairs, throttles, calls,     *)
(* events and restarts: its types, what the core hears once and in order,  *)
(* what rests when everything rests, the refinement of Announcements, and  *)
(* that a waiting event is passed on when its timer fires.                 *)
EXTENDS PairFeed, TLAPS

\* The types the argument needs.
FeedTyped ==
  /\ calls \in [Calls -> [pc : CallPCs, pair : Pairs \cup {Null}, event : Nat]]
  /\ throttles \in [Throttles -> [pair : Pairs \cup {Null}, open : BOOLEAN,
                                  waiting : Nat]]
  /\ rows \in [Pairs -> Nat]
  /\ sent \in [Pairs -> Nat]
  /\ created \in [Pairs -> Nat]
  /\ \A t \in Throttles : throttles[t].open => throttles[t].pair \in Pairs
  /\ \A c \in Calls : calls[c].pc # "idle" => /\ calls[c].pair \in Pairs
                                              /\ calls[c].event > 0

\* The row tells whether the creation of a pair is or will be announced, and
\* one call at most is about to do so.
AnnouncedOnce ==
  /\ \A p \in Pairs : created[p] <= 1 /\ (created[p] > 0 => rows[p] > 0)
  /\ \A c \in Calls :
       calls[c].pc = "emitCreated"
         => rows[calls[c].pair] > 0 /\ created[calls[c].pair] = 0
  /\ \A c, d \in Calls :
       /\ calls[c].pc = "emitCreated" /\ calls[d].pc = "emitCreated"
       /\ calls[c].pair = calls[d].pair
       => c = d

FeedInv == FeedTyped /\ AnnouncedOnce

LEMMA InitFeed == Init => FeedInv
BY DEF Init, FeedInv, FeedTyped, AnnouncedOnce, NoThrottle, NoCall, CallPCs

-----------------------------------------------------------------------------
\* A throttle that passes an event on starts a call, which is no creation yet.
LEMMA PassKeeps ==
  ASSUME FeedInv, NEW p \in Pairs, NEW n \in Nat, n > 0, Pass(p, n),
         UNCHANGED <<rows, created>>
  PROVE  /\ calls' \in [Calls -> [pc : CallPCs, pair : Pairs \cup {Null},
                                  event : Nat]]
         /\ \A c \in Calls : calls'[c].pc # "idle" =>
              calls'[c].pair \in Pairs /\ calls'[c].event > 0
         /\ AnnouncedOnce'
<1> DEFINE new == [pc |-> "update", pair |-> p, event |-> n]
<1>1. PICK c \in Calls : calls' = [calls EXCEPT ![c] = new]
  BY DEF Pass
<1>2. \A d \in Calls : calls'[d] = IF d = c THEN new ELSE calls[d]
  BY <1>1 DEF FeedInv, FeedTyped
<1>3. new \in [pc : CallPCs, pair : Pairs \cup {Null}, event : Nat]
  BY DEF CallPCs
<1>4. calls' \in [Calls -> [pc : CallPCs, pair : Pairs \cup {Null},
                            event : Nat]]
  BY <1>1, <1>3 DEF FeedInv, FeedTyped
<1>5. \A d \in Calls : calls'[d].pc # "idle" =>
        calls'[d].pair \in Pairs /\ calls'[d].event > 0
  BY <1>2 DEF FeedInv, FeedTyped
<1>6. AnnouncedOnce'
  BY <1>2 DEF FeedInv, AnnouncedOnce
<1> QED
  BY <1>4, <1>5, <1>6

\* A throttle is called with the next event of its pair.  Nothing is known
\* of the cache: a slot outside Throttles would change no throttle.
LEMMA ThrottleKeeps ==
  ASSUME FeedInv, NEW p \in Pairs, NEW n \in Nat, n > 0,
         NEW t \in CachedOf(p) \cup FreeThrottles, Throttle(t, p, n),
         UNCHANGED <<rows, created>>, sent' \in [Pairs -> Nat]
  PROVE  FeedInv'
<1> DEFINE th == IF t \in ToSet(cache) THEN throttles[t]
                                       ELSE [NoThrottle EXCEPT !.pair = p]
           Shape == [pair : Pairs \cup {Null}, open : BOOLEAN, waiting : Nat]
<1>1. t \in Throttles => th \in Shape /\ th.pair = p
  <2>1. CASE t \in ToSet(cache)
    BY <2>1 DEF FeedInv, FeedTyped, CachedOf, FreeThrottles
  <2>2. CASE t \notin ToSet(cache)
    BY <2>2 DEF NoThrottle
  <2> QED
    BY <2>1, <2>2
<1>2. CASE th.open
  <2>1. throttles' = [throttles EXCEPT ![t] = [th EXCEPT !.waiting = n]]
    BY <1>2 DEF Throttle, Waiting
  <2>2. calls' = calls
    BY <1>2 DEF Throttle
  <2> HIDE DEF th
  <2>3. t \in Throttles => /\ [th EXCEPT !.waiting = n] \in Shape
                           /\ [th EXCEPT !.waiting = n].pair = p
    BY <1>1
  <2>4. FeedTyped'
    BY <2>1, <2>2, <2>3 DEF FeedInv, FeedTyped
  <2>5. AnnouncedOnce'
    BY <2>2 DEF FeedInv, AnnouncedOnce
  <2> QED
    BY <2>4, <2>5 DEF FeedInv
<1>3. CASE ~th.open
  <2>1. throttles' = [throttles EXCEPT ![t] = [th EXCEPT !.open = TRUE]]
    BY <1>3 DEF Throttle
  <2>2. Pass(p, n)
    BY <1>3 DEF Throttle
  <2> HIDE DEF th
  <2>3. t \in Throttles => /\ [th EXCEPT !.open = TRUE] \in Shape
                           /\ [th EXCEPT !.open = TRUE].pair = p
    BY <1>1
  <2>4. /\ throttles' \in [Throttles -> Shape]
        /\ \A u \in Throttles : throttles'[u].open
                                  => throttles'[u].pair \in Pairs
    BY <2>1, <2>3 DEF FeedInv, FeedTyped
  <2> QED
    BY <2>2, <2>4, PassKeeps DEF FeedInv, FeedTyped
<1> QED
  BY <1>2, <1>3

LEMMA HandlePairEventKeeps ==
  ASSUME FeedInv, NEW p \in Pairs, HandlePairEvent(p)
  PROVE  FeedInv'
<1> DEFINE n == sent[p] + 1
<1>1. n \in Nat /\ n > 0
  BY DEF FeedInv, FeedTyped
<1>2. sent' = [sent EXCEPT ![p] = n] /\ UNCHANGED <<rows, created>>
  BY DEF HandlePairEvent, announced
<1>3. sent' \in [Pairs -> Nat]
  BY <1>1, <1>2 DEF FeedInv, FeedTyped
<1>4. CASE UNCHANGED <<throttles, calls>>
  BY <1>2, <1>3, <1>4 DEF FeedInv, FeedTyped, AnnouncedOnce
<1>5. ASSUME NEW t \in CachedOf(p) \cup FreeThrottles, Throttle(t, p, n)
      PROVE  FeedInv'
  <2> HIDE DEF n
  <2> QED
    BY <1>1, <1>2, <1>3, <1>5, ThrottleKeeps
<1> QED
  BY <1>4, <1>5 DEF HandlePairEvent

\* The end of a window; the slot's pair is one of Pairs because it is open.
LEMMA WindowEndsKeeps ==
  ASSUME FeedInv, NEW t \in Throttles, WindowEnds(t)
  PROVE  FeedInv'
<1> DEFINE p == throttles[t].pair
           n == throttles[t].waiting
<1>1. p \in Pairs /\ n \in Nat /\ UNCHANGED <<rows, sent, created>>
  BY DEF FeedInv, FeedTyped, WindowEnds, announced
<1>2. /\ throttles' \in [Throttles -> [pair : Pairs \cup {Null},
                                       open : BOOLEAN, waiting : Nat]]
      /\ \A u \in Throttles : throttles'[u].open
                                => throttles'[u].pair \in Pairs
  <2>1. CASE throttles' = [throttles EXCEPT ![t].open = FALSE]
    BY <2>1 DEF FeedInv, FeedTyped
  <2>2. ASSUME NEW open \in BOOLEAN,
               throttles' = [throttles EXCEPT ![t].open = open,
                                              ![t].waiting = 0]
        PROVE  <1>2
    BY <1>1, <2>2 DEF FeedInv, FeedTyped
  <2> QED
    BY <2>1, <2>2 DEF WindowEnds
<1>3. CASE n = 0
  <2>1. calls' = calls
    BY <1>3 DEF WindowEnds
  <2> QED
    BY <1>1, <1>2, <2>1 DEF FeedInv, FeedTyped, AnnouncedOnce
<1>4. CASE n # 0
  <2>1. Pass(p, n) /\ n > 0
    BY <1>1, <1>4 DEF WindowEnds
  <2> HIDE DEF p, n
  <2> QED
    BY <1>1, <1>2, <2>1, PassKeeps DEF FeedInv, FeedTyped
<1> QED
  BY <1>3, <1>4

-----------------------------------------------------------------------------
\* A call keeps its pair and its event until it ends.
LEMMA CallMoves ==
  ASSUME FeedInv, NEW c \in Calls, calls[c].pc # "idle",
         NEW pc \in CallPCs \ {"idle"}, Goto(c, pc) \/ EndCall(c)
  PROVE  /\ calls' \in [Calls -> [pc : CallPCs, pair : Pairs \cup {Null},
                                  event : Nat]]
         /\ \A d \in Calls : calls'[d].pc # "idle" =>
              calls'[d].pair \in Pairs /\ calls'[d].event > 0
         /\ \A d \in Calls \ {c} : calls'[d] = calls[d]
         /\ Goto(c, pc) => /\ calls'[c].pc = pc
                           /\ calls'[c].pair = calls[c].pair
         /\ EndCall(c) => calls'[c].pc = "idle"
<1>1. NoCall \in [pc : CallPCs, pair : Pairs \cup {Null}, event : Nat]
  BY DEF NoCall, CallPCs
<1>2. CASE Goto(c, pc)
  <2>1. calls' = [calls EXCEPT ![c].pc = pc]
    BY <1>2 DEF Goto
  <2>2. ~EndCall(c)
    BY <2>1 DEF EndCall, NoCall, FeedInv, FeedTyped
  <2> QED
    BY <1>2, <2>1, <2>2 DEF FeedInv, FeedTyped
<1>3. CASE EndCall(c)
  <2>1. calls' = [calls EXCEPT ![c] = NoCall]
    BY <1>3 DEF EndCall
  <2>2. calls'[c].pc = "idle"
    BY <2>1 DEF NoCall, FeedInv, FeedTyped
  <2>3. ~Goto(c, pc)
    BY <2>2 DEF Goto, FeedInv, FeedTyped
  <2> QED
    BY <1>1, <1>3, <2>1, <2>2, <2>3 DEF FeedInv, FeedTyped
<1> QED
  BY <1>2, <1>3

\* Every step of a call.  CreatePool relies on the row: without one nothing
\* was announced and no other call is about to announce.
LEMMA CallKeeps ==
  ASSUME FeedInv, NEW c \in Calls, Call(c)
  PROVE  FeedInv'
<1> DEFINE p == calls[c].pair
<1>1. CASE UpdatePool(c)
  <2>1. calls[c].pc = "update" /\ p \in Pairs /\ calls[c].event > 0
        /\ calls[c].event \in Nat /\ UNCHANGED <<throttles, sent, created>>
    BY <1>1 DEF UpdatePool, FeedInv, FeedTyped, announced
  <2>2. CASE rows[p] # 0
    <3>1. Store(c) /\ Goto(c, "emitUpdated")
      BY <1>1, <2>2 DEF UpdatePool
    <3>2. rows' = [rows EXCEPT ![p] = calls[c].event]
      BY <3>1 DEF Store
    <3>3. FeedTyped'
      BY <2>1, <3>1, <3>2, CallMoves DEF FeedInv, FeedTyped, CallPCs
    <3>4. AnnouncedOnce'
      BY <2>1, <3>1, <3>2, CallMoves
      DEF FeedInv, FeedTyped, AnnouncedOnce, CallPCs
    <3> QED
      BY <3>3, <3>4 DEF FeedInv
  <2>3. CASE rows[p] = 0
    <3>1. rows' = rows /\ (Goto(c, "create") \/ EndCall(c))
      BY <1>1, <2>3 DEF UpdatePool
    <3>2. FeedTyped'
      BY <2>1, <3>1, CallMoves DEF FeedInv, FeedTyped, CallPCs
    <3>3. AnnouncedOnce'
      BY <2>1, <3>1, CallMoves DEF FeedInv, FeedTyped, AnnouncedOnce, CallPCs
    <3> QED
      BY <3>2, <3>3 DEF FeedInv
  <2> QED
    BY <2>2, <2>3
<1>2. CASE CreatePool(c)
  <2>1. calls[c].pc = "create" /\ p \in Pairs /\ calls[c].event > 0
        /\ calls[c].event \in Nat /\ UNCHANGED <<throttles, sent, created>>
    BY <1>2 DEF CreatePool, FeedInv, FeedTyped, announced
  <2>2. CASE rows[p] = 0
    <3>1. Store(c) /\ Goto(c, "emitCreated")
      BY <1>2, <2>2 DEF CreatePool
    <3>2. rows' = [rows EXCEPT ![p] = calls[c].event]
      BY <3>1 DEF Store
    <3>3. FeedTyped'
      BY <2>1, <3>1, <3>2, CallMoves DEF FeedInv, FeedTyped, CallPCs
    <3>4. /\ created[p] = 0
          /\ \A d \in Calls : ~(calls[d].pc = "emitCreated"
                                  /\ calls[d].pair = p)
      BY <2>1, <2>2 DEF FeedInv, FeedTyped, AnnouncedOnce
    <3>5. /\ calls'[c].pc = "emitCreated" /\ calls'[c].pair = p
          /\ \A d \in Calls \ {c} : calls'[d] = calls[d]
      BY <2>1, <3>1, CallMoves DEF CallPCs
    <3>6. \A q \in Pairs : rows[q] > 0 => rows'[q] > 0
      BY <2>1, <3>2 DEF FeedInv, FeedTyped
    <3>7. rows'[p] > 0
      BY <2>1, <3>2 DEF FeedInv, FeedTyped
    <3>8. AnnouncedOnce'
      <4>1. \A q \in Pairs : created'[q] <= 1
                               /\ (created'[q] > 0 => rows'[q] > 0)
        BY <2>1, <3>6 DEF FeedInv, AnnouncedOnce
      <4>2. \A d \in Calls : calls'[d].pc = "emitCreated"
              => rows'[calls'[d].pair] > 0 /\ created'[calls'[d].pair] = 0
        BY <2>1, <3>4, <3>5, <3>6, <3>7 DEF FeedInv, FeedTyped, AnnouncedOnce
      <4>3. \A d, e \in Calls :
              /\ calls'[d].pc = "emitCreated" /\ calls'[e].pc = "emitCreated"
              /\ calls'[d].pair = calls'[e].pair
              => d = e
        BY <3>4, <3>5 DEF FeedInv, AnnouncedOnce
      <4> QED
        BY <4>1, <4>2, <4>3 DEF AnnouncedOnce
    <3> QED
      BY <3>3, <3>8 DEF FeedInv
  <2>3. CASE rows[p] # 0
    <3>1. rows' = rows /\ EndCall(c)
      BY <1>2, <2>3 DEF CreatePool
    <3>2. FeedTyped'
      BY <2>1, <3>1, CallMoves DEF FeedInv, FeedTyped, CallPCs
    <3>3. \A d \in Calls : calls'[d].pc = "emitCreated"
                             => calls'[d] = calls[d]
      BY <2>1, <3>1, CallMoves DEF CallPCs
    <3>4. AnnouncedOnce'
      BY <2>1, <3>1, <3>3 DEF FeedInv, AnnouncedOnce
    <3> QED
      BY <3>2, <3>4 DEF FeedInv
  <2> QED
    BY <2>2, <2>3
<1>3. CASE DbError(c) \/ OnPoolUpdated(c)
  <2>1. /\ calls[c].pc # "idle" /\ EndCall(c)
        /\ UNCHANGED <<throttles, sent, rows, created>>
    BY <1>3 DEF DbError, OnPoolUpdated, announced
  <2>2. FeedTyped'
    BY <2>1, CallMoves DEF FeedInv, FeedTyped, CallPCs
  <2>3. AnnouncedOnce'
    BY <2>1, CallMoves DEF FeedInv, FeedTyped, AnnouncedOnce, CallPCs
  <2> QED
    BY <2>2, <2>3 DEF FeedInv
<1>4. CASE OnPoolCreated(c)
  <2>1. /\ calls[c].pc = "emitCreated" /\ p \in Pairs /\ EndCall(c)
        /\ UNCHANGED <<throttles, sent, rows>>
    BY <1>4 DEF OnPoolCreated, FeedInv, FeedTyped
  <2>2. created[p] = 0 /\ rows[p] > 0
    BY <2>1 DEF FeedInv, AnnouncedOnce
  <2>3. created' = [created EXCEPT ![p] = 1]
    BY <1>4, <2>1, <2>2 DEF OnPoolCreated, FeedInv, FeedTyped
  <2>4. FeedTyped'
    BY <2>1, <2>3, CallMoves DEF FeedInv, FeedTyped, CallPCs
  <2>5. \A d \in Calls : ~(calls'[d].pc = "emitCreated"
                             /\ calls'[d].pair = p)
    BY <2>1, CallMoves DEF FeedInv, FeedTyped, AnnouncedOnce, CallPCs
  <2>6. \A d \in Calls : calls'[d].pc = "emitCreated"
                           => calls'[d] = calls[d] /\ calls[d].pair \in Pairs
    BY <2>1, CallMoves DEF FeedInv, FeedTyped, CallPCs
  <2>7. \A q \in Pairs : created'[q] = IF q = p THEN 1 ELSE created[q]
    BY <2>1, <2>3 DEF FeedInv, FeedTyped
  <2>8. AnnouncedOnce'
    BY <2>1, <2>2, <2>5, <2>6, <2>7 DEF FeedInv, AnnouncedOnce
  <2> QED
    BY <2>4, <2>8 DEF FeedInv
<1> QED
  BY <1>1, <1>2, <1>3, <1>4 DEF Call

LEMMA CrashKeeps == FeedInv /\ Crash => FeedInv'
<1> SUFFICES ASSUME FeedInv, Crash PROVE FeedInv'
  OBVIOUS
<1>1. NoCall \in [pc : CallPCs, pair : Pairs \cup {Null}, event : Nat]
      /\ NoCall.pc = "idle"
  BY DEF NoCall, CallPCs
<1>2. calls' = [c \in Calls |-> NoCall]
      /\ throttles' = [t \in Throttles |-> NoThrottle]
      /\ UNCHANGED <<rows, sent, created>>
  BY DEF Crash, announced
<1> QED
  BY <1>1, <1>2 DEF FeedInv, FeedTyped, AnnouncedOnce, NoThrottle

LEMMA NextFeed == FeedInv /\ [Next]_vars => FeedInv'
<1> SUFFICES ASSUME FeedInv, [Next]_vars PROVE FeedInv'
  OBVIOUS
<1>1. CASE UNCHANGED vars
  BY <1>1 DEF vars, FeedInv, FeedTyped, AnnouncedOnce
<1>2. CASE Next
  BY <1>2, HandlePairEventKeeps, WindowEndsKeeps, CallKeeps, CrashKeeps
  DEF Next
<1> QED
  BY <1>1, <1>2

-----------------------------------------------------------------------------
\* 'lp.created' is emitted at most once per pair, for any numbers of pairs,
\* events, overlapping calls and restarts: the core starts one flow per pair.
THEOREM CreatedOnce == Spec => []CreatedAtMostOnce
<1>1. Init => FeedInv
  BY InitFeed
<1>2. FeedInv /\ [Next]_vars => FeedInv'
  BY NextFeed
<1>3. FeedInv => CreatedAtMostOnce
  BY DEF FeedInv, AnnouncedOnce, CreatedAtMostOnce
<1> QED
  BY <1>1, <1>2, <1>3, PTL DEF Spec

-----------------------------------------------------------------------------
(* Created before updated                                                  *)

\* A pair whose events one call at a time handles: its row exists when its
\* creation was announced, or is about to be by that call, and an update is
\* announced only once the creation was.
Ordered(p) ==
  /\ \A c, d \in Calls : calls[c].pair = p /\ calls[d].pair = p => c = d
  /\ rows[p] # 0 => \/ created[p] = 1
                    \/ \E c \in Calls : /\ calls[c].pc = "emitCreated"
                                        /\ calls[c].pair = p
  /\ updated[p] # 0 => created[p] = 1
  /\ \A c \in Calls :
       calls[c].pc = "emitUpdated" /\ calls[c].pair = p => created[p] = 1

OrderInv ==
  /\ updated \in [Pairs -> Nat]
  /\ \A c \in Calls : calls[c].pc = "idle" => calls[c].pair = Null
  /\ \A p \in Pairs \ disturbed : Ordered(p)

LEMMA InitOrder == Init => OrderInv
BY FeedAssumption DEF Init, OrderInv, Ordered, NoCall, FeedAssumption

\* A step that leaves the calls, the rows and the announcements alone.
LEMMA OrderStays ==
  ASSUME OrderInv, UNCHANGED <<calls, rows, created, updated>>,
         disturbed \subseteq disturbed'
  PROVE  OrderInv'
<1>1. \A p \in Pairs : Ordered(p) => Ordered(p)'
  BY DEF Ordered
<1> QED
  BY <1>1 DEF OrderInv

\* A call that starts while another one of its pair runs disturbs the pair.
LEMMA PassOrders ==
  ASSUME FeedInv, OrderInv, NEW p \in Pairs, NEW n \in Nat, Pass(p, n),
         UNCHANGED <<rows, created, updated>>,
         disturbed \subseteq disturbed', Running(p) => p \in disturbed'
  PROVE  OrderInv'
<1> DEFINE new == [pc |-> "update", pair |-> p, event |-> n]
<1>1. PICK c \in Calls : calls[c].pc = "idle"
                           /\ calls' = [calls EXCEPT ![c] = new]
  BY DEF Pass
<1>2. \A d \in Calls : calls'[d] = IF d = c THEN new ELSE calls[d]
  BY <1>1 DEF FeedInv, FeedTyped
<1>3. new.pc = "update" /\ new.pair = p
  OBVIOUS
<1> HIDE DEF new
<1>4. ASSUME NEW q \in Pairs \ disturbed'
      PROVE  Ordered(q)'
  <2>1. Ordered(q)
    BY <1>4 DEF OrderInv
  <2>2. \A d, e \in Calls :
          calls'[d].pair = q /\ calls'[e].pair = q => d = e
    BY <1>2, <1>3, <1>4, <2>1 DEF Ordered, Running
  <2>3. \A d \in Calls : calls[d].pc = "emitCreated" /\ calls[d].pair = q
          => calls'[d] = calls[d]
    BY <1>1, <1>2
  <2>4. \A d \in Calls : calls'[d].pc = "emitUpdated" => calls'[d] = calls[d]
    BY <1>2, <1>3
  <2> QED
    BY <2>1, <2>2, <2>3, <2>4 DEF Ordered
<1>5. \A d \in Calls : calls'[d].pc = "idle" => calls'[d].pair = Null
  BY <1>2, <1>3 DEF OrderInv
<1> QED
  BY <1>4, <1>5 DEF OrderInv

LEMMA HandlePairEventOrders ==
  ASSUME FeedInv, OrderInv, NEW p \in Pairs, HandlePairEvent(p)
  PROVE  OrderInv'
<1> DEFINE n == sent[p] + 1
<1>1. n \in Nat /\ UNCHANGED <<rows, created, updated>>
  BY DEF FeedInv, FeedTyped, HandlePairEvent, announced
<1>2. CASE UNCHANGED <<calls, disturbed>>
  BY <1>1, <1>2, OrderStays
<1>3. ASSUME NEW t, Throttle(t, p, n)
      PROVE  OrderInv'
  <2>1. CASE UNCHANGED calls
    BY <1>1, <1>3, <2>1, OrderStays DEF Throttle
  <2>2. CASE Pass(p, n) /\ disturbed' = disturbed \cup Evicted(t)
                                          \cup {q \in {p} : Running(q)}
    <3>1. disturbed \subseteq disturbed' /\ (Running(p) => p \in disturbed')
      BY <2>2
    <3> HIDE DEF n
    <3> QED
      BY <1>1, <2>2, <3>1, PassOrders
  <2> QED
    BY <1>3, <2>1, <2>2 DEF Throttle
<1> QED
  BY <1>2, <1>3 DEF HandlePairEvent

LEMMA WindowEndsOrders ==
  ASSUME FeedInv, OrderInv, NEW t \in Throttles, WindowEnds(t)
  PROVE  OrderInv'
<1> DEFINE p == throttles[t].pair
           n == throttles[t].waiting
<1>1. p \in Pairs /\ n \in Nat /\ UNCHANGED <<rows, created, updated>>
  BY DEF FeedInv, FeedTyped, WindowEnds, announced
<1>2. CASE n = 0
  BY <1>1, <1>2, OrderStays DEF WindowEnds
<1>3. CASE n # 0
  <2>1. Pass(p, n) /\ disturbed' = disturbed \cup {q \in {p} : Running(q)}
    BY <1>3 DEF WindowEnds
  <2>2. disturbed \subseteq disturbed' /\ (Running(p) => p \in disturbed')
    BY <2>1
  <2> HIDE DEF p, n
  <2> QED
    BY <1>1, <2>1, <2>2, PassOrders
<1> QED
  BY <1>2, <1>3

\* A call that goes on is still the only one of its pair.
LEMMA AloneStays ==
  ASSUME FeedInv, OrderInv, NEW c \in Calls, calls[c].pc # "idle",
         NEW pc \in CallPCs \ {"idle"}, Goto(c, pc) \/ EndCall(c)
  PROVE  /\ \A d \in Calls : calls'[d].pair \in {calls[d].pair, Null}
         /\ \A d \in Calls : calls'[d].pc = "idle" => calls'[d].pair = Null
         /\ \A p \in Pairs : \A d, e \in Calls :
              /\ calls[d].pair = p /\ calls[e].pair = p => d = e
              => (calls'[d].pair = p /\ calls'[e].pair = p => d = e)
<1>1. \A d \in Calls \ {c} : calls'[d] = calls[d]
  BY CallMoves
<1>2. /\ calls'[c].pair \in {calls[c].pair, Null}
      /\ calls'[c].pc = "idle" => calls'[c].pair = Null
  <2>1. CASE Goto(c, pc)
    BY <2>1, CallMoves
  <2>2. CASE EndCall(c)
    BY <2>2 DEF EndCall, NoCall, FeedInv, FeedTyped
  <2> QED
    BY <2>1, <2>2
<1>3. \A p \in Pairs : p # Null
  BY FeedAssumption DEF FeedAssumption
<1> QED
  BY <1>1, <1>2, <1>3 DEF OrderInv

LEMMA CallOrders ==
  ASSUME FeedInv, OrderInv, NEW c \in Calls, Call(c)
  PROVE  OrderInv'
<1> DEFINE p == calls[c].pair
<1>1. calls[c].pc # "idle" /\ p \in Pairs
  BY DEF Call, UpdatePool, CreatePool, DbError, OnPoolCreated, OnPoolUpdated,
         FeedInv, FeedTyped
<1>2. PICK pc \in {"emitUpdated", "create", "emitCreated"} :
        Goto(c, pc) \/ EndCall(c)
  BY DEF Call, UpdatePool, CreatePool, DbError, OnPoolCreated, OnPoolUpdated
<1>3. /\ \A d \in Calls \ {c} : calls'[d] = calls[d]
      /\ \A d \in Calls : calls'[d].pair \in {calls[d].pair, Null}
      /\ \A d \in Calls : calls'[d].pc = "idle" => calls'[d].pair = Null
      /\ \A q \in Pairs : \A d, e \in Calls :
           /\ calls[d].pair = q /\ calls[e].pair = q => d = e
           => (calls'[d].pair = q /\ calls'[e].pair = q => d = e)
  BY <1>1, <1>2, CallMoves, AloneStays DEF CallPCs
<1>4. /\ \A q \in Pairs \ {p} : /\ rows'[q] = rows[q]
                                /\ created'[q] = created[q]
                                /\ updated'[q] = updated[q]
      /\ updated' \in [Pairs -> Nat]
      /\ disturbed \subseteq disturbed'
  <2>1. calls[c].event \in Nat
    BY DEF FeedInv, FeedTyped
  <2> QED
    BY <1>1, <2>1
       DEF Call, UpdatePool, CreatePool, DbError, OnPoolCreated,
           OnPoolUpdated, Store, announced, FeedInv, FeedTyped, OrderInv
\* The pairs of the other calls.
<1>5. ASSUME NEW q \in Pairs \ disturbed', q # p
      PROVE  Ordered(q)'
  <2>1. Ordered(q)
    BY <1>4, <1>5 DEF OrderInv
  <2>2. \A d \in Calls : calls[d].pair = q => d # c
    BY <1>5
  <2>3. \A d \in Calls : calls'[d].pair = q => d # c
    BY <1>1, <1>3, <1>5, FeedAssumption DEF FeedAssumption
  <2> QED
    BY <1>3, <1>4, <1>5, <2>1, <2>2, <2>3 DEF Ordered
\* The pair of c, which no other call has.
<1>6. ASSUME NEW q \in Pairs \ disturbed', q = p
      PROVE  Ordered(q)'
  <2>1. Ordered(q)
    BY <1>4, <1>6 DEF OrderInv
  <2>2. \A d \in Calls \ {c} : calls[d].pair # q /\ calls'[d].pair # q
    BY <1>3, <1>6, <2>1 DEF Ordered
  <2>3. \A d, e \in Calls : calls'[d].pair = q /\ calls'[e].pair = q => d = e
    BY <2>2
  <2>4. /\ calls[c].pc # "emitCreated" /\ rows[q] # 0 => created[q] = 1
        /\ calls[c].pc = "emitUpdated" => created[q] = 1
    BY <1>6, <2>1, <2>2 DEF Ordered
  <2>5. CASE UpdatePool(c)
    <3>1. CASE rows[q] # 0
      <4>1. created[q] = 1 /\ created' = created /\ updated' = updated
        BY <1>6, <2>4, <2>5, <3>1 DEF UpdatePool, announced
      <4> QED
        BY <2>3, <4>1 DEF Ordered
    <3>2. CASE rows[q] = 0
      <4>1. /\ rows' = rows /\ created' = created /\ updated' = updated
            /\ Goto(c, "create") \/ EndCall(c)
        BY <1>6, <2>5, <3>2 DEF UpdatePool, announced
      <4>2. calls'[c].pc \in {"create", "idle"}
        BY <1>1, <1>6, <4>1, CallMoves DEF CallPCs
      <4> QED
        BY <2>1, <2>2, <2>3, <3>2, <4>1, <4>2 DEF Ordered
    <3> QED
      BY <3>1, <3>2
  <2>6. CASE CreatePool(c)
    <3>1. created' = created /\ updated' = updated
      BY <1>6, <2>6 DEF CreatePool, announced
    <3>2. CASE rows[q] = 0
      <4>1. Goto(c, "emitCreated")
        BY <1>6, <2>6, <3>2 DEF CreatePool
      <4>2. calls'[c].pc = "emitCreated" /\ calls'[c].pair = q
        BY <1>1, <1>6, <4>1, CallMoves DEF CallPCs
      <4> QED
        BY <2>1, <2>2, <2>3, <3>1, <4>2 DEF Ordered
    <3>3. CASE rows[q] # 0
      <4>1. created[q] = 1
        BY <1>6, <2>4, <2>6, <3>3 DEF CreatePool
      <4> QED
        BY <2>3, <3>1, <4>1 DEF Ordered
    <3> QED
      BY <3>2, <3>3
  <2>7. CASE DbError(c)
    BY <1>6, <2>7 DEF DbError
  <2>8. CASE OnPoolCreated(c)
    <3>1. created[q] = 0
      BY <1>6, <2>8 DEF OnPoolCreated, FeedInv, AnnouncedOnce
    <3>2. created'[q] = 1
      BY <1>1, <1>6, <2>8, <3>1 DEF OnPoolCreated, FeedInv, FeedTyped
    <3> QED
      BY <2>3, <3>2 DEF Ordered
  <2>9. CASE OnPoolUpdated(c)
    <3>1. created'[q] = 1
      BY <1>6, <2>4, <2>9 DEF OnPoolUpdated
    <3> QED
      BY <2>3, <3>1 DEF Ordered
  <2> QED
    BY <2>5, <2>6, <2>7, <2>8, <2>9 DEF Call
<1>7. \A q \in Pairs \ disturbed' : Ordered(q)'
  BY <1>5, <1>6
<1> QED
  BY <1>3, <1>4, <1>7 DEF OrderInv

LEMMA CrashOrders == OrderInv /\ Crash => OrderInv'
<1> SUFFICES ASSUME OrderInv, Crash PROVE OrderInv'
  OBVIOUS
<1>1. /\ \A c \in Calls : calls'[c] = NoCall
      /\ UNCHANGED <<rows, created, updated>>
      /\ disturbed \subseteq disturbed'
      /\ \A p \in Pairs : Running(p) => p \in disturbed'
  BY DEF Crash, announced
<1>2. NoCall.pc = "idle" /\ NoCall.pair = Null
  BY DEF NoCall
<1>3. \A p \in Pairs : p # Null
  BY FeedAssumption DEF FeedAssumption
<1>4. ASSUME NEW p \in Pairs \ disturbed'
      PROVE  Ordered(p)'
  <2>1. Ordered(p) /\ ~Running(p)
    BY <1>1, <1>4 DEF OrderInv
  <2> QED
    BY <1>1, <1>2, <1>3, <2>1 DEF Ordered, Running
<1> QED
  BY <1>1, <1>2, <1>4 DEF OrderInv

\* The core hears 'lp.created' of a pair before any 'lp.updated' of it, for
\* any numbers of pairs, events, throttles and restarts, as long as one call
\* at a time handled the pair and no error or restart interrupted it.
THEOREM CreatedFirst == Spec => []CreatedBeforeUpdated
<1>1. Init => FeedInv /\ OrderInv
  BY InitFeed, InitOrder
<1>2. FeedInv /\ OrderInv /\ [Next]_vars => (FeedInv /\ OrderInv)'
  <2> SUFFICES ASSUME FeedInv, OrderInv, [Next]_vars
               PROVE  FeedInv' /\ OrderInv'
    OBVIOUS
  <2>1. CASE UNCHANGED vars
    BY <2>1, NextFeed, OrderStays DEF vars
  <2>2. CASE Next
    BY <2>2, NextFeed, HandlePairEventOrders, WindowEndsOrders, CallOrders,
       CrashOrders DEF Next
  <2> QED
    BY <2>1, <2>2
<1>3. OrderInv => CreatedBeforeUpdated
  BY DEF OrderInv, Ordered, CreatedBeforeUpdated
<1> QED
  BY <1>1, <1>2, <1>3, PTL DEF Spec

-----------------------------------------------------------------------------
(* The cache                                                               *)

LEMMA PlaceInCache ==
  ASSUME cache \in Seq(Throttles), NEW t
  PROVE  /\ t \in ToSet(cache) => Place(t) \in 1..Len(cache)
                                    /\ cache[Place(t)] = t
         /\ t \notin ToSet(cache) => Place(t) = Len(cache) + 1
<1>1. Len(cache) \in Nat /\ DOMAIN cache = 1..Len(cache)
  OBVIOUS
<1>2. ASSUME t \in ToSet(cache)
      PROVE  Place(t) \in 1..Len(cache) /\ cache[Place(t)] = t
  <2>1. \E i \in DOMAIN cache : cache[i] = t
    BY <1>2 DEF ToSet
  <2>2. Place(t) = CHOOSE i \in DOMAIN cache : cache[i] = t
    BY <1>2 DEF Place
  <2> QED
    BY <1>1, <2>1, <2>2
<1> QED
  BY <1>2 DEF Place

\* A throttle that is called comes first in the cache and takes no other's
\* place but the last one's.
LEMMA TouchedCache ==
  ASSUME cache \in Seq(Throttles), Len(cache) <= MaxThrottles,
         IsInjective(cache), NEW t \in Throttles
  PROVE  /\ Touched(t) \in Seq(Throttles) /\ Len(Touched(t)) <= MaxThrottles
         /\ IsInjective(Touched(t))
         /\ t \in ToSet(Touched(t))
         /\ ToSet(Touched(t)) \subseteq ToSet(cache) \cup {t}
<1> DEFINE len == Len(cache)
           place == Place(t)
           n == IF place > len /\ len < MaxThrottles THEN len + 1 ELSE len
           From(i) == IF i <= place THEN i - 1 ELSE i
<1>1. len \in Nat /\ DOMAIN cache = 1..len /\ len <= MaxThrottles
      /\ MaxThrottles \in Nat /\ 0 < MaxThrottles
  BY FeedAssumption DEF FeedAssumption
<1>2. /\ place \in 1..(len + 1)
      /\ place <= len => cache[place] = t
      /\ place > len => t \notin ToSet(cache)
  BY <1>1, PlaceInCache
<1>3. /\ Touched(t) = [i \in 1..n |-> IF i = 1 THEN t
                                      ELSE IF i <= place THEN cache[i - 1]
                                      ELSE cache[i]]
  BY DEF Touched
<1> HIDE DEF len, place
<1>4. n \in Nat /\ 0 < n /\ n <= MaxThrottles /\ n <= len + 1
      /\ (place <= len => n = len)
  BY <1>1, <1>2
<1> HIDE DEF n
<1>5. \A i \in 2..n : From(i) \in 1..len /\ From(i) # place
  BY <1>1, <1>2, <1>4
<1>6. \A i, j \in 2..n : From(i) = From(j) => i = j
  BY <1>1, <1>2, <1>4
<1>7. /\ DOMAIN Touched(t) = 1..n
       /\ Touched(t)[1] = t
       /\ \A i \in 2..n : Touched(t)[i] = cache[From(i)]
  BY <1>2, <1>4, <1>3
<1> HIDE DEF From
<1>8. \A i \in 1..n : i = 1 \/ i \in 2..n
  BY <1>4
<1>9. \A i \in 1..n : Touched(t)[i] \in Throttles
  BY <1>1, <1>5, <1>7, <1>8
<1>10. Touched(t) \in Seq(Throttles) /\ Len(Touched(t)) = n
  <2>1. Touched(t) \in [1..n -> Throttles]
    BY <1>3, <1>9, <1>7
  <2> QED
    BY <1>4, <1>7, <2>1
<1>11. \A i \in 2..n : Touched(t)[i] # t
  <2> SUFFICES ASSUME NEW i \in 2..n, cache[From(i)] = t PROVE FALSE
    BY <1>7
  <2>1. t \in ToSet(cache)
    BY <1>1, <1>5 DEF ToSet
  <2>2. place \in DOMAIN cache /\ cache[place] = t
    BY <1>1, <1>2, <2>1
  <2>3. From(i) = place
    BY <1>1, <1>5, <2>2 DEF IsInjective
  <2> QED
    BY <1>5, <2>3
<1>12. IsInjective(Touched(t))
  <2> SUFFICES ASSUME NEW i \in 1..n, NEW j \in 1..n,
                      Touched(t)[i] = Touched(t)[j]
               PROVE  i = j
    BY <1>7 DEF IsInjective
  <2>1. CASE i = 1 \/ j = 1
    BY <1>7, <1>8, <1>11, <2>1
  <2>2. CASE i \in 2..n /\ j \in 2..n
    <3>1. cache[From(i)] = cache[From(j)]
      BY <1>7, <2>2
    <3>2. From(i) = From(j)
      BY <1>1, <1>5, <2>2, <3>1 DEF IsInjective
    <3> QED
      BY <1>6, <2>2, <3>2
  <2> QED
    BY <1>8, <2>1, <2>2
<1>13. t \in ToSet(Touched(t))
  BY <1>4, <1>7 DEF ToSet
<1>14. ToSet(Touched(t)) \subseteq ToSet(cache) \cup {t}
  <2> SUFFICES ASSUME NEW i \in 2..n PROVE cache[From(i)] \in ToSet(cache)
    BY <1>7, <1>8 DEF ToSet
  <2> QED
    BY <1>1, <1>5 DEF ToSet
<1> QED
  BY <1>4, <1>10, <1>12, <1>13, <1>14

-----------------------------------------------------------------------------
(* Types, and no event before the feed has sent it                         *)

EventsSent ==
  /\ \A t \in Throttles :
       IF throttles[t].open
       THEN throttles[t].waiting <= sent[throttles[t].pair]
       ELSE throttles[t].waiting = 0
  /\ \A c \in Calls :
       calls[c].pc # "idle" => calls[c].event <= sent[calls[c].pair]

\* A throttle is cached once, and a pair has one cached throttle.
CacheInv ==
  /\ IsInjective(cache)
  /\ \A t, u \in ToSet(cache) : throttles[t].pair = throttles[u].pair => t = u

TypeInv == FeedInv /\ OrderInv /\ TypeOK /\ EventsSent /\ CacheInv

LEMMA InitTypes == Init => TypeInv
<1> SUFFICES ASSUME Init PROVE TypeInv
  OBVIOUS
<1>1. FeedInv /\ OrderInv
  BY InitFeed, InitOrder
<1>2. \A p \in Pairs : MaxEvents[p] \in Nat
  BY FeedAssumption DEF FeedAssumption
<1>3. NoThrottle \in [pair : Pairs \cup {Null}, open : BOOLEAN, waiting : Nat]
      /\ NoCall \in [pc : CallPCs, pair : Pairs \cup {Null}, event : Nat]
  BY DEF NoThrottle, NoCall, CallPCs
<1>4. cache = <<>> /\ Len(cache) = 0 /\ cache \in Seq(Throttles)
      /\ ToSet(cache) = {}
  BY DEF Init, ToSet
<1>5. TypeOK
  BY <1>2, <1>3, <1>4, FeedAssumption DEF Init, TypeOK, FeedAssumption
<1>6. EventsSent
  BY DEF Init, EventsSent, NoThrottle, NoCall
<1>7. CacheInv
  BY <1>4 DEF CacheInv, IsInjective
<1> QED
  BY <1>1, <1>5, <1>6, <1>7 DEF TypeInv

\* What a call of a throttle does: it has been, or becomes, the throttle of
\* the pair; it keeps the event or passes it on.
LEMMA ThrottleStep ==
  ASSUME TypeInv, NEW p \in Pairs, NEW n \in Nat, NEW t,
         t \in IF CachedOf(p) # {} THEN CachedOf(p) ELSE FreeThrottles,
         Throttle(t, p, n)
  PROVE  /\ t \in Throttles
         /\ throttles' \in [Throttles -> [pair : Pairs \cup {Null},
                                          open : BOOLEAN, waiting : Nat]]
         /\ \A u \in Throttles \ {t} : throttles'[u] = throttles[u]
         /\ throttles'[t].pair = p /\ throttles'[t].open
         /\ throttles[t].open => throttles[t].pair = p
         /\ \A u \in ToSet(cache) : throttles[u].pair = p => u = t
         /\ t \in ToSet(cache')
         /\ \A u \in ToSet(cache) \ ToSet(cache') :
              throttles[u].open => throttles[u].pair \in disturbed'
         /\ disturbed \subseteq disturbed'
         /\ disturbed' \subseteq Pairs
         /\ \/ throttles'[t].waiting = n /\ UNCHANGED <<calls, passed>>
            \/ /\ throttles'[t].waiting = 0
               /\ Pass(p, n)
               /\ Running(p) => p \in disturbed'
<1> DEFINE th == IF t \in ToSet(cache) THEN throttles[t]
                                       ELSE [NoThrottle EXCEPT !.pair = p]
           Shape == [pair : Pairs \cup {Null}, open : BOOLEAN, waiting : Nat]
<1>1. /\ cache \in Seq(Throttles)
      /\ throttles \in [Throttles -> Shape]
      /\ Len(cache) <= MaxThrottles
      /\ IsInjective(cache)
      /\ disturbed \subseteq Pairs
      /\ ToSet(cache) \subseteq Throttles
  <2>1. cache \in Seq(Throttles)
    BY DEF TypeInv, TypeOK
  <2>2. ToSet(cache) \subseteq Throttles
    BY <2>1 DEF ToSet
  <2> QED
    BY <2>1, <2>2 DEF TypeInv, TypeOK, CacheInv
<1>2. t \in Throttles
  BY <1>1 DEF CachedOf, FreeThrottles
<1>3. /\ throttles[t].open => throttles[t].pair = p
      /\ \A u \in ToSet(cache) : throttles[u].pair = p => u = t
  BY DEF CachedOf, FreeThrottles, TypeInv, CacheInv
<1>4. th \in Shape /\ th.pair = p /\ (~th.open => th.waiting = 0)
  <2>1. CASE t \in ToSet(cache)
    <3>1. throttles[t].pair = p
      BY <2>1 DEF CachedOf, FreeThrottles
    <3>2. ~throttles[t].open => throttles[t].waiting = 0
      BY <1>2 DEF TypeInv, EventsSent
    <3> QED
      BY <1>1, <1>2, <2>1, <3>1, <3>2
  <2>2. CASE t \notin ToSet(cache)
    BY <2>2 DEF NoThrottle
  <2> QED
    BY <2>1, <2>2
<1>5. cache' = Touched(t)
  BY DEF Throttle
<1>6. t \in ToSet(cache')
  BY <1>1, <1>2, <1>5, TouchedCache
<1>7. Evicted(t) \subseteq disturbed' /\ disturbed \subseteq disturbed'
      /\ disturbed' \subseteq disturbed \cup Evicted(t) \cup {p}
  BY DEF Throttle
<1>8. \A u \in ToSet(cache) \ ToSet(cache') :
        throttles[u].open => throttles[u].pair \in disturbed'
  BY <1>5, <1>7 DEF Evicted
<1>9. Evicted(t) \subseteq Pairs
  BY <1>1 DEF Evicted, TypeInv, FeedInv, FeedTyped
<1>10. CASE th.open
  <2>1. throttles' = [throttles EXCEPT ![t] = [th EXCEPT !.waiting = n]]
        /\ UNCHANGED <<calls, passed>>
    BY <1>10 DEF Throttle, Waiting
  <2> HIDE DEF th
  <2>2. /\ [th EXCEPT !.waiting = n] \in Shape
        /\ [th EXCEPT !.waiting = n].pair = p
        /\ [th EXCEPT !.waiting = n].open
        /\ [th EXCEPT !.waiting = n].waiting = n
    BY <1>4, <1>10
  <2> QED
    BY <1>1, <1>2, <1>3, <1>6, <1>7, <1>8, <1>9, <2>1, <2>2
<1>11. CASE ~th.open
  <2>1. /\ throttles' = [throttles EXCEPT ![t] = [th EXCEPT !.open = TRUE]]
        /\ Pass(p, n)
        /\ Running(p) => p \in disturbed'
    BY <1>11 DEF Throttle
  <2> HIDE DEF th
  <2>2. /\ [th EXCEPT !.open = TRUE] \in Shape
        /\ [th EXCEPT !.open = TRUE].pair = p
        /\ [th EXCEPT !.open = TRUE].open
        /\ [th EXCEPT !.open = TRUE].waiting = 0
    BY <1>4, <1>11
  <2> QED
    BY <1>1, <1>2, <1>3, <1>6, <1>7, <1>8, <1>9, <2>1, <2>2
<1> QED
  BY <1>10, <1>11

\* A throttle passes on an event the feed has sent.
LEMMA PassTypes ==
  ASSUME TypeInv, NEW p \in Pairs, NEW n \in Nat, Pass(p, n),
         sent' \in [Pairs -> Nat], \A q \in Pairs : sent[q] <= sent'[q],
         n <= sent'[p]
  PROVE  /\ passed' \in [Pairs -> Nat]
         /\ \A q \in Pairs : passed'[q] = IF q = p THEN n ELSE passed[q]
         /\ \A c \in Calls : calls'[c].pc # "idle" =>
              calls'[c].event <= sent'[calls'[c].pair]
<1> DEFINE new == [pc |-> "update", pair |-> p, event |-> n]
<1>1. PICK c \in Calls : calls' = [calls EXCEPT ![c] = new]
  BY DEF Pass
<1>2. passed' = [passed EXCEPT ![p] = n] /\ passed \in [Pairs -> Nat]
  BY DEF Pass, TypeInv, TypeOK
<1>3. ASSUME NEW d \in Calls, calls'[d].pc # "idle"
      PROVE  calls'[d].event <= sent'[calls'[d].pair]
  <2>1. calls'[d] = IF d = c THEN new ELSE calls[d]
    BY <1>1 DEF TypeInv, TypeOK
  <2>2. CASE d = c
    BY <2>1, <2>2
  <2>3. CASE d # c
    <3>1. /\ calls[d].pair \in Pairs /\ calls[d].event \in Nat
          /\ calls[d].event <= sent[calls[d].pair]
          /\ sent[calls[d].pair] \in Nat
      BY <1>3, <2>1, <2>3 DEF TypeInv, TypeOK, EventsSent, FeedInv, FeedTyped
    <3>2. /\ sent[calls[d].pair] <= sent'[calls[d].pair]
          /\ sent'[calls[d].pair] \in Nat
      BY <3>1
    <3> HIDE DEF new
    <3>3. calls'[d] = calls[d]
      BY <2>1, <2>3
    <3> QED
      BY <3>1, <3>2, <3>3
  <2> QED
    BY <2>2, <2>3
<1> QED
  BY <1>2, <1>3

\* The counters of a state whose every event was sent.
LEMMA TypeParts ==
  ASSUME TypeInv
  PROVE  /\ sent \in [Pairs -> Nat] /\ rows \in [Pairs -> Nat]
         /\ accepted \in [Pairs -> Nat] /\ passed \in [Pairs -> Nat]
         /\ updated \in [Pairs -> Nat]
         /\ \A p \in Pairs :
              /\ rows[p] <= sent[p] /\ accepted[p] <= sent[p]
              /\ passed[p] <= sent[p] /\ updated[p] <= sent[p]
              /\ sent[p] <= MaxEvents[p] /\ MaxEvents[p] \in Nat
         /\ created \in [Pairs -> 0..2] /\ crashes \in 0..MaxCrashes
         /\ disturbed \subseteq Pairs
         /\ cache \in Seq(Throttles) /\ Len(cache) <= MaxThrottles
<1>1. MaxEvents \in [Pairs -> Nat]
  BY FeedAssumption DEF FeedAssumption
<1> QED
  BY <1>1 DEF TypeInv, TypeOK

\* What was sent by now was sent when more has been.
LEMMA SentStays ==
  ASSUME TypeInv, sent' \in [Pairs -> Nat],
         \A q \in Pairs : sent[q] <= sent'[q]
  PROVE  /\ \A u \in Throttles :
              IF throttles[u].open
              THEN throttles[u].waiting <= sent'[throttles[u].pair]
              ELSE throttles[u].waiting = 0
         /\ \A c \in Calls : calls[c].pc # "idle" =>
              calls[c].event <= sent'[calls[c].pair]
<1>1. ASSUME NEW u \in Throttles, throttles[u].open
      PROVE  throttles[u].waiting <= sent'[throttles[u].pair]
  <2>1. /\ throttles[u].pair \in Pairs /\ throttles[u].waiting \in Nat
        /\ throttles[u].waiting <= sent[throttles[u].pair]
    BY <1>1 DEF TypeInv, EventsSent, TypeOK, FeedInv, FeedTyped
  <2>2. /\ sent[throttles[u].pair] \in Nat /\ sent'[throttles[u].pair] \in Nat
        /\ sent[throttles[u].pair] <= sent'[throttles[u].pair]
    BY <2>1, TypeParts
  <2> QED
    BY <2>1, <2>2
<1>2. ASSUME NEW c \in Calls, calls[c].pc # "idle"
      PROVE  calls[c].event <= sent'[calls[c].pair]
  <2>1. /\ calls[c].pair \in Pairs /\ calls[c].event \in Nat
        /\ calls[c].event <= sent[calls[c].pair]
    BY <1>2 DEF TypeInv, EventsSent, TypeOK, FeedInv, FeedTyped
  <2>2. /\ sent[calls[c].pair] \in Nat /\ sent'[calls[c].pair] \in Nat
        /\ sent[calls[c].pair] <= sent'[calls[c].pair]
    BY <2>1, TypeParts
  <2> QED
    BY <2>1, <2>2
<1>3. \A u \in Throttles : ~throttles[u].open => throttles[u].waiting = 0
  BY DEF TypeInv, EventsSent
<1> QED
  BY <1>1, <1>2, <1>3

LEMMA HandlePairEventTypes ==
  ASSUME TypeInv, NEW p \in Pairs, HandlePairEvent(p)
  PROVE  TypeInv'
<1> DEFINE n == sent[p] + 1
<1>1. FeedInv' /\ OrderInv'
  BY HandlePairEventKeeps, HandlePairEventOrders DEF TypeInv
<1>2. /\ n \in Nat /\ 0 < n /\ n <= MaxEvents[p]
      /\ sent' \in [Pairs -> Nat]
      /\ \A q \in Pairs : sent'[q] = IF q = p THEN n ELSE sent[q]
      /\ UNCHANGED <<rows, created, updated, crashes>>
  BY TypeParts DEF HandlePairEvent, announced
<1>3. ASSUME NEW q \in Pairs
      PROVE  sent[q] <= sent'[q] /\ sent'[q] <= MaxEvents[q]
  <2>1. sent[q] \in Nat /\ MaxEvents[q] \in Nat /\ sent[q] <= MaxEvents[q]
    BY TypeParts
  <2>2. CASE q = p
    BY <1>2, <2>1, <2>2
  <2>3. CASE q # p
    BY <1>2, <2>1, <2>3
  <2> QED
    BY <2>2, <2>3
<1>4. \A q \in Pairs : {rows[q], accepted[q], passed[q], updated[q]}
                         \subseteq 0..sent'[q]
  BY <1>2, <1>3, TypeParts
<1>5. CASE UNCHANGED <<accepted, throttles, cache, calls, passed, disturbed>>
  <2>1. TypeOK'
    BY <1>2, <1>3, <1>4, <1>5, TypeParts DEF TypeInv, TypeOK
  <2>2. EventsSent'
    <3>1. \A u \in Throttles :
            IF throttles'[u].open
            THEN throttles'[u].waiting <= sent'[throttles'[u].pair]
            ELSE throttles'[u].waiting = 0
      BY <1>2, <1>3, <1>5, SentStays
    <3>2. \A c \in Calls : calls'[c].pc # "idle" =>
            calls'[c].event <= sent'[calls'[c].pair]
      BY <1>2, <1>3, <1>5, SentStays
    <3> QED
      BY <3>1, <3>2 DEF EventsSent
  <2>3. CacheInv'
    BY <1>5 DEF TypeInv, CacheInv
  <2> QED
    BY <1>1, <2>1, <2>2, <2>3 DEF TypeInv
<1>6. CASE /\ accepted' = [accepted EXCEPT ![p] = n]
           /\ \E t \in IF CachedOf(p) # {} THEN CachedOf(p)
                                           ELSE FreeThrottles :
                Throttle(t, p, n)
  <2> HIDE DEF n
  <2>1. PICK t \in IF CachedOf(p) # {} THEN CachedOf(p) ELSE FreeThrottles :
               Throttle(t, p, n)
    BY <1>6
  <2>2. /\ t \in Throttles
        /\ throttles' \in [Throttles -> [pair : Pairs \cup {Null},
                                         open : BOOLEAN, waiting : Nat]]
        /\ \A u \in Throttles \ {t} : throttles'[u] = throttles[u]
        /\ throttles'[t].pair = p /\ throttles'[t].open
        /\ \A u \in ToSet(cache) : throttles[u].pair = p => u = t
        /\ disturbed' \subseteq Pairs
        /\ \/ throttles'[t].waiting = n /\ UNCHANGED <<calls, passed>>
           \/ throttles'[t].waiting = 0 /\ Pass(p, n)
    BY <1>2, <2>1, ThrottleStep
  <2>3. IsInjective(cache)
    BY DEF TypeInv, CacheInv
  <2>4. /\ cache' \in Seq(Throttles) /\ Len(cache') <= MaxThrottles
        /\ IsInjective(cache')
        /\ ToSet(cache') \subseteq ToSet(cache) \cup {t}
    BY <2>1, <2>2, <2>3, TypeParts, TouchedCache DEF Throttle
  <2>5. /\ passed' \in [Pairs -> Nat]
        /\ \A q \in Pairs : passed'[q] \in {passed[q]} \cup
                                           (IF q = p THEN {n} ELSE {})
        /\ \A c \in Calls : calls'[c].pc # "idle" =>
             calls'[c].event <= sent'[calls'[c].pair]
    <3>1. CASE UNCHANGED <<calls, passed>>
      BY <1>2, <1>3, <3>1, TypeParts, SentStays
    <3>2. CASE Pass(p, n)
      <4>1. sent'[p] = n
        BY <1>2
      <4> QED
        BY <1>2, <1>3, <3>2, <4>1, PassTypes
    <3> QED
      BY <2>2, <3>1, <3>2
  <2>6. TypeOK'
    <3>1. accepted' \in [Pairs -> Nat]
          /\ \A q \in Pairs : accepted'[q] = IF q = p THEN n ELSE accepted[q]
      BY <1>2, <1>6, TypeParts
    <3>2. \A q \in Pairs : {rows'[q], accepted'[q], passed'[q], updated'[q]}
                             \subseteq 0..sent'[q]
      BY <1>2, <1>4, <2>5, <3>1
    <3>3. calls' \in [Calls -> [pc : CallPCs, pair : Pairs \cup {Null},
                                event : Nat]]
      BY <1>1 DEF FeedInv, FeedTyped
    <3> QED
      BY <1>2, <1>3, <2>2, <2>4, <2>5, <3>1, <3>2, <3>3, TypeParts DEF TypeOK
  <2>7. EventsSent'
    <3>1. ASSUME NEW u \in Throttles
          PROVE  IF throttles'[u].open
                 THEN throttles'[u].waiting <= sent'[throttles'[u].pair]
                 ELSE throttles'[u].waiting = 0
      <4>1. CASE u = t
        BY <1>2, <2>2, <4>1
      <4>2. CASE u # t
        BY <1>2, <1>3, <2>2, <4>2, SentStays
      <4> QED
        BY <4>1, <4>2
    <3> QED
      BY <2>5, <3>1 DEF EventsSent
  <2>8. CacheInv'
    <3>1. ToSet(cache) \subseteq Throttles
      BY TypeParts DEF ToSet
    <3>2. \A u \in ToSet(cache') \ {t} :
            u \in ToSet(cache) /\ throttles'[u] = throttles[u] /\ throttles[u].pair # p
      BY <2>2, <2>4, <3>1
    <3>3. \A u, v \in ToSet(cache') :
            throttles'[u].pair = throttles'[v].pair => u = v
      BY <2>2, <3>2 DEF TypeInv, CacheInv
    <3> QED
      BY <2>4, <3>3 DEF CacheInv
  <2> QED
    BY <1>1, <2>6, <2>7, <2>8 DEF TypeInv
<1> QED
  BY <1>5, <1>6 DEF HandlePairEvent

LEMMA WindowEndsTypes ==
  ASSUME TypeInv, NEW t \in Throttles, WindowEnds(t)
  PROVE  TypeInv'
<1> DEFINE p == throttles[t].pair
           n == throttles[t].waiting
<1>1. FeedInv' /\ OrderInv'
  BY WindowEndsKeeps, WindowEndsOrders DEF TypeInv
<1>2. /\ p \in Pairs /\ n \in Nat /\ n <= sent[p]
      /\ UNCHANGED <<cache, rows, sent, accepted, created, updated, crashes>>
  BY DEF TypeInv, TypeOK, EventsSent, FeedInv, FeedTyped, WindowEnds, announced
<1>3. /\ \A u \in Throttles : throttles'[u].pair = throttles[u].pair
      /\ \A u \in Throttles : throttles'[u].open => throttles[u].open
      /\ \A u \in Throttles : throttles'[u].waiting \in {0, throttles[u].waiting}
      /\ ~throttles'[t].open => throttles'[t].waiting = 0
      /\ \A u \in Throttles \ {t} : throttles'[u] = throttles[u]
      /\ disturbed' \subseteq Pairs
  <2>1. CASE n = 0
    <3>1. throttles' = [throttles EXCEPT ![t].open = FALSE]
          /\ disturbed' = disturbed
      BY <2>1 DEF WindowEnds
    <3> QED
      BY <2>1, <3>1, TypeParts DEF TypeInv, TypeOK
  <2>2. CASE n # 0
    <3>1. PICK open \in BOOLEAN :
            throttles' = [throttles EXCEPT ![t].open = open, ![t].waiting = 0]
      BY <2>2 DEF WindowEnds
    <3>2. disturbed' \subseteq disturbed \cup {p}
      BY <2>2 DEF WindowEnds
    <3>3. throttles[t].open
      BY DEF WindowEnds
    <3> QED
      BY <1>2, <3>1, <3>2, <3>3, TypeParts DEF TypeInv, TypeOK
  <2> QED
    BY <2>1, <2>2
<1>4. /\ passed' \in [Pairs -> Nat]
      /\ \A q \in Pairs : passed'[q] <= sent[q]
      /\ \A c \in Calls : calls'[c].pc # "idle" =>
           calls'[c].event <= sent'[calls'[c].pair]
  <2>1. CASE n = 0
    BY <1>2, <2>1, TypeParts DEF WindowEnds, TypeInv, EventsSent
  <2>2. CASE n # 0
    <3>1. Pass(p, n)
      BY <2>2 DEF WindowEnds
    <3>2. sent' \in [Pairs -> Nat] /\ n <= sent'[p]
          /\ \A q \in Pairs : sent[q] <= sent'[q]
      BY <1>2, TypeParts
    <3> HIDE DEF p, n
    <3>3. /\ passed' \in [Pairs -> Nat]
          /\ \A q \in Pairs : passed'[q] = IF q = p THEN n ELSE passed[q]
          /\ \A c \in Calls : calls'[c].pc # "idle" =>
               calls'[c].event <= sent'[calls'[c].pair]
      BY <1>2, <3>1, <3>2, PassTypes
    <3> QED
      BY <1>2, <3>3, TypeParts
  <2> QED
    BY <2>1, <2>2
<1>5. TypeOK'
  <2>1. /\ calls' \in [Calls -> [pc : CallPCs, pair : Pairs \cup {Null},
                                 event : Nat]]
        /\ throttles' \in [Throttles -> [pair : Pairs \cup {Null},
                                         open : BOOLEAN, waiting : Nat]]
    BY <1>1 DEF FeedInv, FeedTyped
  <2>2. \A q \in Pairs : {rows'[q], accepted'[q], passed'[q], updated'[q]}
                           \subseteq 0..sent'[q]
    BY <1>2, <1>4, TypeParts
  <2> QED
    BY <1>2, <1>3, <1>4, <2>1, <2>2, TypeParts DEF TypeOK
<1>6. EventsSent'
  <2>1. ASSUME NEW u \in Throttles
        PROVE  IF throttles'[u].open
               THEN throttles'[u].waiting <= sent'[throttles'[u].pair]
               ELSE throttles'[u].waiting = 0
    <3>1. CASE throttles'[u].open
      <4>1. throttles[u].pair \in Pairs
            /\ throttles[u].waiting <= sent[throttles[u].pair]
            /\ throttles[u].waiting \in Nat
        BY <1>3, <3>1 DEF TypeInv, TypeOK, EventsSent, FeedInv, FeedTyped
      <4>2. 0 <= sent[throttles[u].pair]
        BY <4>1, TypeParts
      <4> QED
        BY <1>2, <1>3, <3>1, <4>1, <4>2
    <3>2. CASE ~throttles'[u].open
      BY <1>3, <3>2 DEF TypeInv, EventsSent
    <3> QED
      BY <3>1, <3>2
  <2> QED
    BY <1>4, <2>1 DEF EventsSent
<1>7. CacheInv'
  <2>1. ToSet(cache) \subseteq Throttles
    BY TypeParts DEF ToSet
  <2> QED
    BY <1>2, <1>3, <2>1 DEF TypeInv, CacheInv
<1> QED
  BY <1>1, <1>5, <1>6, <1>7 DEF TypeInv

LEMMA CallTypes ==
  ASSUME TypeInv, NEW c \in Calls, Call(c)
  PROVE  TypeInv'
<1> DEFINE p == calls[c].pair
           n == calls[c].event
<1>1. FeedInv' /\ OrderInv'
  BY CallKeeps, CallOrders DEF TypeInv
<1>2. calls[c].pc # "idle"
  BY DEF Call, UpdatePool, CreatePool, DbError, OnPoolCreated, OnPoolUpdated
<1>3. p \in Pairs /\ n \in Nat /\ n <= sent[p]
  BY <1>2 DEF TypeInv, TypeOK, EventsSent, FeedInv, FeedTyped
<1>4. /\ UNCHANGED <<throttles, cache, sent, accepted, passed, crashes>>
      /\ rows' = rows \/ Store(c)
      /\ updated' = updated \/ updated' = [updated EXCEPT ![p] = n]
      /\ disturbed' \subseteq disturbed \cup {p}
  BY DEF Call, UpdatePool, CreatePool, DbError, OnPoolCreated, OnPoolUpdated,
         announced
<1>5. /\ rows' \in [Pairs -> Nat] /\ updated' \in [Pairs -> Nat]
      /\ \A q \in Pairs : rows'[q] <= sent[q] /\ updated'[q] <= sent[q]
  BY <1>3, <1>4, TypeParts DEF Store
<1>6. PICK pc \in {"emitUpdated", "create", "emitCreated"} :
        Goto(c, pc) \/ EndCall(c)
  BY DEF Call, UpdatePool, CreatePool, DbError, OnPoolCreated, OnPoolUpdated
<1>7. \A d \in Calls : calls'[d].pc # "idle" =>
        calls'[d].event <= sent[calls'[d].pair]
  <2>1. CASE Goto(c, pc)
    <3>1. calls' = [calls EXCEPT ![c].pc = pc]
      BY <2>1 DEF Goto
    <3>2. \A d \in Calls : /\ calls'[d].event = calls[d].event
                           /\ calls'[d].pair = calls[d].pair
                           /\ calls'[d].pc # "idle" => calls[d].pc # "idle"
      BY <1>2, <3>1 DEF TypeInv, TypeOK
    <3> QED
      BY <3>2 DEF TypeInv, EventsSent
  <2>2. CASE EndCall(c)
    <3>1. \A d \in Calls : calls'[d] = IF d = c THEN NoCall ELSE calls[d]
      BY <2>2 DEF EndCall, TypeInv, TypeOK
    <3>2. NoCall.pc = "idle"
      BY DEF NoCall
    <3> QED
      BY <3>1, <3>2 DEF TypeInv, EventsSent
  <2> QED
    BY <1>6, <2>1, <2>2
<1>8. TypeOK'
  <2>1. /\ calls' \in [Calls -> [pc : CallPCs, pair : Pairs \cup {Null},
                                 event : Nat]]
        /\ throttles' \in [Throttles -> [pair : Pairs \cup {Null},
                                         open : BOOLEAN, waiting : Nat]]
    BY <1>1 DEF FeedInv, FeedTyped
  <2>2. \A q \in Pairs : {rows'[q], accepted'[q], passed'[q], updated'[q]}
                           \subseteq 0..sent'[q]
    BY <1>4, <1>5, TypeParts
  <2>3. created' \in [Pairs -> 0..2]
    <3>1. created' \in [Pairs -> Nat]
      BY <1>1 DEF FeedInv, FeedTyped
    <3>2. \A q \in Pairs : created'[q] <= 1
      BY <1>1 DEF FeedInv, AnnouncedOnce
    <3> QED
      BY <3>1, <3>2
  <2> QED
    BY <1>3, <1>4, <1>5, <2>1, <2>2, <2>3, TypeParts DEF TypeOK
<1>9. EventsSent' /\ CacheInv'
  BY <1>4, <1>7 DEF TypeInv, EventsSent, CacheInv
<1> QED
  BY <1>1, <1>8, <1>9 DEF TypeInv

LEMMA CrashTypes ==
  ASSUME TypeInv, Crash
  PROVE  TypeInv'
<1>1. FeedInv' /\ OrderInv'
  BY CrashKeeps, CrashOrders DEF TypeInv
<1>2. /\ throttles' = [t \in Throttles |-> NoThrottle] /\ cache' = <<>>
      /\ calls' = [c \in Calls |-> NoCall]
      /\ UNCHANGED <<rows, sent, accepted, passed, created, updated>>
      /\ disturbed' \subseteq Pairs
  BY TypeParts DEF Crash, announced
<1>3. crashes' \in 0..MaxCrashes
  <2>1. MaxCrashes \in Nat
    BY FeedAssumption DEF FeedAssumption
  <2> QED
    BY <2>1, TypeParts DEF Crash
<1>4. /\ cache' \in Seq(Throttles) /\ Len(cache') = 0 /\ ToSet(cache') = {}
      /\ DOMAIN cache' = {}
  BY <1>2 DEF ToSet
<1>5. TypeOK'
  <2>1. /\ calls' \in [Calls -> [pc : CallPCs, pair : Pairs \cup {Null},
                                 event : Nat]]
        /\ throttles' \in [Throttles -> [pair : Pairs \cup {Null},
                                         open : BOOLEAN, waiting : Nat]]
    BY <1>1 DEF FeedInv, FeedTyped
  <2>2. Len(cache') <= MaxThrottles
    BY <1>4, FeedAssumption DEF FeedAssumption
  <2>3. \A q \in Pairs : {rows'[q], accepted'[q], passed'[q], updated'[q]}
                           \subseteq 0..sent'[q]
    BY <1>2, TypeParts
  <2> QED
    BY <1>2, <1>3, <1>4, <2>1, <2>2, <2>3, TypeParts DEF TypeOK
<1>6. EventsSent' /\ CacheInv'
  BY <1>2, <1>4 DEF EventsSent, CacheInv, NoThrottle, NoCall, IsInjective
<1> QED
  BY <1>1, <1>5, <1>6 DEF TypeInv

LEMMA NextTypes == TypeInv /\ [Next]_vars => TypeInv'
<1> SUFFICES ASSUME TypeInv, [Next]_vars PROVE TypeInv'
  OBVIOUS
<1>1. CASE UNCHANGED vars
  <2>1. FeedInv' /\ OrderInv'
    BY <1>1, NextFeed, OrderStays DEF vars, TypeInv
  <2>2. TypeOK' /\ EventsSent' /\ CacheInv'
    BY <1>1 DEF vars, TypeInv, TypeOK, EventsSent, CacheInv
  <2> QED
    BY <2>1, <2>2 DEF TypeInv
<1>2. CASE Next
  BY <1>2, HandlePairEventTypes, WindowEndsTypes, CallTypes, CrashTypes
  DEF Next
<1> QED
  BY <1>1, <1>2

\* Every variable has its type, no event is handled before the feed has sent
\* it, and the cache of throttles never grows beyond its capacity.
THEOREM TypeCorrect == Spec => []TypeOK
<1>1. Init => TypeInv
  BY InitTypes
<1>2. TypeInv /\ [Next]_vars => TypeInv'
  BY NextTypes
<1>3. TypeInv => TypeOK
  BY DEF TypeInv
<1> QED
  BY <1>1, <1>2, <1>3, PTL DEF Spec

-----------------------------------------------------------------------------
(* In order and up to date                                                 *)

\* An open throttle is still cached, unless its pair was disturbed.
Kept ==
  \A t \in Throttles :
    throttles[t].open /\ throttles[t].pair \notin disturbed
      => t \in ToSet(cache)

\* The throttle of p keeps the last event that was let in until it has passed
\* that one on.
InStep(p) ==
  /\ passed[p] <= accepted[p]
  /\ \A t \in Throttles :
       throttles[t].pair = p /\ throttles[t].waiting # 0
         => throttles[t].waiting = accepted[p] /\ passed[p] < accepted[p]
  /\ passed[p] # accepted[p] =>
       \E t \in Throttles : /\ throttles[t].pair = p /\ throttles[t].open
                            /\ throttles[t].waiting = accepted[p]

\* A call of p handles the last event that was passed on; the row follows it,
\* and the last update announced follows the row.
Fresh(p) ==
  /\ rows[p] <= passed[p]
  /\ \A c \in Calls : calls[c].pair = p =>
       /\ calls[c].event = passed[p]
       /\ calls[c].pc = "update" => /\ updated[p] < passed[p]
                                    /\ rows[p] < passed[p]
                                    /\ updated[p] \in {0, rows[p]}
       /\ calls[c].pc = "create" => rows[p] = 0 /\ updated[p] = 0
       /\ calls[c].pc = "emitCreated" => rows[p] = passed[p] /\ updated[p] = 0
       /\ calls[c].pc = "emitUpdated" => /\ rows[p] = passed[p]
                                         /\ updated[p] < passed[p]
  /\ ~Running(p) => rows[p] \in {0, passed[p]} /\ updated[p] \in {0, rows[p]}

QuietInv ==
  /\ TypeInv
  /\ Kept
  /\ \A p \in Pairs \ disturbed : InStep(p) /\ Fresh(p)

LEMMA InitQuiet == Init => QuietInv
<1> SUFFICES ASSUME Init PROVE QuietInv
  OBVIOUS
<1>1. TypeInv
  BY InitTypes
<1>2. \A p \in Pairs : p # Null
  BY FeedAssumption DEF FeedAssumption
<1> QED
  BY <1>1, <1>2 DEF Init, QuietInv, Kept, InStep, Fresh, Running, NoThrottle,
                    NoCall

LEMMA QuietParts ==
  ASSUME QuietInv
  PROVE  /\ sent \in [Pairs -> Nat] /\ rows \in [Pairs -> Nat]
         /\ accepted \in [Pairs -> Nat] /\ passed \in [Pairs -> Nat]
         /\ updated \in [Pairs -> Nat]
         /\ \A p \in Pairs : accepted[p] <= sent[p] /\ passed[p] <= sent[p]
         /\ \A p \in Pairs \ disturbed : InStep(p) /\ Fresh(p)
BY TypeParts DEF QuietInv

\* A step that leaves the calls, the rows and the announcements alone.
LEMMA FreshStays ==
  ASSUME QuietInv, UNCHANGED <<calls, rows, passed, updated>>,
         disturbed \subseteq disturbed'
  PROVE  \A p \in Pairs \ disturbed' : Fresh(p)'
<1>1. \A p \in Pairs : Fresh(p) => Fresh(p)'
  BY DEF Fresh, Running
<1> QED
  BY <1>1 DEF QuietInv

\* A newer event is passed on while no call of its pair runs.
LEMMA PassFresh ==
  ASSUME QuietInv, NEW p \in Pairs, NEW n \in Nat, Pass(p, n),
         UNCHANGED <<rows, updated>>, disturbed \subseteq disturbed',
         Running(p) => p \in disturbed',
         p \notin disturbed' => passed[p] < n
  PROVE  \A q \in Pairs \ disturbed' : Fresh(q)'
<1> DEFINE new == [pc |-> "update", pair |-> p, event |-> n]
<1>1. PICK c \in Calls : calls[c].pc = "idle"
                           /\ calls' = [calls EXCEPT ![c] = new]
  BY DEF Pass
<1>2. \A d \in Calls : calls'[d] = IF d = c THEN new ELSE calls[d]
  BY <1>1 DEF QuietInv, TypeInv, TypeOK
<1>3. passed' = [passed EXCEPT ![p] = n]
  BY DEF Pass
<1>4. new.pc = "update" /\ new.pair = p /\ new.event = n
  OBVIOUS
<1> HIDE DEF new
<1>5. calls[c].pair = Null /\ \A q \in Pairs : q # Null
  BY <1>1, FeedAssumption DEF QuietInv, TypeInv, OrderInv, FeedAssumption
<1>6. ASSUME NEW q \in Pairs \ disturbed', q # p
      PROVE  Fresh(q)'
  <2>1. Fresh(q) /\ passed'[q] = passed[q]
    BY <1>3, <1>6, QuietParts
  <2>2. \A d \in Calls : calls'[d].pair = q \/ calls[d].pair = q
                           => calls'[d] = calls[d]
    BY <1>2, <1>4, <1>5, <1>6
  <2> QED
    BY <2>1, <2>2 DEF Fresh, Running
<1>7. ASSUME p \notin disturbed'
      PROVE  Fresh(p)'
  <2>1. Fresh(p) /\ passed'[p] = n /\ passed[p] < n /\ ~Running(p)
    BY <1>3, <1>7, QuietParts
  <2>2. /\ rows[p] \in Nat /\ updated[p] \in Nat /\ passed[p] \in Nat
    BY QuietParts
  <2>3. rows[p] < n /\ updated[p] < n /\ updated[p] \in {0, rows[p]}
    BY <2>1, <2>2 DEF Fresh
  <2>4. \A d \in Calls : calls'[d].pair = p => calls'[d] = new
    BY <1>2, <2>1 DEF Running
  <2>5. calls'[c] = new
    BY <1>2
  <2>6. Running(p)'
    BY <1>4, <2>5 DEF Running
  <2> QED
    BY <1>4, <2>1, <2>2, <2>3, <2>4, <2>6 DEF Fresh
<1> QED
  BY <1>6, <1>7

LEMMA HandlePairEventQuiet ==
  ASSUME QuietInv, NEW p \in Pairs, HandlePairEvent(p)
  PROVE  QuietInv' /\ passed'[p] >= passed[p]
<1> DEFINE n == sent[p] + 1
<1>1. TypeInv'
  BY HandlePairEventTypes DEF QuietInv
<1>2. /\ n \in Nat /\ passed[p] < n /\ accepted[p] < n
      /\ \A q \in Pairs : accepted[q] \in Nat /\ passed[q] \in Nat
      /\ UNCHANGED <<rows, updated>>
  BY QuietParts DEF HandlePairEvent, announced
<1>3. CASE UNCHANGED <<accepted, throttles, cache, calls, passed, disturbed>>
  <2>1. \A q \in Pairs : InStep(q) => InStep(q)'
    BY <1>3 DEF InStep
  <2>2. Kept'
    BY <1>3 DEF QuietInv, Kept
  <2>3. \A q \in Pairs \ disturbed' : Fresh(q)'
    BY <1>2, <1>3, FreshStays
  <2> QED
    BY <1>1, <1>2, <1>3, <2>1, <2>2, <2>3 DEF QuietInv
<1>4. CASE /\ accepted' = [accepted EXCEPT ![p] = n]
           /\ \E t \in IF CachedOf(p) # {} THEN CachedOf(p)
                                           ELSE FreeThrottles :
                Throttle(t, p, n)
  <2> HIDE DEF n
  <2>1. PICK t \in IF CachedOf(p) # {} THEN CachedOf(p) ELSE FreeThrottles :
               Throttle(t, p, n)
    BY <1>4
  <2>2. /\ t \in Throttles
        /\ \A u \in Throttles \ {t} : throttles'[u] = throttles[u]
        /\ throttles'[t].pair = p /\ throttles'[t].open
        /\ throttles[t].open => throttles[t].pair = p
        /\ \A u \in ToSet(cache) : throttles[u].pair = p => u = t
        /\ t \in ToSet(cache')
        /\ \A u \in ToSet(cache) \ ToSet(cache') :
             throttles[u].open => throttles[u].pair \in disturbed'
        /\ disturbed \subseteq disturbed'
    BY <1>2, <2>1, ThrottleStep DEF QuietInv
  <2>3. \/ throttles'[t].waiting = n /\ UNCHANGED <<calls, passed>>
        \/ /\ throttles'[t].waiting = 0
           /\ Pass(p, n)
           /\ Running(p) => p \in disturbed'
    BY <1>2, <2>1, ThrottleStep DEF QuietInv
  <2>4. \A u \in Throttles : throttles[u].waiting # 0 => throttles[u].open
    BY DEF QuietInv, TypeInv, EventsSent
  <2>5. Kept'
    <3> SUFFICES ASSUME NEW u \in Throttles, throttles'[u].open,
                        throttles'[u].pair \notin disturbed', u # t
                 PROVE  u \in ToSet(cache')
      BY <2>2 DEF Kept
    <3>1. throttles[u].open /\ throttles[u].pair \notin disturbed'
      BY <2>2
    <3> QED
      BY <2>2, <3>1 DEF QuietInv, Kept
  <2>6. \/ UNCHANGED passed
        \/ passed' = [passed EXCEPT ![p] = n]
    BY <2>3 DEF Pass
  <2>7. ASSUME NEW q \in Pairs \ disturbed', q # p
        PROVE  InStep(q)'
    <3>1. InStep(q)
      BY <2>2, <2>7, QuietParts
    <3>2. accepted'[q] = accepted[q] /\ passed'[q] = passed[q]
      BY <1>4, <2>6, <2>7, QuietParts
    <3>3. \A u \in Throttles :
            throttles'[u].pair = q => throttles'[u] = throttles[u]
      BY <2>2, <2>7
    <3>4. \A u \in Throttles :
            throttles[u].pair = q /\ throttles[u].open
              => throttles'[u] = throttles[u]
      BY <2>2, <2>7
    <3> QED
      BY <3>1, <3>2, <3>3, <3>4 DEF InStep
  <2>8. ASSUME p \notin disturbed'
        PROVE  InStep(p)'
    <3>1. accepted'[p] = n
      BY <1>4, QuietParts
    <3>2. \A u \in Throttles :
            throttles'[u].pair = p /\ throttles'[u].waiting # 0 => u = t
      <4> SUFFICES ASSUME NEW u \in Throttles, u # t, throttles[u].pair = p,
                          throttles[u].open
                   PROVE  FALSE
        BY <2>2, <2>4
      <4>1. u \in ToSet(cache)
        BY <2>2, <2>8 DEF QuietInv, Kept
      <4> QED
        BY <2>2, <4>1
    <3>3. CASE throttles'[t].waiting = n /\ UNCHANGED <<calls, passed>>
      BY <1>2, <2>2, <3>1, <3>2, <3>3 DEF InStep
    <3>4. CASE throttles'[t].waiting = 0 /\ Pass(p, n)
      <4>1. passed'[p] = n
        BY <3>4, QuietParts DEF Pass
      <4> QED
        BY <1>2, <2>2, <3>1, <3>2, <3>4, <4>1 DEF InStep
    <3> QED
      BY <2>3, <3>3, <3>4
  <2>9. \A q \in Pairs \ disturbed' : Fresh(q)'
    <3>1. CASE UNCHANGED <<calls, passed>>
      BY <1>2, <2>2, <3>1, FreshStays
    <3>2. CASE Pass(p, n) /\ (Running(p) => p \in disturbed')
      BY <1>2, <2>2, <3>2, PassFresh
    <3> QED
      BY <2>3, <3>1, <3>2
  <2>10. passed'[p] >= passed[p]
    BY <1>2, <2>6, QuietParts
  <2> QED
    BY <1>1, <2>5, <2>7, <2>8, <2>9, <2>10 DEF QuietInv
<1> QED
  BY <1>3, <1>4 DEF HandlePairEvent

LEMMA WindowEndsQuiet ==
  ASSUME QuietInv, NEW t \in Throttles, WindowEnds(t)
  PROVE  QuietInv' /\ (throttles[t].pair \notin disturbed =>
                         passed'[throttles[t].pair] >= passed[throttles[t].pair])
<1> DEFINE p == throttles[t].pair
           n == throttles[t].waiting
<1>1. TypeInv'
  BY WindowEndsTypes DEF QuietInv
<1>2. /\ p \in Pairs /\ n \in Nat /\ throttles[t].open
      /\ \A q \in Pairs : accepted[q] \in Nat /\ passed[q] \in Nat
      /\ UNCHANGED <<cache, rows, accepted, updated>>
  BY QuietParts DEF QuietInv, TypeInv, TypeOK, FeedInv, FeedTyped, WindowEnds,
                    announced
<1>3. /\ \A u \in Throttles : throttles'[u].pair = throttles[u].pair
      /\ \A u \in Throttles : throttles'[u].open => throttles[u].open
      /\ \A u \in Throttles \ {t} : throttles'[u] = throttles[u]
      /\ throttles'[t].waiting = 0
  <2>1. CASE n = 0
    <3>1. throttles' = [throttles EXCEPT ![t].open = FALSE]
      BY <2>1 DEF WindowEnds
    <3> QED
      BY <2>1, <3>1 DEF QuietInv, TypeInv, TypeOK
  <2>2. CASE n # 0
    <3>1. PICK open \in BOOLEAN :
            throttles' = [throttles EXCEPT ![t].open = open, ![t].waiting = 0]
      BY <2>2 DEF WindowEnds
    <3> QED
      BY <1>2, <3>1 DEF QuietInv, TypeInv, TypeOK
  <2> QED
    BY <2>1, <2>2
<1>4. disturbed \subseteq disturbed'
      /\ disturbed' \subseteq disturbed \cup {q \in {p} : Running(q)}
  BY DEF WindowEnds
<1>5. Kept'
  BY <1>2, <1>3, <1>4 DEF QuietInv, Kept
<1>6. p \notin disturbed => (n # 0 => n = accepted[p] /\ passed[p] < n)
  <2> SUFFICES ASSUME p \notin disturbed, n # 0
               PROVE  n = accepted[p] /\ passed[p] < n
    OBVIOUS
  <2>1. InStep(p)
    BY <1>2, QuietParts
  <2> QED
    BY <2>1 DEF InStep
<1>7. IF n = 0 THEN UNCHANGED <<calls, passed>>
      ELSE /\ Pass(p, n) /\ passed' = [passed EXCEPT ![p] = n]
           /\ Running(p) => p \in disturbed'
  BY DEF WindowEnds, Pass
<1> HIDE DEF p, n
<1>8. ASSUME NEW q \in Pairs \ disturbed', q # p
      PROVE  InStep(q)'
  <2>1. InStep(q) /\ passed'[q] = passed[q]
    BY <1>2, <1>4, <1>7, <1>8, QuietParts
  <2>2. \A u \in Throttles : throttles[u].pair = q => throttles'[u] = throttles[u]
    BY <1>3, <1>8 DEF p
  <2> QED
    BY <1>2, <1>3, <2>1, <2>2 DEF InStep
<1>9. ASSUME NEW q \in Pairs \ disturbed', q = p
      PROVE  InStep(q)'
  <2>1. InStep(q)
    BY <1>2, <1>4, <1>9, QuietParts
  <2>2. throttles[t].pair = q /\ throttles[t].waiting = n
    BY <1>9 DEF p, n
  <2>3. CASE n = 0
    <3>1. passed' = passed
      BY <1>7, <2>3
    <3>2. \A u \in Throttles : throttles'[u].waiting = throttles[u].waiting
      BY <1>3, <2>2, <2>3
    <3>3. passed[q] # accepted[q] =>
            \E u \in Throttles \ {t} : /\ throttles[u].pair = q
                                       /\ throttles[u].open
                                       /\ throttles[u].waiting = accepted[q]
      BY <1>2, <2>1, <2>2, <2>3 DEF InStep
    <3> QED
      BY <1>2, <1>3, <2>1, <3>1, <3>2, <3>3 DEF InStep
  <2>4. CASE n # 0
    <3>1. n = accepted[q] /\ passed'[q] = n
      BY <1>2, <1>4, <1>6, <1>7, <1>9, <2>4, QuietParts
    <3>2. \A u \in Throttles : throttles[u].pair = q /\ u # t
                                 => throttles[u].waiting = 0
      <4> SUFFICES ASSUME NEW u \in Throttles, throttles[u].pair = q,
                          throttles[u].open, u # t
                   PROVE  FALSE
        BY DEF QuietInv, TypeInv, EventsSent
      <4>1. u \in ToSet(cache) /\ t \in ToSet(cache)
        BY <1>2, <1>4, <1>9, <2>2 DEF QuietInv, Kept
      <4> QED
        BY <2>2, <4>1 DEF QuietInv, TypeInv, CacheInv
    <3> QED
      BY <1>2, <1>3, <3>1, <3>2 DEF InStep
  <2> QED
    BY <2>3, <2>4
<1>10. \A q \in Pairs \ disturbed' : Fresh(q)'
  <2>1. CASE n = 0
    BY <1>2, <1>4, <1>7, <2>1, FreshStays
  <2>2. CASE n # 0
    BY <1>2, <1>4, <1>6, <1>7, <2>2, PassFresh
  <2> QED
    BY <2>1, <2>2
<1>11. p \notin disturbed => passed'[p] >= passed[p]
  BY <1>2, <1>6, <1>7, QuietParts
<1> QED
  BY <1>1, <1>5, <1>8, <1>9, <1>10, <1>11 DEF QuietInv, p

LEMMA CallQuiet ==
  ASSUME QuietInv, NEW c \in Calls, Call(c)
  PROVE  QuietInv' /\ passed' = passed
<1>1. TypeInv'
  BY CallTypes DEF QuietInv
<1>2. /\ UNCHANGED <<throttles, cache, accepted, passed>>
      /\ disturbed \subseteq disturbed'
      /\ calls[c].pc # "idle"
  BY DEF Call, UpdatePool, CreatePool, DbError, OnPoolCreated, OnPoolUpdated,
         announced
<1>3. calls[c].pair \in Pairs /\ calls[c].event \in Nat
  BY <1>2 DEF QuietInv, TypeInv, TypeOK, FeedInv, FeedTyped
<1>4. Kept'
  BY <1>2 DEF QuietInv, Kept
<1>5. \A q \in Pairs \ disturbed' : InStep(q)'
  <2>1. \A q \in Pairs : InStep(q) => InStep(q)'
    BY <1>2 DEF InStep
  <2> QED
    BY <1>2, <2>1 DEF QuietInv
<1>6. PICK pc \in {"emitUpdated", "create", "emitCreated"} :
        Goto(c, pc) \/ EndCall(c)
  BY DEF Call, UpdatePool, CreatePool, DbError, OnPoolCreated, OnPoolUpdated
<1>7. /\ \A d \in Calls \ {c} : calls'[d] = calls[d]
      /\ \A x \in CallPCs : Goto(c, x) => /\ calls'[c].pc = x
                                          /\ calls'[c].pair = calls[c].pair
                                          /\ calls'[c].event = calls[c].event
      /\ EndCall(c) => calls'[c] = NoCall
  <2>1. calls \in [Calls -> [pc : CallPCs, pair : Pairs \cup {Null},
                             event : Nat]]
    BY DEF QuietInv, TypeInv, TypeOK
  <2> QED
    BY <1>6, <2>1 DEF Goto, EndCall
<1>8. NoCall.pair = Null /\ \A q \in Pairs : q # Null
  BY FeedAssumption DEF FeedAssumption, NoCall
<1>9. \A q \in Pairs \ {calls[c].pair} : rows'[q] = rows[q]
                                           /\ updated'[q] = updated[q]
  BY <1>3, QuietParts
  DEF Call, UpdatePool, CreatePool, DbError, OnPoolCreated, OnPoolUpdated,
      Store, announced
\* The pairs of the other calls.
<1>10. ASSUME NEW q \in Pairs \ disturbed', q # calls[c].pair
       PROVE  Fresh(q)'
  <2>1. Fresh(q)
    BY <1>2, <1>10, QuietParts
  <2>2. calls'[c].pair # q
    BY <1>6, <1>7, <1>8, <1>10 DEF CallPCs
  <2>3. \A d \in Calls : calls'[d].pair = q \/ calls[d].pair = q
                           => calls'[d] = calls[d]
    BY <1>7, <1>10, <2>2
  <2> QED
    BY <1>2, <1>9, <1>10, <2>1, <2>3 DEF Fresh, Running
\* The pair of c, which no other call has.
<1>11. ASSUME NEW q \in Pairs \ disturbed', q = calls[c].pair
       PROVE  Fresh(q)'
  <2>1. Fresh(q) /\ Ordered(q)
    BY <1>2, <1>11, QuietParts DEF QuietInv, TypeInv, OrderInv
  <2>2. \A d \in Calls : d # c => calls'[d].pair # q
    BY <1>7, <1>11, <2>1 DEF Ordered
  <2>3. Running(q) /\ rows[q] \in Nat /\ passed[q] \in Nat /\ updated[q] \in Nat
    BY <1>11, QuietParts DEF Running
  <2>4. calls[c].event = passed[q] /\ passed'[q] = passed[q]
    BY <1>2, <1>11, <2>1 DEF Fresh
  <2>5. EndCall(c) => ~Running(q)'
    BY <1>7, <1>8, <2>2 DEF Running
  <2>6. \A x \in CallPCs : Goto(c, x) =>
          Running(q)' /\ calls'[c].event = passed'[q] /\ calls'[c].pc = x
    BY <1>7, <1>11, <2>4 DEF Running
  <2>7. CASE UpdatePool(c)
    <3>1. /\ updated' = updated /\ updated[q] < passed[q]
          /\ rows[q] < passed[q] /\ updated[q] \in {0, rows[q]}
      BY <1>11, <2>1, <2>7 DEF UpdatePool, announced, Fresh
    <3>2. CASE rows[q] # 0
      <4>1. rows'[q] = passed[q] /\ Goto(c, "emitUpdated")
        BY <1>11, <2>4, <2>7, <3>2, QuietParts DEF UpdatePool, Store
      <4>2. Running(q)' /\ calls'[c].event = passed'[q]
            /\ calls'[c].pc = "emitUpdated"
        BY <2>6, <4>1 DEF CallPCs
      <4> QED
        BY <2>2, <2>3, <2>4, <3>1, <4>1, <4>2 DEF Fresh
    <3>3. CASE rows[q] = 0
      <4>1. rows' = rows /\ (Goto(c, "create") \/ EndCall(c))
        BY <1>11, <2>7, <3>3 DEF UpdatePool
      <4>2. CASE Goto(c, "create")
        <5>1. Running(q)' /\ calls'[c].event = passed'[q]
              /\ calls'[c].pc = "create"
          BY <2>6, <4>2 DEF CallPCs
        <5> QED
          BY <2>2, <2>3, <2>4, <3>1, <3>3, <4>1, <5>1 DEF Fresh
      <4>3. CASE EndCall(c)
        <5>1. ~Running(q)'
          BY <2>5, <4>3
        <5> QED
          BY <2>3, <2>4, <3>1, <3>3, <4>1, <5>1 DEF Fresh, Running
      <4> QED
        BY <4>1, <4>2, <4>3
    <3> QED
      BY <3>2, <3>3
  <2>8. CASE CreatePool(c)
    <3>1. updated' = updated /\ updated[q] = 0 /\ rows[q] = 0
      BY <1>11, <2>1, <2>8 DEF CreatePool, announced, Fresh
    <3>2. rows'[q] = passed[q] /\ Goto(c, "emitCreated")
      BY <1>11, <2>4, <2>8, <3>1, QuietParts DEF CreatePool, Store
    <3>3. Running(q)' /\ calls'[c].event = passed'[q]
          /\ calls'[c].pc = "emitCreated"
      BY <2>6, <3>2 DEF CallPCs
    <3> QED
      BY <2>2, <2>3, <2>4, <3>1, <3>2, <3>3 DEF Fresh
  <2>9. CASE DbError(c)
    BY <1>11, <2>9 DEF DbError
  <2>10. CASE OnPoolCreated(c)
    <3>1. /\ rows' = rows /\ updated' = updated
          /\ rows[q] = passed[q] /\ updated[q] = 0
      BY <1>11, <2>1, <2>10 DEF OnPoolCreated, Fresh
    <3>2. ~Running(q)'
      BY <2>5, <2>10 DEF OnPoolCreated
    <3> QED
      BY <2>3, <2>4, <3>1, <3>2 DEF Fresh, Running
  <2>11. CASE OnPoolUpdated(c)
    <3>1. rows' = rows /\ rows[q] = passed[q] /\ updated'[q] = passed[q]
      BY <1>11, <2>1, <2>4, <2>11, QuietParts DEF OnPoolUpdated, Fresh
    <3>2. ~Running(q)'
      BY <2>5, <2>11 DEF OnPoolUpdated
    <3> QED
      BY <2>3, <2>4, <3>1, <3>2 DEF Fresh, Running
  <2> QED
    BY <2>7, <2>8, <2>9, <2>10, <2>11 DEF Call
<1> QED
  BY <1>1, <1>2, <1>4, <1>5, <1>10, <1>11 DEF QuietInv

LEMMA CrashQuiet ==
  ASSUME QuietInv, Crash
  PROVE  QuietInv' /\ passed' = passed
<1>1. TypeInv'
  BY CrashTypes DEF QuietInv
<1>2. /\ \A t \in Throttles : throttles'[t] = NoThrottle
      /\ \A c \in Calls : calls'[c] = NoCall
      /\ UNCHANGED <<rows, accepted, passed, updated>>
      /\ disturbed \subseteq disturbed'
  BY DEF Crash, announced
<1>3. /\ ~NoThrottle.open /\ NoThrottle.waiting = 0 /\ NoCall.pair = Null
      /\ \A q \in Pairs : q # Null
  BY FeedAssumption DEF FeedAssumption, NoThrottle, NoCall
<1>4. Kept'
  BY <1>2, <1>3 DEF Kept
<1>5. ASSUME NEW q \in Pairs \ disturbed'
      PROVE  InStep(q)' /\ Fresh(q)'
  <2>1. InStep(q) /\ Fresh(q)
    BY <1>2, <1>5, QuietParts
  <2>2. /\ ~Running(q)
        /\ \A t \in Throttles : throttles[t].pair = q => ~throttles[t].open
    BY <1>5 DEF Crash
  <2>3. ~Running(q)' /\ \A c \in Calls : calls'[c].pair # q
    BY <1>2, <1>3 DEF Running
  <2>4. InStep(q)'
    BY <1>2, <1>3, <2>1, <2>2 DEF InStep
  <2>5. Fresh(q)'
    BY <1>2, <2>1, <2>2, <2>3 DEF Fresh, Running
  <2> QED
    BY <2>4, <2>5
<1> QED
  BY <1>1, <1>2, <1>4, <1>5 DEF QuietInv

LEMMA NextQuiet ==
  ASSUME QuietInv, [Next]_vars
  PROVE  /\ QuietInv'
         /\ \A p \in Pairs : p \notin disturbed => passed'[p] >= passed[p]
<1>1. \A p \in Pairs : passed[p] \in Nat
  BY QuietParts
<1>2. CASE UNCHANGED vars
  <2>1. TypeInv'
    BY <1>2, NextTypes DEF vars, QuietInv
  <2>2. \A p \in Pairs : (InStep(p) => InStep(p)') /\ (Fresh(p) => Fresh(p)')
    BY <1>2 DEF vars, InStep, Fresh, Running
  <2>3. Kept' /\ disturbed' = disturbed /\ passed' = passed
    BY <1>2 DEF vars, QuietInv, Kept
  <2> QED
    BY <1>1, <2>1, <2>2, <2>3 DEF QuietInv
<1>3. ASSUME NEW p \in Pairs, HandlePairEvent(p)
      PROVE  /\ QuietInv'
             /\ \A q \in Pairs : q \notin disturbed => passed'[q] >= passed[q]
  <2>1. QuietInv' /\ passed'[p] >= passed[p]
    BY <1>3, HandlePairEventQuiet
  <2>2. \A q \in Pairs \ {p} : passed'[q] = passed[q]
    BY <1>3, QuietParts DEF HandlePairEvent, Throttle, Pass
  <2> QED
    BY <1>1, <2>1, <2>2
<1>4. ASSUME NEW t \in Throttles, WindowEnds(t)
      PROVE  /\ QuietInv'
             /\ \A q \in Pairs : q \notin disturbed => passed'[q] >= passed[q]
  <2>1. /\ QuietInv'
        /\ throttles[t].pair \notin disturbed =>
             passed'[throttles[t].pair] >= passed[throttles[t].pair]
    BY <1>4, WindowEndsQuiet
  <2>2. \A q \in Pairs \ {throttles[t].pair} : passed'[q] = passed[q]
    BY <1>4, QuietParts DEF WindowEnds, Pass
  <2> QED
    BY <1>1, <2>1, <2>2
<1>5. ASSUME NEW c \in Calls, Call(c)
      PROVE  QuietInv' /\ passed' = passed
  BY <1>5, CallQuiet
<1>6. CASE Crash
  BY <1>1, <1>6, CrashQuiet
<1> QED
  BY <1>1, <1>2, <1>3, <1>4, <1>5, <1>6 DEF Next

LEMMA QuietAlways == Spec => []QuietInv
BY InitQuiet, NextQuiet, PTL DEF Spec

\* An event of an undisturbed pair is never passed on after a newer one, for
\* any capacity of the cache and any order in which windows end.
THEOREM OrderKept == Spec => PassedInOrder
<1>1. ASSUME [Next]_vars
      PROVE  disturbed \subseteq disturbed'
  <2>1. CASE UNCHANGED vars
    BY <2>1 DEF vars
  <2>2. ASSUME NEW c \in Calls, Call(c)
        PROVE  disturbed \subseteq disturbed'
    BY <2>2 DEF Call, UpdatePool, CreatePool, DbError, OnPoolCreated,
                OnPoolUpdated
  <2> QED
    BY <1>1, <2>1, <2>2
    DEF Next, HandlePairEvent, Throttle, WindowEnds, Crash
<1>2. QuietInv /\ [Next]_vars =>
        [\A p \in Pairs : p \notin disturbed' => passed'[p] >= passed[p]]_vars
  BY <1>1, NextQuiet
<1> QED
  BY <1>2, QuietAlways, PTL DEF Spec, PassedInOrder

\* When everything of an undisturbed pair has come to rest, its row holds the
\* last event that was let in, and the core decided on no older price.
THEOREM FreshAtRest == Spec => []FreshWhenQuiet
<1>1. ASSUME QuietInv, NEW p \in Pairs, p \notin disturbed, rows[p] # 0,
             ~Running(p),
             \A t \in Throttles :
               throttles[t].pair = p => throttles[t].waiting = 0
      PROVE  rows[p] = accepted[p] /\ (updated[p] # 0 => updated[p] = rows[p])
  <2>1. /\ InStep(p) /\ Fresh(p)
        /\ accepted[p] \in Nat /\ passed[p] \in Nat
    BY <1>1, QuietParts
  <2>2. passed[p] = accepted[p]
    BY <1>1, <2>1 DEF InStep
  <2> QED
    BY <1>1, <2>1, <2>2 DEF Fresh
<1>2. QuietInv => FreshWhenQuiet
  BY <1>1 DEF FreshWhenQuiet
<1> QED
  BY <1>2, QuietAlways, PTL

\* No event of an undisturbed pair is forgotten while the process runs: as
\* long as the last one that was let in was not passed on, a throttle whose
\* window is open keeps it, and WindowEnds passes it on.
NothingForgotten ==
  \A p \in Pairs \ disturbed :
    passed[p] # accepted[p] =>
      \E t \in Throttles : /\ throttles[t].pair = p /\ throttles[t].open
                           /\ throttles[t].waiting = accepted[p]

\* What AcceptedIsPassed promises in the end holds in no state for want of a
\* timer: somebody always has the last event that was let in.
THEOREM LastEventKept == Spec => []NothingForgotten
<1>1. QuietInv => NothingForgotten
  BY DEF QuietInv, InStep, NothingForgotten
<1> QED
  BY <1>1, QuietAlways, PTL

\* The throttle t has an event of p that waits, the event n or a later one.
WaitsSince(t, p, n) ==
  /\ throttles[t].open /\ throttles[t].pair = p
  /\ throttles[t].waiting >= n

PassedOrStopped(p, n) == passed[p] >= n \/ crashes > 0

LEMMA WaitingStays ==
  ASSUME NEW t \in Throttles, NEW p \in Pairs, NEW n \in Nat \ {0},
         TypeInv, [Next]_vars, WaitsSince(t, p, n)
  PROVE  /\ WaitsSince(t, p, n)' \/ PassedOrStopped(p, n)'
         /\ WindowEnds(t) => PassedOrStopped(p, n)'
<1>1. /\ throttles[t].open /\ throttles[t].pair = p
      /\ throttles[t].waiting >= n /\ throttles[t].waiting \in Nat
      /\ throttles[t].waiting <= sent[p] /\ sent[p] \in Nat
  BY TypeParts DEF WaitsSince, TypeInv, TypeOK, EventsSent
<1>2. ASSUME NEW q, NEW k \in Nat, Pass(q, k)
      PROVE  /\ passed'[p] = IF q = p THEN k ELSE passed[p]
  BY <1>2, TypeParts DEF Pass
<1>3. ASSUME WindowEnds(t)
      PROVE  PassedOrStopped(p, n)'
  <2>1. Pass(p, throttles[t].waiting)
    BY <1>1, <1>3 DEF WindowEnds
  <2>2. passed'[p] = throttles[t].waiting
    BY <1>1, <1>2, <2>1
  <2> QED
    BY <1>1, <2>2 DEF PassedOrStopped
<1>4. ASSUME NEW u \in Throttles, u # t, WindowEnds(u)
      PROVE  WaitsSince(t, p, n)'
  <2>1. \E r : throttles' = [throttles EXCEPT ![u] = r]
    <3>1. CASE throttles[u].waiting = 0
      BY <1>4, <3>1 DEF WindowEnds
    <3>2. CASE throttles[u].waiting # 0
      BY <1>4, <3>2 DEF WindowEnds
    <3> QED
      BY <3>1, <3>2
  <2>2. throttles'[t] = throttles[t]
    BY <1>4, <2>1 DEF TypeInv, TypeOK
  <2> QED
    BY <2>2 DEF WaitsSince
<1>5. ASSUME NEW q \in Pairs, HandlePairEvent(q)
      PROVE  WaitsSince(t, p, n)' \/ PassedOrStopped(p, n)'
  <2> DEFINE k == sent[q] + 1
  <2>1. k \in Nat
    BY TypeParts
  <2>2. CASE UNCHANGED throttles
    BY <2>2 DEF WaitsSince
  <2>3. ASSUME NEW u, u \in IF CachedOf(q) # {} THEN CachedOf(q)
                                                ELSE FreeThrottles,
               Throttle(u, q, k)
        PROVE  WaitsSince(t, p, n)' \/ PassedOrStopped(p, n)'
    <3> HIDE DEF k
    <3>1. /\ u \in Throttles
          /\ \A w \in Throttles \ {u} : throttles'[w] = throttles[w]
          /\ throttles'[u].pair = q /\ throttles'[u].open
          /\ throttles[u].open => throttles[u].pair = q
          /\ throttles'[u].waiting = k \/ Pass(q, k)
      BY <2>1, <2>3, ThrottleStep
    <3>2. CASE u # t
      BY <3>1, <3>2 DEF WaitsSince
    <3>3. CASE u = t
      <4>1. q = p /\ k = sent[p] + 1
        BY <1>1, <3>1, <3>3 DEF k
      <4>2. k >= n
        BY <1>1, <4>1
      <4>3. CASE throttles'[t].waiting = k
        BY <3>1, <3>3, <4>1, <4>2, <4>3 DEF WaitsSince
      <4>4. CASE Pass(q, k)
        BY <1>2, <2>1, <4>1, <4>2, <4>4 DEF PassedOrStopped
      <4> QED
        BY <3>1, <3>3, <4>3, <4>4
    <3> QED
      BY <3>2, <3>3
  <2> QED
    BY <1>5, <2>2, <2>3 DEF HandlePairEvent
<1>6. Crash => PassedOrStopped(p, n)'
  BY DEF Crash, PassedOrStopped, TypeInv, TypeOK
<1>7. ASSUME (\E c \in Calls : Call(c)) \/ UNCHANGED vars
      PROVE  WaitsSince(t, p, n)' /\ ~WindowEnds(t)
  <2>1. UNCHANGED throttles
    BY <1>7 DEF Call, UpdatePool, CreatePool, DbError, OnPoolCreated,
                OnPoolUpdated, vars
  <2>2. ~WindowEnds(t)
    <3> SUFFICES ASSUME WindowEnds(t) PROVE FALSE
      OBVIOUS
    <3>1. PICK open \in BOOLEAN :
            throttles' = [throttles EXCEPT ![t].open = open, ![t].waiting = 0]
      BY <1>1 DEF WindowEnds
    <3>2. throttles'[t].waiting = 0
      BY <3>1 DEF TypeInv, TypeOK
    <3> QED
      BY <1>1, <2>1, <3>2
  <2> QED
    BY <2>1, <2>2 DEF WaitsSince
<1> QED
  BY <1>3, <1>4, <1>5, <1>6, <1>7 DEF Next

\* The timer of the window of t fires, as long as the window is open.
TimerFires(t) ==
  [](<><<WindowEnds(t)>>_vars \/ <>~throttles[t].open)

\* An event that waits in a throttle whose timer fires is passed on, or a
\* later one is, unless the process stops: AcceptedIsPassed for one throttle,
\* also when it was dropped from the cache, for any number of events.
THEOREM WaitingIsPassed ==
  ASSUME NEW t \in Throttles, NEW p \in Pairs, NEW n \in Nat \ {0}
  PROVE  Spec /\ TimerFires(t) =>
           (throttles[t].pair = p /\ throttles[t].waiting = n
              ~> PassedOrStopped(p, n))
<1>1. TypeInv /\ [Next]_vars /\ WaitsSince(t, p, n)
        => WaitsSince(t, p, n)' \/ PassedOrStopped(p, n)'
  BY WaitingStays
<1>2. TypeInv /\ <<WindowEnds(t)>>_vars /\ WaitsSince(t, p, n)
        => PassedOrStopped(p, n)'
  BY WaitingStays DEF Next
<1>3. WaitsSince(t, p, n) => throttles[t].open
  BY DEF WaitsSince
<1>4. TypeInv /\ throttles[t].pair = p /\ throttles[t].waiting = n
        => WaitsSince(t, p, n)
  BY DEF TypeInv, EventsSent, WaitsSince
<1>5. Spec => []TypeInv /\ [][Next]_vars
  BY InitTypes, NextTypes, PTL DEF Spec
<1> QED
  BY <1>1, <1>2, <1>3, <1>4, <1>5, PTL DEF TimerFires

-----------------------------------------------------------------------------
(* The refinement                                                          *)

LEMMA FirstAnnouncements == Init => Promise!Init
BY DEF Init, Promise!Init

LEMMA AnnouncementStep ==
  ASSUME QuietInv, [Next]_vars
  PROVE  [Promise!Next]_(Promise!announcementVars)
<1>1. CASE /\ UNCHANGED <<created, updated>>
           /\ disturbed \subseteq disturbed'
  <2>1. Promise!FallOutOfOrder
    BY <1>1 DEF Promise!FallOutOfOrder
  <2> QED
    BY <2>1 DEF Promise!Next
<1>2. ASSUME NEW c \in Calls, OnPoolCreated(c)
      PROVE  Promise!Next
  <2>1. calls[c].pair \in Pairs /\ created[calls[c].pair] = 0
    BY <1>2 DEF OnPoolCreated, QuietInv, TypeInv, FeedInv, FeedTyped,
                AnnouncedOnce
  <2>2. /\ created' = [created EXCEPT ![calls[c].pair] = 1]
        /\ UNCHANGED <<updated, disturbed>>
    BY <1>2, <2>1 DEF OnPoolCreated, QuietInv, TypeInv, FeedInv, FeedTyped
  <2>3. Promise!Create(calls[c].pair)
    BY <2>1, <2>2 DEF Promise!Create
  <2> QED
    BY <2>1, <2>3 DEF Promise!Next
<1>3. ASSUME NEW c \in Calls, OnPoolUpdated(c)
      PROVE  Promise!Next
  <2> DEFINE p == calls[c].pair
             n == calls[c].event
             Numbers == UNION {1..MaxEvents[q] : q \in Pairs}
  <2>1. calls[c].pc = "emitUpdated" /\ p \in Pairs /\ n \in 1..MaxEvents[p]
    <3>1. calls[c].pc = "emitUpdated" /\ p \in Pairs /\ n > 0 /\ n \in Nat
          /\ n <= sent[p]
      BY <1>3 DEF OnPoolUpdated, QuietInv, TypeInv, TypeOK, EventsSent,
                  FeedInv, FeedTyped
    <3>2. sent[p] <= MaxEvents[p] /\ MaxEvents[p] \in Nat /\ sent[p] \in Nat
      BY <3>1, TypeParts DEF QuietInv
    <3> QED
      BY <3>1, <3>2
  <2>2. n \in Numbers
    BY <2>1
  <2>3. /\ updated' = [updated EXCEPT ![p] = n]
        /\ UNCHANGED <<created, disturbed>>
    BY <1>3 DEF OnPoolUpdated
  <2>4. p \in Pairs \ disturbed => created[p] = 1 /\ updated[p] < n
    <3> SUFFICES ASSUME p \in Pairs \ disturbed
                 PROVE  created[p] = 1 /\ updated[p] < n
      OBVIOUS
    <3>1. Ordered(p) /\ Fresh(p)
      BY QuietParts DEF QuietInv, TypeInv, OrderInv
    <3> QED
      BY <2>1, <3>1 DEF Ordered, Fresh
  <2>5. Promise!Update(p, n)
    BY <2>3, <2>4 DEF Promise!Update
  <2> QED
    BY <2>1, <2>2, <2>5 DEF Promise!Next
<1>4. CASE UNCHANGED vars
  BY <1>4 DEF vars, Promise!announcementVars
<1>5. CASE Next
  <2>1. CASE \E p \in Pairs : HandlePairEvent(p)
    <3>1. UNCHANGED <<created, updated>> /\ disturbed \subseteq disturbed'
      BY <2>1 DEF HandlePairEvent, Throttle, announced
    <3> QED
      BY <1>1, <3>1
  <2>2. CASE \E t \in Throttles : WindowEnds(t)
    <3>1. UNCHANGED <<created, updated>> /\ disturbed \subseteq disturbed'
      BY <2>2 DEF WindowEnds, announced
    <3> QED
      BY <1>1, <3>1
  <2>3. CASE \E c \in Calls : UpdatePool(c) \/ CreatePool(c) \/ DbError(c)
    <3>1. UNCHANGED <<created, updated>> /\ disturbed \subseteq disturbed'
      BY <2>3 DEF UpdatePool, CreatePool, DbError, announced
    <3> QED
      BY <1>1, <3>1
  <2>4. CASE Crash
    <3>1. UNCHANGED <<created, updated>> /\ disturbed \subseteq disturbed'
      BY <2>4 DEF Crash, announced
    <3> QED
      BY <1>1, <3>1
  <2> QED
    BY <1>2, <1>3, <1>5, <2>1, <2>2, <2>3, <2>4 DEF Next, Call
<1> QED
  BY <1>4, <1>5

\* The pair feed keeps its promise to the core: of every pair one creation at
\* most, and of an undisturbed pair first the creation and then updates by
\* ever newer events, for any numbers of pairs, throttles and restarts.
THEOREM AnnouncementsImplemented == Spec => ImplementsAnnouncements
BY FirstAnnouncements, AnnouncementStep, QuietAlways, PTL
DEF Spec, ImplementsAnnouncements, Promise!Spec
=============================================================================
