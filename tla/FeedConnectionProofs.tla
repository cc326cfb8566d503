------------------------ MODULE FeedConnectionProofs ------------------------
(* Theorems about FeedConnection, for every value of the three delays: its *)
(* types, one socket at a time, pings that meet no connecting socket, and  *)
(* the close timer that counts down as long as the peer is silent.         *)
EXTENDS FeedConnection, TLAPS

LEMMA DelaysTyped ==
  /\ PingDelay \in Nat /\ CloseDelay \in Nat /\ ReconnectDelay \in Nat
  /\ PingDelay < ReconnectDelay
  /\ Off \notin Nat
BY DelayAssumption DEF DelayAssumption

LEMMA SoonerTyped ==
  ASSUME NEW n \in Nat, NEW timer \in 0..n \cup {Off}, timer # 0
  PROVE  /\ Sooner(timer) \in 0..n \cup {Off}
         /\ Sooner(timer) = Off <=> timer = Off
         /\ timer # Off => Sooner(timer) = timer - 1
<1>1. CASE timer = Off
  BY <1>1 DEF Sooner
<1>2. CASE timer # Off
  <2>1. timer \in Nat /\ Sooner(timer) = timer - 1 /\ timer - 1 \in 0..n
    BY <1>2 DEF Sooner
  <2> QED
    BY <1>2, <2>1, DelaysTyped
<1> QED
  BY <1>1, <1>2

LEMMA NextTyped == TypeOK /\ [Next]_vars => TypeOK'
<1> SUFFICES ASSUME TypeOK, [Next]_vars PROVE TypeOK'
  OBVIOUS
<1>1. CASE Tick
  <2>1. /\ ping' \in 0..PingDelay \cup {Off}
        /\ close' \in 0..CloseDelay \cup {Off}
        /\ reconnect' \in 0..ReconnectDelay \cup {Off}
    BY <1>1, SoonerTyped, DelaysTyped DEF TypeOK, Tick
  <2> QED
    BY <1>1, <2>1 DEF TypeOK, Tick
<1>2. CASE OnOpen \/ OnMessage \/ OnError \/ OnClose \/ PeerDies
  <2>1. /\ PingDelay \in 0..PingDelay /\ CloseDelay \in 0..CloseDelay
        /\ ReconnectDelay \in 0..ReconnectDelay
    BY DelaysTyped
  <2>2. CASE OnOpen \/ OnMessage
    BY <2>1, <2>2 DEF TypeOK, OnOpen, OnMessage, Heartbeat
  <2>3. CASE OnError \/ OnClose \/ PeerDies
    BY <2>1, <2>3 DEF TypeOK, OnError, OnClose, PeerDies
  <2> QED
    BY <1>2, <2>2, <2>3
<1>3. CASE PingFires \/ CloseFires \/ ReconnectFires
  BY <1>3 DEF TypeOK, PingFires, CloseFires, ReconnectFires
<1>4. CASE UNCHANGED vars
  BY <1>4 DEF TypeOK, vars
<1> QED
  BY <1>1, <1>2, <1>3, <1>4 DEF Next

\* Every variable keeps its type; a timer never runs below 0 nor above the
\* delay it was set to.
THEOREM TypeCorrect == Spec => []TypeOK
<1>1. Init => TypeOK
  BY DEF Init, TypeOK
<1> QED
  BY <1>1, NextTyped, PTL DEF Spec

-----------------------------------------------------------------------------
\* One socket or one reconnection, whatever the order of errors, closings
\* and timers.
THEOREM AlwaysOneSocket == Spec => []OneSocket
<1>1. Init => OneSocket
  BY DEF Init, OneSocket
<1>2. TypeOK /\ OneSocket /\ [Next]_vars => OneSocket'
  <2> SUFFICES ASSUME TypeOK, OneSocket, [Next]_vars PROVE OneSocket'
    OBVIOUS
  <2>1. CASE Tick
    <3>1. reconnect' = Off <=> reconnect = Off
      BY <2>1, SoonerTyped, DelaysTyped DEF TypeOK, Tick
    <3> QED
      BY <2>1, <3>1 DEF OneSocket, Tick
  <2>2. CASE OnClose
    BY <2>2, DelaysTyped DEF OneSocket, OnClose
  <2>3. CASE OnOpen \/ OnMessage \/ OnError \/ PeerDies
    BY <2>3 DEF OneSocket, OnOpen, OnMessage, OnError, PeerDies
  <2>4. CASE PingFires \/ CloseFires
    BY <2>4 DEF OneSocket, PingFires, CloseFires
  <2>5. CASE ReconnectFires
    BY <2>5 DEF OneSocket, ReconnectFires
  <2>6. CASE UNCHANGED vars
    BY <2>6 DEF OneSocket, vars
  <2> QED
    BY <2>1, <2>2, <2>3, <2>4, <2>5, <2>6 DEF Next
<1> QED
  BY <1>1, <1>2, TypeCorrect, PTL DEF Spec

-----------------------------------------------------------------------------
\* The inductive invariant behind PingNeverWhileConnecting: the ping timer of
\* a closed socket is always ahead of the reconnection.
PingAhead ==
  /\ socket = "connecting" => ping = Off
  /\ socket = "closed" => ping = Off \/ ping < reconnect

LEMMA NextPingAhead ==
  TypeOK /\ OneSocket /\ PingAhead /\ [Next]_vars => PingAhead'
<1> SUFFICES ASSUME TypeOK, OneSocket, PingAhead, [Next]_vars
             PROVE  PingAhead'
  OBVIOUS
<1>1. CASE Tick
  <2>1. socket' = socket /\ (ping' = Off <=> ping = Off)
    BY <1>1, SoonerTyped, DelaysTyped DEF TypeOK, Tick
  <2>2. ASSUME socket = "closed", ping # Off
        PROVE  ping' < reconnect'
    <3>1. reconnect # Off
      BY <2>2 DEF OneSocket
    <3>2. /\ ping \in 0..PingDelay /\ reconnect \in 0..ReconnectDelay
          /\ ping < reconnect
      BY <2>2, <3>1 DEF TypeOK, PingAhead
    <3>3. ping' = ping - 1 /\ reconnect' = reconnect - 1
      BY <1>1, <2>2, <3>1 DEF Tick, Sooner
    <3> QED
      BY <3>2, <3>3, DelaysTyped
  <2> QED
    BY <2>1, <2>2 DEF PingAhead
<1>2. CASE OnClose
  <2>1. ping' = Off \/ ping' < reconnect'
    <3>1. CASE ping = Off
      BY <1>2, <3>1 DEF OnClose
    <3>2. CASE ping # Off
      <4>1. ping \in 0..PingDelay
        BY <3>2 DEF TypeOK
      <4>2. ping < ReconnectDelay
        BY <4>1, DelaysTyped
      <4> QED
        BY <1>2, <4>2 DEF OnClose
    <3> QED
      BY <3>1, <3>2
  <2> QED
    BY <1>2, <2>1 DEF PingAhead, OnClose
<1>3. CASE ReconnectFires
  <2>1. ping = Off
    <3>1. socket = "closed" /\ reconnect = 0
      BY <1>3, DelaysTyped DEF OneSocket, ReconnectFires
    <3>2. SUFFICES ASSUME ping # Off PROVE FALSE
      OBVIOUS
    <3>3. ping \in 0..PingDelay /\ ping < 0
      BY <3>1, <3>2 DEF TypeOK, PingAhead
    <3> QED
      BY <3>3, DelaysTyped
  <2> QED
    BY <1>3, <2>1 DEF PingAhead, ReconnectFires
<1>4. CASE OnOpen \/ OnMessage \/ OnError \/ PeerDies
  BY <1>4 DEF PingAhead, OnOpen, OnMessage, OnError, PeerDies
<1>5. CASE PingFires \/ CloseFires
  BY <1>5 DEF PingAhead, PingFires, CloseFires
<1>6. CASE UNCHANGED vars
  BY <1>6 DEF PingAhead, vars
<1> QED
  BY <1>1, <1>2, <1>3, <1>4, <1>5, <1>6 DEF Next

\* No ping is sent on a connecting socket, because a ping is due sooner than
\* a reconnection.
THEOREM PingSafe == Spec => []PingNeverWhileConnecting
<1>1. Init => PingAhead
  BY DEF Init, PingAhead
<1>2. PingAhead => PingNeverWhileConnecting
  BY DelaysTyped DEF PingAhead, PingNeverWhileConnecting
<1> QED
  BY <1>1, <1>2, NextPingAhead, TypeCorrect, AlwaysOneSocket, PTL DEF Spec

-----------------------------------------------------------------------------
(* A peer that goes silent is dropped in time: the safety half of          *)
(* DeadPeerDropped.                                                        *)

\* An open socket is subscribed, and its close timer runs.
OpenIsServed == socket = "open" => subscribed /\ close # Off

LEMMA NextServed ==
  TypeOK /\ OpenIsServed /\ [Next]_vars => OpenIsServed'
<1> SUFFICES ASSUME TypeOK, OpenIsServed, [Next]_vars PROVE OpenIsServed'
  OBVIOUS
<1>1. CASE Tick
  <2>1. close' = Off <=> close = Off
    BY <1>1, SoonerTyped, DelaysTyped DEF TypeOK, Tick
  <2> QED
    BY <1>1, <2>1 DEF OpenIsServed, Tick
<1>2. CASE OnOpen \/ OnMessage
  BY <1>2, DelaysTyped DEF OpenIsServed, OnOpen, OnMessage, Heartbeat
<1>3. CASE OnError \/ OnClose \/ PeerDies
  BY <1>3 DEF OpenIsServed, OnError, OnClose, PeerDies
<1>4. CASE PingFires \/ CloseFires \/ ReconnectFires
  BY <1>4 DEF OpenIsServed, PingFires, CloseFires, ReconnectFires
<1>5. CASE UNCHANGED vars
  BY <1>5 DEF OpenIsServed, vars
<1> QED
  BY <1>1, <1>2, <1>3, <1>4, <1>5 DEF Next

\* However often the feed breaks, an open socket has sent its subscription
\* and is watched by a close timer; a timer that an older socket left behind
\* never takes the watch away.
THEOREM OpenServed == Spec => []OpenIsServed
<1>1. Init => OpenIsServed
  BY DEF Init, OpenIsServed
<1> QED
  BY <1>1, NextServed, TypeCorrect, PTL DEF Spec

\* As long as a silent peer's socket is open nothing revives the peer or
\* puts the close timer off, and every tick counts it down.
CountsDown ==
  socket = "open" /\ ~alive /\ socket' = "open" =>
    /\ ~alive'
    /\ close' \in Nat /\ close' <= close
    /\ Tick => close' < close

\* Time does not pass a close timer that is due, so a peer that goes silent
\* is dropped within CloseDelay ticks, whatever the value of the delays.
THEOREM SilentPeerCounted == Spec => [][CountsDown]_vars
<1>1. TypeOK /\ OpenIsServed /\ [Next]_vars => CountsDown
  <2> SUFFICES ASSUME TypeOK, OpenIsServed, [Next]_vars,
                      socket = "open", ~alive, socket' = "open"
               PROVE  /\ ~alive'
                      /\ close' \in Nat /\ close' <= close
                      /\ Tick => close' < close
    BY DEF CountsDown
  <2>1. close \in Nat
    BY DelaysTyped DEF TypeOK, OpenIsServed
  <2>2. CASE Tick
    <3>1. close # 0 /\ close' = close - 1 /\ alive' = alive
      BY <2>1, <2>2, DelaysTyped DEF Tick, Sooner
    <3> QED
      BY <2>1, <3>1
  <2>3. CASE (PingFires \/ UNCHANGED vars) /\ ~Tick
    BY <2>1, <2>3 DEF PingFires, vars
  <2>4. ~ \/ OnOpen \/ OnMessage \/ OnError \/ OnClose \/ PeerDies
          \/ CloseFires \/ ReconnectFires
    BY DEF OnOpen, OnMessage, OnError, OnClose, PeerDies, CloseFires,
           ReconnectFires
  <2> QED
    BY <2>2, <2>3, <2>4 DEF Next
<1> QED
  BY <1>1, TypeCorrect, OpenServed, PTL DEF Spec
=============================================================================
