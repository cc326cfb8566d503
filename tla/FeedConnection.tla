--------------------------- MODULE FeedConnection ---------------------------
(***************************************************************************)
(* The WebSocket the pool events come through:                             *)
(* libs/socket-client/socket-client.service.ts (WSService), with the       *)
(* callbacks PairInfoServiceAuto gives it.                                 *)
(*                                                                         *)
(* The three timers of WSService run in ticks.  A timer is the number of   *)
(* ticks left, or Off; at 0 its callback runs before time goes on.  None   *)
(* of them is bound to a socket: a callback acts on the socket this.ws     *)
(* holds when it runs, which may be a later one than when it was set.      *)
(***************************************************************************)
EXTENDS Naturals

CONSTANTS
  PingDelay,       \* 10 s, refreshPingPong
  CloseDelay,      \* 61 s, heartbeat
  ReconnectDelay,  \* 15 s, the close handler
  Off              \* a timer that is not set

ASSUME DelayAssumption ==
  /\ PingDelay \in Nat \ {0}
  /\ ReconnectDelay \in Nat \ {0}
  /\ CloseDelay \in Nat \ {0}
  /\ PingDelay < ReconnectDelay
  /\ Off \notin Nat

VARIABLES
  socket,      \* readyState of this.ws
  alive,       \* does the peer of the socket still answer
  subscribed,  \* has this.ws sent the subscription
  ping,        \* pingTimeout
  close,       \* closeTimeout
  reconnect    \* the timer of the close handler

vars == <<socket, alive, subscribed, ping, close, reconnect>>

TypeOK ==
  /\ socket \in {"connecting", "open", "closing", "closed"}
  /\ alive \in BOOLEAN
  /\ subscribed \in BOOLEAN
  /\ ping \in 0..PingDelay \cup {Off}
  /\ close \in 0..CloseDelay \cup {Off}
  /\ reconnect \in 0..ReconnectDelay \cup {Off}

Init ==
  /\ socket = "connecting"
  /\ alive = TRUE
  /\ subscribed = FALSE
  /\ ping = Off /\ close = Off /\ reconnect = Off

-----------------------------------------------------------------------------
\* heartbeat: both timers start again.
HeartbeatPingOnly ==  \* mutant: the close timer is never set
  ping' = PingDelay /\ UNCHANGED close
HeartbeatSwapped ==  \* mutant: each timer gets the delay of the other
  ping' = CloseDelay /\ close' = PingDelay
Heartbeat == ping' = PingDelay /\ close' = CloseDelay

\* 'open': the subscription is sent on every new socket.
OnOpen ==
  /\ socket = "connecting"
  /\ socket' = "open"
  /\ alive' = TRUE
  /\ subscribed' = TRUE
  /\ Heartbeat
  /\ UNCHANGED reconnect

\* 'message', 'ping' and 'pong', which also come while the socket closes.
OnMessage ==
  /\ socket \in {"open", "closing"} /\ alive
  /\ Heartbeat
  /\ UNCHANGED <<socket, alive, subscribed, reconnect>>

\* 'error': the handshake or the connection failed.
OnError ==
  /\ socket \in {"connecting", "open"}
  /\ socket' = "closing"
  /\ close' = Off
  /\ UNCHANGED <<alive, subscribed, ping, reconnect>>

\* 'close', by the peer or at the end of closing.  Only the reconnection is
\* scheduled: the two other timers of the old socket stay.
ClosedAndGone ==  \* mutant: the reconnection is not scheduled
  /\ socket \in {"open", "closing"}
  /\ socket' = "closed"
  /\ subscribed' = FALSE
  /\ UNCHANGED <<alive, ping, close, reconnect>>
ClosedAndReconnected ==  \* mutant: the close handler reconnects at once
  /\ socket \in {"open", "closing"}
  /\ socket' = "connecting"
  /\ subscribed' = FALSE
  /\ UNCHANGED <<alive, ping, close, reconnect>>
OnClose ==
  /\ socket \in {"open", "closing"}
  /\ socket' = "closed"
  /\ subscribed' = FALSE
  /\ reconnect' = ReconnectDelay
  /\ UNCHANGED <<alive, ping, close>>

\* The peer is gone and nothing tells: no message, no 'close'.
PeerDies ==
  /\ socket = "open" /\ alive
  /\ alive' = FALSE
  /\ UNCHANGED <<socket, subscribed, ping, close, reconnect>>

-----------------------------------------------------------------------------
(* The timers                                                              *)

\* opt.ping sends on this.ws; a socket that is not open drops the message.
PingFires ==
  /\ ping = 0
  /\ ping' = Off
  /\ UNCHANGED <<socket, alive, subscribed, close, reconnect>>

\* this.ws.close(); a handshake is aborted, which is an 'error', then a
\* 'close'.
CloseTwice ==  \* mutant: it reconnects by itself too
  /\ close = 0
  /\ close' = Off
  /\ socket' = IF socket \in {"connecting", "open"} THEN "closing" ELSE socket
  /\ reconnect' = ReconnectDelay
  /\ UNCHANGED <<alive, subscribed, ping>>
CloseFires ==
  /\ close = 0
  /\ close' = Off
  /\ socket' = IF socket \in {"connecting", "open"} THEN "closing" ELSE socket
  /\ UNCHANGED <<alive, subscribed, ping, reconnect>>

\* reConnect: a new socket.
ReconnectFires ==
  /\ reconnect = 0
  /\ reconnect' = Off
  /\ socket' = "connecting"
  /\ alive' = TRUE
  /\ UNCHANGED <<subscribed, ping, close>>

Sooner(timer) == IF timer = Off THEN Off ELSE timer - 1

Tick ==
  /\ 0 \notin {ping, close, reconnect}
  /\ ping' = Sooner(ping)
  /\ close' = Sooner(close)
  /\ reconnect' = Sooner(reconnect)
  /\ UNCHANGED <<socket, alive, subscribed>>

Next ==
  \/ OnOpen \/ OnMessage \/ OnError \/ OnClose \/ PeerDies
  \/ PingFires \/ CloseFires \/ ReconnectFires \/ Tick

\* Time passes and timers fire; a handshake is answered or refused and a
\* closing socket closes (the library destroys it after 30 s); a server that
\* is tried again and again accepts in the end.  Nothing makes a peer send.
Spec ==
  /\ Init /\ [][Next]_vars
  /\ WF_vars(Tick) /\ WF_vars(PingFires) /\ WF_vars(CloseFires)
  /\ WF_vars(ReconnectFires)
  /\ WF_vars(socket = "connecting" /\ (OnOpen \/ OnError))
  /\ WF_vars(socket = "closing" /\ OnClose)
  /\ SF_vars(OnOpen)

-----------------------------------------------------------------------------
(* Properties                                                              *)

\* send throws on a socket that is still connecting, in a timer where nobody
\* catches it.  The ping timer outlives its socket, but never lasts until
\* the next one is created.
PingNeverWhileConnecting == ping = 0 => socket # "connecting"

\* A closed socket waits for its replacement, and no socket is replaced
\* before it is closed: there is exactly one connection or one on its way.
OneSocket == reconnect # Off <=> socket = "closed"

\* A peer that went silent is dropped although the socket looks open.
DeadPeerDropped == socket = "open" /\ ~alive ~> socket # "open"

\* The feed comes back, subscribed, however often it breaks.
FeedComesBack == []<>(socket = "open" /\ subscribed)
=============================================================================
