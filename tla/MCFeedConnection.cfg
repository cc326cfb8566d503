CONSTANTS
  PingDelay = 2
  CloseDelay = 12
  ReconnectDelay = 3
  Off = Off
SPECIFICATION Spec
INVARIANT TypeOK
INVARIANT PingNeverWhileConnecting
INVARIANT OneSocket
PROPERTY DeadPeerDropped
PROPERTY FeedComesBack
