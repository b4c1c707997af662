SPECIFICATION Spec
CONSTANTS
  Peers = {p1, p2}
  Digits = {0, 1}
  MaxWrites = 2
  MaxUnread = 2
  MaxRoom = 2
  Backlog = 2
  BufferSize = 2
\* A server that has died stops.
CHECK_DEADLOCK FALSE
INVARIANTS
  TypeOK
  OnlyLostConnectionsHarm
  DeliveredAsWritten
  DeliveredOnceInOrder
PROPERTIES
  QueueIsServed
  MailIsSent
