SPECIFICATION Spec
CONSTANTS
  MaxUnread = 2
  MaxRoom = 2
  MaxBacklog = 2
  SizeModulus = 16
INVARIANT ReceiveReportsEof
