SPECIFICATION Spec
CONSTANTS
  MaxUnread = 2
  MaxRoom = 2
  MaxBacklog = 2
  SizeModulus = 16
INVARIANTS
  SyncTypeOK
  ModeRespected
  EndOfStreamIsReal
  OutcomesAreReal
PROPERTIES
  NothingLost
  ReadyCallsReturn
