SPECIFICATION Spec
CONSTANTS
  Groups <- MCGroups
  Programs <- MCPrograms
  Sizes = {1, 4, 9}
  MinBuffer = 2
  MaxBuffer = 8
  Timeouts = {0, 3, 5}
  Words16 = 4
  ByteValues = 16
INVARIANTS
  TypeOK
  ReadsBackWhatWasSet
  RequestsReachRecordedFamily
