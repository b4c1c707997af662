SPECIFICATION Spec
CONSTANTS
  MaxWords = 2
  MaxLen = 2
INVARIANTS
  TypeOK
  WholeWordsUnlessRaced
PROPERTIES
  WaitingTextIsTaken
CHECK_DEADLOCK FALSE
