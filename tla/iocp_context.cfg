SPECIFICATION Spec
CONSTANT Threads = {t1, t2, t3}
INVARIANTS
  TypeOK
  StopEventsBounded
  StopIsSignalled
PROPERTIES
  CallsReturn
  RunStops
