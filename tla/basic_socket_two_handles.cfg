SPECIFICATION Spec
CONSTANTS
  Objects = {o1, o2}
  Cells = {c1, c2}
  Handles = {h1, h2}
  InvalidSocket = InvalidSocket
  NullPtr = NullPtr
SYMMETRY Symmetry
\* A program that terminated stops.
CHECK_DEADLOCK FALSE
INVARIANTS
  TypeOK
  NoStaleHandle
  NoLeak
  StateAgreesWithKernel
  TerminationCause
