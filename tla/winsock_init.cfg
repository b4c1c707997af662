SPECIFICATION Spec
CONSTANTS
  Static = {s1, s2, s3}
  Dynamic = {d1, d2, d3, d4, d5}
\* After main the program ends.
CHECK_DEADLOCK FALSE
INVARIANTS
  TypeOK
  UsableWhileLive
  Balanced
