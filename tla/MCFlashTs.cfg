CONSTANTS
  S = 3
  Cap = 4
  Idx = 1
  Lens = {1, 2}
  MaxLen = 2
  Times = {1, 3}
  Asked = {1, 2, 3}
  Rollover = TRUE
  MaxCrashes = 1
  MaxMarks = 1
  Wrap = 64
SPECIFICATION Spec
INVARIANT Found
INVARIANT QueryRight
INVARIANT Disjoint
INVARIANT RestartNeutral
INVARIANT Inside
INVARIANT NeverHangs
