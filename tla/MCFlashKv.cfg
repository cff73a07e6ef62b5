CONSTANTS
  S = 3
  Cap = 6
  Hdr = 1
  Threshold = 2
  Keys = {"k1", "k2"}
  Values = {"v1", "v2"}
  Writes <- AnyWrite
  Size <- Unlike
  Defaults <- OneDefault
  Start = "blank"
  MaxCrashes = 0
SPECIFICATION Spec
INVARIANT ReadBack
INVARIANT OneLive
PROPERTY RefusedOnlyWhenFull
