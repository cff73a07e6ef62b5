CONSTANTS
  S = 3
  Cap = 5
  Hdr = 1
  Threshold = 2
  Keys = {"k1", "k2"}
  Values = {"v1", "v2"}
  Writes <- FewWrites
  Size <- Alike
  Defaults <- NoDefaults
  Start = "formatted"
  MaxCrashes = 1
SPECIFICATION FairSpec
INVARIANT Durable
PROPERTY Boots
