CONSTANTS
  Buttons = {"a", "b"}
  Wired = {"a"}
  NULL = NULL
  Configs <- MCConfigs
  Debounce = 3
  Short = 4
  Wrap = 6
  RepeatWrap = 16
  CntWrap = 8
  MaxClicks = 3
SPECIFICATION Spec
INVARIANT ListRight
INVARIANT EventOrder
PROPERTY EveryTick
PROPERTY Debounced
PROPERTY Settles
