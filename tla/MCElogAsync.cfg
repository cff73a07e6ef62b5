CONSTANTS
  Threads = {"a", "b"}
  Logs <- MCLogs
  Size = 4
  Poll = 3
  MaxNotices = 1
  Newline <- MCNewline
  Builds = {TRUE, FALSE}
SPECIFICATION Spec
INVARIANT NoLostWakeup
PROPERTY IsStream
PROPERTY Drains
