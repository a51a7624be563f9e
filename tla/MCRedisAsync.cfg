CONSTANTS
  Hash <- MCHash
  InitialSize = 1
  Channels = {a, b}
  Patterns = {"p"}
  MaxCommands = 3
  MonitorWithin = 2
  MaxPublished = 1
  NoCommand = "none"
SYMMETRY Symmetry
SPECIFICATION Spec
INVARIANTS RightCallback DisconnectTold Scheduled SubscriptionsKept
CHECK_DEADLOCK FALSE
