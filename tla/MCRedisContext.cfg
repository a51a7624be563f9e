CONSTANTS
  StackSize = 3
  Consumed = 4
  Formats <- MCFormats
  Argvs <- MCArgvs
  Trees <- MCTrees
  Fds = {3, 4}
  WriteCuts = {11}
  ReadCuts <- MCReadCuts
  MaxWork = 3
  MaxFaults = 1
  MaxAddresses = 2
SPECIFICATION Spec
INVARIANTS CommandsIntact RepliesInOrder NullMeansError SocketsOwned
CHECK_DEADLOCK FALSE
