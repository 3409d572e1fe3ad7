SPECIFICATION FairSpec
CONSTANTS
  Daemon = {1, 2}
  Command = {c1, c2}
  Caller = {c1}
  Kinds <- MCKinds
  Ports <- MCPorts
  NoDaemon = NoDaemon
  Timeout <- MCTimeout
  Width = 3
  MaxTime = 3
  LastStart = 1
CHECK_DEADLOCK FALSE
INVARIANTS TypeOK ExecutedOnce LoneNamed
PROPERTIES IdleExitSpares IdleEnds
