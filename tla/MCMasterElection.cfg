\* Processes may all have died or be deaf, and no more are started.
CONSTANTS
  Node = {m, f, g}
  NoNode = NoNode
  Master = m
  StartLevel <- Levels
  MaxBoot = 4
  MaxExpire = 2
  MaxFailure = 1
CHECK_DEADLOCK FALSE
SPECIFICATION Spec
INVARIANTS
  TypeOK
  ServingOwnsZnode
  WatcherIsCurrent
  FirstFailoverIsHeard
PROPERTIES
  MasterReturns
