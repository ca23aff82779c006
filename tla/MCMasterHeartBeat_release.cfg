CONSTANTS
  Machine = {m1}
  TotalRow = 2
  RowPerBlock = 2
  Task = {t1, t2}
  InitialSlaves = {}
  MaxSession = 1
  RecordLimit = 1
SPECIFICATION FairSpec
INVARIANTS
  UnfinishedTasksStay

  
\* Every machine may have used up its sessions.
CHECK_DEADLOCK FALSE
