CONSTANTS
  Machine = {m1, m2}
  TotalRow = 3
  RowPerBlock = 2
  Task = {t1}
  InitialSlaves = {m1}
  MaxSession = 1
  RecordLimit = 1
SPECIFICATION Spec
INVARIANTS
  TypeOK
  
  NoFinishBeforeOver
  EarlyListenerHears
\* Every machine may have used up its sessions.
CHECK_DEADLOCK FALSE
