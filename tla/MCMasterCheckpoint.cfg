CONSTANTS
  Machine = {m1}
  TotalRow = 1
  RowPerBlock = 1
  Task = {t1, t2}
  NoTask = NoTask
  RecordLimit = 1
  CheckpointRows = 1
  MaxCheckpoint = 1
  MaxBoot = 2
  MaxIndex = 2
SPECIFICATION Spec
INVARIANTS
  TypeOK
  TasksWhole
  
  
  PausedWhileSaving
\* The bounds on starts and submissions stop the model.
CHECK_DEADLOCK FALSE
