CONSTANTS
  Machine = {m1, m2}
  TotalRow = 1
  RowPerBlock = 1
  Task = {t1}
  MaxSpider = 1
  MaxCrash = 1
SPECIFICATION FairSpec
INVARIANTS
  OneMachinePerBlock

  
