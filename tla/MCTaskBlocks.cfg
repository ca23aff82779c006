CONSTANTS
  Machine = {m1, m2, m3}
  TotalRow = 11
  RowPerBlock = 3
SPECIFICATION TaskSpec
INVARIANTS
  TaskTypeOK
  BlocksPartitioned
  RowAccounting
  OverWhenAllCredited
PROPERTIES
  LedgerSpec
