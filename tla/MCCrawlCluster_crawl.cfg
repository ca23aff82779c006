CONSTANTS
  Machine = {m1}
  TotalRow = 11
  RowPerBlock = 10
  Task = {t1}
  MaxSpider = 2
  MaxCrash = 1
SPECIFICATION Spec
INVARIANTS
  TypeOK
  
  ParserFindsSpider
