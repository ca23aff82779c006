CONSTANTS
  Url = {u1, u2, u3}
  Path = {p1, p2}
  Chunk = 2
  SizeLimit = 1
  Null = Null
  Given <- Sizes
  MaxSlaves = 2
  MaxLines = 4
  MaxSubmissions = 2
  HeapBlocks = 5
SPECIFICATION Spec
SYMMETRY Symmetry
INVARIANTS
  TypeOK
  
  BlocksTile
  RowsStayTogether
  
\* The client stops after MaxSubmissions files.
CHECK_DEADLOCK FALSE
