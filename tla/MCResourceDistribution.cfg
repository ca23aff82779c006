CONSTANTS
  Machine = {m1, m2}
  Biz = {b1, b2}
  Resource = {r1, r2}
  Offered <- EveryRow
  MaxRelease = 1
  ListsRace = TRUE
SPECIFICATION Spec
SYMMETRY Symmetry
INVARIANTS
  TypeOK
  ExclusiveUntilRelease
  
