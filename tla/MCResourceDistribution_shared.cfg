CONSTANTS
  Machine = {m1, m2, m3}
  Biz = {b1, b2}
  Resource = {r1}
  Offered <- EveryRow
  MaxRelease = 1
  ListsRace = FALSE
SPECIFICATION Spec
INVARIANTS
  NeverSharedBySteadyMachines
