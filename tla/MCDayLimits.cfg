SPECIFICATION Spec
CONSTANTS
  t1 = t1
  t2 = t2
  Tariffs <- TwoTariffs
  Threads <- TwoThreads
  Objects <- TwoObjects
  NoObject = NoObject
  NoLimit = NoLimit
  Settings <- Troubles
INVARIANTS TypeOK LimitsComplete LimitsWithinRest
PROPERTY GrantsWithinRest
SYMMETRY Interchangeable
