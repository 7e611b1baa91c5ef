\* One lease that is granted between two of the queries is enough.
SPECIFICATION Spec
CONSTANTS
  Resources = {r1}
  Holders = {alice}
  TTLs = {1, 6}
  Caps <- ZeroCap
  Instants <- Instants2
  MaxInt = 6
  MaxToken = 1
  EpochOffset = 2
  Minute = 1
SYMMETRY Symmetry
INVARIANTS
  StatsHoldersHaveLeases
