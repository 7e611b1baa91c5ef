\* Two resources and holders, registered without a cap or with one, a time to
\* live that overflows when two are added or when it is added to the clock, an
\* expiry beyond the last year of Go (MaxInt - EpochOffset = 4).
SPECIFICATION Spec
CONSTANTS
  Resources = {r1, r2}
  Holders = {alice, bob}
  TTLs = {1, 6}
  Caps <- MCCaps
  Instants <- Instants2
  MaxInt = 6
  MaxToken = 1
  EpochOffset = 2
  Minute = 1
SYMMETRY Symmetry
INVARIANTS
  StatsCountsKnownLeases
  TokensCoverLeases
  ActiveWasLive
  ExpiryAgreesUnlessYearWraps
  RejectedOnlyWhenSumsOverflow
  AverageWithinRange
  AuditNeverObjects
  AnswerNeverMeetsDefaults
  HealthyMeansNothingToDo
