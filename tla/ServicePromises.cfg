\* Clients wait for one request before they send the next, ask for one time to
\* live, and no administrator interferes: what they were told then holds.
SPECIFICATION Spec
CONSTANTS
  Workers = {w1, w2}
  Resources = {r1}
  Holders = {alice, bob}
  TTLs = {2}
  Caps <- NoCaps
  Instants <- Instants5
  MaxInt = 15
  MaxToken = 3
  MaxBatch = 2
  Ops = {"acquire", "batch", "renew", "transfer", "release", "sweep"}
  OneRequestPerHolder = TRUE
  NotRead = NotRead
SYMMETRY Symmetry
INVARIANTS
  PromisesKept
PROPERTIES
  RenewalNeverShortens
