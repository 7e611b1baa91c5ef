\* One client, one request at a time: the clock ticks between the reading and
\* the transaction.
SPECIFICATION Spec
CONSTANTS
  Workers = {w1, w2}
  Resources = {r1}
  Holders = {alice, bob}
  TTLs = {2}
  Caps <- NoCaps
  Instants <- Instants5
  MaxInt = 15
  MaxToken = 3
  MaxBatch = 0
  Ops = {"acquire", "renew"}
  OneRequestPerHolder = TRUE
  NotRead = NotRead
SYMMETRY Symmetry
PROPERTIES
  LapsedLeaseIsNotRenewed
