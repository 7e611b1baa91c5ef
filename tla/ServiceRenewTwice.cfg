\* A client may send a second renewal while its first is still being handled.
SPECIFICATION Spec
CONSTANTS
  Workers = {w1, w2}
  Resources = {r1}
  Holders = {alice, bob}
  TTLs = {2}
  Caps <- NoCaps
  Instants <- Instants5
  MaxInt = 15
  MaxToken = 3
  MaxBatch = 0
  Ops = {"acquire", "renew"}
  OneRequestPerHolder = FALSE
  NotRead = NotRead
SYMMETRY Symmetry
PROPERTIES
  RenewalNeverShortens
