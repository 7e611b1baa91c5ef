\* Clients send whatever they like whenever they like, several requests of one
\* holder at a time included; the administrator's calls are among them.
SPECIFICATION Spec
CONSTANTS
  Workers = {w1, w2}
  Resources = {r1}
  Holders = {alice, bob}
  TTLs = {1}
  Caps <- SomeCaps
  Instants <- Instants3
  MaxInt = 15
  MaxToken = 2
  MaxBatch = 0
  Ops = {"acquire", "renew", "transfer", "release", "sweep", "force_release",
         "register_resource", "update_resource", "delete_resource"}
  OneRequestPerHolder = FALSE
  NotRead = NotRead
SYMMETRY Symmetry
INVARIANTS
  ServiceTypeOK
  NoLeaseOutlivesItsTTL
PROPERTIES
  LiveLeaseChangesOnlyByItsToken
  ImplementsStore
