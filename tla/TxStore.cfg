\* Two goroutines, every kind of call; a lease granted at 0 has expired at 2, and a
\* registered resource refuses the time to live.
SPECIFICATION Spec
CONSTANTS
  Workers = {w1, w2}
  Resources = {r1}
  Holders = {alice}
  TTLs = {2}
  Caps <- OneCap
  Instants <- InstantsAroundExpiry
  MaxInt = 7
  MaxToken = 2
  NoOne = NoOne
  Ops = {"acquire", "transfer", "renew", "release", "sweep", "force_release",
         "register_resource", "delete_resource"}
SYMMETRY Symmetry
INVARIANTS
  SyncedTokensStayFenced
PROPERTIES
  CommitsAreTransactions
