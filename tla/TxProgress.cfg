\* Two goroutines in a loop of transactions and single statements.
SPECIFICATION FairSpec
CONSTANTS
  Workers = {w1, w2}
  Resources = {r1}
  Holders = {alice}
  TTLs = {2}
  Caps <- OneCap
  Instants <- InstantsAroundExpiry
  MaxInt = 7
  MaxToken = 1
  NoOne = NoOne
  Ops = {"acquire", "release", "register_resource"}
PROPERTIES
  CallsReturn
