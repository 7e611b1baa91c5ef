SPECIFICATION Spec
CONSTANTS
  Resources = {r1}
  Holders = {h1, h2}
  TTLs = {2}
  Caps <- NegativeAndOne
  Instants <- FirstInstants
  MaxInt = 10
  MaxToken = 2
  Workers = {w1, w2}
  Ops = {"acquire", "renew", "transfer", "release", "register_resource", "sweep", "info",
         "expired", "fencing"}
  NoName = NoName
  BadNumbers <- ZeroAndNegative
SYMMETRY Symmetry
INVARIANTS StoredIsValid FlagsAreHonest AnswersAreCurrent EndIsFinal
