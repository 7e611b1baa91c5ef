\* Two holders and two resources, three tokens each, three instants: a resource can
\* pass from one holder to the other and back while the first still presents
\* its old token, at instants that go back as well as forth.
SPECIFICATION StoreSpec
CONSTANTS
  Resources = {r1, r2}
  Holders = {alice, bob}
  TTLs = {1, 2}
  Caps <- MCCaps
  Instants <- MCInstants
  MaxInt = 7
  MaxToken = 3
SYMMETRY Symmetry
INVARIANTS
  TypeOK
  FencingInv
  ExpiresOneTTLAfterAnInstant
PROPERTIES
  ImplementsFencedGrants
  WritesRespectCap
