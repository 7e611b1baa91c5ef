\* The largest time-to-live a request can carry is the largest int64, so that
\* now + ttl_seconds wraps around for every instant after the epoch.
SPECIFICATION StoreSpec
CONSTANTS
  Resources = {r1}
  Holders = {alice, bob}
  TTLs = {1, 7}
  Caps <- MCCaps
  Instants <- MCInstants
  MaxInt = 7
  MaxToken = 3
INVARIANTS
  ExpiresOneTTLAfterAnInstant
