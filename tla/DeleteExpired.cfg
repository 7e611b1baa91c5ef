\* One resource, one holder: registered, leased, expired, not swept.
SPECIFICATION StoreSpec
CONSTANTS
  Resources = {r1}
  Holders = {alice, bob}
  TTLs = {1, 2}
  Caps <- MCCaps
  Instants <- MCInstants
  MaxInt = 7
  MaxToken = 3
INVARIANTS
  ExpiredLeaseDoesNotBlockDeletion
