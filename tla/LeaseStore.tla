----------------------------- MODULE LeaseStore -----------------------------
(***************************************************************************)
(* The persistent store of the lease registry (internal/store): the three  *)
(* SQLite tables and the transactions that change them.  The database has  *)
(* a single connection, so a transaction is one step here.  The instant a  *)
(* transaction works with is an argument its caller sampled earlier, from  *)
(* a clock the store knows nothing about: `now' is any member of Instants, *)
(* and what holds of this module holds for clocks that run late, stop or   *)
(* step backwards.                                                         *)
(*                                                                         *)
(* A table is a function whose domain is the set of its primary keys.  The *)
(* columns acquired_at, description and created_at are left out: no        *)
(* transaction reads them to decide anything.                              *)
(*                                                                         *)
(* A definition marked [bug] is not the code: it is a plausible mistake in *)
(* the definition that follows it, and stands here so that the properties  *)
(* can be shown to detect it.                                              *)
(***************************************************************************)
EXTENDS Integers, FiniteSets, Functions

CONSTANTS
  Resources,   \* non-empty resource names
  Holders,     \* non-empty holder names
  TTLs,        \* the ttl_seconds of requests; the manager rejects ttl <= 0
  Caps,        \* the max_ttl arguments of registrations, negative ones included
  Instants,    \* unix seconds a caller may have sampled
  MaxInt,      \* the largest int64
  MaxToken     \* bound of the model: tokens 1 .. MaxToken are handed out

Int64 == (-MaxInt - 1) .. MaxInt
Tokens == 1 .. MaxToken

ASSUME StoreAssumption ==
  /\ MaxInt \in Nat
  /\ MaxToken \in Nat
  /\ TTLs \subseteq 1 .. MaxInt
  /\ Instants \subseteq Int64
  /\ Caps \subseteq Int64

VARIABLES
  leases,             \* table leases: resource -> row
  fencing_counters,   \* table fencing_counters: resource -> next_token
  resources,          \* table resources: name -> max_ttl_seconds
  issued              \* history: issued[r] is every grant committed for r

storeVars == <<leases, fencing_counters, resources, issued>>

LeaseRow ==
  [holder : Holders, fencing_token : Tokens, expires_at : Int64, ttl_seconds : TTLs]
Grants == [holder : Holders, token : Tokens]

\* The rows, counters and caps in the tables have their types (store.go, the
\* CREATE TABLE statements): no expiry leaves int64, no token is below 1, and
\* no negative cap is stored.
TypeOK ==
  /\ DOMAIN leases \subseteq Resources
  /\ leases \in [DOMAIN leases -> LeaseRow]
  /\ DOMAIN fencing_counters \subseteq Resources
  /\ fencing_counters \in [DOMAIN fencing_counters -> 1 .. MaxToken + 1]
  /\ DOMAIN resources \subseteq Resources
  /\ resources \in [DOMAIN resources -> Caps \cap Nat]
  /\ issued \in [Resources -> SUBSET Grants]

-----------------------------------------------------------------------------
(* Tables *)

EmptyTable == [k \in {} |-> 0]
Upsert(table, key, row) ==
  [k \in DOMAIN table \cup {key} |-> IF k = key THEN row ELSE table[k]]
Delete(table, keys) == Restrict(table, DOMAIN table \ keys)

(* Addition of Go's int64, which wraps around silently. *)
Plus64(a, b) == IF a + b > MaxInt THEN a + b - 2 * (MaxInt + 1) ELSE a + b

StoreInit ==
  /\ leases = EmptyTable
  /\ fencing_counters = EmptyTable
  /\ resources = EmptyTable
  /\ issued = [r \in Resources |-> {}]

-----------------------------------------------------------------------------
(* The checks each transaction makes, in the order the code makes them.    *)

Leased(r) == r \in DOMAIN leases
Live(r, now) == Leased(r) /\ leases[r].expires_at > now

\* A max_ttl of 0, like no registration at all, means unbounded.
OverCap(r, ttl) == r \in DOMAIN resources /\ resources[r] > 0 /\ ttl > resources[r]

AcquireVerdict(r, ttl, now) ==
  IF Live(r, now) THEN "conflict"
  ELSE IF OverCap(r, ttl) THEN "ttl_exceeds_max"
  ELSE "ok"

\* [bug] the token check is forgotten: the right holder is enough.
HolderVerdictIgnoringToken(r, h, t, now) ==
  IF ~Leased(r) THEN "no_lease"
  ELSE IF leases[r].expires_at <= now THEN "expired"
  ELSE IF leases[r].holder # h THEN "holder_mismatch"
  ELSE "ok"

HolderVerdict(r, h, t, now) ==
  IF ~Leased(r) THEN "no_lease"
  ELSE IF leases[r].expires_at <= now THEN "expired"
  ELSE IF leases[r].holder # h THEN "holder_mismatch"
  ELSE IF leases[r].fencing_token # t THEN "token_mismatch"
  ELSE "ok"

\* [bug] the cap is enforced on acquisition only.
ExtendVerdictWithoutCap(r, h, t, ttl, now) == HolderVerdict(r, h, t, now)

ExtendVerdict(r, h, t, ttl, now) ==
  IF HolderVerdict(r, h, t, now) = "ok" /\ OverCap(r, ttl)
  THEN "ttl_exceeds_max"
  ELSE HolderVerdict(r, h, t, now)

\* DeleteResource is given `now' and does not look at it.
DeleteVerdict(r, now) ==
  IF Leased(r) THEN "in_use"
  ELSE IF r \notin DOMAIN resources THEN "not_found"
  ELSE "ok"

-----------------------------------------------------------------------------
(* Transactions.  One that fails a check rolls back and changes nothing.   *)

\* [bug] the sequence starts at 0.
NextTokenFromZero(r) == IF r \in DOMAIN fencing_counters THEN fencing_counters[r] ELSE 0
\* [bug] the sequence starts again once a lease has ended.
NextTokenForgetful(r) == IF Leased(r) THEN fencing_counters[r] ELSE 1

\* The counter row is created with next_token = 1 on first use.
NextToken(r) == IF r \in DOMAIN fencing_counters THEN fencing_counters[r] ELSE 1

\* Allocate a token for r and store a row that carries it.
PutGrant(r, h, ttl, now) ==
  /\ NextToken(r) <= MaxToken
  /\ fencing_counters' = Upsert(fencing_counters, r, NextToken(r) + 1)
  /\ leases' = Upsert(leases, r,
       [holder |-> h, fencing_token |-> NextToken(r),
        expires_at |-> Plus64(now, ttl), ttl_seconds |-> ttl])
  /\ issued' = [issued EXCEPT ![r] = @ \cup {[holder |-> h, token |-> NextToken(r)]}]
  /\ UNCHANGED resources

Acquire(r, h, ttl, now) ==
  /\ AcquireVerdict(r, ttl, now) = "ok"
  /\ PutGrant(r, h, ttl, now)

\* [bug] the new time to live is not stored with the new expiry.
RenewKeepingTTL(r, h, t, ttl, now) ==
  /\ ExtendVerdict(r, h, t, ttl, now) = "ok"
  /\ leases' = Upsert(leases, r, [leases[r] EXCEPT !.expires_at = Plus64(now, ttl)])
  /\ UNCHANGED <<fencing_counters, resources, issued>>
\* [bug] the renewed lease expires at the instant of the renewal.
RenewForgettingTTL(r, h, t, ttl, now) ==
  /\ ExtendVerdict(r, h, t, ttl, now) = "ok"
  /\ leases' = Upsert(leases, r, [leases[r] EXCEPT !.expires_at = now])
  /\ UNCHANGED <<fencing_counters, resources, issued>>
\* [bug] the time to live is added to the old expiry instead of to now.
RenewAddingToExpiry(r, h, t, ttl, now) ==
  /\ ExtendVerdict(r, h, t, ttl, now) = "ok"
  /\ leases' = Upsert(leases, r,
       [leases[r] EXCEPT !.expires_at = Plus64(@, ttl), !.ttl_seconds = ttl])
  /\ UNCHANGED <<fencing_counters, resources, issued>>

Renew(r, h, t, ttl, now) ==
  /\ ExtendVerdict(r, h, t, ttl, now) = "ok"
  /\ leases' = Upsert(leases, r,
       [leases[r] EXCEPT !.expires_at = Plus64(now, ttl), !.ttl_seconds = ttl])
  /\ UNCHANGED <<fencing_counters, resources, issued>>

\* [bug] the new holder gets the token of the old one.
TransferKeepingToken(r, h, t, ttl, now, newHolder) ==
  /\ ExtendVerdict(r, h, t, ttl, now) = "ok"
  /\ leases' = Upsert(leases, r,
       [holder |-> newHolder, fencing_token |-> t,
        expires_at |-> Plus64(now, ttl), ttl_seconds |-> ttl])
  /\ issued' = [issued EXCEPT ![r] = @ \cup {[holder |-> newHolder, token |-> t]}]
  /\ UNCHANGED <<fencing_counters, resources>>

Transfer(r, h, t, ttl, now, newHolder) ==
  /\ ExtendVerdict(r, h, t, ttl, now) = "ok"
  /\ PutGrant(r, newHolder, ttl, now)

Release(r, h, t, now) ==
  /\ HolderVerdict(r, h, t, now) = "ok"
  /\ leases' = Delete(leases, {r})
  /\ UNCHANGED <<fencing_counters, resources, issued>>

Sweep(now) ==
  /\ leases' = Delete(leases, {r \in DOMAIN leases : leases[r].expires_at <= now})
  /\ UNCHANGED <<fencing_counters, resources, issued>>

ForceRelease(r) ==
  /\ Leased(r)
  /\ leases' = Delete(leases, {r})
  /\ UNCHANGED <<fencing_counters, resources, issued>>

RegisterResource(r, cap) ==
  /\ cap >= 0
  /\ resources' = Upsert(resources, r, cap)
  /\ UNCHANGED <<leases, fencing_counters, issued>>

UpdateResource(r, cap) ==
  /\ cap >= 0
  /\ r \in DOMAIN resources
  /\ resources' = Upsert(resources, r, cap)
  /\ UNCHANGED <<leases, fencing_counters, issued>>

DeleteResource(r, now) ==
  /\ DeleteVerdict(r, now) = "ok"
  /\ resources' = Delete(resources, {r})
  /\ UNCHANGED <<leases, fencing_counters, issued>>

StoreNext ==
  \/ \E r \in Resources, h \in Holders, ttl \in TTLs, now \in Instants :
       \/ Acquire(r, h, ttl, now)
       \/ \E t \in Tokens :
            \/ Renew(r, h, t, ttl, now)
            \/ \E newHolder \in Holders : Transfer(r, h, t, ttl, now, newHolder)
  \/ \E r \in Resources, h \in Holders, t \in Tokens, now \in Instants :
       Release(r, h, t, now)
  \/ \E now \in Instants : Sweep(now)
  \/ \E r \in Resources : ForceRelease(r)
  \/ \E r \in Resources, cap \in Caps : RegisterResource(r, cap) \/ UpdateResource(r, cap)
  \/ \E r \in Resources, now \in Instants : DeleteResource(r, now)

StoreSpec == StoreInit /\ [][StoreNext]_storeVars

-----------------------------------------------------------------------------
(* Fencing *)

\* The counter is ahead of every token that was ever issued: it survives
\* release, sweep, forced release and the deletion of the registration.
CounterAheadOfTokens ==
  \A r \in Resources : \A g \in issued[r] :
    r \in DOMAIN fencing_counters /\ g.token < fencing_counters[r]

\* The stored row is the grant whose token was allocated last, so a holder
\* that presents any older token fails the token check of Renew and Release.
RowIsNewestGrant ==
  \A r \in DOMAIN leases :
    /\ [holder |-> leases[r].holder, token |-> leases[r].fencing_token] \in issued[r]
    /\ r \in DOMAIN fencing_counters
    /\ fencing_counters[r] = leases[r].fencing_token + 1

\* A token is handed to one holder only, so that a downstream system that
\* compares tokens never takes one client for another.
TokenNamesOneHolder ==
  \A r \in Resources : \A g1, g2 \in issued[r] : g1.token = g2.token => g1 = g2

\* All of it together: tokens are fenced for as long as the tables live.  The
\* conjuncts are inductive only together.
FencingInv ==
  /\ TypeOK
  /\ CounterAheadOfTokens
  /\ RowIsNewestGrant
  /\ TokenNamesOneHolder

\* The grant in force is the stored row, expired or not, without its times.
RowGrant(r) ==
  IF Leased(r) THEN {[holder |-> leases[r].holder, token |-> leases[r].fencing_token]}
  ELSE {}
Fenced == INSTANCE FencedGrants WITH current <- [r \in Resources |-> RowGrant(r)]

\* The store implements FencedGrants: every transaction issues a token larger
\* than all before, or ends some grants for good, or is invisible there.
ImplementsFencedGrants == Fenced!Spec
\* The time columns of a row agree: it expires ttl_seconds after an instant
\* that a caller read.  (Acquire, Renew and Transfer: expires_at = now + ttl.)
ExpiresOneTTLAfterAnInstant ==
  \A r \in DOMAIN leases : leases[r].expires_at - leases[r].ttl_seconds \in Instants

\* Whichever transaction writes a row, the ttl it writes is within the cap
\* registered at that moment.
WritesRespectCap ==
  [][\A r \in DOMAIN leases' :
       \/ r \in DOMAIN leases /\ leases[r] = leases'[r]
       \/ ~OverCap(r, leases'[r].ttl_seconds)]_storeVars

\* resources.go says of DeleteResource: "Expired-but-unswept leases do not
\* block deletion".
ExpiredLeaseDoesNotBlockDeletion ==
  \A r \in DOMAIN resources, now \in Instants :
    ~Live(r, now) => DeleteVerdict(r, now) # "in_use"
=============================================================================
