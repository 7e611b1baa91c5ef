-------------------------- MODULE StoreCallsProofs --------------------------
(***************************************************************************)
(* What LeaseServiceProofs and TxStoreProofs both need to know of calls:   *)
(* their transactions are steps of LeaseStore.                             *)
(***************************************************************************)
EXTENDS StoreCalls, LeaseStoreProofs

\* The op of a call determines its other arguments.
LEMMA CallArguments ==
  ASSUME NEW c \in Calls
  PROVE  /\ c.op = "acquire" => c \in AcquireCalls
         /\ c.op = "renew" => c \in RenewCalls
         /\ c.op = "transfer" => c \in TransferCalls
         /\ c.op = "release" => c \in ReleaseCalls
         /\ c.op = "force_release" => c.resource \in Resources
         /\ c.op = "delete_resource" => c.resource \in Resources
         /\ c.op = "register_resource" => c.resource \in Resources /\ c.cap \in Caps
         /\ c.op = "update_resource" => c.resource \in Resources /\ c.cap \in Caps
  BY DEF Calls, TokenCalls, AcquireCalls, RenewCalls, TransferCalls, ReleaseCalls, AdminCalls

\* The transaction of a call is a step of the store, given an instant if the
\* call uses one.
LEMMA TransactionIsStoreStep ==
  ASSUME NEW c \in Calls, NEW now, UsesClock(c) => now \in Instants, Transaction(c, now)
  PROVE  StoreNext
<1>1. CASE c.op = "acquire" /\ Acquire(c.resource, c.holder, c.ttl, now)
  BY <1>1, CallArguments DEF UsesClock, AcquireCalls, StoreNext
<1>2. CASE c.op = "renew" /\ Renew(c.resource, c.holder, c.token, c.ttl, now)
  BY <1>2, CallArguments DEF UsesClock, RenewCalls, StoreNext
<1>3. CASE c.op = "transfer"
           /\ Transfer(c.resource, c.holder, c.token, c.ttl, now, c.newHolder)
  BY <1>3, CallArguments DEF UsesClock, TransferCalls, StoreNext
<1>4. CASE c.op = "release" /\ Release(c.resource, c.holder, c.token, now)
  BY <1>4, CallArguments DEF UsesClock, ReleaseCalls, StoreNext
<1>5. CASE c.op = "sweep" /\ Sweep(now)
  BY <1>5 DEF UsesClock, StoreNext
<1>6. CASE c.op = "force_release" /\ ForceRelease(c.resource)
  BY <1>6, CallArguments DEF StoreNext
<1>7. CASE c.op = "register_resource" /\ RegisterResource(c.resource, c.cap)
  BY <1>7, CallArguments DEF StoreNext
<1>8. CASE c.op = "update_resource" /\ UpdateResource(c.resource, c.cap)
  BY <1>8, CallArguments DEF StoreNext
<1>9. CASE c.op = "delete_resource" /\ DeleteResource(c.resource, now)
  BY <1>9, CallArguments DEF UsesClock, StoreNext
<1> QED
  BY <1>1, <1>2, <1>3, <1>4, <1>5, <1>6, <1>7, <1>8, <1>9 DEF Transaction

\* Only a renewal changes a row and leaves it to the same grant, and it has
\* found the grant it names, with time left at the instant it was given.
LEMMA OnlyRenewalChangesARow ==
  ASSUME FencingInv, NEW c \in Calls, NEW now, Transaction(c, now),
         NEW r \in DOMAIN leases, r \in DOMAIN leases',
         leases'[r].fencing_token = leases[r].fencing_token, leases'[r] # leases[r]
  PROVE  /\ c.op = "renew"
         /\ c.resource = r
         /\ c.holder = leases[r].holder
         /\ c.token = leases[r].fencing_token
         /\ ~(leases[r].expires_at <= now)
<1>1. \A h, ttl : ~PutGrant(r, h, ttl, now)
  <2>1. leases[r].fencing_token \in Int /\ NextToken(r) = leases[r].fencing_token + 1
    BY NextTokenBounds, StoreAssumption DEF FencingInv, TypeOK, Tokens
  <2>2. \A h, ttl : PutGrant(r, h, ttl, now) => leases'[r].fencing_token = NextToken(r)
    BY DEF PutGrant, Upsert
  <2> QED
    BY <2>1, <2>2
<1>2. \A s, h, ttl : s # r => ~PutGrant(s, h, ttl, now)
  BY DEF PutGrant, Upsert
<1>3. CASE c.op = "acquire" \/ c.op = "transfer"
  BY <1>1, <1>2, <1>3 DEF Transaction, Acquire, Transfer
<1>4. CASE c.op = "renew"
  <2>1. Renew(c.resource, c.holder, c.token, c.ttl, now)
    BY <1>4 DEF Transaction
  <2>2. c.resource = r
    BY <2>1 DEF Renew, Upsert
  <2> QED
    BY <1>4, <2>1, <2>2 DEF Renew, ExtendVerdict, HolderVerdict
<1>5. CASE c.op \in {"release", "sweep", "force_release"}
  BY <1>5 DEF Transaction, Release, Sweep, ForceRelease, Delete, Restrict
<1>6. CASE c.op \in {"register_resource", "update_resource", "delete_resource"}
  BY <1>6 DEF Transaction, RegisterResource, UpdateResource, DeleteResource
<1> QED
  BY <1>3, <1>4, <1>5, <1>6 DEF Transaction

=============================================================================
