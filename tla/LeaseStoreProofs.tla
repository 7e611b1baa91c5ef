-------------------------- MODULE LeaseStoreProofs --------------------------
(***************************************************************************)
(* Proofs about LeaseStore, for any sets of resources, holders, times to   *)
(* live and caps, for any instants the callers may have read, and for any  *)
(* number of tokens.                                                       *)
(*                                                                         *)
(* The inductive invariant is FencingInv.  TokenNamesOneHolder alone is    *)
(* not inductive: a new token is fresh only because the counter is ahead   *)
(* of every issued token, and the row is known to be the newest grant only *)
(* because counter and row move together.                                  *)
(***************************************************************************)
EXTENDS LeaseStore, FiniteSetsExt, WellFoundedInduction, TLAPS

-----------------------------------------------------------------------------
(* Numbers *)

\* A non-empty set of natural numbers has a smallest element.
LEMMA SmallestExists ==
  ASSUME NEW S \in SUBSET Nat, S # {}
  PROVE  \E x \in S : \A y \in S : x <= y
<1>1. PICK x \in S : \A y \in S : ~(<<y, x>> \in OpToRel(<, Nat))
  BY NatLessThanWellFounded, WFMin
<1>2. \A y \in S : ~(y < x)
  BY <1>1 DEF OpToRel
<1> QED
  BY <1>2

\* A bounded one has a largest element, which is what Max chooses.
LEMMA MaxOfBounded ==
  ASSUME NEW n \in Nat, NEW S \in SUBSET (0 .. n), S # {}
  PROVE  Max(S) \in S /\ \A y \in S : y <= Max(S)
<1> DEFINE T == {n - x : x \in S}
<1>1. \A y \in S : y \in Int /\ n - y \in Nat
  OBVIOUS
<1>2. T \subseteq Nat
  BY <1>1
<1>3. T # {} /\ \A y \in S : n - y \in T
  OBVIOUS
<1>4. \A m \in T : \E x \in S : m = n - x
  OBVIOUS
<1> HIDE DEF T
<1>5. PICK m \in T : \A y \in T : m <= y
  BY <1>2, <1>3, SmallestExists
<1>6. PICK x \in S : m = n - x
  BY <1>4
<1>7. \A y \in S : n - x <= n - y
  BY <1>3, <1>5, <1>6
<1>8. \A y \in S : x >= y
  BY <1>1, <1>7
<1>9. Max(S) = CHOOSE y \in S : \A z \in S : y >= z
  BY DEF Max
<1>10. Max(S) \in S /\ \A z \in S : Max(S) >= z
  BY <1>8, <1>9, Zenon
<1> QED
  BY <1>1, <1>10

\* The sum of an instant and a positive time to live is an int64, wrapped
\* around or not.
LEMMA Plus64Type ==
  ASSUME NEW now \in Instants, NEW ttl \in TTLs
  PROVE  Plus64(now, ttl) \in Int64
  BY StoreAssumption DEF Plus64, Int64

-----------------------------------------------------------------------------
(* What each kind of step does to the tables.  The lemmas below are about  *)
(* these four shapes, and StepCases says there are no others.              *)

\* A new grant for r: Acquire and Transfer.
GrantStep ==
  \E r \in Resources, h \in Holders, ttl \in TTLs, now \in Instants :
    PutGrant(r, h, ttl, now)

\* Only the times of the row of r change: Renew.
RenewStep ==
  \E r \in DOMAIN leases, ttl \in TTLs, now \in Instants :
    /\ leases' = Upsert(leases, r,
         [leases[r] EXCEPT !.expires_at = Plus64(now, ttl), !.ttl_seconds = ttl])
    /\ UNCHANGED <<fencing_counters, resources, issued>>

\* Rows disappear: Release, Sweep and ForceRelease.
DropStep ==
  \E rs \in SUBSET DOMAIN leases :
    /\ leases' = Delete(leases, rs)
    /\ UNCHANGED <<fencing_counters, resources, issued>>

\* Only registrations change.
MetadataStep ==
  /\ \/ \E r \in Resources, cap \in Caps \cap Nat : resources' = Upsert(resources, r, cap)
     \/ \E r \in Resources : resources' = Delete(resources, {r})
  /\ UNCHANGED <<leases, fencing_counters, issued>>

\* Every step of the store has one of the four shapes.
LEMMA StepCases ==
  ASSUME FencingInv, StoreNext
  PROVE  GrantStep \/ RenewStep \/ DropStep \/ MetadataStep
<1> USE StoreAssumption
<1>1. ASSUME NEW r \in Resources, NEW h \in Holders, NEW ttl \in TTLs, NEW now \in Instants,
             Acquire(r, h, ttl, now)
      PROVE  GrantStep
  BY <1>1 DEF Acquire, GrantStep
<1>2. ASSUME NEW r \in Resources, NEW h \in Holders, NEW t \in Tokens, NEW ttl \in TTLs,
             NEW now \in Instants, Renew(r, h, t, ttl, now)
      PROVE  RenewStep
  <2>1. r \in DOMAIN leases
    BY <1>2 DEF Renew, ExtendVerdict, HolderVerdict, Leased
  <2> QED
    BY <1>2, <2>1 DEF Renew, RenewStep
<1>3. ASSUME NEW r \in Resources, NEW h \in Holders, NEW t \in Tokens, NEW ttl \in TTLs,
             NEW now \in Instants, NEW newHolder \in Holders,
             Transfer(r, h, t, ttl, now, newHolder)
      PROVE  GrantStep
  BY <1>3 DEF Transfer, GrantStep
<1>4. ASSUME NEW r \in Resources, NEW h \in Holders, NEW t \in Tokens, NEW now \in Instants,
             Release(r, h, t, now)
      PROVE  DropStep
  <2>1. r \in DOMAIN leases
    BY <1>4 DEF Release, HolderVerdict, Leased
  <2> QED
    BY <1>4, <2>1 DEF Release, DropStep
<1>5. ASSUME NEW now \in Instants, Sweep(now)
      PROVE  DropStep
  BY <1>5 DEF Sweep, DropStep
<1>6. ASSUME NEW r \in Resources, ForceRelease(r)
      PROVE  DropStep
  BY <1>6 DEF ForceRelease, Leased, DropStep
<1>7. ASSUME NEW r \in Resources, NEW cap \in Caps,
             RegisterResource(r, cap) \/ UpdateResource(r, cap)
      PROVE  MetadataStep
  <2>1. cap \in Caps \cap Nat
    BY <1>7 DEF RegisterResource, UpdateResource, Int64
  <2> QED
    BY <1>7, <2>1 DEF RegisterResource, UpdateResource, MetadataStep
<1>8. ASSUME NEW r \in Resources, NEW now \in Instants, DeleteResource(r, now)
      PROVE  MetadataStep
  BY <1>8 DEF DeleteResource, MetadataStep
<1> QED
  BY <1>1, <1>2, <1>3, <1>4, <1>5, <1>6, <1>7, <1>8 DEF StoreNext

-----------------------------------------------------------------------------
(* Fencing *)

\* A new grant keeps the invariant: its token is the counter, which is
\* larger than every token issued before.
LEMMA GrantStepKeepsInv ==
  ASSUME FencingInv, GrantStep
  PROVE  FencingInv'
<1> USE StoreAssumption
<1>1. PICK r \in Resources, h \in Holders, ttl \in TTLs, now \in Instants :
        PutGrant(r, h, ttl, now)
  BY DEF GrantStep
<1> DEFINE tok == NextToken(r)
           g == [holder |-> h, token |-> tok]
           row == [holder |-> h, fencing_token |-> tok,
                   expires_at |-> Plus64(now, ttl), ttl_seconds |-> ttl]
<1>2. tok \in Tokens /\ g \in Grants /\ row \in LeaseRow
  <2>1. tok \in Tokens
    BY <1>1 DEF FencingInv, TypeOK, PutGrant, NextToken, Tokens
  <2> QED
    BY <2>1, Plus64Type DEF Grants, LeaseRow
<1>3. /\ leases' = Upsert(leases, r, row)
      /\ fencing_counters' = Upsert(fencing_counters, r, tok + 1)
      /\ resources' = resources
      /\ issued' = [issued EXCEPT ![r] = @ \cup {g}]
  BY <1>1 DEF PutGrant
<1> HIDE DEF tok, row, g
<1>4. TypeOK'
  <2>1. DOMAIN leases' \subseteq Resources /\ leases' \in [DOMAIN leases' -> LeaseRow]
    BY <1>2, <1>3 DEF FencingInv, TypeOK, Upsert
  <2>2. tok + 1 \in 1 .. MaxToken + 1
    BY <1>2 DEF Tokens
  <2>3. /\ DOMAIN fencing_counters' \subseteq Resources
        /\ fencing_counters' \in [DOMAIN fencing_counters' -> 1 .. MaxToken + 1]
    BY <1>3, <2>2 DEF FencingInv, TypeOK, Upsert
  <2>4. issued' \in [Resources -> SUBSET Grants]
    BY <1>2, <1>3 DEF FencingInv, TypeOK
  <2> QED
    BY <1>3, <2>1, <2>3, <2>4 DEF FencingInv, TypeOK
<1>5. \A old \in issued[r] : old.token \in Int /\ old.token < tok
  BY DEF FencingInv, TypeOK, CounterAheadOfTokens, tok, NextToken, Grants, Tokens
<1>6. g.token = tok /\ g.holder = h /\ row.fencing_token = tok /\ row.holder = h
  BY DEF g, row
<1>7. CounterAheadOfTokens'
  <2>1. DOMAIN fencing_counters' = DOMAIN fencing_counters \cup {r}
    BY <1>3 DEF Upsert
  <2>2. fencing_counters'[r] = tok + 1
    BY <1>3 DEF Upsert
  <2>3. \A s \in DOMAIN fencing_counters : s # r => fencing_counters'[s] = fencing_counters[s]
    BY <1>3 DEF Upsert
  <2>4. \A s \in Resources : issued'[s] = IF s = r THEN issued[s] \cup {g} ELSE issued[s]
    BY <1>3 DEF FencingInv, TypeOK
  <2>5. \A old \in issued'[r] : old.token < fencing_counters'[r]
    <3>1. tok \in Int
      BY <1>2 DEF Tokens
    <3>2. issued'[r] = issued[r] \cup {g}
      BY <2>4
    <3>3. g.token < tok + 1 /\ \A old \in issued[r] : old.token < tok + 1
      BY <1>5, <1>6, <3>1
    <3> QED
      BY <2>2, <3>2, <3>3
  <2> QED
    BY <2>1, <2>3, <2>4, <2>5 DEF FencingInv, CounterAheadOfTokens
<1>8. RowIsNewestGrant'
  <2>1. DOMAIN leases' = DOMAIN leases \cup {r} /\ leases'[r] = row
    BY <1>3 DEF Upsert
  <2>2. \A s \in DOMAIN leases : s # r => leases'[s] = leases[s]
    BY <1>3 DEF Upsert
  <2>3. DOMAIN fencing_counters' = DOMAIN fencing_counters \cup {r}
        /\ fencing_counters'[r] = tok + 1
    BY <1>3 DEF Upsert
  <2>4. \A s \in DOMAIN fencing_counters : s # r => fencing_counters'[s] = fencing_counters[s]
    BY <1>3 DEF Upsert
  <2>5. \A s \in Resources : issued'[s] = IF s = r THEN issued[s] \cup {g} ELSE issued[s]
    BY <1>3 DEF FencingInv, TypeOK
  <2>6. [holder |-> leases'[r].holder, token |-> leases'[r].fencing_token] = g
    BY <1>6, <2>1 DEF g
  <2> QED
    BY <1>6, <2>1, <2>2, <2>3, <2>4, <2>5, <2>6 DEF FencingInv, TypeOK, RowIsNewestGrant
<1>9. TokenNamesOneHolder'
  <2>1. \A s \in Resources : issued'[s] = IF s = r THEN issued[s] \cup {g} ELSE issued[s]
    BY <1>3 DEF FencingInv, TypeOK
  <2>2. \A old \in issued[r] : old.token # g.token
    BY <1>2, <1>5, <1>6 DEF Tokens
  <2> QED
    BY <2>1, <2>2 DEF FencingInv, TokenNamesOneHolder
<1> QED
  BY <1>4, <1>7, <1>8, <1>9 DEF FencingInv

\* A renewal changes neither the holder nor the token of the row.
LEMMA RenewStepKeepsInv ==
  ASSUME FencingInv, RenewStep
  PROVE  FencingInv'
<1> USE StoreAssumption
<1>1. PICK r \in DOMAIN leases, ttl \in TTLs, now \in Instants :
        /\ leases' = Upsert(leases, r,
             [leases[r] EXCEPT !.expires_at = Plus64(now, ttl), !.ttl_seconds = ttl])
        /\ UNCHANGED <<fencing_counters, resources, issued>>
  BY DEF RenewStep
<1> DEFINE row == [leases[r] EXCEPT !.expires_at = Plus64(now, ttl), !.ttl_seconds = ttl]
<1>2. r \in Resources /\ leases[r] \in LeaseRow
  BY DEF FencingInv, TypeOK
<1>3. /\ row \in LeaseRow
      /\ row.holder = leases[r].holder
      /\ row.fencing_token = leases[r].fencing_token
  BY <1>2, Plus64Type DEF LeaseRow
<1>4. leases' = Upsert(leases, r, row)
  BY <1>1
<1> HIDE DEF row
<1>5. TypeOK'
  <2>1. DOMAIN leases' \subseteq Resources /\ leases' \in [DOMAIN leases' -> LeaseRow]
    BY <1>2, <1>3, <1>4 DEF FencingInv, TypeOK, Upsert
  <2> QED
    BY <1>1, <2>1 DEF FencingInv, TypeOK
<1>6. RowIsNewestGrant'
  <2>1. DOMAIN leases' = DOMAIN leases /\ leases'[r] = row
    BY <1>4 DEF Upsert
  <2>2. \A s \in DOMAIN leases : s # r => leases'[s] = leases[s]
    BY <1>4 DEF Upsert
  <2>3. \A s \in DOMAIN leases : /\ leases'[s].holder = leases[s].holder
                                 /\ leases'[s].fencing_token = leases[s].fencing_token
    BY <1>3, <2>1, <2>2
  <2> QED
    BY <1>1, <2>1, <2>3 DEF FencingInv, RowIsNewestGrant
<1> QED
  BY <1>1, <1>5, <1>6 DEF FencingInv, CounterAheadOfTokens, TokenNamesOneHolder

\* Removing rows leaves counters and history as they are.
LEMMA DropStepKeepsInv ==
  ASSUME FencingInv, DropStep
  PROVE  FencingInv'
<1>1. PICK rs \in SUBSET DOMAIN leases :
        /\ leases' = Delete(leases, rs)
        /\ UNCHANGED <<fencing_counters, resources, issued>>
  BY DEF DropStep
<1>2. TypeOK'
  <2>1. DOMAIN leases' \subseteq Resources /\ leases' \in [DOMAIN leases' -> LeaseRow]
    BY <1>1 DEF FencingInv, TypeOK, Delete, Restrict
  <2> QED
    BY <1>1, <2>1 DEF FencingInv, TypeOK
<1>3. RowIsNewestGrant'
  BY <1>1 DEF FencingInv, RowIsNewestGrant, Delete, Restrict
<1> QED
  BY <1>1, <1>2, <1>3 DEF FencingInv, CounterAheadOfTokens, TokenNamesOneHolder

\* Registrations have no part in fencing; in particular a deleted and
\* re-registered resource continues its token sequence.
LEMMA MetadataStepKeepsInv ==
  ASSUME FencingInv, MetadataStep
  PROVE  FencingInv'
<1>1. DOMAIN resources' \subseteq Resources
      /\ resources' \in [DOMAIN resources' -> Caps \cap Nat]
  BY DEF FencingInv, TypeOK, MetadataStep, Upsert, Delete, Restrict
<1> QED
  BY <1>1 DEF FencingInv, TypeOK, CounterAheadOfTokens, RowIsNewestGrant,
              TokenNamesOneHolder, MetadataStep

\* The invariant is inductive.
LEMMA FencingInvInductive ==
  /\ StoreInit => FencingInv
  /\ FencingInv /\ [StoreNext]_storeVars => FencingInv'
<1>1. StoreInit => FencingInv
  BY DEF StoreInit, FencingInv, TypeOK, CounterAheadOfTokens, RowIsNewestGrant,
         TokenNamesOneHolder, EmptyTable
<1>2. ASSUME FencingInv, StoreNext PROVE FencingInv'
  BY <1>2, StepCases, GrantStepKeepsInv, RenewStepKeepsInv, DropStepKeepsInv,
     MetadataStepKeepsInv
<1>3. ASSUME FencingInv, UNCHANGED storeVars PROVE FencingInv'
  BY <1>3 DEF storeVars, FencingInv, TypeOK, CounterAheadOfTokens, RowIsNewestGrant,
              TokenNamesOneHolder
<1> QED
  BY <1>1, <1>2, <1>3

\* The whole fencing invariant holds in every reachable state of the store.
THEOREM StoreFencing == StoreSpec => []FencingInv
<1>1. StoreInit => FencingInv
  BY FencingInvInductive
<1>2. FencingInv /\ [StoreNext]_storeVars => FencingInv'
  BY FencingInvInductive
<1> QED
  BY <1>1, <1>2, PTL DEF StoreSpec

\* Every row, counter and registration has its type; in particular an expiry
\* is always an int64, however large the requested time to live was.
THEOREM StoreTypeCorrect == StoreSpec => []TypeOK
<1>1. FencingInv => TypeOK
  BY DEF FencingInv
<1> QED
  BY <1>1, StoreFencing, PTL

-----------------------------------------------------------------------------
(* Counters *)

CountersGrew ==
  /\ DOMAIN fencing_counters \subseteq DOMAIN fencing_counters'
  /\ \A r \in DOMAIN fencing_counters : fencing_counters[r] <= fencing_counters'[r]

\* No transaction removes a counter or sets it back.
LEMMA CountersGrow ==
  ASSUME FencingInv, [StoreNext]_storeVars
  PROVE  CountersGrew
<1>1. \A r \in DOMAIN fencing_counters : fencing_counters[r] \in Int
  BY StoreAssumption DEF FencingInv, TypeOK
<1>2. CASE GrantStep
  <2>1. PICK r \in Resources, h \in Holders, ttl \in TTLs, now \in Instants :
          PutGrant(r, h, ttl, now)
    BY <1>2 DEF GrantStep
  <2>2. fencing_counters' = [k \in DOMAIN fencing_counters \cup {r} |->
          IF k = r THEN NextToken(r) + 1 ELSE fencing_counters[k]]
    BY <2>1 DEF PutGrant, Upsert
  <2>3. r \in DOMAIN fencing_counters => NextToken(r) = fencing_counters[r]
    BY DEF NextToken
  <2> QED
    BY <1>1, <2>2, <2>3 DEF CountersGrew
<1>3. CASE fencing_counters' = fencing_counters
  BY <1>1, <1>3 DEF CountersGrew
<1>4. CASE RenewStep \/ DropStep \/ MetadataStep
  BY <1>3, <1>4 DEF RenewStep, DropStep, MetadataStep
<1>5. CASE UNCHANGED storeVars
  BY <1>3, <1>5 DEF storeVars
<1> QED
  BY <1>2, <1>4, <1>5, StepCases

\* The next token of a resource is a number, and all issued tokens are below it.
LEMMA NextTokenBounds ==
  ASSUME FencingInv, NEW r \in Resources
  PROVE  /\ NextToken(r) \in Nat /\ NextToken(r) >= 1
         /\ \A g \in issued[r] : g.token \in Tokens /\ g.token < NextToken(r)
         /\ r \in DOMAIN leases =>
              leases[r].fencing_token \in Tokens
                /\ NextToken(r) = leases[r].fencing_token + 1
<1>1. NextToken(r) \in Nat /\ NextToken(r) >= 1
  BY StoreAssumption DEF FencingInv, TypeOK, NextToken
<1>2. \A g \in issued[r] : g.token \in Tokens /\ g.token < NextToken(r)
  BY DEF FencingInv, TypeOK, CounterAheadOfTokens, NextToken, Grants
<1>3. r \in DOMAIN leases => /\ leases[r].fencing_token \in Tokens
                             /\ NextToken(r) = leases[r].fencing_token + 1
  BY DEF FencingInv, TypeOK, RowIsNewestGrant, NextToken, LeaseRow
<1> QED
  BY <1>1, <1>2, <1>3

\* No step takes a next token back.
LEMMA NextTokenGrows ==
  ASSUME FencingInv, [StoreNext]_storeVars, NEW r \in Resources
  PROVE  /\ NextToken(r) \in Nat /\ NextToken(r)' \in Nat
         /\ NextToken(r) <= NextToken(r)'
<1>1. FencingInv' /\ CountersGrew
  BY FencingInvInductive, CountersGrow
<1>2. r \in DOMAIN fencing_counters => fencing_counters[r] \in Nat
  BY StoreAssumption DEF FencingInv, TypeOK
<1>3. r \in DOMAIN fencing_counters' => fencing_counters'[r] \in Nat /\ fencing_counters'[r] >= 1
  BY <1>1, StoreAssumption DEF FencingInv, TypeOK
<1> QED
  BY <1>1, <1>2, <1>3 DEF NextToken, CountersGrew

-----------------------------------------------------------------------------
(* Rows *)

\* After a step a row is a new grant, under the token that was next, or it was
\* there before under the same token.
LEMMA RowOrigin ==
  ASSUME FencingInv, [StoreNext]_storeVars, NEW r \in DOMAIN leases'
  PROVE  \/ leases'[r].fencing_token = NextToken(r)
         \/ /\ r \in DOMAIN leases
            /\ leases'[r].holder = leases[r].holder
            /\ leases'[r].fencing_token = leases[r].fencing_token
<1>1. CASE GrantStep
  BY <1>1 DEF GrantStep, PutGrant, Upsert
<1>2. CASE RenewStep
  <2>1. PICK s \in DOMAIN leases, ttl \in TTLs, now \in Instants :
          leases' = Upsert(leases, s,
            [leases[s] EXCEPT !.expires_at = Plus64(now, ttl), !.ttl_seconds = ttl])
    BY <1>2 DEF RenewStep
  <2>2. leases[s] \in LeaseRow
    BY DEF FencingInv, TypeOK
  <2>3. leases'[s].holder = leases[s].holder
        /\ leases'[s].fencing_token = leases[s].fencing_token
    BY <2>1, <2>2 DEF Upsert, LeaseRow
  <2>4. r \in DOMAIN leases /\ (r # s => leases'[r] = leases[r])
    BY <2>1 DEF Upsert
  <2> QED
    BY <2>3, <2>4
<1>3. CASE DropStep
  BY <1>3 DEF DropStep, Delete, Restrict
<1>4. CASE MetadataStep \/ UNCHANGED storeVars
  BY <1>4 DEF MetadataStep, storeVars
<1> QED
  BY <1>1, <1>2, <1>3, <1>4, StepCases

\* The history of a resource only grows.
LEMMA IssuedGrows ==
  ASSUME FencingInv, [StoreNext]_storeVars, NEW r \in Resources
  PROVE  issued[r] \subseteq issued'[r]
<1>1. CASE GrantStep
  BY <1>1 DEF GrantStep, PutGrant, FencingInv, TypeOK
<1>2. CASE RenewStep \/ DropStep \/ MetadataStep \/ UNCHANGED storeVars
  BY <1>2 DEF RenewStep, DropStep, MetadataStep, storeVars
<1> QED
  BY <1>1, <1>2, StepCases

-----------------------------------------------------------------------------
(* Refinement *)

\* The initial tables are an initial state of FencedGrants.
LEMMA InitImplementsFencedGrants == StoreInit => Fenced!Init
  BY DEF StoreInit, Fenced!Init, RowGrant, Leased, EmptyTable

\* Every transaction is a step of FencedGrants, or invisible in it.
LEMMA StepImplementsFencedGrants ==
  ASSUME FencingInv, FencingInv', [StoreNext]_storeVars
  PROVE  [Fenced!Next]_Fenced!vars
<1> USE StoreAssumption
<1>1. CASE GrantStep
  <2>1. PICK r \in Resources, h \in Holders, ttl \in TTLs, now \in Instants :
          PutGrant(r, h, ttl, now)
    BY <1>1 DEF GrantStep
  <2> DEFINE g == [holder |-> h, token |-> NextToken(r)]
  <2>2. g \in Fenced!Grants /\ g.token = NextToken(r)
    BY <2>1 DEF FencingInv, TypeOK, PutGrant, NextToken, Tokens, Fenced!Grants
  <2>3. \A old \in issued[r] : old.token < g.token
    BY <2>2 DEF FencingInv, CounterAheadOfTokens, NextToken
  <2>4. issued' = [issued EXCEPT ![r] = @ \cup {g}]
    BY <2>1 DEF PutGrant
  <2>5. DOMAIN leases' = DOMAIN leases \cup {r}
        /\ \A s \in DOMAIN leases : s # r => leases'[s] = leases[s]
    BY <2>1 DEF PutGrant, Upsert
  <2>6. leases'[r].holder = h /\ leases'[r].fencing_token = NextToken(r)
    BY <2>1 DEF PutGrant, Upsert
  <2>7. \A s \in Resources : RowGrant(s)' = IF s = r THEN {g} ELSE RowGrant(s)
    BY <2>5, <2>6 DEF RowGrant, Leased
  <2>8. [s \in Resources |-> RowGrant(s)]'
          = [[s \in Resources |-> RowGrant(s)] EXCEPT ![r] = {g}]
    BY <2>7
  <2>9. Fenced!Issue(r, g)
    BY <2>3, <2>4, <2>8 DEF Fenced!Issue
  <2> QED
    BY <2>2, <2>9 DEF Fenced!Next
<1>2. CASE RenewStep
  <2>1. PICK r \in DOMAIN leases, ttl \in TTLs, now \in Instants :
          /\ leases' = Upsert(leases, r,
               [leases[r] EXCEPT !.expires_at = Plus64(now, ttl), !.ttl_seconds = ttl])
          /\ issued' = issued
    BY <1>2 DEF RenewStep
  <2>2. leases[r] \in LeaseRow
    BY DEF FencingInv, TypeOK
  <2>3. DOMAIN leases' = DOMAIN leases
    BY <2>1 DEF Upsert
  <2>4. \A s \in DOMAIN leases : s # r => leases'[s] = leases[s]
    BY <2>1 DEF Upsert
  <2>5. leases'[r].holder = leases[r].holder
        /\ leases'[r].fencing_token = leases[r].fencing_token
    BY <2>1, <2>2 DEF LeaseRow, Upsert
  <2>6. \A s \in Resources : RowGrant(s)' = RowGrant(s)
    BY <2>3, <2>4, <2>5 DEF RowGrant, Leased
  <2> QED
    BY <2>1, <2>6 DEF Fenced!vars
<1>3. CASE DropStep
  <2>1. PICK rs \in SUBSET DOMAIN leases : leases' = Delete(leases, rs) /\ issued' = issued
    BY <1>3 DEF DropStep
  <2>2. rs \in SUBSET Resources
    BY DEF FencingInv, TypeOK
  <2>3. \A s \in Resources : RowGrant(s)' = IF s \in rs THEN {} ELSE RowGrant(s)
    BY <2>1 DEF RowGrant, Leased, Delete, Restrict
  <2>4. Fenced!Drop(rs)
    BY <2>1, <2>3 DEF Fenced!Drop
  <2> QED
    BY <2>2, <2>4 DEF Fenced!Next
<1>4. CASE MetadataStep
  BY <1>4 DEF MetadataStep, Fenced!vars, RowGrant, Leased
<1>5. CASE UNCHANGED storeVars
  BY <1>5 DEF storeVars, Fenced!vars, RowGrant, Leased
<1> QED
  BY <1>1, <1>2, <1>3, <1>4, <1>5, StepCases

\* The store implements FencedGrants: whatever instants its callers read,
\* tokens only grow, the stored row is the last grant, and a superseded or
\* removed grant never comes back.
THEOREM StoreImplementsFencedGrants == StoreSpec => ImplementsFencedGrants
<1>1. StoreInit => Fenced!Init
  BY InitImplementsFencedGrants
<1>2. FencingInv /\ FencingInv' /\ [StoreNext]_storeVars => [Fenced!Next]_Fenced!vars
  BY StepImplementsFencedGrants
<1> QED
  BY <1>1, <1>2, StoreFencing, PTL DEF StoreSpec, ImplementsFencedGrants, Fenced!Spec

-----------------------------------------------------------------------------
(* Caps *)

\* Each row the step writes carries a time to live within the cap in force.
WritesWithinCap ==
  \A r \in DOMAIN leases' :
    \/ r \in DOMAIN leases /\ leases[r] = leases'[r]
    \/ ~OverCap(r, leases'[r].ttl_seconds)

\* Every transaction that writes a row has checked the cap before.
LEMMA StepRespectsCap ==
  ASSUME FencingInv, StoreNext
  PROVE  WritesWithinCap
<1>1. ASSUME NEW r \in Resources, NEW h \in Holders, NEW ttl \in TTLs, NEW now \in Instants,
             ~OverCap(r, ttl), PutGrant(r, h, ttl, now)
      PROVE  WritesWithinCap
  BY <1>1 DEF PutGrant, Upsert, WritesWithinCap
<1>2. ASSUME NEW r \in Resources, NEW h \in Holders, NEW ttl \in TTLs, NEW now \in Instants,
             Acquire(r, h, ttl, now)
      PROVE  WritesWithinCap
  <2>1. ~OverCap(r, ttl) /\ PutGrant(r, h, ttl, now)
    BY <1>2 DEF Acquire, AcquireVerdict
  <2> QED
    BY <1>1, <2>1
<1>3. ASSUME NEW r \in Resources, NEW h \in Holders, NEW ttl \in TTLs, NEW now \in Instants,
             NEW t \in Tokens, NEW newHolder \in Holders,
             Transfer(r, h, t, ttl, now, newHolder)
      PROVE  WritesWithinCap
  <2>1. ~OverCap(r, ttl) /\ PutGrant(r, newHolder, ttl, now)
    BY <1>3 DEF Transfer, ExtendVerdict
  <2> QED
    BY <1>1, <2>1
<1>4. ASSUME NEW r \in Resources, NEW h \in Holders, NEW ttl \in TTLs, NEW now \in Instants,
             NEW t \in Tokens, Renew(r, h, t, ttl, now)
      PROVE  WritesWithinCap
  <2> DEFINE row == [leases[r] EXCEPT !.expires_at = Plus64(now, ttl), !.ttl_seconds = ttl]
  <2>1. ~OverCap(r, ttl) /\ leases' = Upsert(leases, r, row)
    BY <1>4 DEF Renew, ExtendVerdict
  <2>2. leases[r] \in LeaseRow
    BY <1>4 DEF Renew, ExtendVerdict, HolderVerdict, Leased, FencingInv, TypeOK
  <2>3. row.ttl_seconds = ttl
    BY <2>2 DEF LeaseRow
  <2> HIDE DEF row
  <2> QED
    BY <2>1, <2>3 DEF Upsert, WritesWithinCap
<1>5. ASSUME NEW rs, leases' = Delete(leases, rs) PROVE WritesWithinCap
  BY <1>5 DEF Delete, Restrict, WritesWithinCap
<1>6. ASSUME leases' = leases PROVE WritesWithinCap
  BY <1>6 DEF WritesWithinCap
<1>7. ASSUME NEW r \in Resources, NEW h \in Holders, NEW t \in Tokens, NEW now \in Instants,
             Release(r, h, t, now)
      PROVE  WritesWithinCap
  BY <1>5, <1>7 DEF Release
<1>8. ASSUME NEW now \in Instants, Sweep(now) PROVE WritesWithinCap
  BY <1>5, <1>8 DEF Sweep
<1>9. ASSUME NEW r \in Resources, ForceRelease(r) PROVE WritesWithinCap
  BY <1>5, <1>9 DEF ForceRelease
<1>10. ASSUME NEW r \in Resources, NEW cap \in Caps,
              RegisterResource(r, cap) \/ UpdateResource(r, cap)
       PROVE  WritesWithinCap
  BY <1>6, <1>10 DEF RegisterResource, UpdateResource
<1>11. ASSUME NEW r \in Resources, NEW now \in Instants, DeleteResource(r, now)
       PROVE  WritesWithinCap
  BY <1>6, <1>11 DEF DeleteResource
<1> QED
  BY <1>2, <1>3, <1>4, <1>7, <1>8, <1>9, <1>10, <1>11 DEF StoreNext

\* No transaction, not even one that works with an old or future instant,
\* writes a time to live above the cap registered at that moment.
THEOREM StoreWritesRespectCap == StoreSpec => WritesRespectCap
<1>1. FencingInv /\ [StoreNext]_storeVars => [WritesWithinCap]_storeVars
  BY StepRespectsCap
<1> QED
  BY <1>1, StoreFencing, PTL DEF StoreSpec, WritesRespectCap, WritesWithinCap
-----------------------------------------------------------------------------
(* The times of a row *)

\* No request asks for a time to live that the clock cannot count up to.
NoOverflow == \A now \in Instants, ttl \in TTLs : now + ttl <= MaxInt

\* Without overflow the sum of int64s is the sum.
LEMMA Plus64Exact ==
  ASSUME NoOverflow, NEW now \in Instants, NEW ttl \in TTLs
  PROVE  Plus64(now, ttl) = now + ttl
<1>1. now \in Int /\ ttl \in Int /\ MaxInt \in Int /\ now + ttl <= MaxInt
  BY StoreAssumption DEF NoOverflow, Int64
<1> QED
  BY <1>1 DEF Plus64

\* A row that a step writes gets its expiry and its time to live together.
LEMMA StepKeepsTimesTogether ==
  ASSUME NoOverflow, FencingInv, ExpiresOneTTLAfterAnInstant, [StoreNext]_storeVars
  PROVE  ExpiresOneTTLAfterAnInstant'
<1>1. ASSUME NEW now \in Instants, NEW ttl \in TTLs
      PROVE  Plus64(now, ttl) - ttl = now
  <2>1. now \in Int /\ ttl \in Int
    BY StoreAssumption DEF Int64
  <2> QED
    BY <2>1, Plus64Exact
<1>2. CASE GrantStep
  <2>1. PICK r \in Resources, h \in Holders, ttl \in TTLs, now \in Instants :
          PutGrant(r, h, ttl, now)
    BY <1>2 DEF GrantStep
  <2>2. leases'[r].expires_at - leases'[r].ttl_seconds = now
    BY <1>1, <2>1 DEF PutGrant, Upsert
  <2>3. \A s \in DOMAIN leases' : s # r => s \in DOMAIN leases /\ leases'[s] = leases[s]
    BY <2>1 DEF PutGrant, Upsert
  <2> QED
    BY <2>2, <2>3 DEF ExpiresOneTTLAfterAnInstant
<1>3. CASE RenewStep
  <2>1. PICK r \in DOMAIN leases, ttl \in TTLs, now \in Instants :
          leases' = Upsert(leases, r,
            [leases[r] EXCEPT !.expires_at = Plus64(now, ttl), !.ttl_seconds = ttl])
    BY <1>3 DEF RenewStep
  <2>2. leases[r] \in LeaseRow
    BY DEF FencingInv, TypeOK
  <2>3. leases'[r].expires_at = Plus64(now, ttl) /\ leases'[r].ttl_seconds = ttl
    BY <2>1, <2>2 DEF Upsert, LeaseRow
  <2>4. \A s \in DOMAIN leases' : s # r => s \in DOMAIN leases /\ leases'[s] = leases[s]
    BY <2>1 DEF Upsert
  <2> QED
    BY <1>1, <2>3, <2>4 DEF ExpiresOneTTLAfterAnInstant
<1>4. CASE DropStep
  BY <1>4 DEF DropStep, Delete, Restrict, ExpiresOneTTLAfterAnInstant
<1>5. CASE MetadataStep \/ UNCHANGED storeVars
  BY <1>5 DEF MetadataStep, storeVars, ExpiresOneTTLAfterAnInstant
<1> QED
  BY <1>2, <1>3, <1>4, <1>5, StepCases

\* Unless a time to live is so large that the sum wraps around, the times of a
\* row agree with each other, whatever the callers' clocks did.
THEOREM TimesOfRowsAgree ==
  ASSUME NoOverflow
  PROVE  StoreSpec => []ExpiresOneTTLAfterAnInstant
<1>1. StoreInit => ExpiresOneTTLAfterAnInstant
  BY DEF StoreInit, EmptyTable, ExpiresOneTTLAfterAnInstant
<1>2. FencingInv /\ ExpiresOneTTLAfterAnInstant /\ [StoreNext]_storeVars
        => ExpiresOneTTLAfterAnInstant'
  BY StepKeepsTimesTogether
<1> QED
  BY <1>1, <1>2, StoreFencing, PTL DEF StoreSpec
=============================================================================
