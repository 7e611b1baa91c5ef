------------------------- MODULE LeaseServiceProofs -------------------------
(***************************************************************************)
(* Proofs about LeaseService, for any number of connections, resources,    *)
(* holders and tokens, for clients that may send several requests at a     *)
(* time, and for batches of any length.                                    *)
(*                                                                         *)
(* The service is a way of scheduling the transactions of the store, so    *)
(* everything proved in LeaseStoreProofs holds of it.  What the service    *)
(* adds is that a handler's clock reading is never ahead of the clock,     *)
(* which is what keeps a delayed acquisition or sweep from ending a lease  *)
(* that has not lapsed.                                                    *)
(***************************************************************************)
EXTENDS LeaseService, StoreCallsProofs, SequenceTheorems

\* An instant a handler works with was read from the clock earlier.
ReadingsArePast ==
  \A w \in Workers : requests[w].now \in Instants => requests[w].now <= clock

ServiceInv == ServiceTypeOK /\ FencingInv /\ ReadingsArePast

-----------------------------------------------------------------------------
(* Requests *)

\* Only calls of clients name a holder, and it is one.
LEMMA CallHolder ==
  ASSUME NEW c \in Calls, "holder" \in DOMAIN c
  PROVE  c.holder \in Holders
  BY DEF Calls, TokenCalls, AcquireCalls, RenewCalls, TransferCalls, ReleaseCalls, AdminCalls

\* A body is a sequence of calls.
LEMMA BodyIsCalls ==
  ASSUME NEW body \in Bodies
  PROVE  body \in Seq(Calls)
<1>1. CASE \E c \in Calls : body = <<c>>
  BY <1>1
<1>2. CASE body \in Batches
  <2>1. PICK n \in 2 .. MaxBatch : body \in [1 .. n -> AcquireCalls]
    BY <1>2 DEF Batches
  <2>2. n \in Nat
    BY <2>1, ServiceAssumption
  <2>3. body \in Seq(AcquireCalls)
    BY <2>1, <2>2
  <2> QED
    BY <2>3 DEF Calls
<1> QED
  BY <1>1, <1>2 DEF Bodies

\* The call a handler is busy with, and the instant it works with.
LEMMA CurrentCall ==
  ASSUME ServiceTypeOK, NEW w \in Workers, InTransaction(w)
  PROVE  /\ Call(w) \in Calls
         /\ Tail(requests[w].todo) \in Seq(Calls)
         /\ Tail(requests[w].todo) # requests[w].todo
         /\ requests[w].todo # <<>>
         /\ UsesClock(Call(w)) => requests[w].now \in Instants
<1>1. requests[w].todo \in Seq(Calls) /\ requests[w].now \in Instants \cup {NotRead}
  BY DEF ServiceTypeOK, HandlerStates
<1>2. requests[w].todo # <<>>
  BY DEF InTransaction
<1>3. Head(requests[w].todo) \in Calls /\ Tail(requests[w].todo) \in Seq(Calls)
  BY <1>1, <1>2
<1>4. Len(Tail(requests[w].todo)) = Len(requests[w].todo) - 1
      /\ Len(requests[w].todo) \in Nat
  BY <1>1, <1>2
<1>5. Tail(requests[w].todo) # requests[w].todo
  <2> SUFFICES ASSUME Tail(requests[w].todo) = requests[w].todo PROVE FALSE
    OBVIOUS
  <2>1. Len(requests[w].todo) = Len(requests[w].todo) - 1
    BY <1>4
  <2> QED
    BY <1>4, <2>1
<1> QED
  BY <1>1, <1>2, <1>3, <1>5 DEF Call, InTransaction

\* Every step of the service is a step of the store or leaves the tables alone.
LEMMA StepIsStoreStep ==
  ASSUME ServiceTypeOK, [Next]_vars
  PROVE  [StoreNext]_storeVars
<1>1. ASSUME NEW w \in Workers, Commit(w)
      PROVE  StoreNext
  <2>1. Transaction(Call(w), requests[w].now) /\ InTransaction(w)
    BY <1>1 DEF Commit
  <2> QED
    BY <2>1, CurrentCall, TransactionIsStoreStep
<1>2. CASE Restart
  BY <1>2 DEF Restart, ServiceTypeOK, StoreNext
<1>3. CASE UNCHANGED storeVars
  BY <1>3
<1>4. ASSUME NEW w \in Workers, Rollback(w) \/ Answer(w) \/ LoseAnswer(w) \/ ReadClock(w)
      PROVE  UNCHANGED storeVars
  BY <1>4 DEF Rollback, Answer, LoseAnswer, ReadClock
<1>5. ASSUME NEW w \in Workers, NEW body \in Bodies, Receive(w, body)
      PROVE  UNCHANGED storeVars
  BY <1>5 DEF Receive
<1>6. CASE Tick \/ Crash
  BY <1>6 DEF Tick, Crash
<1>7. CASE UNCHANGED vars
  BY <1>7 DEF vars, storeVars
<1> QED
  BY <1>1, <1>2, <1>4, <1>5, <1>6, <1>7 DEF Next

-----------------------------------------------------------------------------
(* The invariant *)

\* The lease a committed call reports is well typed: its token was allocated
\* by this transaction or passed its token check.
LEMMA ReportedType ==
  ASSUME FencingInv, NEW c \in Calls, NEW now, UsesClock(c) => now \in Instants,
         Transaction(c, now)
  PROVE  Reported(c, now) \subseteq Promises
<1>1. CASE c.op = "acquire"
  <2>1. c \in AcquireCalls /\ now \in Instants
    BY <1>1, CallArguments DEF UsesClock
  <2>2. NextToken(c.resource) \in Tokens
    BY <1>1, <2>1, StoreAssumption
       DEF Transaction, Acquire, PutGrant, FencingInv, TypeOK, NextToken, Tokens, AcquireCalls
  <2>3. Plus64(now, c.ttl) \in Int64
    BY <2>1, Plus64Type DEF AcquireCalls
  <2> QED
    BY <1>1, <2>1, <2>2, <2>3 DEF Reported, Promises, AcquireCalls
<1>2. CASE c.op = "renew"
  <2>1. c \in RenewCalls /\ now \in Instants
    BY <1>2, CallArguments DEF UsesClock
  <2>2. Plus64(now, c.ttl) \in Int64
    BY <2>1, Plus64Type DEF RenewCalls
  <2> QED
    BY <1>2, <2>1, <2>2 DEF Reported, Promises, RenewCalls
<1>3. CASE c.op = "transfer"
  <2>1. c \in TransferCalls /\ now \in Instants
    BY <1>3, CallArguments DEF UsesClock
  <2>2. NextToken(c.resource) \in Tokens
    BY <1>3, <2>1, StoreAssumption
       DEF Transaction, Transfer, PutGrant, FencingInv, TypeOK, NextToken, Tokens, TransferCalls
  <2>3. Plus64(now, c.ttl) \in Int64
    BY <2>1, Plus64Type DEF TransferCalls
  <2> QED
    BY <1>3, <2>1, <2>2, <2>3 DEF Reported, Promises, TransferCalls
<1>4. CASE c.op \notin {"acquire", "renew", "transfer"}
  BY <1>4 DEF Reported
<1> QED
  BY <1>1, <1>2, <1>3, <1>4

\* Going on to the next call keeps a handler well typed, and drops its reading.
LEMMA ProceedType ==
  ASSUME ServiceTypeOK, NEW w \in Workers, InTransaction(w),
         NEW reported \in SUBSET Promises, Proceed(w, reported)
  PROVE  /\ requests' \in [Workers -> HandlerStates]
         /\ requests'[w].now = NotRead
         /\ \A v \in Workers : v # w => requests'[v] = requests[v]
         /\ requests'[w] # requests[w]
<1> DEFINE next == [requests[w] EXCEPT !.todo = Tail(@), !.now = NotRead,
                                       !.granted = @ \cup reported]
           new == IF next.todo = <<>> /\ next.granted = {} THEN Idle ELSE next
<1>1. requests[w] \in HandlerStates
  BY DEF ServiceTypeOK
<1>2. next \in HandlerStates /\ next.now = NotRead /\ next.todo # requests[w].todo
  <2>1. Tail(requests[w].todo) \in Seq(Calls) /\ Tail(requests[w].todo) # requests[w].todo
    BY CurrentCall
  <2> QED
    BY <1>1, <2>1 DEF HandlerStates
<1>3. Idle \in HandlerStates /\ Idle.now = NotRead /\ Idle.todo = <<>>
  BY DEF Idle, HandlerStates
<1>4. new \in HandlerStates /\ new.now = NotRead /\ new.todo # requests[w].todo
  <2>1. requests[w].todo # <<>>
    BY CurrentCall
  <2> QED
    BY <1>2, <1>3, <2>1
<1>5. requests' = [requests EXCEPT ![w] = new]
  BY DEF Proceed
<1> HIDE DEF new
<1>6. requests'[w] = new /\ \A v \in Workers : v # w => requests'[v] = requests[v]
  BY <1>5 DEF ServiceTypeOK
<1> QED
  BY <1>4, <1>5, <1>6 DEF ServiceTypeOK

\* An idle handler has no reading.
LEMMA IdleType == Idle \in HandlerStates /\ Idle.now = NotRead
  BY DEF Idle, HandlerStates

\* The steps of handlers, clock and process keep the types of the service's
\* own state and never put a reading ahead of the clock.
LEMMA ServiceStep ==
  ASSUME ServiceInv, TypeOK', Next
  PROVE  ServiceTypeOK' /\ ReadingsArePast'
<1> USE ServiceAssumption DEF ServiceInv
<1>0. \A w \in Workers : requests[w] \in HandlerStates
  BY DEF ServiceTypeOK
<1>1. ASSUME NEW w \in Workers, NEW body \in Bodies, Receive(w, body)
      PROVE  ServiceTypeOK' /\ ReadingsArePast'
  <2> DEFINE new == [Idle EXCEPT !.todo = body, !.clients = Senders(body)]
  <2>1. Senders(body) \subseteq Holders
    <3>1. \A i \in DOMAIN body : body[i] \in Calls
      BY BodyIsCalls
    <3> QED
      BY <3>1, CallHolder DEF Senders
  <2>2. new \in HandlerStates /\ new.now = NotRead
    BY <2>1, BodyIsCalls DEF HandlerStates, Idle
  <2>3. requests' = [requests EXCEPT ![w] = new] /\ clock' = clock /\ up' = up
    BY <1>1 DEF Receive
  <2> HIDE DEF new
  <2>4. AfterSending(body) \subseteq Promises
    <3>1. \A p \in promises : [p EXCEPT !.until = 0] \in Promises
      BY StoreAssumption DEF ServiceTypeOK, Promises, Int64
    <3> QED
      BY <3>1 DEF AfterSending, ServiceTypeOK
  <2>5. promises' \subseteq Promises
    BY <1>1, <2>4 DEF Receive
  <2> QED
    BY <2>2, <2>3, <2>5 DEF ServiceTypeOK, ReadingsArePast
<1>2. ASSUME NEW w \in Workers, ReadClock(w)
      PROVE  ServiceTypeOK' /\ ReadingsArePast'
  <2>1. requests' = [requests EXCEPT ![w].now = clock] /\ clock \in Instants
    BY <1>2 DEF ReadClock, ServiceTypeOK
  <2>2. requests' \in [Workers -> HandlerStates]
    BY <1>0, <2>1 DEF ServiceTypeOK, HandlerStates
  <2>3. \A v \in Workers : requests'[v].now = IF v = w THEN clock ELSE requests[v].now
    BY <1>0, <2>1 DEF ServiceTypeOK, HandlerStates
  <2>4. clock' = clock /\ up' = up /\ promises' = promises
    BY <1>2 DEF ReadClock
  <2> QED
    BY <2>1, <2>2, <2>3, <2>4 DEF ServiceTypeOK, ReadingsArePast
<1>3. ASSUME NEW w \in Workers, Commit(w) \/ Rollback(w)
      PROVE  ServiceTypeOK' /\ ReadingsArePast'
  <2>1. PICK reported \in SUBSET Promises : Proceed(w, reported)
    <3>1. CASE Commit(w)
      <4>1. InTransaction(w) /\ Transaction(Call(w), requests[w].now)
            /\ Proceed(w, Reported(Call(w), requests[w].now))
        BY <3>1 DEF Commit
      <4>2. Reported(Call(w), requests[w].now) \subseteq Promises
        BY <4>1, CurrentCall, ReportedType
      <4> QED
        BY <4>1, <4>2
    <3>2. CASE Rollback(w)
      BY <3>2 DEF Rollback
    <3> QED
      BY <1>3, <3>1, <3>2
  <2>2. InTransaction(w) /\ clock' = clock /\ up' = up /\ promises' = promises
    BY <1>3 DEF Commit, Rollback
  <2>3. /\ requests' \in [Workers -> HandlerStates]
        /\ requests'[w].now = NotRead
        /\ \A v \in Workers : v # w => requests'[v] = requests[v]
    BY <2>1, <2>2, ProceedType
  <2> QED
    BY <2>2, <2>3 DEF ServiceTypeOK, ReadingsArePast
<1>4. ASSUME NEW w \in Workers, Answer(w) \/ LoseAnswer(w)
      PROVE  ServiceTypeOK' /\ ReadingsArePast'
  <2>1. requests' = [requests EXCEPT ![w] = Idle] /\ clock' = clock /\ up' = up
    BY <1>4 DEF Answer, LoseAnswer
  <2>2. promises' \subseteq Promises
    <3>1. requests[w].granted \subseteq Promises
      BY <1>0 DEF HandlerStates
    <3> QED
      BY <1>4, <3>1 DEF Answer, LoseAnswer, AfterAnswer, ServiceTypeOK
  <2> QED
    BY <2>1, <2>2, IdleType DEF ServiceTypeOK, ReadingsArePast
<1>5. CASE Tick
  <2>1. /\ clock' \in Instants /\ clock \in Int /\ clock' = clock + 1
        /\ up' = up /\ requests' = requests /\ promises' = promises
    BY <1>5, StoreAssumption DEF Tick, ServiceTypeOK, Int64
  <2>2. \A i \in Instants : i \in Int
    BY StoreAssumption DEF Int64
  <2>3. ReadingsArePast'
    <3> SUFFICES ASSUME NEW v \in Workers, requests[v].now \in Instants
                 PROVE  requests[v].now <= clock + 1
      BY <2>1 DEF ReadingsArePast
    <3>1. requests[v].now \in Int /\ requests[v].now <= clock
      BY <2>2 DEF ReadingsArePast
    <3> QED
      BY <2>1, <3>1
  <2> QED
    BY <2>1, <2>3 DEF ServiceTypeOK
<1>6. CASE Crash
  BY <1>6, IdleType DEF Crash, ServiceTypeOK, ReadingsArePast
<1>7. CASE Restart
  BY <1>7 DEF Restart, ServiceTypeOK, ReadingsArePast
<1> QED
  BY <1>1, <1>2, <1>3, <1>4, <1>5, <1>6, <1>7 DEF Next

\* The invariant of the service is inductive.
LEMMA ServiceInvInductive ==
  /\ Init => ServiceInv
  /\ ServiceInv /\ [Next]_vars => ServiceInv'
<1>1. ASSUME Init PROVE ServiceInv
  <2>1. FencingInv
    BY <1>1, FencingInvInductive DEF Init
  <2>2. ServiceTypeOK
    BY <1>1, <2>1, IdleType, ServiceAssumption DEF Init, ServiceTypeOK, FencingInv
  <2>3. ReadingsArePast
    BY <1>1, IdleType, ServiceAssumption DEF Init, ReadingsArePast
  <2> QED
    BY <2>1, <2>2, <2>3 DEF ServiceInv
<1>2. ASSUME ServiceInv, [Next]_vars PROVE ServiceInv'
  <2>1. FencingInv'
    BY <1>2, StepIsStoreStep, FencingInvInductive DEF ServiceInv
  <2>2. CASE Next
    BY <1>2, <2>1, <2>2, ServiceStep DEF ServiceInv, FencingInv
  <2>3. CASE UNCHANGED vars
    BY <1>2, <2>1, <2>3 DEF vars, ServiceInv, FencingInv, ServiceTypeOK, ReadingsArePast
  <2> QED
    BY <1>2, <2>2, <2>3
<1> QED
  BY <1>1, <1>2

\* Types, fencing and past readings in every reachable state of the service.
THEOREM ServiceInvariant == Spec => []ServiceInv
  BY ServiceInvInductive, PTL DEF Spec

\* Every state of the service is well typed.
THEOREM ServiceTypeCorrect == Spec => []ServiceTypeOK
<1>1. ServiceInv => ServiceTypeOK
  BY DEF ServiceInv
<1> QED
  BY <1>1, ServiceInvariant, PTL

\* The service runs nothing but store transactions, in some order and with
\* some readings of the clock: every property of the store is one of the service.
THEOREM ServiceImplementsStore == Spec => ImplementsStore
<1>1. Init => StoreInit
  BY DEF Init
<1>2. ServiceInv /\ [Next]_vars => [StoreNext]_storeVars
  BY StepIsStoreStep DEF ServiceInv
<1> QED
  BY <1>1, <1>2, ServiceInvariant, PTL DEF Spec, StoreSpec, ImplementsStore

\* Through the store, the service keeps the contract of fencing tokens.
THEOREM ServiceImplementsFencedGrants == Spec => ImplementsFencedGrants
  BY ServiceImplementsStore, StoreImplementsFencedGrants, PTL DEF ImplementsStore

-----------------------------------------------------------------------------
(* A live lease *)

\* The row of r stays as it is, or is gone, or is another, in the next state.
Changed(r) == ~(r \in DOMAIN leases' /\ leases'[r] = leases[r])

\* A transaction whose instant is not ahead of the clock changes a live lease
\* only if it presents its holder and token, or is a forced release.
LEMMA TransactionRespectsLiveLease ==
  ASSUME ServiceInv, NEW c \in Calls, NEW now,
         UsesClock(c) => now \in Instants /\ now <= clock,
         Transaction(c, now),
         NEW r \in Resources, Live(r, clock), Changed(r)
  PROVE  \/ /\ c \in TokenCalls
            /\ c.resource = r
            /\ c.holder = leases[r].holder
            /\ c.token = leases[r].fencing_token
         \/ c.op = "force_release" /\ c.resource = r
<1>1. r \in DOMAIN leases /\ leases[r].expires_at > clock
  BY DEF Live, Leased
<1>2. clock \in Int /\ leases[r].expires_at \in Int
  BY <1>1, StoreAssumption DEF ServiceInv, ServiceTypeOK, TypeOK, LeaseRow, Int64
<1>3. \A i \in Instants : i \in Int
  BY StoreAssumption DEF Int64
<1>4. UsesClock(c) => leases[r].expires_at > now /\ ~(leases[r].expires_at <= now)
  BY <1>1, <1>2, <1>3
<1>5. CASE c.op = "acquire"
  <2>1. Acquire(c.resource, c.holder, c.ttl, now)
    BY <1>5 DEF Transaction
  <2>2. c.resource # r
    BY <1>1, <1>4, <1>5, <2>1 DEF UsesClock, Acquire, AcquireVerdict, Live, Leased
  <2> QED
    BY <1>1, <2>1, <2>2 DEF Acquire, PutGrant, Upsert, Changed
<1>6. CASE c.op = "renew"
  <2>1. Renew(c.resource, c.holder, c.token, c.ttl, now) /\ c \in TokenCalls
    BY <1>6, CallArguments DEF Transaction, TokenCalls
  <2>2. CASE c.resource # r
    BY <1>1, <2>1, <2>2 DEF Renew, Upsert, Changed
  <2>3. CASE c.resource = r
    BY <2>1, <2>3 DEF Renew, ExtendVerdict, HolderVerdict
  <2> QED
    BY <2>2, <2>3
<1>7. CASE c.op = "transfer"
  <2>1. Transfer(c.resource, c.holder, c.token, c.ttl, now, c.newHolder) /\ c \in TokenCalls
    BY <1>7, CallArguments DEF Transaction, TokenCalls
  <2>2. CASE c.resource # r
    BY <1>1, <2>1, <2>2 DEF Transfer, PutGrant, Upsert, Changed
  <2>3. CASE c.resource = r
    BY <2>1, <2>3 DEF Transfer, ExtendVerdict, HolderVerdict
  <2> QED
    BY <2>2, <2>3
<1>8. CASE c.op = "release"
  <2>1. Release(c.resource, c.holder, c.token, now) /\ c \in TokenCalls
    BY <1>8, CallArguments DEF Transaction, TokenCalls
  <2>2. CASE c.resource # r
    BY <1>1, <2>1, <2>2 DEF Release, Delete, Restrict, Changed
  <2>3. CASE c.resource = r
    BY <2>1, <2>3 DEF Release, HolderVerdict
  <2> QED
    BY <2>2, <2>3
<1>9. CASE c.op = "sweep"
  BY <1>1, <1>4, <1>9 DEF Transaction, UsesClock, Sweep, Delete, Restrict, Changed
<1>10. CASE c.op = "force_release"
  <2>1. CASE c.resource # r
    BY <1>1, <1>10, <2>1 DEF Transaction, ForceRelease, Delete, Restrict, Changed
  <2> QED
    BY <1>10, <2>1
<1>11. CASE c.op \in {"register_resource", "update_resource", "delete_resource"}
  BY <1>1, <1>11
     DEF Transaction, RegisterResource, UpdateResource, DeleteResource, Changed
<1> QED
  BY <1>5, <1>6, <1>7, <1>8, <1>9, <1>10, <1>11 DEF Transaction

\* Nothing but a call with its holder and token, or force, changes a lease
\* that has not lapsed: whatever else is in flight, however old its reading.
THEOREM LiveLeaseIsSafe == Spec => LiveLeaseChangesOnlyByItsToken
<1> DEFINE Safe ==
      \A r \in Resources :
        Live(r, clock) /\ ~(r \in DOMAIN leases' /\ leases'[r] = leases[r]) =>
          \E w \in Workers : \E c \in Calls :
            /\ Commits(w, c)
            /\ \/ c \in TokenCalls /\ c.resource = r /\ c.holder = leases[r].holder
                  /\ c.token = leases[r].fencing_token
               \/ c.op = "force_release" /\ c.resource = r
<1>1. ASSUME ServiceInv, Next PROVE Safe
  <2>1. SUFFICES ASSUME NEW r \in Resources, Live(r, clock), Changed(r)
                 PROVE  \E w \in Workers : \E c \in Calls :
                          /\ Commits(w, c)
                          /\ \/ /\ c \in TokenCalls
                                /\ c.resource = r
                                /\ c.holder = leases[r].holder
                                /\ c.token = leases[r].fencing_token
                             \/ c.op = "force_release" /\ c.resource = r
    BY DEF Changed
  <2>2. ASSUME leases' = leases PROVE FALSE
    BY <2>1, <2>2 DEF Live, Leased, Changed
  <2>3. ASSUME Restart PROVE FALSE
    <3>1. clock \in Int /\ leases[r].expires_at \in Int
      BY <1>1, <2>1, StoreAssumption
         DEF ServiceInv, ServiceTypeOK, TypeOK, LeaseRow, Int64, Live, Leased
    <3> QED
      BY <2>1, <2>3, <3>1 DEF Restart, Sweep, Live, Leased, Changed, Delete, Restrict
  <2>4. PICK w \in Workers : Commit(w)
    <3>1. ASSUME NEW v \in Workers,
                 \/ \E body \in Bodies : Receive(v, body)
                 \/ ReadClock(v) \/ Rollback(v) \/ Answer(v) \/ LoseAnswer(v)
          PROVE  leases' = leases
      BY <3>1 DEF Receive, ReadClock, Rollback, Answer, LoseAnswer, storeVars
    <3>2. Tick \/ Crash => leases' = leases
      BY DEF Tick, Crash, storeVars
    <3> QED
      BY <1>1, <2>2, <2>3, <3>1, <3>2 DEF Next
  <2> DEFINE c == Call(w)
             now == requests[w].now
  <2>5. InTransaction(w) /\ Transaction(c, now) /\ Proceed(w, Reported(c, now))
    BY <2>4 DEF Commit
  <2>6. c \in Calls /\ requests[w].todo # <<>> /\ (UsesClock(c) => now \in Instants)
    BY <1>1, <2>5, CurrentCall DEF ServiceInv
  <2>7. UsesClock(c) => now \in Instants /\ now <= clock
    BY <1>1, <2>6 DEF ServiceInv, ReadingsArePast
  <2>8. requests'[w] # requests[w]
    BY <1>1, <2>5, <2>6, ReportedType, ProceedType DEF ServiceInv
  <2>9. Commits(w, c)
    BY <2>6, <2>8 DEF Commits
  <2> HIDE DEF c, now
  <2>10. \/ c \in TokenCalls /\ c.resource = r /\ c.holder = leases[r].holder
            /\ c.token = leases[r].fencing_token
         \/ c.op = "force_release" /\ c.resource = r
    BY <1>1, <2>1, <2>5, <2>6, <2>7, TransactionRespectsLiveLease
  <2> QED
    BY <2>6, <2>9, <2>10
<1>2. ServiceInv /\ [Next]_vars => [Safe]_vars
  BY <1>1
<1> QED
  BY <1>2, ServiceInvariant, PTL DEF Spec, LiveLeaseChangesOnlyByItsToken

-----------------------------------------------------------------------------
(* How long a lease can block its resource *)

\* An int64 sum never exceeds the mathematical one: where it wraps around, the
\* lease ends earlier, not later.
LEMMA Plus64Bound ==
  ASSUME NEW now \in Instants, NEW ttl \in TTLs, now <= clock, clock \in Instants
  PROVE  Plus64(now, ttl) <= clock + ttl
<1>1. now \in Int /\ clock \in Int /\ ttl \in Int /\ MaxInt \in Nat
  BY StoreAssumption DEF Int64
<1> QED
  BY <1>1 DEF Plus64

\* A transaction whose instant is not ahead of the clock stores no expiry
\* further away than the time to live it stores beside it.
LEMMA TransactionBoundsExpiry ==
  ASSUME ServiceInv, NoLeaseOutlivesItsTTL, NEW c \in Calls, NEW now,
         UsesClock(c) => now \in Instants /\ now <= clock,
         Transaction(c, now)
  PROVE  \A r \in DOMAIN leases' : leases'[r].expires_at <= clock + leases'[r].ttl_seconds
<1>0. clock \in Instants /\ leases \in [DOMAIN leases -> LeaseRow]
  BY DEF ServiceInv, ServiceTypeOK, TypeOK
<1>1. CASE c.op = "acquire"
  <2>1. PutGrant(c.resource, c.holder, c.ttl, now) /\ c.ttl \in TTLs
    BY <1>1, CallArguments DEF Transaction, Acquire, AcquireCalls
  <2>2. Plus64(now, c.ttl) <= clock + c.ttl
    BY <1>0, <1>1, <2>1, Plus64Bound DEF UsesClock
  <2> QED
    BY <2>1, <2>2 DEF PutGrant, Upsert, NoLeaseOutlivesItsTTL
<1>2. CASE c.op = "renew"
  <2>1. Renew(c.resource, c.holder, c.token, c.ttl, now) /\ c.ttl \in TTLs
    BY <1>2, CallArguments DEF Transaction, RenewCalls
  <2>2. Plus64(now, c.ttl) <= clock + c.ttl
    BY <1>0, <1>2, <2>1, Plus64Bound DEF UsesClock
  <2>3. c.resource \in DOMAIN leases
    BY <2>1 DEF Renew, ExtendVerdict, HolderVerdict, Leased
  <2>4. leases[c.resource] \in LeaseRow
    BY <1>0, <2>3
  <2> DEFINE row == [leases[c.resource] EXCEPT !.expires_at = Plus64(now, c.ttl),
                                               !.ttl_seconds = c.ttl]
  <2>5. row.expires_at = Plus64(now, c.ttl) /\ row.ttl_seconds = c.ttl
    BY <2>4 DEF LeaseRow
  <2>6. leases' = Upsert(leases, c.resource, row)
    BY <2>1 DEF Renew
  <2> HIDE DEF row
  <2> QED
    BY <2>2, <2>5, <2>6 DEF Upsert, NoLeaseOutlivesItsTTL
<1>3. CASE c.op = "transfer"
  <2>1. PutGrant(c.resource, c.newHolder, c.ttl, now) /\ c.ttl \in TTLs
    BY <1>3, CallArguments DEF Transaction, Transfer, TransferCalls
  <2>2. Plus64(now, c.ttl) <= clock + c.ttl
    BY <1>0, <1>3, <2>1, Plus64Bound DEF UsesClock
  <2> QED
    BY <2>1, <2>2 DEF PutGrant, Upsert, NoLeaseOutlivesItsTTL
<1>4. CASE c.op \in {"release", "sweep", "force_release"}
  BY <1>4 DEF Transaction, Release, Sweep, ForceRelease, Delete, Restrict,
              NoLeaseOutlivesItsTTL
<1>5. CASE c.op \in {"register_resource", "update_resource", "delete_resource"}
  BY <1>5 DEF Transaction, RegisterResource, UpdateResource, DeleteResource,
              NoLeaseOutlivesItsTTL
<1> QED
  BY <1>1, <1>2, <1>3, <1>4, <1>5 DEF Transaction

\* Whatever was lost, a resource is blocked for one time to live at the most.
THEOREM NoLeaseOutlives == Spec => []NoLeaseOutlivesItsTTL
<1>1. Init => NoLeaseOutlivesItsTTL
  BY DEF Init, StoreInit, EmptyTable, NoLeaseOutlivesItsTTL
<1>2. ASSUME ServiceInv, NoLeaseOutlivesItsTTL, [Next]_vars
      PROVE  NoLeaseOutlivesItsTTL'
  <2>1. ASSUME NEW w \in Workers, Commit(w)
        PROVE  NoLeaseOutlivesItsTTL'
    <3>1. InTransaction(w) /\ Transaction(Call(w), requests[w].now) /\ clock' = clock
      BY <2>1 DEF Commit
    <3>2. Call(w) \in Calls /\ (UsesClock(Call(w)) => requests[w].now \in Instants)
      BY <1>2, <3>1, CurrentCall DEF ServiceInv
    <3>3. UsesClock(Call(w)) => requests[w].now \in Instants /\ requests[w].now <= clock
      BY <1>2, <3>2 DEF ServiceInv, ReadingsArePast
    <3>4. \A r \in DOMAIN leases' :
            leases'[r].expires_at <= clock + leases'[r].ttl_seconds
      BY <1>2, <3>1, <3>2, <3>3, TransactionBoundsExpiry
    <3> QED
      BY <3>1, <3>4 DEF NoLeaseOutlivesItsTTL
  <2>2. CASE Restart
    BY <1>2, <2>2 DEF Restart, Sweep, Delete, Restrict, NoLeaseOutlivesItsTTL
  <2>3. CASE Tick
    <3>1. leases' = leases /\ clock' = clock + 1
      BY <2>3 DEF Tick, storeVars
    <3>2. clock \in Int
      BY <1>2, StoreAssumption DEF ServiceInv, ServiceTypeOK, Int64
    <3>3. \A r \in DOMAIN leases :
            leases[r].expires_at \in Int /\ leases[r].ttl_seconds \in Int
      BY <1>2, StoreAssumption
         DEF ServiceInv, ServiceTypeOK, TypeOK, LeaseRow, Int64
    <3> QED
      BY <1>2, <3>1, <3>2, <3>3 DEF NoLeaseOutlivesItsTTL
  <2>4. ASSUME UNCHANGED <<leases, clock>> PROVE NoLeaseOutlivesItsTTL'
    BY <1>2, <2>4 DEF NoLeaseOutlivesItsTTL
  <2>5. ASSUME NEW w \in Workers,
               \/ \E body \in Bodies : Receive(w, body)
               \/ ReadClock(w) \/ Rollback(w) \/ Answer(w) \/ LoseAnswer(w)
        PROVE  UNCHANGED <<leases, clock>>
    BY <2>5 DEF Receive, ReadClock, Rollback, Answer, LoseAnswer, storeVars
  <2>6. Crash \/ UNCHANGED vars => UNCHANGED <<leases, clock>>
    BY DEF Crash, vars, storeVars
  <2> QED
    BY <1>2, <2>1, <2>2, <2>3, <2>4, <2>5, <2>6 DEF Next
<1> QED
  BY <1>1, <1>2, ServiceInvariant, PTL DEF Spec
=============================================================================
