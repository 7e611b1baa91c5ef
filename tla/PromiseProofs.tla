---------------------------- MODULE PromiseProofs ----------------------------
(***************************************************************************)
(* What clients of the service can rely on, for any number of connections, *)
(* resources and holders: a lease that an answer reported until t is in    *)
(* the database until t, and a renewal never brings its end forward.       *)
(*                                                                         *)
(* Neither holds of the service alone; both need clients that keep to      *)
(* PromiseConditions, which the run service_promises satisfies.  The run   *)
(* renew_twice shows what happens to a client that does not wait for its   *)
(* answers, ttl_overflow what happens where an expiry leaves int64.        *)
(***************************************************************************)
EXTENDS LeaseServiceProofs

\* What the clients have to keep to: a client waits for the answer before it
\* sends its next request, all requests ask for one time to live, nobody
\* forces a release, and expiries stay within int64.
PromiseConditions ==
  /\ OneRequestPerHolder
  /\ \A ttl1, ttl2 \in TTLs : ttl1 = ttl2
  /\ "force_release" \notin Ops
  /\ NoOverflow

-----------------------------------------------------------------------------
(* The invariant *)

\* Whatever a client was or will be told is a grant the store has committed.
OutstandingIssued ==
  \A p \in Outstanding : [holder |-> p.holder, token |-> p.token] \in issued[p.resource]

\* A client waits at one connection at a time.
ClientsWaitOnce ==
  \A v, w \in Workers : v # w => requests[v].clients \cap requests[w].clients = {}

\* A handler makes several acquisitions, or one call that it has nothing
\* granted for yet; it makes them for the clients that wait for it.
TodoOK(w) ==
  /\ \/ requests[w].todo \in Seq(AcquireCalls)
     \/ \E c \in Calls : requests[w].todo = <<c>> /\ requests[w].granted = {}
  /\ \A i \in DOMAIN requests[w].todo :
       LET c == requests[w].todo[i]
       IN  /\ c.op # "force_release"
           /\ c \in AcquireCalls \cup TokenCalls => c.holder \in requests[w].clients
           /\ c \in TokenCalls => Told(c.resource, c.holder, c.token)
           /\ \A p \in promises : GivesUp(c, p) => p.until = 0

\* The leases an answer will report are news for their holders, or concern a
\* client that waits for this very answer; and no two answers report the same.
GrantsOK(w) ==
  \A g \in requests[w].granted :
    /\ g.holder \in requests[w].clients \/ ~Told(g.resource, g.holder, g.token)
    /\ \A v \in Workers : \A k \in requests[v].granted : SameLease(g, k) => v = w

\* A renewal that has read the clock will set an expiry no earlier than the
\* stored one, which was set from an earlier reading.
RenewalOK(w) ==
  requests[w].todo # <<>> /\ Call(w).op = "renew" /\ requests[w].now # NotRead =>
    LET c == Call(w)
    IN  Leased(c.resource) /\ leases[c.resource].fencing_token = c.token =>
          leases[c.resource].expires_at <= requests[w].now + c.ttl

TodosOK == \A w \in Workers : TodoOK(w)
AllGrantsOK == \A w \in Workers : GrantsOK(w)
RenewalsOK == \A w \in Workers : RenewalOK(w)

\* The conjuncts are inductive only together.
PromiseParts ==
  /\ PromisesKept
  /\ OutstandingIssued
  /\ ClientsWaitOnce
  /\ TodosOK
  /\ AllGrantsOK
  /\ RenewalsOK

PromiseInv == ServiceInv /\ NoLeaseOutlivesItsTTL /\ PromiseParts

-----------------------------------------------------------------------------
(* Facts about single states *)

\* A lease outstanding is well typed.
LEMMA OutstandingType ==
  ASSUME ServiceTypeOK
  PROVE  Outstanding \subseteq Promises
<1>1. \A w \in Workers : requests[w].granted \subseteq Promises
  BY DEF ServiceTypeOK, HandlerStates
<1> QED
  BY <1>1 DEF Outstanding, ServiceTypeOK

\* The clock and the times of rows and promises are numbers.
LEMMA TimesAreNumbers ==
  ASSUME ServiceTypeOK
  PROVE  /\ clock \in Nat
         /\ \A p \in Outstanding : p.until \in Int
         /\ \A r \in DOMAIN leases :
              leases[r].expires_at \in Int /\ leases[r].ttl_seconds \in Int
         /\ \A i \in Instants, ttl \in TTLs : i \in Int /\ ttl \in Int
<1>1. \A i \in Instants, ttl \in TTLs : i \in Int /\ ttl \in Int
  BY StoreAssumption DEF Int64
<1>2. \A p \in Outstanding : p.until \in Int
  BY OutstandingType, StoreAssumption DEF Promises, Int64
<1>3. \A r \in DOMAIN leases :
        leases[r].expires_at \in Int /\ leases[r].ttl_seconds \in Int
  BY StoreAssumption DEF ServiceTypeOK, TypeOK, LeaseRow, Int64
<1> QED
  BY <1>1, <1>2, <1>3, ServiceAssumption DEF ServiceTypeOK

\* What the invariant says of the call that a handler makes now.
LEMMA CurrentCallIsOwn ==
  ASSUME ServiceTypeOK, NEW w \in Workers, TodoOK(w), requests[w].todo # <<>>,
         NEW c, c = Call(w)
  PROVE  /\ c \in Calls
         /\ c.op # "force_release"
         /\ c \in AcquireCalls \cup TokenCalls => c.holder \in requests[w].clients
         /\ c \in TokenCalls =>
              /\ Told(c.resource, c.holder, c.token)
              /\ requests[w].granted = {}
              /\ Tail(requests[w].todo) = <<>>
         /\ \A p \in promises : GivesUp(c, p) => p.until = 0
<1>1. requests[w].todo \in Seq(Calls)
  BY DEF ServiceTypeOK, HandlerStates
<1>2. 1 \in DOMAIN requests[w].todo /\ c = requests[w].todo[1] /\ c \in Calls
  BY <1>1 DEF Call
<1>3. c \in TokenCalls => requests[w].granted = {} /\ Tail(requests[w].todo) = <<>>
  <2>1. CASE requests[w].todo \in Seq(AcquireCalls)
    <3>1. c \in AcquireCalls
      BY <1>2, <2>1
    <3> QED
      BY <3>1 DEF AcquireCalls, TokenCalls, RenewCalls, TransferCalls, ReleaseCalls
  <2>2. ASSUME NEW d \in Calls, requests[w].todo = <<d>>, requests[w].granted = {}
        PROVE  requests[w].granted = {} /\ Tail(requests[w].todo) = <<>>
    BY <2>2
  <2> QED
    BY <2>1, <2>2 DEF TodoOK
<1> QED
  BY <1>2, <1>3 DEF TodoOK

\* A call with a token is about a lease that no answer in the making reports:
\* its holder was told the token, and waits for this call alone.
LEMMA TokenCallIsAlone ==
  ASSUME ServiceTypeOK, ClientsWaitOnce, TodosOK, AllGrantsOK,
         NEW w \in Workers, requests[w].todo # <<>>,
         NEW c \in TokenCalls, c = Call(w),
         NEW v \in Workers, NEW g \in requests[v].granted
  PROVE  ~(c.resource = g.resource /\ c.holder = g.holder /\ c.token = g.token)
<1> SUFFICES ASSUME c.resource = g.resource, c.holder = g.holder, c.token = g.token
             PROVE  FALSE
  OBVIOUS
<1>1. /\ c.holder \in requests[w].clients
      /\ Told(c.resource, c.holder, c.token)
      /\ requests[w].granted = {}
  BY CurrentCallIsOwn DEF TodosOK
<1>2. v # w
  BY <1>1
<1>3. g.holder \in requests[v].clients
  BY <1>1 DEF AllGrantsOK, GrantsOK
<1> QED
  BY <1>1, <1>2, <1>3 DEF ClientsWaitOnce

\* What going on to the next call leaves of a handler.
LEMMA ProceedParts ==
  ASSUME ServiceTypeOK, NEW w \in Workers, InTransaction(w),
         NEW reported \in SUBSET Promises, Proceed(w, reported)
  PROVE  /\ requests'[w].todo = Tail(requests[w].todo)
         /\ requests'[w].granted = requests[w].granted \cup reported
         /\ requests'[w].now = NotRead
         /\ \/ requests'[w].clients = requests[w].clients
            \/ /\ requests'[w].clients = {}
               /\ requests'[w].todo = <<>>
               /\ requests'[w].granted = {}
         /\ \A v \in Workers : v # w => requests'[v] = requests[v]
<1> DEFINE next == [requests[w] EXCEPT !.todo = Tail(@), !.now = NotRead,
                                       !.granted = @ \cup reported]
           new == IF next.todo = <<>> /\ next.granted = {} THEN Idle ELSE next
<1>1. requests[w] \in HandlerStates
  BY DEF ServiceTypeOK
<1>2. /\ next.todo = Tail(requests[w].todo) /\ next.now = NotRead
      /\ next.granted = requests[w].granted \cup reported
      /\ next.clients = requests[w].clients
  BY <1>1 DEF HandlerStates
<1>3. /\ new.todo = Tail(requests[w].todo) /\ new.now = NotRead
      /\ new.granted = requests[w].granted \cup reported
      /\ \/ new.clients = requests[w].clients
         \/ new.clients = {} /\ new.todo = <<>> /\ new.granted = {}
  BY <1>2 DEF Idle
<1>4. requests' = [requests EXCEPT ![w] = new]
  BY DEF Proceed
<1> HIDE DEF new
<1>5. requests'[w] = new /\ \A v \in Workers : v # w => requests'[v] = requests[v]
  BY <1>4 DEF ServiceTypeOK
<1> QED
  BY <1>3, <1>5

\* What a committed call reports is what it stored.
LEMMA ReportedIsStored ==
  ASSUME PromiseConditions, FencingInv, NEW c \in Calls, NEW now,
         UsesClock(c) => now \in Instants, Transaction(c, now),
         NEW g \in Reported(c, now)
  PROVE  /\ c.op \in {"acquire", "renew", "transfer"}
         /\ g.resource = c.resource /\ g.resource \in DOMAIN leases'
         /\ leases'[g.resource].holder = g.holder
         /\ leases'[g.resource].fencing_token = g.token
         /\ leases'[g.resource].expires_at = g.until
         /\ [holder |-> g.holder, token |-> g.token] \in issued'[g.resource]
         /\ c.op = "acquire" => g.holder = c.holder
         /\ c.op = "renew" => g.holder = c.holder /\ g.token = c.token
         /\ c.op \in {"acquire", "transfer"} => g.token = NextToken(g.resource)
<1>0. issued \in [Resources -> SUBSET Grants] /\ leases \in [DOMAIN leases -> LeaseRow]
  BY DEF FencingInv, TypeOK
<1>1. CASE c.op = "acquire"
  <2>1. c \in AcquireCalls /\ c.resource \in Resources
    BY <1>1, CallArguments DEF AcquireCalls
  <2>2. PutGrant(c.resource, c.holder, c.ttl, now)
    BY <1>1 DEF Transaction, Acquire
  <2>3. /\ g.resource = c.resource /\ g.holder = c.holder
        /\ g.token = NextToken(c.resource) /\ g.until = Plus64(now, c.ttl)
    BY <1>1 DEF Reported
  <2> QED
    BY <1>0, <1>1, <2>1, <2>2, <2>3 DEF PutGrant, Upsert
<1>2. CASE c.op = "renew"
  <2>1. c \in RenewCalls /\ c.resource \in Resources
    BY <1>2, CallArguments DEF RenewCalls
  <2>2. Renew(c.resource, c.holder, c.token, c.ttl, now)
    BY <1>2 DEF Transaction
  <2>3. /\ g.resource = c.resource /\ g.holder = c.holder
        /\ g.token = c.token /\ g.until = Plus64(now, c.ttl)
    BY <1>2 DEF Reported
  <2>4. /\ c.resource \in DOMAIN leases
        /\ leases[c.resource].holder = c.holder
        /\ leases[c.resource].fencing_token = c.token
    BY <2>2 DEF Renew, ExtendVerdict, HolderVerdict, Leased
  <2>5. [holder |-> c.holder, token |-> c.token] \in issued[c.resource]
    BY <2>4 DEF FencingInv, RowIsNewestGrant
  <2> DEFINE row == [leases[c.resource] EXCEPT !.expires_at = Plus64(now, c.ttl),
                                               !.ttl_seconds = c.ttl]
  <2>6. /\ row.expires_at = Plus64(now, c.ttl)
        /\ row.holder = c.holder /\ row.fencing_token = c.token
    BY <1>0, <2>4 DEF LeaseRow
  <2>7. leases' = Upsert(leases, c.resource, row) /\ issued' = issued
    BY <2>2 DEF Renew
  <2> HIDE DEF row
  <2> QED
    BY <1>2, <2>3, <2>5, <2>6, <2>7 DEF Upsert
<1>3. CASE c.op = "transfer"
  <2>1. c \in TransferCalls /\ c.resource \in Resources
    BY <1>3, CallArguments DEF TransferCalls
  <2>2. PutGrant(c.resource, c.newHolder, c.ttl, now)
    BY <1>3 DEF Transaction, Transfer
  <2>3. /\ g.resource = c.resource /\ g.holder = c.newHolder
        /\ g.token = NextToken(c.resource) /\ g.until = Plus64(now, c.ttl)
    BY <1>3 DEF Reported
  <2> QED
    BY <1>0, <1>3, <2>1, <2>2, <2>3 DEF PutGrant, Upsert
<1>4. CASE c.op \notin {"acquire", "renew", "transfer"}
  BY <1>4 DEF Reported
<1> QED
  BY <1>1, <1>2, <1>3, <1>4

-----------------------------------------------------------------------------
(* Steps that leave the tables alone *)

\* Where the rows stay and time only advances, a lease outstanding is kept if
\* it, or one for longer, was outstanding before.
LEMMA KeptWhileRowsStay ==
  ASSUME ServiceTypeOK, ServiceTypeOK', PromisesKept, OutstandingIssued,
         UNCHANGED storeVars, clock <= clock',
         \A p \in Outstanding' :
           \/ p.until = 0 /\ [holder |-> p.holder, token |-> p.token] \in issued[p.resource]
           \/ p \in Outstanding
  PROVE  PromisesKept' /\ OutstandingIssued'
<1>1. leases' = leases /\ issued' = issued
  BY DEF storeVars
<1>2. clock \in Nat /\ clock' \in Nat
  BY ServiceAssumption DEF ServiceTypeOK
<1>3. OutstandingIssued'
  BY <1>1 DEF OutstandingIssued
<1>4. ASSUME NEW p \in Outstanding', p.until > clock'
      PROVE  /\ p.resource \in DOMAIN leases
             /\ p.holder = leases[p.resource].holder
             /\ p.token = leases[p.resource].fencing_token
             /\ leases[p.resource].expires_at >= p.until
  <2>1. p \in Outstanding
    <3>1. CASE p.until = 0
      BY <1>2, <1>4, <3>1
    <3> QED
      BY <1>4, <3>1
  <2>2. p.until > clock
    BY <1>2, <1>4, <2>1, TimesAreNumbers
  <2> QED
    BY <2>1, <2>2 DEF PromisesKept, Leased, SameLease
<1>5. PromisesKept'
  BY <1>1, <1>4 DEF PromisesKept, Leased, SameLease
<1> QED
  BY <1>3, <1>5

\* A handler with nothing to do is all right.
LEMMA NothingToDo ==
  ASSUME NEW w \in Workers
  PROVE  /\ requests[w].todo = <<>> => TodoOK(w)
         /\ requests'[w].todo = <<>> => TodoOK(w)'
<1>1. <<>> \in Seq(AcquireCalls) /\ DOMAIN <<>> = {}
  OBVIOUS
<1>2. requests[w].todo = <<>> => TodoOK(w)
  BY <1>1 DEF TodoOK
<1>3. requests'[w].todo = <<>> => TodoOK(w)'
  BY <1>1 DEF TodoOK
<1> QED
  BY <1>2, <1>3

\* A request that arrives puts its clients to waiting, and what it gives up
\* they do not rely on any more.
LEMMA ReceiveKeeps ==
  ASSUME PromiseConditions, PromiseInv, ServiceInv',
         NEW w \in Workers, NEW body \in Bodies, Receive(w, body)
  PROVE  PromiseParts'
<1> DEFINE new == [Idle EXCEPT !.todo = body, !.clients = Senders(body)]
<1> USE DEF PromiseInv, PromiseParts
<1>1. /\ requests' = [requests EXCEPT ![w] = new]
      /\ promises' = AfterSending(body)
      /\ UNCHANGED storeVars /\ clock' = clock
      /\ \A v \in Workers : requests[v].clients \cap Senders(body) = {}
      /\ \A i \in DOMAIN body :
           body[i] \in TokenCalls => Told(body[i].resource, body[i].holder, body[i].token)
  BY DEF Receive, PromiseConditions
<1>2. /\ new.todo = body /\ new.now = NotRead /\ new.granted = {}
      /\ new.clients = Senders(body)
  BY DEF Idle
<1> HIDE DEF new
<1>3. requests'[w] = new /\ \A v \in Workers : v # w => requests'[v] = requests[v]
  BY <1>1 DEF ServiceInv, ServiceTypeOK
<1>4. body \in Seq(AcquireCalls) \/ \E c \in Calls : body = <<c>>
  <2>1. CASE body \in Batches
    <3>1. PICK n \in 2 .. MaxBatch : body \in [1 .. n -> AcquireCalls]
      BY <2>1 DEF Batches
    <3>2. n \in Nat
      BY <3>1, ServiceAssumption
    <3> QED
      BY <3>1, <3>2, BodyIsCalls
  <2>2. CASE \E c \in Calls : body = <<c>>
    BY <2>2
  <2> QED
    BY <2>1, <2>2 DEF Bodies
<1>5. \A i \in DOMAIN body : body[i] \in Calls /\ body[i].op # "force_release"
  <2>1. \A i \in DOMAIN body : body[i] \in Calls
    BY BodyIsCalls
  <2>2. CASE body \in Batches
    <3>1. PICK n \in 2 .. MaxBatch : body \in [1 .. n -> AcquireCalls]
      BY <2>2 DEF Batches
    <3>2. \A i \in DOMAIN body : body[i] \in AcquireCalls
      BY <3>1
    <3> QED
      BY <2>1, <3>2 DEF AcquireCalls
  <2>3. CASE \E c \in Calls : c.op \in Ops /\ body = <<c>>
    BY <2>3 DEF PromiseConditions
  <2> QED
    BY <2>1, <2>2, <2>3 DEF Bodies
<1>6. \A i \in DOMAIN body :
        body[i] \in AcquireCalls \cup TokenCalls => body[i].holder \in Senders(body)
  <2>1. \A c \in AcquireCalls \cup TokenCalls : "holder" \in DOMAIN c
    BY DEF AcquireCalls, TokenCalls, RenewCalls, TransferCalls, ReleaseCalls
  <2> QED
    BY <2>1 DEF Senders
<1>7. promises \subseteq Promises /\ \A p \in promises' : \E q \in promises :
        /\ SameLease(p, q)
        /\ p = q \/ p.until = 0
        /\ \A i \in DOMAIN body : GivesUp(body[i], q) => p.until = 0
  <2>1. promises \subseteq Promises
    BY DEF ServiceInv, ServiceTypeOK
  <2>2. \A q \in promises :
          LET p == [q EXCEPT !.until = 0] IN SameLease(p, q) /\ p.until = 0
    BY <2>1 DEF Promises, SameLease
  <2> QED
    BY <1>1, <2>1, <2>2 DEF AfterSending, SameLease
<1>8. \A q \in promises : \E p \in promises' : SameLease(p, q)
  <2>1. \A q \in promises : LET p == [q EXCEPT !.until = 0] IN SameLease(p, q)
    BY <1>7 DEF Promises, SameLease
  <2> QED
    BY <1>1, <2>1 DEF AfterSending, SameLease
<1>9. \A r, h, t : Told(r, h, t)' <=> Told(r, h, t)
  BY <1>7, <1>8 DEF Told, SameLease
<1>10. PromisesKept' /\ OutstandingIssued'
  <2>1. clock <= clock'
    BY <1>1, TimesAreNumbers DEF ServiceInv
  <2>2. \A p \in Outstanding' :
          \/ p.until = 0 /\ [holder |-> p.holder, token |-> p.token] \in issued[p.resource]
          \/ p \in Outstanding
    <3>1. ASSUME NEW p \in promises'
          PROVE  \/ p.until = 0 /\ [holder |-> p.holder, token |-> p.token] \in issued[p.resource]
                 \/ p \in Outstanding
      BY <1>7 DEF OutstandingIssued, Outstanding, SameLease
    <3>2. \A v \in Workers : requests'[v].granted \subseteq requests[v].granted
      BY <1>2, <1>3
    <3> QED
      BY <3>1, <3>2 DEF Outstanding
  <2> QED
    BY <1>1, <2>1, <2>2, KeptWhileRowsStay DEF ServiceInv
<1>11. ClientsWaitOnce'
  BY <1>1, <1>2, <1>3 DEF ClientsWaitOnce
<1>12. TodosOK'
  <2> SUFFICES ASSUME NEW v \in Workers PROVE TodoOK(v)'
    BY DEF TodosOK
  <2>1. CASE v = w
    BY <1>1, <1>2, <1>3, <1>4, <1>5, <1>6, <1>7, <1>9, <2>1 DEF TodoOK, GivesUp, SameLease
  <2>2. CASE v # w
    BY <1>3, <1>7, <1>9, <2>2 DEF TodosOK, TodoOK, GivesUp, SameLease
  <2> QED
    BY <2>1, <2>2
<1>13. AllGrantsOK'
  BY <1>2, <1>3, <1>9 DEF AllGrantsOK, GrantsOK
<1>14. RenewalsOK'
  BY <1>1, <1>2, <1>3 DEF RenewalsOK, RenewalOK, storeVars, Leased, Call
<1> QED
  BY <1>10, <1>11, <1>12, <1>13, <1>14

\* A renewal reads the clock: its expiry will be one time to live from now,
\* and no lease outlives that.
LEMMA ReadClockKeeps ==
  ASSUME PromiseConditions, PromiseInv, ServiceInv', NEW w \in Workers, ReadClock(w)
  PROVE  PromiseParts'
<1> USE DEF PromiseInv, PromiseParts
<1>1. /\ requests' = [requests EXCEPT ![w].now = clock]
      /\ UNCHANGED storeVars /\ clock' = clock /\ promises' = promises
      /\ requests[w].todo # <<>>
  BY DEF ReadClock
<1>2. requests \in [Workers -> HandlerStates]
  BY DEF ServiceInv, ServiceTypeOK
<1>3. \A v \in Workers :
        /\ requests'[v].todo = requests[v].todo
        /\ requests'[v].granted = requests[v].granted
        /\ requests'[v].clients = requests[v].clients
        /\ requests'[v].now = IF v = w THEN clock ELSE requests[v].now
  BY <1>1, <1>2 DEF HandlerStates
<1>4. PromisesKept' /\ OutstandingIssued'
  <2>1. clock <= clock'
    BY <1>1, TimesAreNumbers DEF ServiceInv
  <2>2. Outstanding' = Outstanding
    BY <1>1, <1>3 DEF Outstanding
  <2> QED
    BY <1>1, <2>1, <2>2, KeptWhileRowsStay DEF ServiceInv
<1>5. ClientsWaitOnce' /\ TodosOK' /\ AllGrantsOK'
  BY <1>1, <1>3 DEF ClientsWaitOnce, TodosOK, TodoOK, AllGrantsOK, GrantsOK, Told
<1>6. RenewalsOK'
  <2> SUFFICES ASSUME NEW v \in Workers PROVE RenewalOK(v)'
    BY DEF RenewalsOK
  <2>1. CASE v # w
    BY <1>1, <1>3, <2>1 DEF RenewalsOK, RenewalOK, storeVars, Leased, Call
  <2>2. CASE v = w
    <3>1. SUFFICES ASSUME NEW c, c = Call(w), c.op = "renew", c.resource \in DOMAIN leases
                   PROVE  leases[c.resource].expires_at <= clock + c.ttl
      BY <1>1, <1>3, <2>2 DEF RenewalOK, storeVars, Leased, Call
    <3>2. c.ttl \in TTLs
      <4>1. c \in Calls
        BY <1>1, <3>1, CurrentCallIsOwn DEF TodosOK, ServiceInv
      <4> QED
        BY <3>1, <4>1, CallArguments DEF RenewCalls
    <3>3. leases[c.resource].ttl_seconds \in TTLs
      BY <3>1 DEF ServiceInv, ServiceTypeOK, TypeOK, LeaseRow
    <3> QED
      BY <3>1, <3>2, <3>3 DEF NoLeaseOutlivesItsTTL, PromiseConditions
  <2> QED
    BY <2>1, <2>2
<1> QED
  BY <1>4, <1>5, <1>6

\* Going on to the next call: the calls that are left were all right before.
LEMMA ProceedKeepsTodos ==
  ASSUME ServiceTypeOK, ClientsWaitOnce, TodosOK, NEW w \in Workers, InTransaction(w),
         NEW reported \in SUBSET Promises, Proceed(w, reported), promises' = promises
  PROVE  ClientsWaitOnce' /\ TodosOK'
<1>1. /\ requests'[w].todo = Tail(requests[w].todo)
      /\ \/ requests'[w].clients = requests[w].clients
         \/ requests'[w].clients = {} /\ requests'[w].todo = <<>>
      /\ \A v \in Workers : v # w => requests'[v] = requests[v]
  BY ProceedParts
<1>2. ClientsWaitOnce'
  BY <1>1 DEF ClientsWaitOnce
<1>3. requests[w].todo \in Seq(Calls) /\ requests[w].todo # <<>>
  BY DEF ServiceTypeOK, HandlerStates, InTransaction
<1>4. Tail(requests[w].todo) \in Seq(AcquireCalls)
  <2>1. CASE requests[w].todo \in Seq(AcquireCalls)
    BY <1>3, <2>1
  <2>2. ASSUME NEW c \in Calls, requests[w].todo = <<c>>
        PROVE  Tail(requests[w].todo) \in Seq(AcquireCalls)
    BY <2>2
  <2> QED
    BY <2>1, <2>2 DEF TodosOK, TodoOK
<1>5. \A i \in DOMAIN Tail(requests[w].todo) :
        i + 1 \in DOMAIN requests[w].todo
          /\ Tail(requests[w].todo)[i] = requests[w].todo[i + 1]
  BY <1>3
<1>6. TodosOK'
  <2> SUFFICES ASSUME NEW v \in Workers PROVE TodoOK(v)'
    BY DEF TodosOK
  <2>1. CASE v # w
    BY <1>1, <2>1 DEF TodosOK, TodoOK, Told
  <2>2. CASE v = w
    <3>1. requests'[w].todo \in Seq(AcquireCalls)
      BY <1>1, <1>4
    <3>2. ASSUME NEW i \in DOMAIN requests'[w].todo, NEW c, c = requests'[w].todo[i]
          PROVE  /\ c.op # "force_release"
                 /\ c \in AcquireCalls \cup TokenCalls => c.holder \in requests'[w].clients
                 /\ c \in TokenCalls => Told(c.resource, c.holder, c.token)
                 /\ \A p \in promises : GivesUp(c, p) => p.until = 0
      <4>1. i + 1 \in DOMAIN requests[w].todo /\ c = requests[w].todo[i + 1]
        BY <1>1, <1>5, <3>2
      <4>2. requests'[w].clients = requests[w].clients
        BY <1>1, <3>2
      <4> QED
        BY <4>1, <4>2 DEF TodosOK, TodoOK
    <3> QED
      BY <2>2, <3>1, <3>2 DEF TodoOK, Told
  <2> QED
    BY <2>1, <2>2
<1> QED
  BY <1>2, <1>6

\* A call that changes nothing and reports nothing.
LEMMA RollbackKeeps ==
  ASSUME PromiseInv, ServiceInv', NEW w \in Workers, Rollback(w)
  PROVE  PromiseParts'
<1> USE DEF PromiseInv, PromiseParts
<1>1. /\ InTransaction(w) /\ Proceed(w, {})
      /\ UNCHANGED storeVars /\ clock' = clock /\ promises' = promises
  BY DEF Rollback
<1>2. /\ requests'[w].granted = requests[w].granted
      /\ requests'[w].now = NotRead
      /\ \/ requests'[w].clients = requests[w].clients
         \/ requests'[w].granted = {}
      /\ \A v \in Workers : v # w => requests'[v] = requests[v]
  <2>1. PICK none \in SUBSET Promises : none = {} /\ Proceed(w, none)
    BY <1>1
  <2>2. requests[w].granted \cup none = requests[w].granted
    BY <2>1
  <2> QED
    BY <1>1, <2>1, <2>2, ProceedParts DEF ServiceInv
<1>3. PromisesKept' /\ OutstandingIssued'
  <2>1. clock <= clock'
    BY <1>1, TimesAreNumbers DEF ServiceInv
  <2>2. Outstanding' = Outstanding
    BY <1>1, <1>2 DEF Outstanding
  <2> QED
    BY <1>1, <2>1, <2>2, KeptWhileRowsStay DEF ServiceInv
<1>4. ClientsWaitOnce' /\ TodosOK'
  BY <1>1, ProceedKeepsTodos DEF ServiceInv
<1>5. AllGrantsOK'
  BY <1>1, <1>2 DEF AllGrantsOK, GrantsOK, Told
<1>6. RenewalsOK'
  BY <1>1, <1>2 DEF RenewalsOK, RenewalOK, storeVars, Leased, Call
<1> QED
  BY <1>3, <1>4, <1>5, <1>6

\* An answer that arrives tells its clients what it reports, and nobody else
\* is in the middle of something about these leases.
LEMMA AnswerKeeps ==
  ASSUME PromiseInv, ServiceInv', NEW w \in Workers, Answer(w)
  PROVE  PromiseParts'
<1> USE DEF PromiseInv, PromiseParts
<1>1. /\ requests[w].todo = <<>>
      /\ promises' = AfterAnswer(requests[w].granted)
      /\ requests' = [requests EXCEPT ![w] = Idle]
      /\ UNCHANGED storeVars /\ clock' = clock
  BY DEF Answer
<1>2. /\ requests'[w] = Idle
      /\ \A v \in Workers : v # w => requests'[v] = requests[v]
      /\ Idle.todo = <<>> /\ Idle.granted = {} /\ Idle.clients = {} /\ Idle.now = NotRead
  BY <1>1 DEF ServiceInv, ServiceTypeOK, Idle
<1>3. promises' \subseteq promises \cup requests[w].granted
  BY <1>1 DEF AfterAnswer
<1>4. PromisesKept' /\ OutstandingIssued'
  <2>1. clock <= clock'
    BY <1>1, TimesAreNumbers DEF ServiceInv
  <2>2. Outstanding' \subseteq Outstanding
    BY <1>2, <1>3 DEF Outstanding
  <2> QED
    BY <1>1, <2>1, <2>2, KeptWhileRowsStay DEF ServiceInv
<1>5. ClientsWaitOnce'
  BY <1>2 DEF ClientsWaitOnce
<1>6. \A r, h, t : Told(r, h, t) => Told(r, h, t)'
  BY <1>1 DEF Told, AfterAnswer, SameLease
<1>7. TodosOK'
  <2> SUFFICES ASSUME NEW v \in Workers PROVE TodoOK(v)'
    BY DEF TodosOK
  <2>1. CASE v = w
    BY <1>2, <2>1, NothingToDo
  <2>2. CASE v # w
    <3>1. requests'[v] = requests[v] /\ TodoOK(v)
      BY <1>2, <2>2 DEF TodosOK
    <3>2. ASSUME NEW i \in DOMAIN requests[v].todo, NEW c, c = requests[v].todo[i],
                 NEW p \in promises', GivesUp(c, p)
          PROVE  p.until = 0
      <4>1. CASE p \in promises
        BY <3>1, <3>2, <4>1 DEF TodoOK
      <4>2. CASE p \in requests[w].granted
        <5>1. c \in Calls /\ c.op \in {"release", "transfer"}
          BY <3>2 DEF GivesUp, ServiceInv, ServiceTypeOK, HandlerStates
        <5>2. c \in TokenCalls
          BY <5>1, CallArguments DEF TokenCalls
        <5>3. c.holder \in requests[v].clients /\ Told(c.resource, c.holder, c.token)
          BY <3>1, <3>2, <5>2 DEF TodoOK
        <5>4. p.holder \in requests[w].clients
          BY <3>2, <4>2, <5>3 DEF AllGrantsOK, GrantsOK, GivesUp, SameLease
        <5>5. p.holder = c.holder
          BY <3>2 DEF GivesUp, SameLease
        <5> QED
          BY <2>2, <5>3, <5>4, <5>5 DEF ClientsWaitOnce
      <4> QED
        BY <1>3, <3>2, <4>1, <4>2
    <3>3. \A i \in DOMAIN requests[v].todo :
            LET c == requests[v].todo[i]
            IN  c \in TokenCalls => Told(c.resource, c.holder, c.token)'
      BY <1>6, <3>1 DEF TodoOK
    <3> QED
      BY <3>1, <3>2, <3>3 DEF TodoOK
  <2> QED
    BY <2>1, <2>2
<1>8. AllGrantsOK'
  <2> SUFFICES ASSUME NEW v \in Workers, NEW g \in requests'[v].granted
               PROVE  /\ \/ g.holder \in requests'[v].clients
                         \/ ~Told(g.resource, g.holder, g.token)'
                      /\ \A u \in Workers : \A k \in requests'[u].granted :
                           SameLease(g, k) => u = v
    BY DEF AllGrantsOK, GrantsOK
  <2>1. v # w /\ requests'[v] = requests[v]
    BY <1>2
  <2>2. \A k \in requests[w].granted : ~SameLease(g, k)
    BY <2>1 DEF AllGrantsOK, GrantsOK
  <2>3. ~Told(g.resource, g.holder, g.token) => ~Told(g.resource, g.holder, g.token)'
    BY <1>3, <2>2 DEF Told, SameLease
  <2>4. \A u \in Workers : requests'[u].granted \subseteq requests[u].granted
    BY <1>2
  <2> QED
    BY <2>1, <2>3, <2>4 DEF AllGrantsOK, GrantsOK
<1>9. RenewalsOK'
  BY <1>1, <1>2 DEF RenewalsOK, RenewalOK, storeVars, Leased, Call
<1> QED
  BY <1>4, <1>5, <1>7, <1>8, <1>9

\* Handlers that end without an answer, and time that passes, take nothing
\* away from anybody.
LEMMA EndingKeeps ==
  ASSUME PromiseInv, ServiceInv',
         UNCHANGED <<storeVars, promises>>, clock <= clock',
         \A w \in Workers : requests'[w] = requests[w] \/ requests'[w] = Idle
  PROVE  PromiseParts'
<1> USE DEF PromiseInv, PromiseParts
<1>1. Idle.todo = <<>> /\ Idle.granted = {} /\ Idle.clients = {} /\ Idle.now = NotRead
  BY DEF Idle
<1>2. Outstanding' \subseteq Outstanding
  BY <1>1 DEF Outstanding
<1>3. PromisesKept' /\ OutstandingIssued'
  BY <1>2, KeptWhileRowsStay DEF ServiceInv
<1>4. ClientsWaitOnce'
  BY <1>1 DEF ClientsWaitOnce
<1>5. TodosOK'
  <2> SUFFICES ASSUME NEW v \in Workers PROVE TodoOK(v)'
    BY DEF TodosOK
  <2>1. CASE requests'[v] = requests[v]
    BY <2>1 DEF TodosOK, TodoOK, Told
  <2>2. CASE requests'[v] = Idle
    BY <1>1, <2>2, NothingToDo
  <2> QED
    BY <2>1, <2>2
<1>6. AllGrantsOK'
  <2>1. \A u \in Workers : requests'[u].granted \subseteq requests[u].granted
    BY <1>1
  <2>2. \A v \in Workers : \A g \in requests'[v].granted : requests'[v] = requests[v]
    BY <1>1
  <2> QED
    BY <2>1, <2>2 DEF AllGrantsOK, GrantsOK, Told
<1>7. RenewalsOK'
  BY <1>1 DEF RenewalsOK, RenewalOK, storeVars, Leased, Call
<1> QED
  BY <1>3, <1>4, <1>5, <1>6, <1>7

-----------------------------------------------------------------------------
(* Steps that change the tables *)

\* The restart sweeps what has lapsed, which nobody relies on any more.
LEMMA RestartKeeps ==
  ASSUME PromiseInv, ServiceInv', Restart
  PROVE  PromiseParts'
<1> USE DEF PromiseInv, PromiseParts
<1>1. /\ requests' = requests /\ promises' = promises /\ clock' = clock /\ issued' = issued
      /\ leases' = Delete(leases, {r \in DOMAIN leases : leases[r].expires_at <= clock})
  BY DEF Restart, Sweep
<1>2. \A r \in DOMAIN leases : leases[r].expires_at > clock =>
        r \in DOMAIN leases' /\ leases'[r] = leases[r]
  BY <1>1, TimesAreNumbers DEF ServiceInv, Delete, Restrict
<1>3. \A r \in DOMAIN leases' : r \in DOMAIN leases /\ leases'[r] = leases[r]
  BY <1>1 DEF Delete, Restrict
<1>4. Outstanding' = Outstanding
  BY <1>1 DEF Outstanding
<1>5. PromisesKept'
  <2>1. ASSUME NEW p \in Outstanding, p.until > clock
        PROVE  /\ p.resource \in DOMAIN leases'
               /\ p.holder = leases'[p.resource].holder
               /\ p.token = leases'[p.resource].fencing_token
               /\ leases'[p.resource].expires_at >= p.until
    <3>1. /\ p.resource \in DOMAIN leases
          /\ p.holder = leases[p.resource].holder
          /\ p.token = leases[p.resource].fencing_token
          /\ leases[p.resource].expires_at >= p.until
      BY <2>1 DEF PromisesKept, Leased, SameLease
    <3>2. leases[p.resource].expires_at > clock
      BY <2>1, <3>1, TimesAreNumbers DEF ServiceInv
    <3> QED
      BY <1>2, <3>1, <3>2
  <2> QED
    BY <1>1, <1>4, <2>1 DEF PromisesKept, Leased, SameLease
<1>6. OutstandingIssued'
  BY <1>1, <1>4 DEF OutstandingIssued
<1>7. ClientsWaitOnce' /\ TodosOK' /\ AllGrantsOK'
  BY <1>1 DEF ClientsWaitOnce, TodosOK, TodoOK, AllGrantsOK, GrantsOK, Told
<1>8. RenewalsOK'
  BY <1>1, <1>3 DEF RenewalsOK, RenewalOK, Leased, Call
<1> QED
  BY <1>5, <1>6, <1>7, <1>8

\* A live lease that somebody relies on is changed by its renewal only: a
\* release or a transfer would have to come from the client that gave it up.
LEMMA OnlyRenewalTouchesAPromise ==
  ASSUME PromiseInv, NEW w \in Workers, requests[w].todo # <<>>, NEW c, c = Call(w),
         NEW now, UsesClock(c) => now \in Instants /\ now <= clock, Transaction(c, now),
         NEW p \in Outstanding, p.until > clock, Changed(p.resource)
  PROVE  /\ c.op = "renew" /\ c.resource = p.resource
         /\ c.holder = leases[p.resource].holder
         /\ c.token = leases[p.resource].fencing_token
<1> USE DEF PromiseInv, PromiseParts
<1>1. /\ p.resource \in DOMAIN leases
      /\ p.holder = leases[p.resource].holder
      /\ p.token = leases[p.resource].fencing_token
      /\ leases[p.resource].expires_at >= p.until
  BY DEF PromisesKept, Leased, SameLease
<1>2. p.resource \in Resources /\ Live(p.resource, clock)
  BY <1>1, TimesAreNumbers, OutstandingType DEF Live, Leased, ServiceInv, Promises
<1>3. c \in Calls /\ c.op # "force_release" /\ \A q \in promises : GivesUp(c, q) => q.until = 0
  BY CurrentCallIsOwn DEF ServiceInv, TodosOK
<1>4. /\ c \in TokenCalls /\ c.resource = p.resource
      /\ c.holder = leases[p.resource].holder
      /\ c.token = leases[p.resource].fencing_token
  BY <1>2, <1>3, TransactionRespectsLiveLease
<1>5. p \in promises
  <2>1. \A v \in Workers : p \notin requests[v].granted
    BY <1>1, <1>4, TokenCallIsAlone DEF ServiceInv
  <2> QED
    BY <2>1 DEF Outstanding
<1>6. c.op \notin {"release", "transfer"}
  <2> SUFFICES ASSUME c.op \in {"release", "transfer"} PROVE FALSE
    OBVIOUS
  <2>1. GivesUp(c, p)
    BY <1>1, <1>4 DEF GivesUp, SameLease
  <2>2. p.until = 0 /\ clock \in Nat
    BY <1>3, <1>5, <2>1, TimesAreNumbers DEF ServiceInv
  <2> QED
    BY <2>2
<1> QED
  BY <1>4, <1>6 DEF TokenCalls, RenewCalls, TransferCalls, ReleaseCalls

\* A renewal that reaches the database does not bring the expiry forward: it
\* set out with a reading one time to live from which the stored row ends.
LEMMA RenewalReachesFurther ==
  ASSUME PromiseConditions, PromiseInv, NEW w \in Workers, requests[w].todo # <<>>,
         NEW c, c = Call(w), c.op = "renew",
         NEW now, now = requests[w].now, now \in Instants, Transaction(c, now)
  PROVE  /\ c.resource \in DOMAIN leases /\ c.resource \in DOMAIN leases'
         /\ leases'[c.resource].holder = leases[c.resource].holder
         /\ leases'[c.resource].fencing_token = leases[c.resource].fencing_token
         /\ leases'[c.resource].expires_at >= leases[c.resource].expires_at
<1> USE DEF PromiseInv, PromiseParts
<1>1. c \in RenewCalls
  BY CurrentCallIsOwn, CallArguments DEF ServiceInv, TodosOK
<1>2. Renew(c.resource, c.holder, c.token, c.ttl, now)
  BY DEF Transaction
<1>3. c.resource \in DOMAIN leases /\ leases[c.resource].fencing_token = c.token
  BY <1>2 DEF Renew, ExtendVerdict, HolderVerdict, Leased
<1>4. leases[c.resource].expires_at <= now + c.ttl
  BY <1>3, ServiceAssumption DEF RenewalsOK, RenewalOK, Leased
<1>5. Plus64(now, c.ttl) = now + c.ttl
  BY <1>1, Plus64Exact DEF PromiseConditions, RenewCalls
<1>6. leases[c.resource] \in LeaseRow
  BY <1>3 DEF ServiceInv, ServiceTypeOK, TypeOK
<1> DEFINE row == [leases[c.resource] EXCEPT !.expires_at = Plus64(now, c.ttl),
                                             !.ttl_seconds = c.ttl]
<1>7. /\ row.expires_at = Plus64(now, c.ttl)
      /\ row.holder = leases[c.resource].holder
      /\ row.fencing_token = leases[c.resource].fencing_token
  BY <1>6 DEF LeaseRow
<1>8. leases' = Upsert(leases, c.resource, row)
  BY <1>2 DEF Renew
<1> HIDE DEF row
<1>9. c.resource \in DOMAIN leases' /\ leases'[c.resource] = row
  BY <1>8 DEF Upsert
<1>10. leases[c.resource].expires_at \in Int /\ now + c.ttl \in Int
  BY <1>1, <1>3, TimesAreNumbers DEF ServiceInv, RenewCalls
<1> QED
  BY <1>3, <1>4, <1>5, <1>7, <1>9, <1>10

\* The parts of the invariant after a commit, one by one.
LEMMA CommitKeeps ==
  ASSUME PromiseConditions, PromiseInv, ServiceInv', NEW w \in Workers, Commit(w)
  PROVE  PromiseParts'
<1> USE DEF PromiseInv, PromiseParts
<1>1. PICK c : c = Call(w)
  OBVIOUS
<1>2. PICK now : now = requests[w].now
  OBVIOUS
<1>3. PICK reported : reported = Reported(c, now)
  OBVIOUS
<1>4. /\ InTransaction(w) /\ Transaction(c, now) /\ Proceed(w, reported)
      /\ clock' = clock /\ promises' = promises
  BY <1>1, <1>2, <1>3 DEF Commit
<1>5. /\ c \in Calls /\ requests[w].todo # <<>>
      /\ UsesClock(c) => now \in Instants /\ now <= clock
  BY <1>1, <1>2, <1>4, CurrentCall DEF ServiceInv, ReadingsArePast
<1>6. StoreNext /\ FencingInv /\ FencingInv'
  BY <1>4, <1>5, TransactionIsStoreStep DEF ServiceInv
<1>7. reported \in SUBSET Promises
  BY <1>3, <1>4, <1>5, <1>6, ReportedType
<1>8. /\ requests'[w].granted = requests[w].granted \cup reported
      /\ requests'[w].now = NotRead
      /\ requests'[w].clients = requests[w].clients \/ requests'[w].granted = {}
      /\ \A v \in Workers : v # w => requests'[v] = requests[v]
  BY <1>4, <1>7, ProceedParts DEF ServiceInv
<1>9. \A p \in Outstanding' : p \in Outstanding \/ p \in reported
  BY <1>4, <1>8 DEF Outstanding
<1>10. /\ c \in AcquireCalls \cup TokenCalls => c.holder \in requests[w].clients
       /\ c \in TokenCalls => Told(c.resource, c.holder, c.token)
  BY <1>1, <1>5, CurrentCallIsOwn DEF ServiceInv, TodosOK
<1>11. PromisesKept'
  <2>1. ASSUME NEW p \in reported
        PROVE  /\ p.resource \in DOMAIN leases'
               /\ p.holder = leases'[p.resource].holder
               /\ p.token = leases'[p.resource].fencing_token
               /\ leases'[p.resource].expires_at >= p.until
    <3>1. p \in Reported(c, now)
      BY <1>3, <2>1
    <3>2. /\ p.resource \in DOMAIN leases'
          /\ leases'[p.resource].holder = p.holder
          /\ leases'[p.resource].fencing_token = p.token
          /\ leases'[p.resource].expires_at = p.until
      BY <1>4, <1>5, <1>6, <3>1, ReportedIsStored
    <3>3. p.until \in Int
      BY <1>7, <2>1, StoreAssumption DEF Promises, Int64
    <3> QED
      BY <3>2, <3>3
  <2>2. ASSUME NEW p \in Outstanding, p.until > clock
        PROVE  /\ p.resource \in DOMAIN leases'
               /\ p.holder = leases'[p.resource].holder
               /\ p.token = leases'[p.resource].fencing_token
               /\ leases'[p.resource].expires_at >= p.until
    <3>1. /\ p.resource \in DOMAIN leases
          /\ p.holder = leases[p.resource].holder
          /\ p.token = leases[p.resource].fencing_token
          /\ leases[p.resource].expires_at >= p.until
      BY <2>2 DEF PromisesKept, Leased, SameLease
    <3>2. CASE ~Changed(p.resource)
      BY <3>1, <3>2 DEF Changed
    <3>3. CASE Changed(p.resource)
      <4>1. c.op = "renew" /\ c.resource = p.resource
        BY <1>1, <1>4, <1>5, <2>2, <3>3, OnlyRenewalTouchesAPromise
      <4>2. now \in Instants
        BY <1>5, <4>1 DEF UsesClock
      <4>3. /\ p.resource \in DOMAIN leases'
            /\ leases'[p.resource].holder = leases[p.resource].holder
            /\ leases'[p.resource].fencing_token = leases[p.resource].fencing_token
            /\ leases'[p.resource].expires_at >= leases[p.resource].expires_at
        BY <1>1, <1>2, <1>4, <1>5, <4>1, <4>2, RenewalReachesFurther
      <4>4. /\ p.until \in Int /\ leases[p.resource].expires_at \in Int
            /\ leases'[p.resource].expires_at \in Int
        BY <3>1, <4>3, TimesAreNumbers, StoreAssumption
           DEF ServiceInv, ServiceTypeOK, TypeOK, LeaseRow, Int64
      <4> QED
        BY <3>1, <4>3, <4>4
    <3> QED
      BY <3>2, <3>3
  <2> QED
    BY <1>4, <1>9, <2>1, <2>2 DEF PromisesKept, Leased, SameLease
<1>12. OutstandingIssued'
  <2>1. ASSUME NEW p \in reported
        PROVE  [holder |-> p.holder, token |-> p.token] \in issued'[p.resource]
    BY <1>3, <1>4, <1>5, <1>6, <2>1, ReportedIsStored
  <2>2. ASSUME NEW p \in Outstanding
        PROVE  [holder |-> p.holder, token |-> p.token] \in issued'[p.resource]
    <3>1. p.resource \in Resources
      BY <2>2, OutstandingType DEF ServiceInv, Promises
    <3> QED
      BY <1>6, <2>2, <3>1, IssuedGrows DEF OutstandingIssued
  <2> QED
    BY <1>9, <2>1, <2>2 DEF OutstandingIssued
<1>13. ClientsWaitOnce' /\ TodosOK'
  BY <1>4, <1>7, ProceedKeepsTodos DEF ServiceInv
<1>14. ASSUME NEW g \in reported
       PROVE  /\ g.holder \in requests[w].clients \/ ~Told(g.resource, g.holder, g.token)
              /\ \A v \in Workers : \A k \in requests[v].granted :
                   v # w => ~SameLease(g, k)
  <2>1. \/ c.op = "renew" /\ g.holder = c.holder /\ g.token = c.token
        \/ c.op \in {"acquire", "transfer"} /\ g.token = NextToken(g.resource)
             /\ (c.op = "acquire" => g.holder = c.holder)
    BY <1>3, <1>4, <1>5, <1>6, <1>14, ReportedIsStored
  <2>2. g.resource = c.resource
    BY <1>3, <1>4, <1>5, <1>6, <1>14, ReportedIsStored
  <2>3. CASE c.op = "renew"
    <3>1. c \in TokenCalls /\ g.holder = c.holder /\ g.token = c.token
      BY <1>5, <2>1, <2>3, CallArguments DEF TokenCalls
    <3>2. \A v \in Workers : \A k \in requests[v].granted : ~SameLease(g, k)
      BY <1>1, <1>5, <2>2, <3>1, TokenCallIsAlone DEF ServiceInv, SameLease
    <3> QED
      BY <1>10, <3>1, <3>2
  <2>4. CASE c.op # "renew"
    <3>1. ASSUME NEW p \in Outstanding PROVE ~SameLease(g, p)
      <4>1. p.resource \in Resources /\ g.token = NextToken(g.resource)
        BY <2>1, <2>4, OutstandingType DEF ServiceInv, Promises
      <4>2. p.token \in Nat /\ p.token < NextToken(p.resource)
        <5>1. PICK grant : grant = [holder |-> p.holder, token |-> p.token]
          OBVIOUS
        <5>2. grant \in issued[p.resource] /\ grant.token = p.token
          BY <5>1 DEF OutstandingIssued
        <5> QED
          BY <1>6, <4>1, <5>2, NextTokenBounds, StoreAssumption DEF Tokens
      <4>3. NextToken(p.resource) \in Nat
        BY <1>6, <4>1, NextTokenBounds
      <4> QED
        BY <4>1, <4>2, <4>3 DEF SameLease
    <3> QED
      BY <3>1 DEF Outstanding, Told, SameLease
  <2> QED
    BY <2>3, <2>4
<1>15. AllGrantsOK'
  <2> SUFFICES ASSUME NEW v \in Workers, NEW g \in requests'[v].granted
               PROVE  /\ \/ g.holder \in requests'[v].clients
                         \/ ~Told(g.resource, g.holder, g.token)
                      /\ \A u \in Workers : \A k \in requests'[u].granted :
                           SameLease(g, k) => u = v
    BY <1>4 DEF AllGrantsOK, GrantsOK, Told
  <2>1. requests'[v].clients = requests[v].clients
    BY <1>8
  <2>2. \A x \in Workers : \A k \in requests'[x].granted :
          k \in requests[x].granted \/ (x = w /\ k \in reported)
    BY <1>8
  <2>3. g.holder \in requests[v].clients \/ ~Told(g.resource, g.holder, g.token)
    BY <1>14, <2>2 DEF AllGrantsOK, GrantsOK
  <2>4. ASSUME NEW u \in Workers, NEW k \in requests'[u].granted, SameLease(g, k), u # v
        PROVE  FALSE
    <3>1. SameLease(k, g)
      BY <2>4 DEF SameLease
    <3> QED
      BY <1>14, <2>2, <2>4, <3>1 DEF AllGrantsOK, GrantsOK
  <2> QED
    BY <2>1, <2>3, <2>4
<1>16. RenewalsOK'
  <2> SUFFICES ASSUME NEW v \in Workers, NEW d, d = Call(v)',
                      requests'[v].todo # <<>>, d.op = "renew", requests'[v].now # NotRead,
                      d.resource \in DOMAIN leases',
                      leases'[d.resource].fencing_token = d.token
               PROVE  leases'[d.resource].expires_at <= requests'[v].now + d.ttl
    BY DEF RenewalsOK, RenewalOK, Leased
  <2>1. v # w /\ requests'[v] = requests[v] /\ d = Call(v)
    BY <1>8 DEF Call
  <2>2. d \in TokenCalls /\ Told(d.resource, d.holder, d.token) /\ d.resource \in Resources
        /\ d.holder \in requests[v].clients
    BY <2>1, CurrentCallIsOwn, CallArguments DEF ServiceInv, TodosOK, TokenCalls, RenewCalls
  <2>3. PICK grant : grant = [holder |-> d.holder, token |-> d.token]
    OBVIOUS
  <2>4. grant \in issued[d.resource] /\ grant.token = d.token /\ grant.holder = d.holder
    BY <2>2, <2>3 DEF Told, OutstandingIssued, Outstanding
  <2>5. d.token \in Nat /\ d.token < NextToken(d.resource) /\ NextToken(d.resource) \in Nat
    BY <1>6, <2>2, <2>4, NextTokenBounds, StoreAssumption DEF Tokens
  <2>6. d.resource \in DOMAIN leases /\ leases[d.resource].fencing_token = d.token
    BY <1>6, <2>5, RowOrigin
  <2>7. leases'[d.resource] = leases[d.resource]
    <3> SUFFICES ASSUME leases'[d.resource] # leases[d.resource] PROVE FALSE
      OBVIOUS
    <3>1. /\ c.op = "renew" /\ c.resource = d.resource
          /\ c.holder = leases[d.resource].holder
      BY <1>4, <1>5, <1>6, <2>6, OnlyRenewalChangesARow
    <3>2. PICK stored : stored = [holder |-> leases[d.resource].holder,
                                  token |-> leases[d.resource].fencing_token]
      OBVIOUS
    <3>3. stored \in issued[d.resource] /\ stored.token = d.token
          /\ stored.holder = leases[d.resource].holder
      BY <1>6, <2>6, <3>2 DEF FencingInv, RowIsNewestGrant
    <3>4. stored = grant
      BY <1>6, <2>2, <2>4, <3>3 DEF FencingInv, TokenNamesOneHolder
    <3>5. c.holder = d.holder
      BY <2>4, <3>1, <3>3, <3>4
    <3>6. c \in TokenCalls
      BY <1>5, <3>1, CallArguments DEF TokenCalls
    <3> QED
      BY <1>10, <2>1, <2>2, <3>5, <3>6 DEF ClientsWaitOnce
  <2> QED
    BY <2>1, <2>6, <2>7 DEF RenewalsOK, RenewalOK, Leased
<1> QED
  BY <1>11, <1>12, <1>13, <1>15, <1>16

-----------------------------------------------------------------------------
(* Theorems *)

\* At the start nobody was told anything.
LEMMA PromiseInvInitially ==
  ASSUME Init
  PROVE  NoLeaseOutlivesItsTTL /\ PromiseParts
<1>1. /\ promises = {} /\ DOMAIN leases = {}
      /\ \A w \in Workers : requests[w] = Idle
  BY DEF Init, StoreInit, EmptyTable
<1>2. Idle.todo = <<>> /\ Idle.granted = {} /\ Idle.clients = {}
  BY DEF Idle
<1>3. Outstanding = {}
  BY <1>1, <1>2 DEF Outstanding
<1>4. TodosOK
  BY <1>1, <1>2, NothingToDo DEF TodosOK
<1> QED
  BY <1>1, <1>2, <1>3, <1>4
     DEF NoLeaseOutlivesItsTTL, PromiseParts, PromisesKept, OutstandingIssued,
         ClientsWaitOnce, AllGrantsOK, GrantsOK, RenewalsOK, RenewalOK

\* Every step of the service keeps the invariant, for clients that keep to
\* PromiseConditions.
LEMMA PromiseStep ==
  ASSUME PromiseConditions, PromiseInv, ServiceInv', [Next]_vars
  PROVE  PromiseParts'
<1>1. clock \in Nat
  BY TimesAreNumbers DEF PromiseInv, ServiceInv
<1>2. CASE Tick
  <2>1. UNCHANGED <<storeVars, promises>> /\ requests' = requests /\ clock <= clock'
    BY <1>1, <1>2 DEF Tick
  <2> QED
    BY <2>1, EndingKeeps
<1>3. CASE Crash
  <2>1. /\ UNCHANGED <<storeVars, promises>> /\ clock <= clock'
        /\ \A w \in Workers : requests'[w] = Idle
    BY <1>1, <1>3 DEF Crash
  <2> QED
    BY <2>1, EndingKeeps
<1>4. ASSUME NEW w \in Workers, LoseAnswer(w) PROVE PromiseParts'
  <2>1. /\ UNCHANGED <<storeVars, promises>> /\ clock <= clock'
        /\ requests' = [requests EXCEPT ![w] = Idle]
    BY <1>1, <1>4 DEF LoseAnswer
  <2>2. \A v \in Workers : requests'[v] = requests[v] \/ requests'[v] = Idle
    BY <2>1 DEF PromiseInv, ServiceInv, ServiceTypeOK
  <2> QED
    BY <2>1, <2>2, EndingKeeps
<1>5. CASE UNCHANGED vars
  <2>1. UNCHANGED <<storeVars, promises>> /\ requests' = requests /\ clock <= clock'
    BY <1>1, <1>5 DEF vars, storeVars
  <2> QED
    BY <2>1, EndingKeeps
<1> QED
  BY <1>2, <1>3, <1>4, <1>5, ReceiveKeeps, ReadClockKeeps, CommitKeeps, RollbackKeeps,
     AnswerKeeps, RestartKeeps
  DEF Next

\* Types, fencing, the limit to the life of a lease, and the bookkeeping of
\* what clients rely on, in every reachable state.
LEMMA PromiseInvariant ==
  ASSUME PromiseConditions
  PROVE  Spec => []PromiseInv
<1>1. Init => NoLeaseOutlivesItsTTL /\ PromiseParts
  BY PromiseInvInitially
<1>2. ServiceInv /\ ServiceInv' /\ NoLeaseOutlivesItsTTL /\ PromiseParts /\ [Next]_vars
        => PromiseParts'
  BY PromiseStep DEF PromiseInv
<1>3. ServiceInv /\ NoLeaseOutlivesItsTTL /\ PromiseParts => PromiseInv
  BY DEF PromiseInv
<1> QED
  BY <1>1, <1>2, <1>3, ServiceInvariant, NoLeaseOutlives, PTL DEF Spec

\* A client that was told "yours until t" holds the lease in the database until
\* t, whatever answers were lost and however often the process crashed.
THEOREM PromisesAreKept ==
  ASSUME PromiseConditions
  PROVE  Spec => []PromisesKept
<1>1. PromiseInv => PromisesKept
  BY DEF PromiseInv, PromiseParts
<1> QED
  BY <1>1, PromiseInvariant, PTL

\* A step that leaves a grant in force leaves it in force for as long, or longer.
LEMMA StepNeverShortens ==
  ASSUME PromiseConditions, PromiseInv, [Next]_vars,
         NEW r \in DOMAIN leases, r \in DOMAIN leases',
         leases'[r].fencing_token = leases[r].fencing_token
  PROVE  leases'[r].expires_at >= leases[r].expires_at
<1>0. leases[r].expires_at \in Int
  BY TimesAreNumbers DEF PromiseInv, ServiceInv
<1>1. CASE leases'[r] = leases[r]
  BY <1>0, <1>1
<1>2. ASSUME NEW w \in Workers, Commit(w), leases'[r] # leases[r]
      PROVE  leases'[r].expires_at >= leases[r].expires_at
  <2>1. PICK c : c = Call(w)
    OBVIOUS
  <2>2. PICK now : now = requests[w].now
    OBVIOUS
  <2>3. InTransaction(w) /\ Transaction(c, now)
    BY <1>2, <2>1, <2>2 DEF Commit
  <2>4. /\ c \in Calls /\ requests[w].todo # <<>>
        /\ UsesClock(c) => now \in Instants
    BY <2>1, <2>2, <2>3, CurrentCall DEF PromiseInv, ServiceInv
  <2>5. c.op = "renew" /\ c.resource = r
    BY <1>2, <2>3, <2>4, OnlyRenewalChangesARow DEF PromiseInv, ServiceInv
  <2>6. now \in Instants
    BY <2>4, <2>5 DEF UsesClock
  <2> QED
    BY <2>1, <2>2, <2>3, <2>4, <2>5, <2>6, RenewalReachesFurther
<1>3. CASE Restart
  BY <1>1, <1>3 DEF Restart, Sweep, Delete, Restrict
<1>4. ASSUME NEW w \in Workers,
             \/ \E body \in Bodies : Receive(w, body)
             \/ ReadClock(w) \/ Rollback(w) \/ Answer(w) \/ LoseAnswer(w)
      PROVE  leases' = leases
  BY <1>4 DEF Receive, ReadClock, Rollback, Answer, LoseAnswer, storeVars
<1>5. Tick \/ Crash \/ UNCHANGED vars => leases' = leases
  BY DEF Tick, Crash, vars, storeVars
<1> QED
  BY <1>1, <1>2, <1>3, <1>4, <1>5 DEF Next

\* Renew does extend a lease: where all requests ask for one time to live, a
\* renewal that waited for its transaction still brings no expiry forward.
THEOREM RenewalsExtend ==
  ASSUME PromiseConditions
  PROVE  Spec => RenewalNeverShortens
<1> DEFINE Extends ==
      \A r \in DOMAIN leases \cap DOMAIN leases' :
        leases'[r].fencing_token = leases[r].fencing_token =>
          leases'[r].expires_at >= leases[r].expires_at
<1>1. PromiseInv /\ [Next]_vars => Extends
  BY StepNeverShortens
<1>2. PromiseInv /\ [Next]_vars => [Extends]_vars
  BY <1>1
<1> QED
  BY <1>2, PromiseInvariant, PTL DEF Spec, RenewalNeverShortens

=============================================================================
