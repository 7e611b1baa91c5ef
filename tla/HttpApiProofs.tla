---------------------------- MODULE HttpApiProofs ----------------------------
(***************************************************************************)
(* Proofs about HttpApi, for any number of connections, resources, holders *)
(* and tokens, for every request that may arrive, well-formed or not, and  *)
(* for any interleaving of the handlers with crashes and restarts.         *)
(*                                                                         *)
(* The argument: a handler only ever learns what was true earlier, and two *)
(* things in the tables never go back.  A counter does not, so what an     *)
(* answer shows is at least as new as the tokens that were granted when    *)
(* its request arrived.  And a grant that was superseded or removed, or    *)
(* that has lapsed at every instant a renewal on its way works with,       *)
(* cannot come back, however many requests a client has in flight.         *)
(***************************************************************************)
EXTENDS HttpApi, StoreCallsProofs

-----------------------------------------------------------------------------
(* Requests *)

\* The op of a request determines its other arguments.
LEMMA RequestArguments ==
  ASSUME NEW q \in Requests
  PROVE  /\ q.op = "acquire" => q \in AcquireBodies
         /\ q.op = "renew" => q \in RenewBodies
         /\ q.op = "transfer" => q \in TransferBodies
         /\ q.op = "release" => q \in ReleaseBodies
         /\ q.op \in {"sweep", "force_release", "delete_resource", "update_resource"} =>
              q \in AdminCalls
         /\ q.op = "register_resource" => q \in AdminCalls \/ q \in RegisterBodies
         /\ q.op \in {"info", "fencing"} =>
              q \in [op : {"info", "fencing"}, resource : ResourceNames]
         /\ IsQuery(q) \/ q.op \in {"acquire", "renew", "transfer", "release", "sweep",
              "force_release", "delete_resource", "update_resource", "register_resource"}
  BY DEF Requests, Bodies, Queries, IsQuery, AcquireBodies, RenewBodies, TransferBodies,
         ReleaseBodies, RegisterBodies, AdminCalls

\* What the validation of names and of the time to live lets through.
LEMMA ValidArguments ==
  ASSUME NEW r \in ResourceNames, NEW h \in HolderNames, NEW ttl, Validate(r, h, ttl) = "ok"
  PROVE  r \in Resources /\ h \in Holders /\ ~(ttl <= 0)
  BY DEF Validate, ResourceNames, HolderNames

\* A number that is not below 1 is a time to live or a token.
LEMMA GoodNumbers ==
  /\ \A ttl \in TTLNumbers : ~(ttl <= 0) => ttl \in TTLs
  /\ \A t \in TokenNumbers : ~(t <= 0) => t \in Tokens
  BY ApiAssumption DEF TTLNumbers, TokenNumbers

\* Of two checks, both have passed.
LEMMA BothPass ==
  ASSUME NEW a, NEW b, First(a, b) = "ok"
  PROVE  a = "ok" /\ b = "ok"
  BY DEF First

\* What gets past the checks of its operation is a call of the store.
LEMMA AcceptedIsCall ==
  ASSUME NEW q \in Accepted, ~IsQuery(q)
  PROVE  q \in Calls
<1>1. q \in Requests /\ Refused(q) = "ok"
  BY DEF Accepted
<1>2. CASE q.op = "acquire"
  <2>1. q \in AcquireBodies
    BY <1>1, <1>2, RequestArguments
  <2>2. Validate(q.resource, q.holder, q.ttl) = "ok"
    BY <1>1, <1>2 DEF Refused
  <2>3. q.resource \in Resources /\ q.holder \in Holders /\ q.ttl \in TTLs
    BY <2>1, <2>2, ValidArguments, GoodNumbers DEF AcquireBodies
  <2>4. q \in AcquireCalls
    BY <2>1, <2>3 DEF AcquireBodies, AcquireCalls
  <2> QED
    BY <2>4 DEF Calls
<1>3. CASE q.op = "renew"
  <2>1. q \in RenewBodies
    BY <1>1, <1>3, RequestArguments
  <2>2. First(Validate(q.resource, q.holder, q.ttl), CheckToken(q.token)) = "ok"
    BY <1>1, <1>3 DEF Refused
  <2>3. Validate(q.resource, q.holder, q.ttl) = "ok" /\ ~(q.token <= 0)
    BY <2>2, BothPass DEF CheckToken
  <2>4. q.resource \in Resources /\ q.holder \in Holders /\ q.ttl \in TTLs /\ q.token \in Tokens
    BY <2>1, <2>3, ValidArguments, GoodNumbers DEF RenewBodies
  <2>5. q \in RenewCalls
    BY <2>1, <2>4 DEF RenewBodies, RenewCalls
  <2> QED
    BY <2>5 DEF Calls, TokenCalls
<1>4. CASE q.op = "transfer"
  <2>1. q \in TransferBodies
    BY <1>1, <1>4, RequestArguments
  <2>2. RefusedTransfer(q) = "ok"
    BY <1>1, <1>4 DEF Refused
  <2>3. /\ Validate(q.resource, q.holder, q.ttl) = "ok"
        /\ (IF q.newHolder = NoName THEN "empty_holder" ELSE CheckToken(q.token)) = "ok"
    BY <2>2, BothPass DEF RefusedTransfer
  <2>4. q.newHolder # NoName /\ ~(q.token <= 0)
    BY <2>3 DEF CheckToken
  <2>5. /\ q.resource \in Resources /\ q.holder \in Holders /\ q.ttl \in TTLs
        /\ q.token \in Tokens /\ q.newHolder \in Holders
    BY <2>1, <2>3, <2>4, ValidArguments, GoodNumbers DEF TransferBodies, HolderNames
  <2>6. q \in TransferCalls
    BY <2>1, <2>5 DEF TransferBodies, TransferCalls
  <2> QED
    BY <2>6 DEF Calls, TokenCalls
<1>5. CASE q.op = "release"
  <2>1. q \in ReleaseBodies
    BY <1>1, <1>5, RequestArguments
  <2>2. First(Validate(q.resource, q.holder, 1), CheckToken(q.token)) = "ok"
    BY <1>1, <1>5 DEF Refused
  <2>3. Validate(q.resource, q.holder, 1) = "ok" /\ ~(q.token <= 0)
    BY <2>2, BothPass DEF CheckToken
  <2>4. q.resource \in Resources /\ q.holder \in Holders /\ q.token \in Tokens
    BY <2>1, <2>3, ValidArguments, GoodNumbers DEF ReleaseBodies
  <2>5. q \in ReleaseCalls
    BY <2>1, <2>4 DEF ReleaseBodies, ReleaseCalls
  <2> QED
    BY <2>5 DEF Calls, TokenCalls
<1>6. CASE q.op = "register_resource"
  <2>1. q \in AdminCalls \/ q \in RegisterBodies
    BY <1>1, <1>6, RequestArguments
  <2>2. First(CheckName(q.resource), CheckCap(q.cap)) = "ok"
    BY <1>1, <1>6 DEF Refused
  <2>3. q.resource # NoName
    BY <2>2, BothPass DEF CheckName
  <2>4. q \in AdminCalls
    BY <2>1, <2>3 DEF RegisterBodies, AdminCalls, ResourceNames
  <2> QED
    BY <2>4 DEF Calls
<1> QED
  BY <1>1, <1>2, <1>3, <1>4, <1>5, <1>6, RequestArguments DEF Calls

\* GET /info and /fencing look at a resource with a name.
LEMMA AcceptedQuery ==
  ASSUME NEW q \in Accepted, q.op \in {"info", "fencing"}
  PROVE  q.resource \in Resources
<1>1. q \in [op : {"info", "fencing"}, resource : ResourceNames] /\ Refused(q) = "ok"
  BY RequestArguments DEF Accepted
<1>2. CheckName(q.resource) = "ok"
  BY <1>1 DEF Refused
<1> QED
  BY <1>1, <1>2 DEF CheckName, ResourceNames

-----------------------------------------------------------------------------
(* The invariant *)

Pending == {"clock", "manager", "call"}
ShownLeases == [resource : Resources, token : Tokens, until : Int64]

\* A handler that has not answered yet; one whose answer is a status; and one
\* whose answer shows leases or a token.
Waiting ==
  [stage : Pending, request : Accepted, newest : [Resources -> Nat], seen : Instants,
   now : Instants]
Replied == [stage : {"status"}, status : Nat]
Showing ==
  [stage : {"answer"}, request : Accepted, newest : [Resources -> Nat], seen : Instants,
   ran : Instants, status : {200, 409}, shown : SUBSET ShownLeases, next : Nat]

HandlerStates == {Idle} \cup Waiting \cup Replied \cup Showing
Endings == [resource : Resources, grant : Grants]

ApiTypeOK ==
  /\ clock \in Instants
  /\ up \in BOOLEAN
  /\ handler \in [Workers -> HandlerStates]
  /\ over \subseteq Endings

\* The tokens granted when the request arrived are behind the counters.
NewestOK(w) ==
  handler[w].stage \in Pending => \A r \in Resources : handler[w].newest[r] < NextToken(r)

\* The clock was read for the flags first, then for the store, and both earlier.
ReadingsOK(w) ==
  /\ handler[w].stage \in {"manager", "call"} /\ FlagsLeases(Request(w)) =>
       handler[w].seen <= clock
  /\ handler[w].stage = "call" /\ ManagerReads(Request(w)) =>
       /\ handler[w].now <= clock
       /\ FlagsLeases(Request(w)) => handler[w].seen <= handler[w].now

\* The grant g of r, at t, is superseded, removed or lapsed.
Gone(r, g, t) ==
  ~(/\ Live(r, t)
    /\ g = [holder |-> leases[r].holder, token |-> leases[r].fencing_token])

\* A renewal of the grant g of r, and one in flight that could revive e's.
Renews(q, r, g) == q.op = "renew" /\ q.resource = r /\ GrantOf(q) = g
MayRevive(w, e) ==
  handler[w].stage = "call" /\ Renews(Request(w), e.resource, e.grant)

\* A grant whose end was told has ended, also for a renewal with an old reading.
OverOK ==
  \A e \in over :
    /\ e.grant.token < NextToken(e.resource)
    /\ Gone(e.resource, e.grant, clock)
    /\ \A w \in Workers : MayRevive(w, e) => Gone(e.resource, e.grant, handler[w].now)

\* What AnswersAreCurrent says of the answer of w.
CurrentOK(w) ==
  handler[w].stage = "answer" =>
    /\ \A l \in handler[w].shown : l.token >= handler[w].newest[l.resource]
    /\ (Request(w).op = "fencing" /\ handler[w].status = 200) =>
         handler[w].next > handler[w].newest[Request(w).resource]

HandlerOK(w) == NewestOK(w) /\ ReadingsOK(w) /\ CurrentOK(w)

ApiInv ==
  /\ FencingInv
  /\ ApiTypeOK
  /\ \A w \in Workers : HandlerOK(w)
  /\ OverOK

-----------------------------------------------------------------------------
(* Handlers *)

\* What the stage of a handler says of its record.
LEMMA HandlerShape ==
  ASSUME ApiTypeOK, NEW w \in Workers
  PROVE  /\ handler[w].stage \in Pending \cup {"answer", "status", "idle"}
         /\ handler[w].stage \in Pending => handler[w] \in Waiting /\ Request(w) \in Accepted
         /\ handler[w].stage = "answer" => handler[w] \in Showing /\ Request(w) \in Accepted
<1>1. handler[w] \in {Idle} \cup Waiting \cup Replied \cup Showing
  BY DEF ApiTypeOK, HandlerStates
<1>2. CASE handler[w] = Idle
  BY <1>2 DEF Idle, Pending
<1>3. CASE handler[w] \in Waiting
  BY <1>3 DEF Waiting, Pending, Request
<1>4. CASE handler[w] \in Replied
  BY <1>4 DEF Replied, Pending
<1>5. CASE handler[w] \in Showing
  BY <1>5 DEF Showing, Pending, Request
<1> QED
  BY <1>1, <1>2, <1>3, <1>4, <1>5

\* The stages of a request come in this order.
LEMMA StageOrder ==
  ASSUME NEW q
  PROVE  /\ StageAfter(q, "received") =
              IF FlagsLeases(q) THEN "clock" ELSE IF ManagerReads(q) THEN "manager" ELSE "call"
         /\ StageAfter(q, "clock") = IF ManagerReads(q) THEN "manager" ELSE "call"
         /\ StageAfter(q, "manager") = "call"
         /\ StageAfter(q, "call") = "answer"
  BY DEF StageAfter

-----------------------------------------------------------------------------
(* The tables *)

\* What a handler remembers of the tokens granted so far is behind the counters.
LEMMA NewestTokensAreIssued ==
  ASSUME FencingInv
  PROVE  /\ NewestTokens \in [Resources -> Nat]
         /\ \A r \in Resources : NewestTokens[r] < NextToken(r)
<1>1. ASSUME NEW r \in Resources
      PROVE  /\ Max({0} \cup {g.token : g \in issued[r]}) \in Nat
             /\ Max({0} \cup {g.token : g \in issued[r]}) < NextToken(r)
  <2> DEFINE S == {0} \cup {g.token : g \in issued[r]}
  <2>1. \A g \in issued[r] : g.token \in 0 .. MaxToken /\ g.token < NextToken(r)
    BY NextTokenBounds, StoreAssumption DEF Tokens
  <2>2. S \in SUBSET (0 .. MaxToken) /\ S # {} /\ \A t \in S : t < NextToken(r)
    BY <2>1, NextTokenBounds, StoreAssumption
  <2> HIDE DEF S
  <2>3. PICK top : top = Max(S)
    OBVIOUS
  <2>4. top \in S
    BY <2>2, <2>3, MaxOfBounded, StoreAssumption
  <2>5. top \in Nat /\ top < NextToken(r)
    BY <2>2, <2>4, StoreAssumption
  <2> QED
    BY <2>3, <2>5 DEF S
<1> QED
  BY <1>1 DEF NewestTokens

\* A request's call changes the tables by a transaction of the store.
LEMMA CallIsStoreStep ==
  ASSUME ApiInv, NEW w \in Workers, CallStore(w)
  PROVE  [StoreNext]_storeVars
<1>1. CASE UNCHANGED storeVars
  BY <1>1
<1>2. CASE ~IsQuery(Request(w)) /\ Transaction(Request(w), handler[w].now)
  <2>1. Request(w) \in Accepted /\ handler[w] \in Waiting
    BY HandlerShape DEF CallStore, AtStage, ApiInv, Pending
  <2>2. Request(w) \in Calls
    BY <1>2, <2>1, AcceptedIsCall
  <2>3. handler[w].now \in Instants
    BY <2>1 DEF Waiting
  <2> QED
    BY <1>2, <2>2, <2>3, TransactionIsStoreStep
<1> QED
  BY <1>1, <1>2 DEF CallStore, Succeed, Refuse, Fail

\* Every step of the API is a step of the store or leaves the tables alone.
LEMMA StepIsStoreStep ==
  ASSUME ApiInv, [Next]_vars
  PROVE  [StoreNext]_storeVars
<1>1. ASSUME NEW w \in Workers,
             \/ \E q \in Accepted : Receive(w, q)
             \/ \E status \in Refusals : TurnAway(w, status)
             \/ ReadClock(w) \/ CallManager(w) \/ Answer(w)
      PROVE  UNCHANGED storeVars
  BY <1>1 DEF Receive, TurnAway, ReadClock, CallManager, Answer
<1>2. Tick \/ Exit \/ UNCHANGED vars => UNCHANGED storeVars
  BY DEF Tick, Exit, vars, storeVars
<1>3. Start => StoreNext
  BY DEF Start, ApiInv, ApiTypeOK, StoreNext
<1> QED
  BY <1>1, <1>2, <1>3, CallIsStoreStep DEF Next

-----------------------------------------------------------------------------
(* Ended grants *)

\* The step changes the row of r and leaves it to the grant g.
Rewritten(r, g) ==
  /\ r \in DOMAIN leases /\ r \in DOMAIN leases'
  /\ g = [holder |-> leases[r].holder, token |-> leases[r].fencing_token]
  /\ leases'[r].fencing_token = leases[r].fencing_token
  /\ leases'[r] # leases[r]

\* A grant that was issued and is gone stays gone in every step that does not
\* change its row: a new row carries a larger token.
LEMMA GoneStays ==
  ASSUME FencingInv, [StoreNext]_storeVars, NEW r \in Resources, NEW g, NEW t,
         g.token \in Int, g.token < NextToken(r), Gone(r, g, t), ~Rewritten(r, g)
  PROVE  Gone(r, g, t)'
<1> SUFFICES ASSUME Live(r, t)',
                    g = [holder |-> leases'[r].holder, token |-> leases'[r].fencing_token]
             PROVE  FALSE
  BY DEF Gone
<1>1. r \in DOMAIN leases' /\ leases'[r].expires_at > t
  BY DEF Live, Leased
<1>2. g.token = leases'[r].fencing_token
  OBVIOUS
<1>3. leases'[r].fencing_token # NextToken(r)
  BY <1>2, NextTokenBounds
<1>4. /\ r \in DOMAIN leases
      /\ leases'[r].holder = leases[r].holder
      /\ leases'[r].fencing_token = leases[r].fencing_token
  BY <1>1, <1>3, RowOrigin
<1>5. leases'[r] = leases[r]
  BY <1>1, <1>4 DEF Rewritten
<1> QED
  BY <1>1, <1>4, <1>5 DEF Gone, Live, Leased

\* What is gone at one instant is gone at every later one.
LEMMA GoneLater ==
  ASSUME FencingInv, NEW r, NEW g, NEW t \in Int, NEW later \in Int, t <= later, Gone(r, g, t)
  PROVE  Gone(r, g, later)
<1>1. r \in DOMAIN leases => leases[r].expires_at \in Int
  BY StoreAssumption DEF FencingInv, TypeOK, LeaseRow, Int64
<1> QED
  BY <1>1 DEF Gone, Live, Leased

\* A call brings no grant back, unless it renews it with an instant at which it
\* was not gone.
LEMMA GoneStaysInCall ==
  ASSUME ApiInv, NEW w \in Workers, CallStore(w),
         NEW r \in Resources, NEW g, NEW t, g.token \in Int, g.token < NextToken(r),
         Gone(r, g, t), Renews(Request(w), r, g) => Gone(r, g, handler[w].now)
  PROVE  Gone(r, g, t)'
<1> DEFINE q == Request(w)
<1>1. FencingInv /\ [StoreNext]_storeVars
  BY CallIsStoreStep DEF ApiInv
<1>2. ~Rewritten(r, g)
  <2> SUFFICES ASSUME Rewritten(r, g) PROVE FALSE
    OBVIOUS
  <2>0. /\ r \in DOMAIN leases /\ r \in DOMAIN leases'
        /\ g = [holder |-> leases[r].holder, token |-> leases[r].fencing_token]
        /\ leases'[r].fencing_token = leases[r].fencing_token
        /\ leases'[r] # leases[r]
    BY DEF Rewritten
  <2>1. ~IsQuery(q) /\ Transaction(q, handler[w].now)
    BY <2>0 DEF CallStore, Succeed, Refuse, Fail, storeVars
  <2>2. handler[w].stage = "call" /\ q \in Accepted /\ handler[w] \in Waiting
    BY HandlerShape DEF CallStore, AtStage, ApiInv, Pending
  <2>3. q \in Calls
    BY <2>1, <2>2, AcceptedIsCall
  <2>4. /\ q.op = "renew" /\ q.resource = r /\ q.holder = leases[r].holder
        /\ q.token = leases[r].fencing_token /\ ~(leases[r].expires_at <= handler[w].now)
    BY <1>1, <2>0, <2>1, <2>3, OnlyRenewalChangesARow
  <2>5. Gone(r, g, handler[w].now)
    BY <2>0, <2>4 DEF GrantOf, Renews
  <2>6. leases[r].expires_at \in Int /\ handler[w].now \in Int
    BY <1>1, <2>0, <2>2, StoreAssumption DEF FencingInv, TypeOK, LeaseRow, Int64, Waiting
  <2> QED
    BY <2>0, <2>4, <2>5, <2>6 DEF Gone, Live, Leased
<1> QED
  BY <1>1, <1>2, GoneStays

-----------------------------------------------------------------------------
(* A handler that a step does not move *)

\* A call that presents a grant names a resource, a holder and a token.
LEMMA NamedGrant ==
  ASSUME ApiTypeOK, NEW w \in Workers, handler[w].stage \in Pending, Request(w).op \in TokenOps
  PROVE  /\ Request(w).resource \in Resources
         /\ Request(w).token \in Int
         /\ GrantOf(Request(w)).token = Request(w).token
         /\ GrantOf(Request(w)) \in Grants
<1>1. Request(w) \in Accepted /\ ~IsQuery(Request(w))
  BY HandlerShape DEF IsQuery, TokenOps
<1>2. Request(w) \in Calls /\ Request(w).op \in {"renew", "transfer", "release"}
  BY <1>1, AcceptedIsCall DEF TokenOps
<1>3. /\ Request(w).resource \in Resources
      /\ Request(w).holder \in Holders
      /\ Request(w).token \in Tokens
  BY <1>2, CallArguments DEF RenewCalls, TransferCalls, ReleaseCalls
<1> QED
  BY <1>3, StoreAssumption DEF GrantOf, Tokens, Grants

\* A step of the store by somebody else leaves a handler's knowledge true.
LEMMA OthersKeepOK ==
  ASSUME ApiInv, [StoreNext]_storeVars, NEW v \in Workers, handler'[v] = handler[v],
         clock' \in Instants, clock <= clock'
  PROVE  HandlerOK(v)'
<1>1. FencingInv /\ ApiTypeOK /\ NewestOK(v) /\ ReadingsOK(v) /\ CurrentOK(v)
  BY DEF ApiInv, HandlerOK
<1>2. \A i \in Instants : i \in Int
  BY StoreAssumption DEF Int64
<1>3. NewestOK(v)'
  <2>1. ASSUME NEW r \in Resources, handler[v].stage \in Pending
        PROVE  handler[v].newest[r] < NextToken(r)'
    <3>1. handler[v].newest[r] \in Nat /\ handler[v].newest[r] < NextToken(r)
      BY <1>1, <2>1, HandlerShape DEF NewestOK, Waiting
    <3> QED
      BY <1>1, <3>1, NextTokenGrows
  <2> QED
    BY <2>1 DEF NewestOK
<1>4. ReadingsOK(v)'
  <2>1. handler[v].stage \in Pending =>
          handler[v].seen \in Int /\ handler[v].now \in Int
    BY <1>1, <1>2, HandlerShape DEF Waiting
  <2>2. clock \in Int /\ clock' \in Int
    BY <1>1, <1>2 DEF ApiTypeOK
  <2> QED
    BY <1>1, <2>1, <2>2 DEF ReadingsOK, Pending, Request
<1>5. CurrentOK(v)'
  BY <1>1 DEF CurrentOK, Request
<1> QED
  BY <1>3, <1>4, <1>5 DEF HandlerOK

-----------------------------------------------------------------------------
(* Statuses *)

\* No error is answered 200, 201 or 204, and 403, 404 and 410 have their reasons.
LEMMA ErrorStatus ==
  ASSUME NEW verdict
  PROVE  /\ StatusOf(verdict) \in {400, 403, 404, 409, 410, 500}
         /\ StatusOf(verdict) \in {403, 404} =>
              verdict \in {"holder_mismatch", "token_mismatch", "no_lease", "not_found"}
         /\ StatusOf(verdict) = 410 => verdict = "expired"
<1>1. CASE verdict \in {"empty_resource", "empty_holder", "invalid_ttl", "ttl_exceeds_max"}
  BY <1>1 DEF StatusOf
<1>2. CASE verdict \in {"conflict", "in_use"}
  BY <1>2 DEF StatusOf
<1>3. CASE verdict = "expired"
  BY <1>3 DEF StatusOf
<1>4. CASE verdict \in {"holder_mismatch", "token_mismatch"}
  BY <1>4 DEF StatusOf
<1>5. CASE verdict \in {"no_lease", "not_found"}
  BY <1>5 DEF StatusOf
<1>6. CASE verdict \notin {"empty_resource", "empty_holder", "invalid_ttl", "ttl_exceeds_max",
                           "conflict", "in_use", "expired", "holder_mismatch",
                           "token_mismatch", "no_lease", "not_found"}
  BY <1>6 DEF StatusOf
<1> QED
  BY <1>1, <1>2, <1>3, <1>4, <1>5, <1>6

\* The status of a success.
LEMMA SuccessStatus ==
  ASSUME NEW q
  PROVE  /\ Success(q) \in {200, 201, 204}
         /\ q.op = "transfer" => Success(q) = 200
         /\ q.op = "release" => Success(q) = 204
<1>1. CASE q.op = "register_resource"
  BY <1>1 DEF Success
<1>2. CASE q.op \in {"release", "force_release", "delete_resource"}
  BY <1>2 DEF Success
<1>3. CASE q.op \notin {"register_resource", "release", "force_release", "delete_resource"}
  BY <1>3 DEF Success
<1> QED
  BY <1>1, <1>2, <1>3

-----------------------------------------------------------------------------
(* Every step keeps the invariant *)

\* A step that moves one handler keeps the invariant, if it does for that
\* handler and for the grants that have ended.
LEMMA MoveKeepsInv ==
  ASSUME ApiInv, [StoreNext]_storeVars, NEW w \in Workers,
         handler' \in [Workers -> HandlerStates],
         \A v \in Workers : v # w => handler'[v] = handler[v],
         HandlerOK(w)', clock' = clock, up' = up, over' \subseteq Endings, OverOK'
  PROVE  ApiInv'
<1>1. FencingInv'
  BY FencingInvInductive DEF ApiInv
<1>2. ApiTypeOK'
  BY DEF ApiInv, ApiTypeOK
<1>3. clock' \in Instants /\ clock <= clock'
  BY ApiAssumption DEF ApiInv, ApiTypeOK
<1>4. \A v \in Workers : HandlerOK(v)'
  BY <1>3, OthersKeepOK
<1> QED
  BY <1>1, <1>2, <1>4 DEF ApiInv

\* While the tables, the clock and the endings stand still, the endings stay
\* right, unless a handler comes to the store with a renewal.
LEMMA QuietEnds ==
  ASSUME ApiInv, UNCHANGED <<leases, fencing_counters, clock, over>>, NEW w \in Workers,
         \A v \in Workers : v # w => handler'[v] = handler[v],
         \A e \in over : MayRevive(w, e)' => Gone(e.resource, e.grant, handler'[w].now)
  PROVE  OverOK'
<1> SUFFICES ASSUME NEW e \in over
             PROVE  /\ (e.grant.token < NextToken(e.resource))'
                    /\ Gone(e.resource, e.grant, clock)'
                    /\ \A v \in Workers :
                         MayRevive(v, e)' => Gone(e.resource, e.grant, handler[v].now)'
  BY DEF OverOK
<1>1. /\ e.grant.token < NextToken(e.resource) /\ Gone(e.resource, e.grant, clock)
      /\ \A v \in Workers : MayRevive(v, e) => Gone(e.resource, e.grant, handler[v].now)
  BY DEF ApiInv, OverOK
<1>2. \A r, g, t : Gone(r, g, t)' <=> Gone(r, g, t)
  BY DEF Gone, Live, Leased
<1>3. ASSUME NEW v \in Workers, MayRevive(v, e)'
      PROVE  Gone(e.resource, e.grant, handler'[v].now)
  <2>1. CASE v = w
    BY <1>3, <2>1
  <2>2. CASE v # w
    BY <1>1, <1>3, <2>2 DEF MayRevive, Request
  <2> QED
    BY <2>1, <2>2
<1> QED
  BY <1>1, <1>2, <1>3 DEF NextToken, Gone, Live, Leased

\* An accepted request arrives.
LEMMA ReceiveKeepsInv ==
  ASSUME ApiInv, NEW w \in Workers, NEW q \in Accepted, Receive(w, q)
  PROVE  ApiInv'
<1> DEFINE state == [stage |-> StageAfter(q, "received"), request |-> q,
                     newest |-> NewestTokens, seen |-> 0, now |-> 0]
<1>1. /\ handler' = [handler EXCEPT ![w] = state]
      /\ UNCHANGED <<leases, fencing_counters, resources, issued, clock, up, over>>
  BY DEF Receive, storeVars
<1>2. FencingInv /\ ApiTypeOK
  BY DEF ApiInv
<1>3. state.stage =
        IF FlagsLeases(q) THEN "clock" ELSE IF ManagerReads(q) THEN "manager" ELSE "call"
  BY StageOrder
<1>4. state \in Waiting /\ state.request = q /\ state.newest = NewestTokens
  BY <1>2, <1>3, NewestTokensAreIssued, ApiAssumption DEF Waiting, Pending
<1> HIDE DEF state
<1>5. /\ handler' \in [Workers -> HandlerStates]
      /\ handler'[w] = state
      /\ \A v \in Workers : v # w => handler'[v] = handler[v]
  BY <1>1, <1>2, <1>4 DEF ApiTypeOK, HandlerStates
<1>6. HandlerOK(w)'
  <2>1. NewestOK(w)'
    BY <1>1, <1>2, <1>4, <1>5, NewestTokensAreIssued DEF NewestOK, NextToken
  <2>2. ReadingsOK(w)' /\ CurrentOK(w)'
    BY <1>3, <1>4, <1>5 DEF ReadingsOK, CurrentOK, Request
  <2> QED
    BY <2>1, <2>2 DEF HandlerOK
<1>7. OverOK'
  <2>1. \A e \in over : ~MayRevive(w, e)'
    BY <1>3, <1>4, <1>5 DEF MayRevive, Renews, Request, FlagsLeases
  <2> QED
    BY <1>1, <1>5, <2>1, QuietEnds
<1> QED
  BY <1>1, <1>2, <1>5, <1>6, <1>7, MoveKeepsInv DEF ApiTypeOK, storeVars

\* A status in the hands of w is well formed and tells nothing else.
LEMMA RepliesWellFormed ==
  ASSUME ApiTypeOK, NEW w \in Workers, NEW status \in Nat, Replies(w, status)
  PROVE  /\ handler' \in [Workers -> HandlerStates]
         /\ \A v \in Workers : v # w => handler'[v] = handler[v]
         /\ handler'[w].stage = "status"
         /\ HandlerOK(w)'
<1> DEFINE state == [stage |-> "status", status |-> status]
<1>1. handler' = [handler EXCEPT ![w] = state]
  BY DEF Replies
<1>2. state \in Replied /\ state.stage = "status"
  BY DEF Replied
<1> HIDE DEF state
<1>3. handler' \in [Workers -> HandlerStates] /\ handler'[w] = state
      /\ \A v \in Workers : v # w => handler'[v] = handler[v]
  BY <1>1, <1>2 DEF ApiTypeOK, HandlerStates
<1> QED
  BY <1>2, <1>3 DEF HandlerOK, NewestOK, ReadingsOK, CurrentOK, Pending

\* A request with bad arguments is turned away.
LEMMA TurnAwayKeepsInv ==
  ASSUME ApiInv, NEW w \in Workers, NEW status \in Refusals, TurnAway(w, status)
  PROVE  ApiInv'
<1>1. Replies(w, status)
      /\ UNCHANGED <<leases, fencing_counters, resources, issued, clock, up, over>>
  BY DEF TurnAway, storeVars
<1>2. status \in Nat
  BY ErrorStatus DEF Refusals
<1>3. /\ handler' \in [Workers -> HandlerStates]
      /\ \A v \in Workers : v # w => handler'[v] = handler[v]
      /\ handler'[w].stage = "status"
      /\ HandlerOK(w)'
  BY <1>1, <1>2, RepliesWellFormed DEF ApiInv
<1>4. OverOK'
  <2>1. \A e \in over : ~MayRevive(w, e)'
    BY <1>3 DEF MayRevive
  <2> QED
    BY <1>1, <1>3, <2>1, QuietEnds
<1> QED
  BY <1>1, <1>3, <1>4, MoveKeepsInv DEF ApiInv, ApiTypeOK, storeVars

\* The handler reads the clock for the flags, and goes on to another reading or
\* to the store.
LEMMA ReadClockKeepsInv ==
  ASSUME ApiInv, NEW w \in Workers, ReadClock(w)
  PROVE  ApiInv'
<1> DEFINE next == StageAfter(Request(w), "clock")
<1>1. /\ handler[w].stage = "clock"
      /\ handler' = [handler EXCEPT ![w].seen = clock, ![w].stage = next]
      /\ UNCHANGED <<leases, fencing_counters, resources, issued, clock, up, over>>
  BY DEF ReadClock, AtStage, storeVars
<1>2. next = IF ManagerReads(Request(w)) THEN "manager" ELSE "call"
  BY StageOrder
<1>3. handler[w] \in Waiting /\ clock \in Instants /\ handler \in [Workers -> HandlerStates]
  BY <1>1, HandlerShape DEF Pending, ApiInv, ApiTypeOK
<1> HIDE DEF next
<1>4. /\ handler'[w].stage = next /\ handler'[w].seen = clock
      /\ handler'[w].request = handler[w].request
      /\ handler'[w].newest = handler[w].newest
  BY <1>1, <1>3 DEF Waiting
<1>5. handler'[w] \in Waiting
  BY <1>1, <1>2, <1>3 DEF Waiting, Pending
<1>6. \A v \in Workers : v # w => handler'[v] = handler[v]
  BY <1>1, <1>3
<1>7. handler' \in [Workers -> HandlerStates]
  <2>1. DOMAIN handler' = Workers /\ handler' = [v \in Workers |-> handler'[v]]
    BY <1>1, <1>3
  <2> QED
    BY <1>3, <1>5, <1>6, <2>1 DEF HandlerStates
<1>8. HandlerOK(w)'
  <2>1. NewestOK(w)
    BY DEF ApiInv, HandlerOK
  <2>2. NewestOK(w)'
    BY <1>1, <1>4, <2>1 DEF NewestOK, NextToken, Pending
  <2>3. ReadingsOK(w)' /\ CurrentOK(w)'
    BY <1>1, <1>2, <1>3, <1>4, ApiAssumption DEF ReadingsOK, CurrentOK, Request
  <2> QED
    BY <2>2, <2>3 DEF HandlerOK
<1>9. OverOK'
  <2>1. \A e \in over : ~MayRevive(w, e)'
    BY <1>2, <1>4 DEF MayRevive, Renews, Request, ManagerReads, IsQuery, UsesClock
  <2> QED
    BY <1>1, <1>6, <2>1, QuietEnds
<1> QED
  BY <1>1, <1>6, <1>7, <1>8, <1>9, MoveKeepsInv DEF ApiInv, ApiTypeOK, storeVars

\* The manager reads the clock for the store: what is gone is gone at that
\* instant.
LEMMA ManagerKeepsInv ==
  ASSUME ApiInv, NEW w \in Workers, CallManager(w)
  PROVE  ApiInv'
<1>1. /\ handler[w].stage = "manager"
      /\ handler' = [handler EXCEPT ![w].now = clock, ![w].stage = "call"]
      /\ UNCHANGED <<leases, fencing_counters, resources, issued, clock, up, over>>
  BY StageOrder DEF CallManager, AtStage, storeVars
<1>2. handler[w] \in Waiting /\ clock \in Instants /\ handler \in [Workers -> HandlerStates]
  BY <1>1, HandlerShape DEF Pending, ApiInv, ApiTypeOK
<1>3. /\ handler'[w].stage = "call" /\ handler'[w].now = clock
      /\ handler'[w].request = handler[w].request
      /\ handler'[w].newest = handler[w].newest
      /\ handler'[w].seen = handler[w].seen
  BY <1>1, <1>2 DEF Waiting
<1>4. handler'[w] \in Waiting
  BY <1>1, <1>2 DEF Waiting, Pending
<1>5. \A v \in Workers : v # w => handler'[v] = handler[v]
  BY <1>1, <1>2
<1>6. handler' \in [Workers -> HandlerStates]
  <2>1. DOMAIN handler' = Workers /\ handler' = [v \in Workers |-> handler'[v]]
    BY <1>1, <1>2
  <2> QED
    BY <1>2, <1>4, <1>5, <2>1 DEF HandlerStates
<1>7. HandlerOK(w)'
  <2>1. NewestOK(w) /\ ReadingsOK(w)
    BY DEF ApiInv, HandlerOK
  <2>2. NewestOK(w)'
    BY <1>1, <1>3, <2>1 DEF NewestOK, NextToken, Pending
  <2>3. ReadingsOK(w)' /\ CurrentOK(w)'
    BY <1>1, <1>2, <1>3, <2>1, ApiAssumption DEF ReadingsOK, CurrentOK, Request
  <2> QED
    BY <2>2, <2>3 DEF HandlerOK
<1>8. OverOK'
  <2>1. \A e \in over : Gone(e.resource, e.grant, handler'[w].now)
    BY <1>3 DEF ApiInv, OverOK
  <2> QED
    BY <1>1, <1>5, <2>1, QuietEnds
<1> QED
  BY <1>1, <1>5, <1>6, <1>7, <1>8, MoveKeepsInv DEF ApiInv, ApiTypeOK, storeVars

-----------------------------------------------------------------------------
(* The store and the answer *)

\* An answer with leases or a token is well formed and as new as its request.
LEMMA ShowsWellFormed ==
  ASSUME ApiInv, NEW w \in Workers, handler[w].stage = "call",
         NEW status \in {200, 409}, NEW shown \in SUBSET ShownLeases, NEW next \in Nat,
         Shows(w, status, shown, next),
         \A l \in shown : l.token >= handler[w].newest[l.resource],
         Request(w).op = "fencing" /\ status = 200 =>
           next > handler[w].newest[Request(w).resource]
  PROVE  /\ handler' \in [Workers -> HandlerStates]
         /\ \A v \in Workers : v # w => handler'[v] = handler[v]
         /\ handler'[w].stage = "answer"
         /\ HandlerOK(w)'
<1> DEFINE state == [stage |-> "answer", request |-> handler[w].request,
                     newest |-> handler[w].newest, seen |-> handler[w].seen, ran |-> clock,
                     status |-> status, shown |-> shown, next |-> next]
<1>1. handler' = [handler EXCEPT ![w] = state]
  BY StageOrder DEF Shows
<1>2. handler[w] \in Waiting /\ clock \in Instants
  BY HandlerShape DEF ApiInv, ApiTypeOK, Pending
<1>3. /\ state \in Showing /\ state.request = handler[w].request
      /\ state.stage = "answer" /\ state.status = status /\ state.shown = shown
      /\ state.newest = handler[w].newest /\ state.next = next
  BY <1>2 DEF Waiting, Showing
<1> HIDE DEF state
<1>4. handler' \in [Workers -> HandlerStates] /\ handler'[w] = state
      /\ \A v \in Workers : v # w => handler'[v] = handler[v]
  BY <1>1, <1>3 DEF ApiInv, ApiTypeOK, HandlerStates
<1>5. CurrentOK(w)'
  BY <1>3, <1>4 DEF CurrentOK, Request
<1>6. NewestOK(w)' /\ ReadingsOK(w)'
  BY <1>3, <1>4 DEF NewestOK, ReadingsOK, Pending
<1> QED
  BY <1>3, <1>4, <1>5, <1>6 DEF HandlerOK

\* A row of the table, shown in an answer, is typed and as new as the request.
LEMMA RowsAreCurrent ==
  ASSUME ApiInv, [StoreNext]_storeVars, NEW w \in Workers, handler[w].stage = "call",
         NEW r \in DOMAIN leases'
  PROVE  /\ Row(leases', r) \in ShownLeases
         /\ Row(leases', r).resource = r
         /\ Row(leases', r).until = leases'[r].expires_at
         /\ Row(leases', r).token >= handler[w].newest[Row(leases', r).resource]
<1>1. FencingInv /\ FencingInv'
  BY FencingInvInductive DEF ApiInv
<1>2. r \in Resources /\ leases'[r] \in LeaseRow
  BY <1>1 DEF FencingInv, TypeOK
<1>3. /\ NextToken(r) \in Nat /\ NextToken(r)' \in Nat /\ NextToken(r) <= NextToken(r)'
  BY <1>1, <1>2, NextTokenGrows
<1>4. leases'[r].fencing_token \in Int /\ NextToken(r)' = leases'[r].fencing_token + 1
  <2>1. leases'[r].fencing_token \in Int
    BY <1>2, StoreAssumption DEF LeaseRow, Tokens
  <2>2. r \in DOMAIN fencing_counters'
        /\ fencing_counters'[r] = leases'[r].fencing_token + 1
    BY <1>1 DEF FencingInv, RowIsNewestGrant
  <2> QED
    BY <2>1, <2>2 DEF NextToken
<1>5. handler[w].newest[r] \in Nat /\ handler[w].newest[r] < NextToken(r)
  BY <1>2, HandlerShape DEF ApiInv, HandlerOK, NewestOK, Waiting, Pending
<1>6. leases'[r].fencing_token >= handler[w].newest[r]
  BY <1>3, <1>4, <1>5
<1> QED
  BY <1>2, <1>6 DEF Row, ShownLeases, LeaseRow

\* A successful answer shows rows of the table as its transaction left it.
LEMMA ShownAreRows ==
  ASSUME ApiInv, NEW w \in Workers, AtStage(w, "call"), FlagsLeases(Request(w)),
         Verdict(Request(w), handler[w].now) = "ok",
         IF IsQuery(Request(w)) THEN UNCHANGED storeVars
         ELSE Transaction(Request(w), handler[w].now),
         NEW l \in Shown(Request(w), handler[w].now, leases')
  PROVE  \E r \in DOMAIN leases' : l = Row(leases', r)
<1> DEFINE q == Request(w)
           now == handler[w].now
<1>1. CASE q.op \in {"acquire", "renew", "transfer"}
  <2>1. Transaction(q, now)
    BY <1>1 DEF IsQuery
  <2>2. q.resource \in DOMAIN leases'
    BY <1>1, <2>1 DEF Transaction, Acquire, Renew, Transfer, PutGrant, Upsert
  <2>3. l \in {Row(leases', q.resource)}
    BY <1>1 DEF Shown
  <2> QED
    BY <2>2, <2>3
<1>2. CASE q.op = "info"
  <2>1. leases' = leases
    BY <1>2 DEF IsQuery, storeVars
  <2>2. Leased(q.resource)
    BY <1>2 DEF Verdict
  <2>3. l \in {Row(leases', q.resource)}
    BY <1>2 DEF Shown
  <2> QED
    BY <2>1, <2>2, <2>3 DEF Leased
<1>3. CASE q.op = "list"
  BY <1>3 DEF Shown, Rows
<1>4. CASE q.op = "expired"
  BY <1>4 DEF Shown, Rows
<1>5. CASE q.op = "holder_leases"
  BY <1>5 DEF Shown, Rows
<1> QED
  BY <1>1, <1>2, <1>3, <1>4, <1>5 DEF FlagsLeases

\* Only an acquisition conflicts, with a row that is there.
LEMMA ConflictIsARow ==
  ASSUME NEW q, NEW now, Verdict(q, now) = "conflict"
  PROVE  q.op = "acquire" /\ q.resource \in DOMAIN leases /\ leases[q.resource].expires_at > now
<1>1. CASE q.op = "acquire"
  <2>1. Verdict(q, now) = AcquireVerdict(q.resource, q.ttl, now)
    BY <1>1 DEF Verdict
  <2> QED
    BY <1>1, <2>1 DEF AcquireVerdict, Live, Leased
<1>2. CASE q.op \in {"renew", "transfer"}
  <2>1. Verdict(q, now) = ExtendVerdict(q.resource, q.holder, q.token, q.ttl, now)
    BY <1>2 DEF Verdict
  <2> QED
    BY <2>1 DEF ExtendVerdict, HolderVerdict
<1>3. CASE q.op = "release"
  <2>1. Verdict(q, now) = HolderVerdict(q.resource, q.holder, q.token, now)
    BY <1>3 DEF Verdict
  <2> QED
    BY <2>1 DEF HolderVerdict
<1>4. CASE q.op = "delete_resource"
  <2>1. Verdict(q, now) = DeleteVerdict(q.resource, now)
    BY <1>4 DEF Verdict
  <2> QED
    BY <2>1 DEF DeleteVerdict
<1>5. CASE q.op \in {"update_resource", "get_resource"}
  <2>1. Verdict(q, now) = IF q.resource \in DOMAIN resources THEN "ok" ELSE "not_found"
    BY <1>5 DEF Verdict
  <2> QED
    BY <2>1
<1>6. CASE q.op \in {"force_release", "info"}
  <2>1. Verdict(q, now) = IF Leased(q.resource) THEN "ok" ELSE "no_lease"
    BY <1>6 DEF Verdict
  <2> QED
    BY <2>1
<1>7. CASE q.op \notin {"acquire", "renew", "transfer", "release", "delete_resource",
                        "update_resource", "get_resource", "force_release", "info"}
  <2>1. Verdict(q, now) = "ok"
    BY <1>7 DEF Verdict
  <2> QED
    BY <2>1
<1> QED
  BY <1>1, <1>2, <1>3, <1>4, <1>5, <1>6, <1>7

\* What the call of w leaves in its handler.
Answered(w) ==
  /\ handler' \in [Workers -> HandlerStates]
  /\ \A v \in Workers : v # w => handler'[v] = handler[v]
  /\ handler'[w].stage \in {"answer", "status"}
  /\ HandlerOK(w)'

\* A call at the store has these parts.
LEMMA AtStore ==
  ASSUME ApiInv, NEW w \in Workers, CallStore(w)
  PROVE  /\ [StoreNext]_storeVars
         /\ AtStage(w, "call")
         /\ handler[w].stage = "call"
         /\ handler[w].stage \in Pending
         /\ handler[w] \in Waiting
         /\ Request(w) \in Accepted
         /\ handler[w].now \in Int
         /\ UNCHANGED <<clock, up>>
         /\ FencingInv /\ ApiTypeOK
<1>1. [StoreNext]_storeVars /\ AtStage(w, "call") /\ UNCHANGED <<clock, up>>
  BY CallIsStoreStep DEF CallStore
<1>2. handler[w].stage = "call" /\ FencingInv /\ ApiTypeOK
  BY <1>1 DEF AtStage, ApiInv
<1>3. handler[w].stage \in Pending
  BY <1>2 DEF Pending
<1>4. handler[w] \in Waiting /\ Request(w) \in Accepted
  BY <1>2, <1>3, HandlerShape
<1>5. handler[w].now \in Int
  <2>1. handler[w].now \in Instants
    BY <1>4 DEF Waiting
  <2>2. \A i \in Instants : i \in Int
    BY ApiAssumption
  <2> QED
    BY <2>1, <2>2
<1> QED
  BY <1>1, <1>2, <1>3, <1>4, <1>5

\* A refusal is answered with a status or with the lease in the way.
LEMMA RefuseAnswers ==
  ASSUME ApiInv, NEW w \in Workers, CallStore(w), Refuse(w)
  PROVE  Answered(w)
<1> DEFINE verdict == Verdict(Request(w), handler[w].now)
<1>1. [StoreNext]_storeVars /\ handler[w].stage = "call" /\ leases' = leases
  BY AtStore DEF Refuse, storeVars
<1>2. CASE verdict = "conflict"
  <2>1. Request(w).op = "acquire" /\ Request(w).resource \in DOMAIN leases'
    BY <1>1, <1>2, ConflictIsARow
  <2>2. Shows(w, 409, {Row(leases', Request(w).resource)}, 0)
    BY <1>1, <1>2 DEF Refuse
  <2>3. /\ handler' \in [Workers -> HandlerStates]
        /\ \A v \in Workers : v # w => handler'[v] = handler[v]
        /\ handler'[w].stage = "answer"
        /\ HandlerOK(w)'
    BY <1>1, <2>1, <2>2, RowsAreCurrent, ShowsWellFormed
  <2> QED
    BY <2>3 DEF Answered
<1>3. CASE verdict # "conflict"
  <2>1. PICK status \in Nat : status = StatusOf(verdict)
    BY ErrorStatus
  <2>2. Replies(w, status)
    BY <1>3, <2>1 DEF Refuse
  <2> QED
    BY <2>2, RepliesWellFormed DEF Answered, ApiInv
<1> QED
  BY <1>2, <1>3

\* A success shows what the transaction left.
LEMMA SucceedAnswers ==
  ASSUME ApiInv, NEW w \in Workers, CallStore(w), Succeed(w)
  PROVE  Answered(w)
<1> DEFINE q == Request(w)
           now == handler[w].now
<1>1. [StoreNext]_storeVars /\ handler[w].stage = "call" /\ AtStage(w, "call")
      /\ handler[w].stage \in Pending /\ handler[w] \in Waiting /\ q \in Accepted
      /\ FencingInv
  BY AtStore
<1>2. /\ Verdict(q, now) = "ok"
      /\ IF IsQuery(q) THEN UNCHANGED storeVars ELSE Transaction(q, now)
  BY DEF Succeed
<1>3. CASE FlagsLeases(q)
  <2> DEFINE shown == Shown(q, now, leases')
  <2>1. Shows(w, 200, shown, 0)
    BY <1>3 DEF Succeed
  <2>2. \A l \in shown : \E r \in DOMAIN leases' : l = Row(leases', r)
    BY <1>1, <1>2, <1>3, ShownAreRows
  <2> HIDE DEF shown
  <2>3. \A l \in shown : l \in ShownLeases /\ l.token >= handler[w].newest[l.resource]
    BY <1>1, <2>2, RowsAreCurrent
  <2>4. shown \in SUBSET ShownLeases /\ q.op # "fencing"
    BY <1>3, <2>3 DEF FlagsLeases
  <2> QED
    BY <1>1, <2>1, <2>3, <2>4, ShowsWellFormed DEF Answered
<1>4. CASE q.op = "fencing"
  <2>1. Shows(w, 200, {}, NextToken(q.resource)) /\ q.resource \in Resources
    BY <1>1, <1>4, AcceptedQuery DEF Succeed, FlagsLeases
  <2>2. NextToken(q.resource) \in Nat /\ handler[w].newest[q.resource] \in Nat
        /\ handler[w].newest[q.resource] < NextToken(q.resource)
    BY <1>1, <2>1, NextTokenBounds DEF ApiInv, HandlerOK, NewestOK, Waiting
  <2>3. PICK next \in Nat : next = NextToken(q.resource)
    BY <2>2
  <2>4. Shows(w, 200, {}, next) /\ next > handler[w].newest[q.resource]
    BY <2>1, <2>2, <2>3
  <2> QED
    BY <1>1, <2>4, ShowsWellFormed DEF Answered
<1>5. CASE ~FlagsLeases(q) /\ q.op # "fencing"
  <2>1. PICK status \in Nat : status = Success(q)
    BY SuccessStatus
  <2>2. Replies(w, status)
    BY <1>5, <2>1 DEF Succeed
  <2> QED
    BY <2>2, RepliesWellFormed DEF Answered, ApiInv
<1> QED
  BY <1>3, <1>4, <1>5

\* However a call ends, its handler has an answer.
LEMMA CallAnswers ==
  ASSUME ApiInv, NEW w \in Workers, CallStore(w)
  PROVE  Answered(w)
<1>1. CASE Fail(w)
  <2>1. PICK status \in Nat : status = 500
    OBVIOUS
  <2>2. Replies(w, status)
    BY <1>1, <2>1 DEF Fail
  <2> QED
    BY <2>2, RepliesWellFormed DEF Answered, ApiInv
<1> QED
  BY <1>1, SucceedAnswers, RefuseAnswers DEF CallStore

-----------------------------------------------------------------------------
(* Endings *)

\* A call that presents a grant and is refused for another reason than the cap
\* has found the grant gone: at its own reading of the clock if it had expired,
\* and at every instant otherwise.
LEMMA RefusedGrantIsGone ==
  ASSUME ApiInv, NEW w \in Workers, CallStore(w), Request(w).op \in TokenOps, NEW t \in Int,
         LET verdict == Verdict(Request(w), handler[w].now)
         IN  \/ verdict \in {"holder_mismatch", "token_mismatch", "no_lease", "not_found"}
             \/ verdict = "expired" /\ handler[w].now <= t
  PROVE  Gone(Request(w).resource, GrantOf(Request(w)), t)
<1> DEFINE q == Request(w)
           now == handler[w].now
           verdict == HolderVerdict(q.resource, q.holder, q.token, now)
<1>1. now \in Int /\ FencingInv
  BY AtStore
<1>2. \/ verdict \in {"holder_mismatch", "token_mismatch", "no_lease"}
      \/ verdict = "expired" /\ now <= t
  <2>1. CASE q.op \in {"renew", "transfer"}
    <3>1. Verdict(q, now) = ExtendVerdict(q.resource, q.holder, q.token, q.ttl, now)
      BY <2>1 DEF Verdict
    <3> QED
      BY <3>1 DEF ExtendVerdict, HolderVerdict
  <2>2. CASE q.op = "release"
    <3>1. Verdict(q, now) = HolderVerdict(q.resource, q.holder, q.token, now)
      BY <2>2 DEF Verdict
    <3> QED
      BY <3>1 DEF HolderVerdict
  <2> QED
    BY <2>1, <2>2 DEF TokenOps
<1> HIDE DEF q, now
<1> SUFFICES ASSUME Live(q.resource, t),
                    GrantOf(q) = [holder |-> leases[q.resource].holder,
                                  token |-> leases[q.resource].fencing_token]
             PROVE  FALSE
  BY DEF Gone, q
<1>3. q.holder = leases[q.resource].holder /\ q.token = leases[q.resource].fencing_token
  BY DEF GrantOf
<1>4. q.resource \in DOMAIN leases /\ leases[q.resource].expires_at > t
  BY DEF Live, Leased
<1>5. leases[q.resource].expires_at \in Int
  BY <1>1, <1>4, StoreAssumption DEF FencingInv, TypeOK, LeaseRow, Int64
<1>6. now <= t => ~(leases[q.resource].expires_at <= now)
  BY <1>1, <1>4, <1>5
<1> QED
  BY <1>2, <1>3, <1>4, <1>6 DEF HolderVerdict, Leased

\* A grant that was released or handed over is gone.
LEMMA EndedBySuccess ==
  ASSUME ApiInv, NEW w \in Workers, CallStore(w), Request(w).op \in {"release", "transfer"},
         Transaction(Request(w), handler[w].now),
         NEW r, NEW g, NEW t, r = Request(w).resource, g = GrantOf(Request(w)), g \in issued[r]
  PROVE  Gone(r, g, t)'
<1> SUFFICES ASSUME Live(r, t)',
                    g = [holder |-> leases'[r].holder, token |-> leases'[r].fencing_token]
             PROVE  FALSE
  BY DEF Gone
<1>1. r \in Resources /\ FencingInv
  BY AtStore, NamedGrant DEF TokenOps
<1>2. g.token < NextToken(r) /\ g.token \in Int
  BY <1>1, NextTokenBounds, AtStore, NamedGrant DEF TokenOps
<1>3. CASE Request(w).op = "release"
  <2>1. leases' = Delete(leases, {r})
    BY <1>3 DEF Transaction, Release
  <2> QED
    BY <2>1 DEF Live, Leased, Delete, Restrict
<1>4. CASE Request(w).op = "transfer"
  <2>1. PutGrant(r, Request(w).newHolder, Request(w).ttl, handler[w].now)
    BY <1>4 DEF Transaction, Transfer
  <2>2. leases'[r].fencing_token = NextToken(r)
    BY <2>1 DEF PutGrant, Upsert
  <2>3. g.token = NextToken(r)
    BY <2>2
  <2> QED
    BY <1>1, <1>2, <2>3, NextTokenBounds
<1> QED
  BY <1>3, <1>4

\* A call that tells the end of a grant leaves it gone at every instant, or, when
\* it found the grant expired, at every instant from its own reading on.
LEMMA TellsRightly ==
  ASSUME ApiInv, NEW w \in Workers, CallStore(w),
         NEW r, NEW g, NEW t \in Int, r = Request(w).resource, g = GrantOf(Request(w)),
         NEW status, TellsTheEnd(w, status), status = 410 => handler[w].now <= t,
         \/ Refuse(w) /\ status = StatusOf(Verdict(Request(w), handler[w].now))
         \/ Succeed(w) /\ status = Success(Request(w))
  PROVE  Gone(r, g, t)'
<1> DEFINE q == Request(w)
           verdict == Verdict(q, handler[w].now)
<1>1. q.op \in TokenOps /\ g \in issued[r]
      /\ \/ status \in {403, 404, 410}
         \/ q.op \in {"release", "transfer"} /\ status = Success(q)
  BY DEF TellsTheEnd
<1>2. CASE Refuse(w) /\ status = StatusOf(verdict)
  <2>1. \/ verdict \in {"holder_mismatch", "token_mismatch", "no_lease", "not_found"}
        \/ verdict = "expired" /\ handler[w].now <= t
    <3>1. status \notin {200, 201, 204}
      BY <1>2, ErrorStatus
    <3>2. status # Success(q)
      BY <3>1, SuccessStatus
    <3> QED
      BY <1>1, <1>2, <3>2, ErrorStatus
  <2>2. Gone(r, g, t)
    BY <1>1, <2>1, RefusedGrantIsGone
  <2>3. leases' = leases
    BY <1>2 DEF Refuse, storeVars
  <2> QED
    BY <2>2, <2>3 DEF Gone, Live, Leased
<1>3. CASE Succeed(w) /\ status = Success(q)
  <2>1. status \in {200, 201, 204}
    BY <1>3, SuccessStatus
  <2>2. q.op \in {"release", "transfer"}
    BY <1>1, <2>1
  <2>3. Transaction(q, handler[w].now)
    BY <1>3, <2>2 DEF Succeed, IsQuery
  <2> QED
    BY <1>1, <2>2, <2>3, EndedBySuccess
<1> QED
  BY <1>2, <1>3

\* The grants that a call adds to the endings are issued and gone, also for a
\* renewal that waits.
LEMMA AddedEnding ==
  ASSUME ApiInv, NEW w \in Workers, CallStore(w), NEW e \in over', e \notin over
  PROVE  /\ e \in Endings
         /\ (e.grant.token < NextToken(e.resource))'
         /\ Gone(e.resource, e.grant, clock)'
         /\ \A v \in Workers : MayRevive(v, e)' => Gone(e.resource, e.grant, handler[v].now)'
<1>1. PICK status :
        /\ TellsTheEnd(w, status)
        /\ e = [resource |-> Request(w).resource, grant |-> GrantOf(Request(w))]
        /\ \/ Refuse(w) /\ status = StatusOf(Verdict(Request(w), handler[w].now))
           \/ Succeed(w) /\ status = Success(Request(w))
  BY DEF CallStore, Succeed, Refuse, Fail, Tells
<1>2. PICK r, g : r = Request(w).resource /\ g = GrantOf(Request(w))
  OBVIOUS
<1>3. e.resource = r /\ e.grant = g /\ e = [resource |-> r, grant |-> g]
  BY <1>1, <1>2
<1>4. /\ r \in Resources /\ g \in Grants /\ g.token \in Int /\ g \in issued[r]
      /\ FencingInv /\ [StoreNext]_storeVars
      /\ handler[w].now \in Int /\ clock \in Int /\ clock' = clock /\ handler[w].now <= clock
  <2>1. Request(w).op \in TokenOps /\ g \in issued[r]
    BY <1>1, <1>2 DEF TellsTheEnd
  <2>2. r \in Resources /\ g \in Grants /\ g.token \in Int
    BY <1>2, <2>1, AtStore, NamedGrant
  <2>3. ManagerReads(Request(w))
    BY <2>1 DEF ManagerReads, TokenOps, IsQuery, UsesClock
  <2>4. handler[w].now <= clock
    BY <2>3, AtStore DEF ApiInv, HandlerOK, ReadingsOK
  <2>5. clock \in Int
    BY ApiAssumption DEF ApiInv, ApiTypeOK
  <2> QED
    BY <2>1, <2>2, <2>4, <2>5, AtStore
<1>5. NextToken(r) <= NextToken(r)' /\ g.token < NextToken(r)
      /\ NextToken(r) \in Int /\ NextToken(r)' \in Int
  BY <1>4, NextTokenBounds, NextTokenGrows
<1>6. g.token < NextToken(r)'
  BY <1>4, <1>5
<1>7. Gone(r, g, clock)'
  <2>1. PICK t \in Int : t = clock
    BY <1>4
  <2>2. Gone(r, g, t)'
    BY <1>1, <1>2, <1>4, <2>1, TellsRightly
  <2> QED
    BY <1>4, <2>1, <2>2
<1>8. ASSUME NEW v \in Workers, MayRevive(v, e)'
      PROVE  Gone(r, g, handler[v].now)'
  <2>1. v # w /\ handler'[v] = handler[v]
    BY <1>8, CallAnswers DEF Answered, MayRevive
  <2>2. handler[v].stage = "call" /\ Renews(Request(v), r, g)
    BY <1>3, <1>8, <2>1 DEF MayRevive, Request
  <2>3. PICK t \in Int : t = handler[v].now
    BY <2>2, HandlerShape, ApiAssumption DEF ApiInv, Pending, Waiting
  <2>4. ASSUME status = 410 PROVE handler[w].now <= t
    <3>1. ~RenewalOnItsWay(w)
      BY <1>1, <2>4, SuccessStatus DEF TellsTheEnd
    <3>2. ~(handler[v].now < handler[w].now)
      BY <1>2, <2>2, <3>1 DEF RenewalOnItsWay, Renews
    <3> QED
      BY <1>4, <2>3, <3>2
  <2>5. Gone(r, g, t)'
    BY <1>1, <1>2, <2>4, TellsRightly
  <2> QED
    BY <2>1, <2>3, <2>5
<1> QED
  BY <1>3, <1>4, <1>6, <1>7, <1>8 DEF Endings, NextToken, Gone, Live, Leased

\* The transaction of one handler brings back no grant whose end was told: a
\* renewal that is on its way finds it gone at its own reading of the clock.
LEMMA StoreKeepsInv ==
  ASSUME ApiInv, NEW w \in Workers, CallStore(w)
  PROVE  ApiInv'
<1>1. /\ [StoreNext]_storeVars /\ handler[w].stage = "call" /\ FencingInv /\ ApiTypeOK
      /\ UNCHANGED <<clock, up>>
  BY AtStore
<1>2. Answered(w)
  BY CallAnswers
<1>3. over' \subseteq Endings
  BY <1>1, AddedEnding DEF ApiTypeOK
<1>4. OverOK'
  <2> SUFFICES ASSUME NEW e \in over, e \in over'
               PROVE  /\ (e.grant.token < NextToken(e.resource))'
                      /\ Gone(e.resource, e.grant, clock)'
                      /\ \A v \in Workers :
                           MayRevive(v, e)' => Gone(e.resource, e.grant, handler[v].now)'
    BY AddedEnding DEF OverOK
  <2>1. /\ e.resource \in Resources /\ e.grant.token \in Int
        /\ e.grant.token < NextToken(e.resource) /\ Gone(e.resource, e.grant, clock)
        /\ \A v \in Workers : MayRevive(v, e) => Gone(e.resource, e.grant, handler[v].now)
    BY <1>1, StoreAssumption DEF ApiInv, OverOK, ApiTypeOK, Endings, Grants, Tokens
  <2>2. Renews(Request(w), e.resource, e.grant) => Gone(e.resource, e.grant, handler[w].now)
    BY <1>1, <2>1 DEF MayRevive
  <2>3. ASSUME NEW t, Gone(e.resource, e.grant, t) PROVE Gone(e.resource, e.grant, t)'
    BY <2>1, <2>2, <2>3, GoneStaysInCall
  <2>4. (e.grant.token < NextToken(e.resource))'
    <3>1. PICK r, g : r = e.resource /\ g = e.grant
      OBVIOUS
    <3>2. NextToken(r) <= NextToken(r)' /\ g.token < NextToken(r)
          /\ NextToken(r) \in Int /\ NextToken(r)' \in Int
      BY <1>1, <2>1, <3>1, NextTokenGrows
    <3>3. g.token < NextToken(r)'
      BY <2>1, <3>1, <3>2
    <3> QED
      BY <3>1, <3>3
  <2>5. PICK t : t = clock
    OBVIOUS
  <2>6. Gone(e.resource, e.grant, clock)'
    BY <1>1, <2>1, <2>3, <2>5
  <2>7. ASSUME NEW v \in Workers, MayRevive(v, e)'
        PROVE  Gone(e.resource, e.grant, handler[v].now)'
    <3>1. v # w /\ handler'[v] = handler[v]
      BY <1>2, <2>7 DEF Answered, MayRevive
    <3>2. MayRevive(v, e)
      BY <2>7, <3>1 DEF MayRevive, Request
    <3>3. PICK i : i = handler[v].now
      OBVIOUS
    <3>4. Gone(e.resource, e.grant, i)'
      BY <2>1, <2>3, <3>2, <3>3
    <3> QED
      BY <3>1, <3>3, <3>4
  <2> QED
    BY <2>4, <2>6, <2>7
<1> QED
  BY <1>1, <1>2, <1>3, <1>4, MoveKeepsInv DEF Answered

\* The answer reaches its client, or is lost.
LEMMA AnswerKeepsInv ==
  ASSUME ApiInv, NEW w \in Workers, Answer(w)
  PROVE  ApiInv'
<1>1. /\ handler' = [handler EXCEPT ![w] = Idle]
      /\ UNCHANGED <<leases, fencing_counters, resources, issued, clock, up, over>>
  BY DEF Answer, storeVars
<1>2. /\ handler' \in [Workers -> HandlerStates]
      /\ handler'[w] = Idle
      /\ \A v \in Workers : v # w => handler'[v] = handler[v]
  BY <1>1 DEF ApiInv, ApiTypeOK, HandlerStates
<1>3. HandlerOK(w)'
  BY <1>2 DEF HandlerOK, NewestOK, ReadingsOK, CurrentOK, Idle, Pending
<1>4. OverOK'
  <2>1. \A e \in over : ~MayRevive(w, e)'
    BY <1>2 DEF MayRevive, Idle
  <2> QED
    BY <1>1, <1>2, <2>1, QuietEnds
<1> QED
  BY <1>1, <1>2, <1>3, <1>4, MoveKeepsInv DEF ApiInv, ApiTypeOK, storeVars

\* Time passes, the process ends, or it starts with its recovery sweep.
LEMMA ProcessKeepsInv ==
  ASSUME ApiInv, [StoreNext]_storeVars, Tick \/ Exit \/ Start
  PROVE  ApiInv'
<1>1. FencingInv /\ ApiTypeOK /\ OverOK /\ \A w \in Workers : HandlerOK(w)
  BY DEF ApiInv
<1>2. FencingInv'
  BY <1>1, FencingInvInductive
<1>3. CASE Exit
  <2>1. /\ handler' = [w \in Workers |-> Idle] /\ up' = FALSE
        /\ UNCHANGED <<leases, fencing_counters, resources, issued, clock, over>>
    BY <1>3 DEF Exit, storeVars
  <2>2. \A w \in Workers : handler'[w] = Idle
    BY <2>1
  <2>3. ApiTypeOK'
    BY <1>1, <2>1 DEF ApiTypeOK, HandlerStates
  <2>4. \A w \in Workers : HandlerOK(w)'
    BY <2>2 DEF HandlerOK, NewestOK, ReadingsOK, CurrentOK, Idle, Pending
  <2>5. OverOK'
    <3>1. \A w \in Workers, e \in over : ~MayRevive(w, e)'
      BY <2>2 DEF MayRevive, Idle
    <3>2. \A e \in over : (e.grant.token < NextToken(e.resource))'
                          /\ Gone(e.resource, e.grant, clock)'
      BY <1>1, <2>1 DEF OverOK, NextToken, Gone, Live, Leased
    <3> QED
      BY <2>1, <3>1, <3>2 DEF OverOK
  <2> QED
    BY <1>2, <2>3, <2>4, <2>5 DEF ApiInv
<1>4. CASE Tick \/ Start
  <2>1. /\ UNCHANGED <<handler, over>> /\ up' \in BOOLEAN
        /\ clock' \in Instants /\ clock <= clock'
    <3>1. clock \in Instants /\ up \in BOOLEAN /\ \A i \in Instants : i \in Int
      BY <1>1, ApiAssumption DEF ApiTypeOK
    <3>2. CASE Tick
      <4>1. clock' \in Instants /\ clock' > clock
        BY <3>2 DEF Tick
      <4>2. clock <= clock'
        BY <3>1, <4>1
      <4> QED
        BY <3>1, <3>2, <4>1, <4>2 DEF Tick
    <3>3. CASE Start
      BY <3>1, <3>3 DEF Start
    <3> QED
      BY <1>4, <3>2, <3>3
  <2>2. clock \in Int /\ clock' \in Int
    BY <1>1, <2>1, ApiAssumption DEF ApiTypeOK
  <2>3. ApiTypeOK'
    BY <1>1, <2>1 DEF ApiTypeOK
  <2>4. ASSUME NEW r \in Resources, NEW g, NEW t, Gone(r, g, t)
        PROVE  Gone(r, g, t)'
    <3>1. CASE Tick
      BY <2>4, <3>1 DEF Tick, storeVars, Gone, Live, Leased
    <3>2. CASE Start
      BY <2>4, <3>2 DEF Start, Sweep, Delete, Restrict, Gone, Live, Leased
    <3> QED
      BY <1>4, <3>1, <3>2
  <2>5. ASSUME NEW r \in Resources, NEW g, Gone(r, g, clock)
        PROVE  Gone(r, g, clock)'
    <3>1. PICK t \in Int, later \in Int : t = clock /\ later = clock'
      BY <2>2
    <3>2. Gone(r, g, later)
      BY <1>1, <2>1, <2>5, <3>1, GoneLater
    <3>3. Gone(r, g, later)'
      BY <2>4, <3>2
    <3> QED
      BY <3>1, <3>3 DEF Gone, Live, Leased
  <2>6. \A v \in Workers : HandlerOK(v)'
    BY <2>1, OthersKeepOK
  <2>7. OverOK'
    <3> SUFFICES ASSUME NEW e \in over
                 PROVE  /\ e.grant.token < NextToken(e.resource)'
                        /\ Gone(e.resource, e.grant, clock)'
                        /\ \A v \in Workers : MayRevive(v, e) =>
                             Gone(e.resource, e.grant, handler[v].now)'
      BY <2>1 DEF OverOK, MayRevive, Request
    <3>1. /\ e.resource \in Resources /\ e.grant.token \in Int
          /\ e.grant.token < NextToken(e.resource) /\ Gone(e.resource, e.grant, clock)
          /\ \A v \in Workers : MayRevive(v, e) => Gone(e.resource, e.grant, handler[v].now)
      BY <1>1, StoreAssumption DEF OverOK, ApiTypeOK, Endings, Grants, Tokens
    <3>2. e.grant.token < NextToken(e.resource)'
      BY <1>1, <3>1, NextTokenGrows
    <3>3. ASSUME NEW v \in Workers, MayRevive(v, e)
          PROVE  Gone(e.resource, e.grant, handler[v].now)'
      <4>1. PICK i : i = handler[v].now
        OBVIOUS
      <4>2. Gone(e.resource, e.grant, i)'
        BY <2>4, <3>1, <3>3, <4>1
      <4> QED
        BY <2>1, <4>1, <4>2
    <3> QED
      BY <2>5, <3>1, <3>2, <3>3
  <2> QED
    BY <1>2, <2>3, <2>6, <2>7 DEF ApiInv
<1> QED
  BY <1>3, <1>4

-----------------------------------------------------------------------------
(* Theorems *)

\* The invariant is inductive.
LEMMA ApiInvInductive ==
  /\ Init => ApiInv
  /\ ApiInv /\ [Next]_vars => ApiInv'
<1>1. ASSUME Init PROVE ApiInv
  <2>1. FencingInv
    BY <1>1, FencingInvInductive DEF Init
  <2>2. ApiTypeOK
    BY <1>1, ApiAssumption DEF Init, ApiTypeOK, HandlerStates
  <2>3. \A w \in Workers : handler[w] = Idle
    BY <1>1 DEF Init
  <2>4. (\A w \in Workers : HandlerOK(w)) /\ OverOK
    BY <1>1, <2>3 DEF Init, HandlerOK, NewestOK, ReadingsOK, CurrentOK, Idle, Pending, OverOK
  <2> QED
    BY <2>1, <2>2, <2>4 DEF ApiInv
<1>2. ASSUME ApiInv, [Next]_vars PROVE ApiInv'
  <2>1. [StoreNext]_storeVars
    BY <1>2, StepIsStoreStep
  <2>2. CASE UNCHANGED vars
    <3>1. UNCHANGED <<leases, fencing_counters, resources, issued, clock, up, handler, over>>
      BY <2>2 DEF vars
    <3> QED
      BY <1>2, <3>1
         DEF ApiInv, FencingInv, TypeOK, CounterAheadOfTokens, RowIsNewestGrant,
             TokenNamesOneHolder, ApiTypeOK, HandlerOK, NewestOK, ReadingsOK, CurrentOK,
             OverOK, MayRevive, Gone, Live, Leased, Request, NextToken
  <2>3. CASE Next
    BY <1>2, <2>1, <2>3, ReceiveKeepsInv, TurnAwayKeepsInv, ReadClockKeepsInv,
       ManagerKeepsInv, StoreKeepsInv, AnswerKeepsInv, ProcessKeepsInv DEF Next
  <2> QED
    BY <1>2, <2>2, <2>3
<1> QED
  BY <1>1, <1>2

\* In every reachable state of the API: the tables are fenced, every handler
\* knows what was true, and what clients were told of ends is so.
THEOREM ApiInvariant == Spec => []ApiInv
  BY ApiInvInductive, PTL DEF Spec

\* The API runs nothing but store transactions, so what it hands out is fenced.
THEOREM ApiImplementsFencedGrants == Spec => ImplementsFencedGrants
<1>1. Init => StoreInit
  BY DEF Init
<1>2. ApiInv /\ [Next]_vars => [StoreNext]_storeVars
  BY StepIsStoreStep
<1>3. Spec => StoreSpec
  BY <1>1, <1>2, ApiInvariant, PTL DEF Spec, StoreSpec
<1> QED
  BY <1>3, StoreImplementsFencedGrants, PTL

\* No request gets past the checks of its operation into the tables, whatever
\* empty names and numbers below 1 its fields contain.
THEOREM ApiStoresOnlyValid == Spec => []StoredIsValid
<1>1. ApiInv => StoredIsValid
  BY DEF ApiInv, FencingInv, StoredIsValid
<1> QED
  BY <1>1, ApiInvariant, PTL

\* No answer is older than its request, however long its handler waited and
\* whatever was restarted in between.
THEOREM ApiAnswersAreCurrent == Spec => []AnswersAreCurrent
<1>1. ApiInv => AnswersAreCurrent
  BY DEF ApiInv, HandlerOK, CurrentOK, AnswersAreCurrent
<1> QED
  BY <1>1, ApiInvariant, PTL

\* What a client is told of the end of its grant is final, however many requests
\* clients have in flight: no transaction on its way, none to come and no restart
\* gives it the resource under that token again.  A 410 counts as told unless
\* another renewal of the grant waits with an earlier reading (TellsTheEnd).
THEOREM ApiEndIsFinal == Spec => []EndIsFinal
<1>1. ApiInv => EndIsFinal
  BY DEF ApiInv, OverOK, Gone, EndIsFinal
<1> QED
  BY <1>1, ApiInvariant, PTL

-----------------------------------------------------------------------------
(* Flags *)

\* What FlagsAreHonest says of one lease in the answer that w writes.
Honest(w, l) ==
  /\ (Flagged(w, l) \/ Request(w).op = "expired") => l.until <= handler[w].ran
  /\ Request(w).op \in {"acquire", "renew", "transfer"} => ~Flagged(w, l)

\* A lease in an answer is flagged honestly if it lapsed by the reading of the
\* manager, and a lease granted or in the way outlasts that reading.
LEMMA ShowsHonestly ==
  ASSUME ApiInv, NEW w \in Workers, handler[w].stage = "call", FlagsLeases(Request(w)),
         NEW status, NEW shown, NEW next, Shows(w, status, shown, next),
         NEW l \in shown, l.until \in Int,
         Request(w).op = "expired" => l.until <= handler[w].now,
         Request(w).op \in {"acquire", "renew", "transfer"} => l.until > handler[w].now
  PROVE  Honest(w, l)' /\ handler'[w].shown = shown
<1> DEFINE state == [stage |-> "answer", request |-> handler[w].request,
                     newest |-> handler[w].newest, seen |-> handler[w].seen, ran |-> clock,
                     status |-> status, shown |-> shown, next |-> next]
<1>1. handler' = [handler EXCEPT ![w] = state]
  BY StageOrder DEF Shows
<1>2. state.request = handler[w].request /\ state.seen = handler[w].seen
      /\ state.ran = clock /\ state.shown = shown
  OBVIOUS
<1> HIDE DEF state
<1>3. handler'[w] = state
  BY <1>1 DEF ApiInv, ApiTypeOK
<1>4. handler[w] \in Waiting /\ clock \in Instants
  BY HandlerShape DEF ApiInv, ApiTypeOK, Pending
<1>5. handler[w].seen \in Int /\ handler[w].now \in Int /\ clock \in Int
  <2>1. \A i \in Instants : i \in Int
    BY ApiAssumption
  <2> QED
    BY <1>4, <2>1 DEF Waiting
<1>6. /\ handler[w].seen <= clock
      /\ ManagerReads(Request(w)) =>
           handler[w].now <= clock /\ handler[w].seen <= handler[w].now
  BY DEF ApiInv, HandlerOK, ReadingsOK
<1>7. Request(w).op \in {"expired", "acquire", "renew", "transfer"} => ManagerReads(Request(w))
  BY DEF ManagerReads, IsQuery, UsesClock
<1> QED
  BY <1>2, <1>3, <1>5, <1>6, <1>7 DEF Honest, Flagged, Request

\* The transaction of an acquisition, renewal or transfer leaves a lease that
\* ends after the instant it was given.
LEMMA GrantedOutlasts ==
  ASSUME NoOverflow, FencingInv, NEW q \in Calls, NEW now \in Instants, Transaction(q, now),
         q.op \in {"acquire", "renew", "transfer"}
  PROVE  q.resource \in DOMAIN leases' /\ leases'[q.resource].expires_at > now
<1>1. q.ttl \in TTLs
  BY CallArguments DEF AcquireCalls, RenewCalls, TransferCalls
<1>2. Plus64(now, q.ttl) > now
  <2>1. (\A ttl \in TTLs : ttl \in Int /\ ttl > 0) /\ \A i \in Instants : i \in Int
    BY StoreAssumption, ApiAssumption
  <2> QED
    BY <1>1, <2>1, Plus64Exact
<1>3. CASE q.op \in {"acquire", "transfer"}
  <2>1. PICK h : PutGrant(q.resource, h, q.ttl, now)
    BY <1>3 DEF Transaction, Acquire, Transfer
  <2> QED
    BY <1>2, <2>1 DEF PutGrant, Upsert
<1>4. CASE q.op = "renew"
  <2>1. /\ q.resource \in DOMAIN leases
        /\ leases' = Upsert(leases, q.resource,
             [leases[q.resource] EXCEPT !.expires_at = Plus64(now, q.ttl),
                                        !.ttl_seconds = q.ttl])
    BY <1>4 DEF Transaction, Renew, ExtendVerdict, HolderVerdict, Leased
  <2>2. leases[q.resource] \in LeaseRow
    BY <2>1 DEF FencingInv, TypeOK
  <2>3. leases'[q.resource].expires_at = Plus64(now, q.ttl)
    BY <2>1, <2>2 DEF Upsert, LeaseRow
  <2> QED
    BY <1>2, <2>1, <2>3 DEF Upsert
<1> QED
  BY <1>3, <1>4

\* The answer a call leaves in its handler is flagged honestly.
LEMMA CallFlagsHonestly ==
  ASSUME NoOverflow, ApiInv, NEW w \in Workers, CallStore(w), handler'[w].stage = "answer"
  PROVE  \A l \in handler'[w].shown : Honest(w, l)'
<1> DEFINE q == Request(w)
           now == handler[w].now
<1>1. [StoreNext]_storeVars /\ handler[w].stage = "call" /\ AtStage(w, "call")
      /\ handler[w] \in Waiting /\ q \in Accepted
  BY AtStore
<1>2. FencingInv /\ FencingInv' /\ now \in Instants
  BY <1>1, FencingInvInductive DEF ApiInv, Waiting
<1>3. ASSUME NEW status, Replies(w, status)
      PROVE  FALSE
  BY <1>3 DEF Replies, ApiInv, ApiTypeOK
<1>4. \A r \in DOMAIN leases' : leases'[r].expires_at \in Int
  BY <1>2, StoreAssumption DEF FencingInv, TypeOK, LeaseRow, Int64
<1>5. \A r : Row(leases', r).until = leases'[r].expires_at
  BY DEF Row
<1>6. CASE Succeed(w) /\ FlagsLeases(q)
  <2> DEFINE shown == Shown(q, now, leases')
  <2>1. Shows(w, 200, shown, 0) /\ Verdict(q, now) = "ok"
        /\ IF IsQuery(q) THEN UNCHANGED storeVars ELSE Transaction(q, now)
    BY <1>6 DEF Succeed
  <2>2. \A l \in shown : \E r \in DOMAIN leases' : l = Row(leases', r)
    BY <1>1, <1>6, <2>1, ShownAreRows
  <2>3. \A l \in shown : l.until \in Int
    BY <1>4, <1>5, <2>2
  <2>4. q.op = "expired" => \A l \in shown : l.until <= now
    BY <1>5 DEF Shown, Rows
  <2>5. ASSUME q.op \in {"acquire", "renew", "transfer"}, NEW l \in shown
        PROVE  l.until > now
    <3>1. l = Row(leases', q.resource)
      BY <2>5 DEF Shown
    <3>2. ~IsQuery(q)
      BY <2>5 DEF IsQuery
    <3>3. q \in Calls
      BY <1>1, <3>2, AcceptedIsCall
    <3>4. leases'[q.resource].expires_at > now
      BY <1>2, <2>1, <2>5, <3>2, <3>3, GrantedOutlasts
    <3> QED
      BY <1>5, <3>1, <3>4
  <2> HIDE DEF shown
  <2>6. \A l \in shown : Honest(w, l)' /\ handler'[w].shown = shown
    BY <1>1, <1>6, <2>1, <2>3, <2>4, <2>5, ShowsHonestly
  <2>7. handler'[w].shown = shown
    BY <2>1 DEF Shows, ApiInv, ApiTypeOK
  <2> QED
    BY <2>6, <2>7
<1>7. CASE Succeed(w) /\ ~FlagsLeases(q)
  BY <1>3, <1>7 DEF Succeed, Shows, ApiInv, ApiTypeOK
<1>8. CASE Refuse(w)
  <2>1. CASE Verdict(q, now) = "conflict"
    <3>1. /\ q.op = "acquire" /\ q.resource \in DOMAIN leases'
          /\ leases'[q.resource].expires_at > now
          /\ Shows(w, 409, {Row(leases', q.resource)}, 0)
      BY <1>8, <2>1, ConflictIsARow DEF Refuse, storeVars
    <3>2. PICK l : l = Row(leases', q.resource)
      OBVIOUS
    <3>3. l.until \in Int /\ l.until > now /\ FlagsLeases(q)
      BY <1>4, <1>5, <3>1, <3>2 DEF FlagsLeases
    <3>4. Shows(w, 409, {l}, 0)
      BY <3>1, <3>2
    <3>5. Honest(w, l)' /\ handler'[w].shown = {l}
      BY <1>1, <3>1, <3>3, <3>4, ShowsHonestly
    <3> QED
      BY <3>5
  <2>2. CASE Verdict(q, now) # "conflict"
    BY <1>3, <1>8, <2>2 DEF Refuse
  <2> QED
    BY <2>1, <2>2
<1>9. CASE Fail(w)
  BY <1>3, <1>9 DEF Fail
<1> QED
  BY <1>6, <1>7, <1>8, <1>9 DEF CallStore

\* An answer with leases or a token comes from the store.
LEMMA OnlyCallsAnswer ==
  ASSUME ApiInv, [Next]_vars, NEW w \in Workers, handler'[w] # handler[w],
         handler'[w].stage = "answer"
  PROVE  CallStore(w)
<1>1. handler \in [Workers -> HandlerStates]
  BY DEF ApiInv, ApiTypeOK
<1>2. ASSUME NEW v \in Workers, NEW q \in Accepted, Receive(v, q) PROVE FALSE
  <2>1. StageAfter(q, "received") # "answer"
    BY StageOrder
  <2> QED
    BY <1>1, <1>2, <2>1 DEF Receive
<1>3. ASSUME NEW v \in Workers, NEW status, TurnAway(v, status) PROVE FALSE
  BY <1>1, <1>3 DEF TurnAway, Replies
<1>4. ASSUME NEW v \in Workers, ReadClock(v) \/ CallManager(v) PROVE FALSE
  <2>1. handler[v] \in Waiting
    BY <1>4, HandlerShape DEF ReadClock, CallManager, AtStage, Pending, ApiInv
  <2>2. \A u \in Workers : u # v => handler'[u] = handler[u]
    BY <1>1, <1>4 DEF ReadClock, CallManager
  <2>3. handler'[v].stage \in {"manager", "call"}
    <3>1. CASE ReadClock(v)
      <4>1. PICK next : next = StageAfter(Request(v), "clock")
        OBVIOUS
      <4>2. handler' = [handler EXCEPT ![v].seen = clock, ![v].stage = next]
            /\ next \in {"manager", "call"}
        BY <3>1, <4>1, StageOrder DEF ReadClock
      <4> QED
        BY <1>1, <2>1, <4>2 DEF Waiting
    <3>2. CASE CallManager(v)
      <4>1. handler' = [handler EXCEPT ![v].now = clock, ![v].stage = "call"]
        BY <3>2, StageOrder DEF CallManager
      <4> QED
        BY <1>1, <2>1, <4>1 DEF Waiting
    <3> QED
      BY <1>4, <3>1, <3>2
  <2> QED
    BY <2>2, <2>3
<1>5. ASSUME NEW v \in Workers, CallStore(v) PROVE v = w
  BY <1>5, CallAnswers DEF Answered
<1>6. ASSUME NEW v \in Workers, Answer(v) PROVE FALSE
  BY <1>1, <1>6 DEF Answer, Idle
<1>7. ASSUME Tick \/ Start \/ Exit \/ UNCHANGED vars PROVE FALSE
  BY <1>7 DEF Tick, Start, Exit, vars, Idle
<1> QED
  BY <1>2, <1>3, <1>4, <1>5, <1>6, <1>7 DEF Next

\* Where no time to live is so large that the sum wraps around, the expired
\* flags of every answer are right, however long the handler waited for the
\* connection: the reading for the flags came first, and it is the earliest.
THEOREM ApiFlagsAreHonest ==
  ASSUME NoOverflow
  PROVE  Spec => []FlagsAreHonest
<1>1. ASSUME Init PROVE FlagsAreHonest
  <2>1. \A w \in Workers : handler[w].stage # "answer"
    BY <1>1 DEF Init, Idle
  <2> QED
    BY <2>1 DEF FlagsAreHonest
<1>2. ASSUME ApiInv, FlagsAreHonest, [Next]_vars PROVE FlagsAreHonest'
  <2>1. ASSUME NEW w \in Workers, handler'[w] = handler[w]
        PROVE  (handler[w].stage = "answer" => \A l \in handler[w].shown : Honest(w, l))'
    BY <1>2, <2>1 DEF FlagsAreHonest, Honest, Flagged, Request
  <2>2. ASSUME NEW w \in Workers, handler'[w] # handler[w]
        PROVE  (handler[w].stage = "answer" => \A l \in handler[w].shown : Honest(w, l))'
    <3> SUFFICES ASSUME handler'[w].stage = "answer"
                 PROVE  \A l \in handler'[w].shown : Honest(w, l)'
      OBVIOUS
    <3>1. CallStore(w)
      BY <1>2, <2>2, OnlyCallsAnswer
    <3> QED
      BY <1>2, <3>1, CallFlagsHonestly
  <2> QED
    BY <2>1, <2>2 DEF FlagsAreHonest, Honest
<1> QED
  BY <1>1, <1>2, ApiInvariant, PTL DEF Spec
=============================================================================
