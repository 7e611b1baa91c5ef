------------------------------ MODULE HttpApi ------------------------------
(***************************************************************************)
(* Requests from their arrival to their answers (internal/httpapi over     *)
(* internal/lease), and the life of the process around them (main.go).     *)
(*                                                                         *)
(* A handler reads the clock for the `expired' flags of its answer, the    *)
(* manager validates the arguments and reads the clock again, the store    *)
(* runs a transaction or a query, and the error becomes a status.  Other   *)
(* handlers run in between.  LeaseService has what clients rely on; here   *)
(* it is what answers say: the status, the leases shown and their flags.   *)
(* The validation looks at nothing but the arguments, so a request that it *)
(* refuses has its status on arrival: Refused is the whole of its way.     *)
(* A body that is not the JSON of a request is answered 400 before any of  *)
(* this.  POST /batch/acquire is in LeaseService, and GET /stats and       *)
(* /analysis are in Reports.                                               *)
(***************************************************************************)
EXTENDS StoreCalls, FiniteSetsExt

CONSTANTS
  Workers,   \* connections, each handled by a goroutine of its own
  Ops,       \* the kinds of request that arrive
  NoName,    \* the empty string, as a resource or a holder
  BadNumbers \* the ttl_seconds and fencing_token below 1 that requests contain

ASSUME ApiAssumption ==
  /\ NoName \notin Resources \cup Holders
  /\ BadNumbers \subseteq {n \in Int64 : n <= 0}
  /\ Instants \subseteq Nat
  /\ 0 \in Instants

VARIABLES
  clock,     \* RealClock, in unix seconds
  up,        \* whether the process runs
  handler,   \* handler[w]: the request on connection w and how far it is
  over       \* history: grants whose end an answer tells for good

apiVars == <<clock, up, handler, over>>
vars == <<leases, fencing_counters, resources, issued, clock, up, handler, over>>

-----------------------------------------------------------------------------
(* Requests, well-formed or not *)

\* Every field of a body may be empty, 0 or negative.  (In a path it is never
\* empty: the router has no route for that.)
ResourceNames == Resources \cup {NoName}
HolderNames == Holders \cup {NoName}
TTLNumbers == TTLs \cup BadNumbers
TokenNumbers == Tokens \cup BadNumbers

AcquireBodies ==
  [op : {"acquire"}, resource : ResourceNames, holder : HolderNames, ttl : TTLNumbers]
RenewBodies ==
  [op : {"renew"}, resource : ResourceNames, holder : HolderNames, token : TokenNumbers,
   ttl : TTLNumbers]
TransferBodies ==
  [op : {"transfer"}, resource : ResourceNames, holder : HolderNames, token : TokenNumbers,
   ttl : TTLNumbers, newHolder : HolderNames]
ReleaseBodies ==
  [op : {"release"}, resource : ResourceNames, holder : HolderNames, token : TokenNumbers]
RegisterBodies == [op : {"register_resource"}, resource : ResourceNames, cap : Caps]
Bodies ==
  AcquireBodies \cup RenewBodies \cup TransferBodies \cup ReleaseBodies \cup RegisterBodies
    \cup AdminCalls

IsQuery(q) == q.op \in {"info", "fencing", "get_resource", "list", "expired", "holder_leases"}
Queries ==
  [op : {"info", "fencing"}, resource : ResourceNames]
  \cup [op : {"get_resource"}, resource : Resources]
  \cup [op : {"list", "expired"}] \cup [op : {"holder_leases"}, holder : Holders]

Requests == {q \in Bodies \cup Queries : q.op \in Ops}

TokenOps == {"renew", "transfer", "release"}
GrantOf(q) == [holder |-> q.holder, token |-> q.token]

\* The handlers that read the clock before they call the manager, and the calls
\* for which the manager reads it again.
FlagsLeases(q) ==
  q.op \in {"acquire", "renew", "transfer", "info", "list", "expired", "holder_leases"}
ManagerReads(q) == q.op = "expired" \/ (~IsQuery(q) /\ UsesClock(q))

\* [bug] the handler reads the clock for the flags once it has the leases.
StageAfterReadingLast(q, stage) ==
  CASE stage = "received" /\ ManagerReads(q) -> "manager"
    [] stage \in {"received", "manager"} -> "call"
    [] stage = "call" /\ FlagsLeases(q) -> "clock"
    [] OTHER -> "answer"

\* An accepted request on its way: the reading for the flags ("clock"), the one
\* for the store ("manager"), the store ("call"), and an answer with leases or a
\* token in it ("answer") or with a status only ("status").
StageAfter(q, stage) ==
  IF stage = "received" /\ FlagsLeases(q) THEN "clock"
  ELSE IF stage \in {"received", "clock"} /\ ManagerReads(q) THEN "manager"
  ELSE IF stage \in {"received", "clock", "manager"} THEN "call"
  ELSE "answer"

Idle == [stage |-> "idle"]
Busy(w) == handler[w] # Idle
Request(w) == handler[w].request

-----------------------------------------------------------------------------
(* What is refused, and how *)

\* lease.validate
Validate(r, h, ttl) ==
  IF r = NoName THEN "empty_resource"
  ELSE IF h = NoName THEN "empty_holder"
  ELSE IF ttl <= 0 THEN "invalid_ttl"
  ELSE "ok"
CheckToken(t) == IF t <= 0 THEN "token_mismatch" ELSE "ok"
CheckName(r) == IF r = NoName THEN "empty_resource" ELSE "ok"
CheckCap(cap) == IF cap < 0 THEN "negative_cap" ELSE "ok"
First(verdict, other) == IF verdict # "ok" THEN verdict ELSE other

\* [bug] the new holder of a transfer goes unchecked.
RefusedTransferIgnoringNewHolder(q) ==
  First(Validate(q.resource, q.holder, q.ttl), CheckToken(q.token))

RefusedTransfer(q) ==
  First(Validate(q.resource, q.holder, q.ttl),
        IF q.newHolder = NoName THEN "empty_holder" ELSE CheckToken(q.token))

\* The arguments, which each operation checks for itself before it looks at the
\* tables.
Refused(q) ==
  CASE q.op = "acquire" -> Validate(q.resource, q.holder, q.ttl)
    [] q.op = "renew" -> First(Validate(q.resource, q.holder, q.ttl), CheckToken(q.token))
    [] q.op = "transfer" -> RefusedTransfer(q)
    [] q.op = "release" -> First(Validate(q.resource, q.holder, 1), CheckToken(q.token))
    [] q.op \in {"info", "fencing", "force_release"} -> CheckName(q.resource)
    [] q.op = "register_resource" -> First(CheckName(q.resource), CheckCap(q.cap))
    [] q.op = "update_resource" -> CheckCap(q.cap)
    [] OTHER -> "ok"

Accepted == {q \in Requests : Refused(q) = "ok"}

\* The checks of the store.
Verdict(q, now) ==
  CASE q.op = "acquire" -> AcquireVerdict(q.resource, q.ttl, now)
    [] q.op \in {"renew", "transfer"} ->
         ExtendVerdict(q.resource, q.holder, q.token, q.ttl, now)
    [] q.op = "release" -> HolderVerdict(q.resource, q.holder, q.token, now)
    [] q.op = "delete_resource" -> DeleteVerdict(q.resource, now)
    [] q.op \in {"update_resource", "get_resource"} ->
         IF q.resource \in DOMAIN resources THEN "ok" ELSE "not_found"
    [] q.op \in {"force_release", "info"} -> IF Leased(q.resource) THEN "ok" ELSE "no_lease"
    [] OTHER -> "ok"

\* [bug] a ttl above the cap is answered like a wrong token.
StatusWithCapForbidden(verdict) ==
  CASE verdict \in {"empty_resource", "empty_holder", "invalid_ttl"} -> 400
    [] verdict \in {"conflict", "in_use"} -> 409
    [] verdict = "expired" -> 410
    [] verdict \in {"holder_mismatch", "token_mismatch", "ttl_exceeds_max"} -> 403
    [] verdict \in {"no_lease", "not_found"} -> 404
    [] OTHER -> 500

\* A negative cap is an error that mapError does not know.
StatusOf(verdict) ==
  CASE verdict \in {"empty_resource", "empty_holder", "invalid_ttl", "ttl_exceeds_max"} -> 400
    [] verdict \in {"conflict", "in_use"} -> 409
    [] verdict = "expired" -> 410
    [] verdict \in {"holder_mismatch", "token_mismatch"} -> 403
    [] verdict \in {"no_lease", "not_found"} -> 404
    [] OTHER -> 500

\* The answers to requests with bad arguments.
Refusals == {StatusOf(Refused(q)) : q \in Requests \ Accepted}

Success(q) ==
  CASE q.op = "register_resource" -> 201
    [] q.op \in {"release", "force_release", "delete_resource"} -> 204
    [] OTHER -> 200

-----------------------------------------------------------------------------
(* Answers *)

Row(table, r) ==
  [resource |-> r, token |-> table[r].fencing_token, until |-> table[r].expires_at]
Rows(table, P(_)) == {Row(table, r) : r \in {r \in DOMAIN table : P(table[r])}}

\* The leases that a successful answer shows, of those in the table.
Shown(q, now, table) ==
  CASE q.op \in {"acquire", "renew", "transfer", "info"} -> {Row(table, q.resource)}
    [] q.op = "list" -> Rows(table, LAMBDA row : TRUE)
    [] q.op = "expired" -> Rows(table, LAMBDA row : row.expires_at <= now)
    [] q.op = "holder_leases" -> Rows(table, LAMBDA row : row.holder = q.holder)
    [] OTHER -> {}

\* toDTO: the flag of a lease in the answer that w writes.
Flagged(w, l) == l.until <= handler[w].seen

\* The tokens granted so far, by resource: what a later answer may not deny.
NewestTokens == [r \in Resources |-> Max({0} \cup {g.token : g \in issued[r]})]

Init ==
  /\ StoreInit
  /\ clock = 0
  /\ up = TRUE
  /\ handler = [w \in Workers |-> Idle]
  /\ over = {}

-----------------------------------------------------------------------------
(* Handlers *)

\* A client sends what it likes, when it likes: any token, and more than one
\* request at a time.
Receive(w, q) ==
  /\ up
  /\ ~Busy(w)
  /\ handler' = [handler EXCEPT ![w] =
       [stage |-> StageAfter(q, "received"), request |-> q, newest |-> NewestTokens,
        seen |-> 0, now |-> 0]]
  /\ UNCHANGED <<storeVars, clock, up, over>>

\* An answer with no lease and no token in it is a status.
Replies(w, status) == handler' = [handler EXCEPT ![w] = [stage |-> "status", status |-> status]]

\* A refused request is answered without a look at the tables.
TurnAway(w, status) ==
  /\ up
  /\ ~Busy(w)
  /\ Replies(w, status)
  /\ UNCHANGED <<storeVars, clock, up, over>>

AtStage(w, stage) == up /\ handler[w].stage = stage

\* The handler reads the clock for the flags.
ReadClock(w) ==
  /\ AtStage(w, "clock")
  /\ handler' = [handler EXCEPT ![w].seen = clock, ![w].stage = StageAfter(Request(w), "clock")]
  /\ UNCHANGED <<storeVars, clock, up, over>>

\* The manager reads it for the store.
CallManager(w) ==
  /\ AtStage(w, "manager")
  /\ handler' = [handler EXCEPT ![w].now = clock, ![w].stage = StageAfter(Request(w), "manager")]
  /\ UNCHANGED <<storeVars, clock, up, over>>

\* A renewal of the grant that w presents waits for the connection, with an
\* earlier reading of the clock than w's: what has lapsed for w has not for it.
RenewalOnItsWay(w) ==
  \E v \in Workers :
    /\ handler[v].stage = "call"
    /\ Request(v).op = "renew"
    /\ Request(v).resource = Request(w).resource
    /\ GrantOf(Request(v)) = GrantOf(Request(w))
    /\ handler[v].now < handler[w].now

\* A client that presents a grant it was given is told that it has ended.
TellsTheEnd(w, status) ==
  LET q == Request(w)
  IN  /\ q.op \in TokenOps
      /\ GrantOf(q) \in issued[q.resource]
      /\ \/ status \in {403, 404}
         \/ status = 410 /\ ~RenewalOnItsWay(w)
         \/ q.op \in {"release", "transfer"} /\ status = Success(q)

Tells(w, status) ==
  over' = IF TellsTheEnd(w, status)
          THEN over \cup {[resource |-> Request(w).resource, grant |-> GrantOf(Request(w))]}
          ELSE over

Shows(w, status, shown, next) ==
  handler' = [handler EXCEPT ![w] =
    [stage |-> StageAfter(@.request, "call"), request |-> @.request, newest |-> @.newest,
     seen |-> @.seen, ran |-> clock, status |-> status, shown |-> shown, next |-> next]]

Succeed(w) ==
  LET q == Request(w)
      now == handler[w].now
  IN  /\ Verdict(q, now) = "ok"
      /\ IF IsQuery(q) THEN UNCHANGED storeVars ELSE Transaction(q, now)
      /\ IF FlagsLeases(q) THEN Shows(w, 200, Shown(q, now, leases'), 0)
         ELSE IF q.op = "fencing" THEN Shows(w, 200, {}, NextToken(q.resource))
         ELSE Replies(w, Success(q))
      /\ Tells(w, Success(q))

\* A conflict is answered with the lease in the way.
Refuse(w) ==
  LET q == Request(w)
      verdict == Verdict(q, handler[w].now)
  IN  /\ verdict # "ok"
      /\ IF verdict = "conflict" THEN Shows(w, 409, {Row(leases, q.resource)}, 0)
         ELSE Replies(w, StatusOf(verdict))
      /\ Tells(w, StatusOf(verdict))
      /\ UNCHANGED storeVars

\* The context is cancelled or SQLite reports an error.
Fail(w) == Replies(w, 500) /\ UNCHANGED <<storeVars, over>>

CallStore(w) ==
  /\ AtStage(w, "call")
  /\ Succeed(w) \/ Refuse(w) \/ Fail(w)
  /\ UNCHANGED <<clock, up>>

\* The answer is written, and reaches its client or is lost.
Answer(w) ==
  /\ AtStage(w, "answer") \/ AtStage(w, "status")
  /\ handler' = [handler EXCEPT ![w] = Idle]
  /\ UNCHANGED <<storeVars, clock, up, over>>

-----------------------------------------------------------------------------
(* The process *)

Tick ==
  /\ clock' \in {t \in Instants : t > clock}
  /\ UNCHANGED <<storeVars, up, handler, over>>

\* A crash, or the end of main: at once when no request runs after SIGTERM, and
\* after five seconds with requests cut short.  (The listener is closed before:
\* that is a time in which nobody sends a request.)
Exit ==
  /\ up
  /\ up' = FALSE
  /\ handler' = [w \in Workers |-> Idle]
  /\ UNCHANGED <<storeVars, clock, over>>

\* start: the recovery sweep comes before the listener.
Start ==
  /\ ~up
  /\ Sweep(clock)
  /\ up' = TRUE
  /\ UNCHANGED <<clock, handler, over>>

Next ==
  \/ \E w \in Workers :
       \/ \E q \in Accepted : Receive(w, q)
       \/ \E status \in Refusals : TurnAway(w, status)
       \/ ReadClock(w) \/ CallManager(w) \/ CallStore(w) \/ Answer(w)
  \/ Tick \/ Exit \/ Start

Spec == Init /\ [][Next]_vars

-----------------------------------------------------------------------------
(* Properties *)

\* Whatever numbers and empty names a body has in any of its fields, no request
\* gets past the checks of its operation into the tables: no empty name, no time
\* to live or token below 1, no negative cap.
StoredIsValid == TypeOK

\* What an answer says of expiry is so.  A lease that is flagged as expired, or
\* listed by GET /expired, had lapsed when it was read; a lease just granted, and
\* one that is in the way of an acquisition, is never flagged.
FlagsAreHonest ==
  \A w \in Workers : handler[w].stage = "answer" =>
    \A l \in handler[w].shown :
      /\ (Flagged(w, l) \/ Request(w).op = "expired") => l.until <= handler[w].ran
      /\ Request(w).op \in {"acquire", "renew", "transfer"} => ~Flagged(w, l)

\* An answer is not older than its request: no lease it shows carries a smaller
\* token than one granted before the request arrived, and GET /fencing announces
\* a larger one, restarts in between included.
AnswersAreCurrent ==
  \A w \in Workers : handler[w].stage = "answer" =>
    /\ \A l \in handler[w].shown : l.token >= handler[w].newest[l.resource]
    /\ (Request(w).op = "fencing" /\ handler[w].status = 200) =>
         handler[w].next > handler[w].newest[Request(w).resource]

\* A client that presents a grant it was given and is answered 403 or 404, or that
\* released or transferred it, never holds the resource under that token again: it
\* may stop for good and need not ask twice.  So with 410, unless another renewal
\* of the same grant was on its way to the store with an earlier reading of the
\* clock (that one revives the grant).  Other statuses say nothing of the kind.
EndIsFinal ==
  \A e \in over :
    ~(/\ Live(e.resource, clock)
      /\ e.grant = [holder |-> leases[e.resource].holder,
                    token |-> leases[e.resource].fencing_token])
=============================================================================
