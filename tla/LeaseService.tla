---------------------------- MODULE LeaseService ----------------------------
(***************************************************************************)
(* The running service: HTTP handlers, one goroutine per connection, that  *)
(* call the lease manager, which reads the clock and then runs a store     *)
(* transaction (internal/httpapi, internal/lease, main.go); the clients    *)
(* that rely on its answers; and the crash and restart of the process.     *)
(*                                                                         *)
(* The manager samples the clock BEFORE the transaction starts, and the    *)
(* transaction may have to wait for the only connection: between the two,  *)
(* time passes and other transactions commit.  A step of the model is the  *)
(* arrival of a request, one clock reading, one transaction, or the        *)
(* writing of one answer.                                                  *)
(*                                                                         *)
(* The clock counts seconds and does not step back here; that fencing does *)
(* not depend on it is what LeaseStore shows.                              *)
(***************************************************************************)
EXTENDS StoreCalls, Sequences

CONSTANTS
  Workers,              \* connections, each handled by a goroutine of its own
  Ops,                  \* the kinds of request that clients send
  MaxBatch,             \* bound of the model: items of a /batch/acquire request
  OneRequestPerHolder,  \* TRUE: a client waits for the end of its last request
  NotRead               \* "the handler has not read the clock yet"

ASSUME ServiceAssumption ==
  /\ MaxBatch \in Nat
  /\ OneRequestPerHolder \in BOOLEAN
  /\ NotRead \notin Instants
  /\ Instants \subseteq Nat
  /\ 0 \in Instants

VARIABLES
  clock,      \* RealClock, in unix seconds
  up,         \* whether the process runs
  requests,   \* requests[w]: what the handler on connection w has still to do
  promises    \* what clients were told: the leases they rely on, and until when

vars == <<leases, fencing_counters, resources, issued, clock, up, requests, promises>>

-----------------------------------------------------------------------------
(* Requests *)

\* A client presents only tokens that it was told; the answer that told it may
\* long be out of date.
Told(r, h, t) == \E p \in promises : p.resource = r /\ p.holder = h /\ p.token = t

Batches == UNION {[1 .. n -> AcquireCalls] : n \in 2 .. MaxBatch}

\* The bodies of requests: one call, or several acquisitions in a batch.
Bodies ==
  {<<c>> : c \in {c \in Calls : c.op \in Ops}}
  \cup (IF "batch" \in Ops THEN Batches ELSE {})

Promises == [resource : Resources, holder : Holders, token : Tokens, until : Int64]

\* A handler: the calls it has still to make, the instant it read for the
\* first of them, the leases its answer will report, and who waits for it.
HandlerStates ==
  [todo : Seq(Calls), now : Instants \cup {NotRead},
   granted : SUBSET Promises, clients : SUBSET Holders]
Idle == [todo |-> <<>>, now |-> NotRead, granted |-> {}, clients |-> {}]

\* The tables, the clock, the handlers' calls and what clients were told have
\* their types; in particular an answer never reports a token below 1.
ServiceTypeOK ==
  /\ TypeOK
  /\ clock \in Instants
  /\ up \in BOOLEAN
  /\ requests \in [Workers -> HandlerStates]
  /\ promises \subseteq Promises

Busy(w) == requests[w] # Idle
Call(w) == Head(requests[w].todo)
Senders(body) == {body[i].holder : i \in {i \in DOMAIN body : "holder" \in DOMAIN body[i]}}

Init ==
  /\ StoreInit
  /\ clock = 0
  /\ up = TRUE
  /\ requests = [w \in Workers |-> Idle]
  /\ promises = {}

-----------------------------------------------------------------------------
(* Clients *)

SameLease(p, q) == p.resource = q.resource /\ p.holder = q.holder /\ p.token = q.token

\* A client that asks for a lease to be released or handed over stops relying
\* on it at once; it still knows the token.
GivesUp(c, p) ==
  c.op \in {"release", "transfer"} /\ SameLease(c, p)

AfterSending(body) ==
  {IF \E i \in DOMAIN body : GivesUp(body[i], p) THEN [p EXCEPT !.until = 0] ELSE p :
     p \in promises}

\* What clients rely on after an answer: its expiry replaces the one told before.
AfterAnswer(granted) ==
  {p \in promises : ~\E g \in granted : SameLease(p, g)} \cup granted

-----------------------------------------------------------------------------
(* Handlers *)

Receive(w, body) ==
  /\ up
  /\ ~Busy(w)
  /\ \A i \in DOMAIN body :
       body[i] \in TokenCalls => Told(body[i].resource, body[i].holder, body[i].token)
  /\ OneRequestPerHolder =>
       \A v \in Workers : requests[v].clients \cap Senders(body) = {}
  /\ requests' = [requests EXCEPT ![w] =
                    [Idle EXCEPT !.todo = body, !.clients = Senders(body)]]
  /\ promises' = AfterSending(body)
  /\ UNCHANGED <<storeVars, clock, up>>

\* The manager reads the clock for its next call.
ReadClock(w) ==
  /\ up
  /\ requests[w].todo # <<>>
  /\ UsesClock(Call(w))
  /\ requests[w].now = NotRead
  /\ requests' = [requests EXCEPT ![w].now = clock]
  /\ UNCHANGED <<storeVars, clock, up, promises>>

InTransaction(w) ==
  /\ up
  /\ requests[w].todo # <<>>
  /\ UsesClock(Call(w)) => requests[w].now # NotRead

\* The lease that the answer to a committed call reports, if any.
Reported(c, now) ==
  LET Lease(h, t) ==
        [resource |-> c.resource, holder |-> h, token |-> t, until |-> Plus64(now, c.ttl)]
  IN  CASE c.op = "acquire" -> {Lease(c.holder, NextToken(c.resource))}
        [] c.op = "renew" -> {Lease(c.holder, c.token)}
        [] c.op = "transfer" -> {Lease(c.newHolder, NextToken(c.resource))}
        [] OTHER -> {}

\* On to the next item of a batch, with a clock reading of its own; without
\* one, and with nothing granted, the handler has answered and is done.
Proceed(w, reported) ==
  LET next == [requests[w] EXCEPT !.todo = Tail(@), !.now = NotRead,
                                  !.granted = @ \cup reported]
  IN  requests' = [requests EXCEPT ![w] =
                     IF next.todo = <<>> /\ next.granted = {} THEN Idle ELSE next]

Commit(w) ==
  /\ InTransaction(w)
  /\ Transaction(Call(w), requests[w].now)
  /\ Proceed(w, Reported(Call(w), requests[w].now))
  /\ UNCHANGED <<clock, up, promises>>

\* The transaction changes nothing: a check refused it, its client went away
\* and the request's context was cancelled, or SQLite reported an error.
Rollback(w) ==
  /\ InTransaction(w)
  /\ Proceed(w, {})
  /\ UNCHANGED <<storeVars, clock, up, promises>>

Answer(w) ==
  /\ up
  /\ requests[w].todo = <<>>
  /\ requests[w].granted # {}
  /\ promises' = AfterAnswer(requests[w].granted)
  /\ requests' = [requests EXCEPT ![w] = Idle]
  /\ UNCHANGED <<storeVars, clock, up>>

\* What was committed stays committed, and the client never hears of it.
LoseAnswer(w) ==
  /\ up
  /\ requests[w].todo = <<>>
  /\ requests[w].granted # {}
  /\ requests' = [requests EXCEPT ![w] = Idle]
  /\ UNCHANGED <<storeVars, clock, up, promises>>

-----------------------------------------------------------------------------
(* The process and its clock *)

Tick ==
  /\ clock + 1 \in Instants
  /\ clock' = clock + 1
  /\ UNCHANGED <<storeVars, up, requests, promises>>

\* [bug] the counters are kept in memory.
CrashLosingCounters ==
  /\ up
  /\ up' = FALSE
  /\ requests' = [w \in Workers |-> Idle]
  /\ fencing_counters' = EmptyTable
  /\ UNCHANGED <<leases, resources, issued, clock, promises>>

\* Killed, or shut down with requests that outlast the grace period.
Crash ==
  /\ up
  /\ up' = FALSE
  /\ requests' = [w \in Workers |-> Idle]
  /\ UNCHANGED <<storeVars, clock, promises>>

\* [bug] recovery clears the lease table, unexpired leases included.
RestartClearingLeases ==
  /\ ~up
  /\ leases' = EmptyTable
  /\ up' = TRUE
  /\ UNCHANGED <<fencing_counters, resources, issued, clock, requests, promises>>

\* start() opens the same database file and sweeps before it serves.
Restart ==
  /\ ~up
  /\ Sweep(clock)
  /\ up' = TRUE
  /\ UNCHANGED <<clock, requests, promises>>

Next ==
  \/ \E w \in Workers :
       \/ \E body \in Bodies : Receive(w, body)
       \/ ReadClock(w) \/ Commit(w) \/ Rollback(w) \/ Answer(w) \/ LoseAnswer(w)
  \/ Tick \/ Crash \/ Restart

Spec == Init /\ [][Next]_vars
-----------------------------------------------------------------------------
(* Properties *)

\* What clients rely on, or will once the answer being written reaches them.
Outstanding == promises \cup UNION {requests[w].granted : w \in Workers}

\* A client that was told "yours until t" is the holder in the database, under
\* the token it was told, at least until t: so two clients never rely on the
\* same resource at the same time, across lost answers, crashes and restarts.
PromisesKept ==
  \A p \in Outstanding : p.until > clock =>
    /\ Leased(p.resource)
    /\ SameLease(p, [resource |-> p.resource, holder |-> leases[p.resource].holder,
                     token |-> leases[p.resource].fencing_token])
    /\ leases[p.resource].expires_at >= p.until

\* The call whose transaction a step of the service commits.
Commits(w, c) == requests[w].todo # <<>> /\ c = Call(w) /\ requests'[w] # requests[w]

\* A lease that has not lapsed yet ends, or passes to someone else, or changes
\* its expiry, only by a call that names its holder and its token, or by the
\* administrator's forced release.  In particular neither a competing
\* acquisition, nor a sweep, nor a restart takes it away, however long ago
\* they read the clock.
LiveLeaseChangesOnlyByItsToken ==
  [][\A r \in Resources :
       Live(r, clock) /\ ~(r \in DOMAIN leases' /\ leases'[r] = leases[r]) =>
         \E w \in Workers : \E c \in Calls :
           /\ Commits(w, c)
           /\ \/ c \in TokenCalls /\ c.resource = r /\ c.holder = leases[r].holder
                 /\ c.token = leases[r].fencing_token
              \/ c.op = "force_release" /\ c.resource = r]_vars

\* A grant nobody knows of (its answer was lost, its client or the server
\* crashed) blocks the resource for one time to live at the most.
NoLeaseOutlivesItsTTL ==
  \A r \in DOMAIN leases : leases[r].expires_at <= clock + leases[r].ttl_seconds

\* The service touches the tables by store transactions only; what is proved
\* of the store holds of the service.
ImplementsStore == StoreSpec

\* lease.go on Renew: "Renew extends an existing, unexpired lease": where all
\* requests ask for the same time to live, a renewal never brings an expiry
\* forward.
RenewalNeverShortens ==
  [][\A r \in DOMAIN leases \cap DOMAIN leases' :
       leases'[r].fencing_token = leases[r].fencing_token =>
         leases'[r].expires_at >= leases[r].expires_at]_vars

\* store.go on Renew: "Renewing an expired lease is forbidden even for the
\* original holder".
LapsedLeaseIsNotRenewed ==
  [][\A r \in DOMAIN leases \cap DOMAIN leases' :
       leases[r].expires_at <= clock
         /\ leases'[r].fencing_token = leases[r].fencing_token => leases'[r] = leases[r]]_vars
=============================================================================
