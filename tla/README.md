# Verification of leasereg

leasereg (`src/`, Go) is a lease registry: over HTTP/JSON it grants exclusive,
time-limited leases on named resources, and hands out with each grant a *fencing
token* that only ever grows, so that a downstream system can turn away a holder
whose lease has lapsed. One SQLite file is the whole state. This directory holds
TLA+ models of it, TLC configurations that check them, and TLAPS proofs.

## 1. Inventory

| component | state | operations | correct when |
|---|---|---|---|
| **Lease store** `internal/store` | tables `leases` (row: holder, token, expiry, ttl), `fencing_counters` (next token), `resources` (cap on the ttl) | Acquire, Renew, Transfer, Release, Sweep, ForceRelease, Register/Update/DeleteResource; Get, List…, Peek, Stats | tokens of a resource strictly grow across release, sweep, force, deletion, restart; the row is the newest grant; caps hold when a row is written; times are consistent |
| **SQLite access** (`database/sql`, one pooled connection) | the connection, the open transaction | BeginTx, Exec, Query, Commit, Rollback, context cancellation | check-then-write is atomic; no caller waits for itself; what is committed is durable |
| **Lease manager** `internal/lease/lease.go` | none but the clock it is given | reads the clock, then calls the store; BatchAcquire runs one transaction per item; RestartRecover sweeps | a live lease is never taken from its holder although the clock reading may be old |
| **Clocks** `internal/lease/clock.go` | `MockClock.t` | Now, Advance, Set | readings are instants that were current at some time |
| **HTTP API** `internal/httpapi` | one goroutine per connection | decode, call the manager, map the error, answer | what an answer says holds until the time it says, whatever happens to other answers |
| **Statistics and analysis** `analysis_*.go` | none | several queries, then pure functions | a report does not mix moments; numbers do not overflow |
| **Audit** `internal/leaseaudit` | none | checks over an analysis | it reports a fault exactly when there is one |
| **Process** `main.go` | database open, listening, shutting down | open, recover, serve, shut down | recovery removes only what has lapsed; nothing is answered after the store is closed |

Interaction: a handler calls the manager, the manager reads the clock and calls
the store, the store waits for the only connection and runs a transaction. The
components share nothing but the database. What is hard is in between: time
passes and other transactions commit between the clock reading and the
transaction; an answer may be lost after the commit; the process may die at any
point. There is no background sweeper: expired rows stay until `/admin/sweep`, a
restart, or the next acquisition. The `hazards` list in `PROJECT.json` names each
such place with its line and the properties that watch it.

## 2. Plan

In order of importance; all of it is done. Section 5 ends with what is left to TLC.

1. `FencedGrants`: the abstract contract of fencing tokens.
2. `LeaseStore`: the tables and transactions; implements 1.
3. `LeaseStoreProofs`: type correctness, the fencing invariant, the refinement.
4. `LeaseService`: handlers, manager, clock, clients, crash and restart over 2.
5. `LeaseServiceProofs`: the service implements the store; what a live lease is
   protected against (`LiveLeaseChangesOnlyByItsToken`, `NoLeaseOutlivesItsTTL`)
   from the invariant that a reading is never ahead of the clock.
6. `TxStore`: the pooled connection and the statements of a transaction, with
   cancellation, rollback, crash and power loss between statements; every commit is
   a transaction of 2. Liveness: every call returns.
7. `Reports`: Stats, Analyze and the audit, collected query by query while
   transactions commit, and what is computed from them; `ReportsProofs`.
8. `HttpApi`: the checks of every field of a request, statuses, the handlers' two clock
   readings, start and end of the process.
9. `TxStoreProofs`: `CommitsAreTransactions` and `SyncedTokensStayFenced`, from what
   the open transaction has written at each statement.
10. `PromiseProofs`: `PromisesKept` and `RenewalNeverShortens` of `LeaseService`, under
   the conditions their run satisfies.
11. `HttpApiProofs`: the safety properties of `HttpApi`.
12. In `ReportsProofs`, what is computed from a report, sums and the average included.

## 3. The modules

### FencedGrants
`current[r]` is the grant in force (at most one), `issued[r]` all grants ever
made. `Issue` needs a token larger than all issued ones; `Drop` ends grants. There
is no time: the contract holds whatever the clocks do.

### LeaseStore
The three tables are functions from primary keys to rows, so `INSERT … ON
CONFLICT`, `UPDATE` and `DELETE` are `Upsert` and `Delete`. Each transaction is
one action; its checks, in the order of the code, are a *verdict* operator
(`AcquireVerdict`, `HolderVerdict`, `ExtendVerdict`, `DeleteVerdict`), and an action
is enabled when its verdict is `"ok"`. A refused transaction changes nothing and is
no step. `now` is an argument that ranges over all of `Instants` at every step,
because the store's caller read it earlier: readings may be old and may go
backwards. `Plus64` is Go's `int64` addition, with its wrap-around. `issued` is a
history variable; nothing in the code corresponds to it. `acquired_at`,
`description` and `created_at` are left out since no transaction decides by them.

### StoreCalls
The calls of the store as records, and `Transaction(c, now)`, the action of
`LeaseStore` that a call stands for. `LeaseService`, `HttpApi` and `TxStore` extend it.

### LeaseService
Extends `StoreCalls` with the callers. `requests[w]` is the handler on connection
`w`: the calls it has still to make (several for a batch), the clock reading for
the next one, the grants it will report. Steps: `Receive`, `ReadClock`, `Commit` or
`Rollback` (one transaction), `Answer` or `LoseAnswer`; `Tick`; `Crash` and
`Restart` (with the recovery sweep). `Rollback` covers a refusal, a cancelled
context and a database error: each leaves the tables alone. A batch has one
transaction and one clock reading per item and one answer at the end.
`promises` is what clients were told: resource, holder, token, until when. A client
presents tokens it was told, current or stale; sending a release or a transfer it
stops relying on the lease. `OneRequestPerHolder` says whether clients wait for the
end of one request before sending the next.

### TxStore
The same tables one level down. `conn` is the only connection of the pool
(`SetMaxOpenConns(1)`): the goroutine that has it. `draft` is what the open transaction
sees, `running[w]` the call of goroutine `w` and the statement it runs next. `Begin`
takes the connection and a copy of the tables; `ReadLease`, `ReadCap`,
`EnsureCounter`, `ReadToken`, `AdvanceCounter`, `WriteRow` are the statements with the
checks between them; `Commit` makes the draft the tables. Each may fail, and the
deferred rollback gives the connection back. `Exec` is a statement outside a
transaction (sweep, forced release, registration). `Cancel` cancels the context of a
call at any time: one that waits gives up (`GiveUp`), an open transaction is rolled
back by database/sql itself (`RollBackCancelled`), and its goroutine meets `ErrTxDone`
at its next statement (`TxDone`). `Crash` drops what runs. `synced` is the tables at
the last sync of the write-ahead log: with `synchronous=NORMAL` a commit does not sync,
and `PowerLoss` goes back to `synced`. A failed COMMIT is taken to have rolled back.

### HttpApi
One request from arrival to answer. Every field of a body ranges over its good values and
its bad ones: names over `ResourceNames` and `HolderNames` with the empty string, `ttl_seconds`
and `fencing_token` over the numbers of `BadNumbers` too, caps over negative ones. `Refused`
has the argument checks of each operation for itself, in their order (`Validate` is
`lease.validate`, and `CheckToken`, `CheckName`, `CheckCap` and the new holder of a transfer
come where the code has them). A refused request is answered without a look at the tables,
so its whole way is one step, `TurnAway`. An accepted one goes through the stages of
`StageAfter`: the handler's clock reading (`ReadClock`), the manager's (`CallManager`), the
transaction or query (`CallStore`: `Succeed`, `Refuse` or `Fail`), and `Answer`, which reaches
the client or is lost. `Verdict` is the checks of the store, `StatusOf` is `mapError`, `Shown`
the leases in the answer, `Flagged` the `expired` flag of `toDTO`. Clients are not restrained:
they may present any token and have any number of requests in flight. `over` is a history of
the grants whose end a status tells (`TellsTheEnd`), from the moment at which that status is
decided, whether it arrives or not. `Exit` is a crash or the end of `main`, `Start` the start
with its recovery sweep.

### Reports
`Stats` is four `Count` steps, `Analyze` one `Collect` step for each query and for the
clock reading, one per registered resource at the end; `Transaction` and `Tick` come in
between. `seen` is what was collected. All that is computed from it is an operator
named like its Go function (`HolderAnalysis`, `Validate`, `OperationalScore`, `Status`,
leaseaudit's `Check`, …). Lists are sets, lists of messages their lengths. `Wrap64` is
the addition of int64, `Internal` the year-1 epoch of Go's `time.Time`, whose wrap-around
makes a lease with an enormous expiry look expired to the analysis only.

### Bug variants
Definitions marked `[bug]` are plausible mistakes, not the code. With one in place
of the definition that follows it, TLC finds the property listed beside it in
`PROJECT.json` (`mutants`) violated; this shows that the property can fail.

## 4. Runs

| run | checks | bounds |
|---|---|---|
| `store_fencing` | `TypeOK`, `FencingInv`, `ExpiresOneTTLAfterAnInstant`, `WritesRespectCap`, refinement of `FencedGrants` | 2 resources, 2 holders, 3 tokens each, 3 instants, ttl 1 and 2, caps −1, 0, 1 |
| `service_promises` | `PromisesKept`, `RenewalNeverShortens` | 2 connections, 2 holders, 1 resource, 3 tokens, clock 0–4, ttl 2, batches of 2 |
| `service_race` | `ServiceTypeOK`, `NoLeaseOutlivesItsTTL`, `LiveLeaseChangesOnlyByItsToken`, every step is a store step | 2 connections, 2 holders, 1 resource, 2 tokens, clock 0–2, ttl 1, all administrative calls |
| `tx_store` | `CommitsAreTransactions`, `SyncedTokensStayFenced` | 2 goroutines, 1 resource, 1 holder, 2 tokens, ttl 2, instants 0 and 2, cap none or 1, every kind of call but the update of a resource |
| `tx_progress` | `CallsReturn`, under fairness | 2 goroutines, 1 holder, 1 token, acquisition, release and registration |
| `http_api` | `StoredIsValid`, `FlagsAreHonest`, `AnswersAreCurrent`, `EndIsFinal` | 2 connections, 2 holders, 1 resource, 2 tokens, clock 0–2, ttl 2, cap 1; the empty name, −1 and 0 for every ttl and token, cap −1; all operations with a body, sweep and the queries `info`, `expired`, `fencing` |
| `reports` | nine properties of a report | 2 resources, 2 holders, 1 token, clock 0–1, ttl 1 and 6, `MaxInt` 6, epoch offset 2, a "minute" of 1 s |
| `delete_expired` | finding | 1 resource |
| `ttl_overflow` | finding | `MaxInt` = 7 in place of 2^63 − 1 |
| `renew_twice` | finding | as `service_promises`, two requests of one holder at a time |
| `renew_lapsed` | finding | as `service_promises` |
| `stats_torn` | finding | as `reports` |

Three tokens let a resource go from one holder to another and back while the
first still presents its first token. Rows of different resources meet only in
`Sweep`, so two resources suffice in the store and one in the service. Two
connections give every order of two transactions around one clock reading. The
clock range exceeds two times to live, so that a lease is granted, renewed,
lapses and is granted again. `MaxToken`, `MaxBatch` and the sets of instants and
times to live are bounds of the models, not of the program. Holders, resources
and connections are symmetric: nothing orders them.

What they show:

- Fencing does not depend on the clock at all (`store_fencing`).
- `PromisesKept`: what a client was told holds until the time it was told, across
  lost and late answers, batches and crashes. It needs its hypotheses: one request
  per holder at a time, equal times to live, no forced release. `renew_twice` drops
  the first.
- A live lease is safe from everybody who does not present its token, because a
  clock reading is never ahead of the clock and an old one only makes a competing
  acquisition or a sweep more cautious (`service_race`). This assumes that the clock
  does not step back; the code uses wall-clock seconds, so a step back by the
  operating system can lengthen leases, and a step forward can end them early.

- A transaction of ten statements is as good as the one step that `LeaseStore` makes
  of it (`CommitsAreTransactions`), whatever is cancelled or fails when. It is so
  because there is one connection: `BeginTx(ctx, nil)` is a *deferred* transaction, not
  the `BEGIN IMMEDIATE` of the comments (`store.go:68`).
- After a power failure the tables are consistent, and no token granted before the
  last sync is granted again (`SyncedTokensStayFenced`). Tokens granted *after* it can be:
  `synchronous=NORMAL` trades that away, and the promise of `store.go` and `lease.go` that
  tokens grow across restarts holds for crashes of the process only.
- Answers do not mislead (`http_api`): whoever presents a grant that was really made and is
  answered 403 or 404, or releases or transfers it, never holds it again, whatever else is
  in flight. So with 410, but for one case: another renewal of the same grant may wait for
  the connection with an earlier reading of the clock, to which the lease has not lapsed,
  and it revives the grant (`RenewalOnItsWay`; without this exception TLC finds `EndIsFinal`
  violated, and `renew_lapsed` shows the step itself). A flag or a listing never calls a
  live lease expired; an answer shows nothing older than its request; a bad value in any
  field of any body is stopped by the checks of its own operation. `GET /expired`
  may list a lease without the flag, since the flag uses the earlier reading, and a
  conflict of a batch may carry it, since there it uses the later one
  (`handlers.go:286`).
- Some relations survive that a report is not a snapshot (`reports`): tokens cover
  leases, active leases were live, the audit never objects. `/analysis` fails, or
  shows a wrong average or a live lease as expired, for overflows only. And what
  `GET /analysis` answers never meets the default thresholds, because the reason
  "all lease invariants are healthy" is itself counted as a warning
  (`analysis.go:24`); a status "healthy" means that this reason is all there is.

In `tx_store` one holder is enough, because no statement compares two holders of
different calls; `LeaseStore` covers the checks with two. In `tx_progress` two goroutines
are all that can compete for one connection; more of them change who waits, not
whether someone does. In `http_api` three instants and a time to live of two let a lease be granted at 0,
be renewed with the reading 1 while another request reads 2 and is answered 410, and live
again until 3. Two connections suffice for that, and two tokens for a hand-over. In `reports` the small
`MaxInt` makes sums of two rows, and the epoch, overflow; a single token is
enough for what is computed, and how reports and tokens interact is proved for any
number (section 5).

Fairness is assumed in `tx_progress` only (`FairSpec`). Weak: a goroutine that can run
its next statement, roll back, or give up does so in the end; Go's scheduler and
database/sql's own goroutine see to that. Strong, for taking the connection: it is free
again and again, not for ever, and database/sql hands it to one of those that wait,
chosen at random from a map, so a waiter is not passed over for ever. With weak fairness
there TLC finds the starvation. Nothing else is fair: no request has to arrive, the
clock may stop, no failure has to happen.

### Findings

1. `DeleteResource` (`resources.go:111`) counts expired rows too, against its own
   comment.
2. `now + ttl_seconds` (`store.go:170`, `220`, `361`) overflows for a large
   `ttl_seconds`: the lease granted has already expired.
3. A renewal can shorten a lease (`store.go:220`): the update is unconditional and
   its clock reading may be the older of two.
4. A renewal can revive a lapsed lease (`lease.go:111`): the expiry check uses a
   reading made before the transaction.
5. `Stats` (`store.go:428`) does not describe an instant: its four queries are not in a
   transaction, and it can report more holders than leases.

Smaller disagreements met on the way, without a run of their own: the comment of
`Stats` (`store.go:417`) speaks of holders of stored leases where the query counts those of
active ones; `handlers.go:12` promises 400 for input errors and a negative
`max_ttl_seconds` is answered 500 (`StatusOf`); `store.go:231` calls the sweep the only
path that removes expired rows, and acquisitions and forced releases do it too.

## 5. Proofs

`LeaseStoreProofs` proves, for all values of the constants under
`StoreAssumption` (`MaxInt` and `MaxToken` natural, times to live positive and at most
`MaxInt`, instants and caps 64-bit):

- `StoreTypeCorrect`: `StoreSpec => []TypeOK`;
- `StoreFencing`: `StoreSpec => []FencingInv`;
- `StoreImplementsFencedGrants`: `StoreSpec => Fenced!Spec`;
- `StoreWritesRespectCap`: `StoreSpec => WritesRespectCap`;
- `TimesOfRowsAgree`: `StoreSpec => []ExpiresOneTTLAfterAnInstant`, if `NoOverflow`.

`NoOverflow` says that no instant plus a time to live leaves int64. The code does not
check this; the run `ttl_overflow` shows what happens without it, and every theorem
that needs it says so. The passing runs of the properties concerned satisfy it.

Argument. `TokenNamesOneHolder` is not inductive alone: that an allocated token is
fresh follows from `CounterAheadOfTokens`, and that the row is the newest grant from
`RowIsNewestGrant`, which ties row and counter together. With `TypeOK` they form
`FencingInv`, which is inductive. `StepCases` reduces the nine transactions to four
shapes (new grant, renewal, removal of rows, registration); one lemma per shape
shows that it keeps `FencingInv`, and the refinement has one case per shape. Further
lemmas the other modules share: how the counters move (`NextTokenGrows`, `IssuedGrows`),
where a row comes from (`RowOrigin`), least and largest elements of sets of numbers.

`LeaseServiceProofs` proves, under `StoreAssumption` and `ServiceAssumption` (the
clock counts from 0 in natural numbers; `NotRead` is not an instant), for any
number of connections, batches of any length, and clients that may have several
requests in flight (`OneRequestPerHolder` is not used):

- `ServiceTypeCorrect`: `Spec => []ServiceTypeOK`;
- `ServiceImplementsStore`: `Spec => StoreSpec`, and with the above
  `ServiceImplementsFencedGrants`: `Spec => Fenced!Spec`;
- `LiveLeaseIsSafe`: `Spec => LiveLeaseChangesOnlyByItsToken`;
- `NoLeaseOutlives`: `Spec => []NoLeaseOutlivesItsTTL`.

Argument. `ServiceInv` is `ServiceTypeOK /\ FencingInv /\ ReadingsArePast`.
`FencingInv` comes from the store, since every step of the service is a store step
or leaves the tables alone (`StepIsStoreStep`); it is also what makes the token of
a reported lease well typed. `ReadingsArePast` says that the instant a handler
works with is never ahead of the clock: it holds because only `Tick` changes the
clock and only forward, and it is the whole reason why the old readings are
harmless. A row that is live at `clock` is live at every reading, so an acquisition
meets it as a conflict and a sweep keeps it (`TransactionRespectsLiveLease`); and a
row written with an old reading expires no later than one written now
(`TransactionBoundsExpiry`), also where the sum wraps around.

`PromiseProofs` proves of the same module, if `PromiseConditions`:

- `PromisesAreKept`: `Spec => []PromisesKept`;
- `RenewalsExtend`: `Spec => RenewalNeverShortens`.

`PromiseConditions` are those of `ServicePromises.cfg`: a client waits for one answer
before its next request, all ask for the same time to live, nobody forces a release,
and `NoOverflow`. Neither property holds without: `renew_twice` shows it for the first
condition, and with two times to live a renewal may well ask for less. Argument.
`PromiseInv` adds to `ServiceInv` and `NoLeaseOutlivesItsTTL` what the handlers are about
to do to promises already made. The calls still to make are either acquisitions or
one call that presents a token (`TodoOK`); a client waits at one connection
(`ClientsWaitOnce`), and had given up the lease if the call can end it; what
an answer will report is news for its holder, or for the client that waits for
that answer, and no two answers report the same (`GrantsOK`). So nobody else can end a
promised lease but by finding it lapsed, which an old reading only makes later. The one
hard case is a renewal: it overwrites an expiry with one computed from an old reading.
`RenewalOK` says that the row it finds was then written from a still older one, because
its client has no other request in flight; it is here that the equal times to live are
used. TLC checked `PromiseInv` on the instance of `service_promises` before it was proved.

`HttpApiProofs` proves, under `StoreAssumption` and the assumptions of `HttpApi`, for any
number of connections and for every request, well-formed or not:

- `ApiImplementsFencedGrants`: `Spec => ImplementsFencedGrants`;
- `ApiStoresOnlyValid`: `Spec => []StoredIsValid`;
- `ApiAnswersAreCurrent`: `Spec => []AnswersAreCurrent`;
- `ApiEndIsFinal`: `Spec => []EndIsFinal`;
- `ApiFlagsAreHonest`: `Spec => []FlagsAreHonest`, if `NoOverflow` (an expiry that wraps
  around is in the past, and the lease just granted is flagged).

`BadNumbers` is any set of int64 numbers below 1, and clients may have any number of requests
in flight: no theorem here restrains them.

Argument. `ApiInv` says of each handler what it knows at its stage, as facts that other
handlers cannot undo. Its type (in `ApiTypeOK`) says that what is on its way to the store is an
accepted request; `AcceptedIsCall`, one case per operation, that an accepted request is a call
of the store with good arguments in every field (hence `ApiStoresOnlyValid`: `FencingInv`
includes `TypeOK`). `NewestOK`: the tokens granted before the request arrived are behind the
counters, which never go back, and by `FencingInv` a row carries the newest of them.
`ReadingsOK`: the readings were made in order and are not ahead of the clock. `OverOK` is what
makes `EndIsFinal` inductive: a grant whose end was told is gone not only now but *at every
instant that a renewal of it still works with*; `EndIsFinal` alone is not enough, since such a
renewal could bring a lapsed lease back (`renew_lapsed`). For 403, 404 and a success of release
or transfer it holds because the grant is no longer the row, and a superseded or removed
grant has a token behind the counter, which no row can carry again (`RefusedGrantIsGone`,
`EndedBySuccess`). For 410 the row is still there; it has lapsed at the reading of the request
that is refused, and hence, with no renewal on its way that has an earlier one, at the reading
of every renewal that is (`TellsRightly`); later readings are later still. `FlagsAreHonest`
needs no invariant of its own: it follows at the step that writes an answer from the order of
the readings.

`ReportsProofs` proves, under `StoreAssumption` and `ReportsAssumption` (finitely many
resources), for any number of transactions between the queries:

- `ReportTokensCoverLeases`: `Spec => []TokensCoverLeases`;
- `StatsCountKnownLeases`: `Spec => []StatsCountsKnownLeases`;
- `ReportActiveWasLive`: `Spec => []ActiveWasLive`;
- `ReportExpiryAgrees`: `Spec => []ExpiryAgreesUnlessYearWraps`;
- `ReportRejectedOnlyWhenSumsOverflow`: `Spec => []RejectedOnlyWhenSumsOverflow`;
- `ReportAverageWithinRange`: `Spec => []AverageWithinRange`;
- `ReportAuditNeverObjects`: `Spec => []AuditNeverObjects`;
- `ReportAnswerNeverMeetsDefaults`: `Spec => []AnswerNeverMeetsDefaults`;
- `ReportHealthyMeansNothingToDo`: `Spec => []HealthyMeansNothingToDo`.

Argument. The first two rest on counters that are never removed and never shrink, which
follows from `FencingInv` and the shapes of `StepCases`: the invariants (`CollectedInv`,
`CountedInv`) say at each stage that the counters of today are ahead of the tokens
listed, or that the resources known today include those counted. The others are facts
about whatever may have been collected, torn or not. `SeenInv` gives its types, and that
the clock was read after the leases were listed; one lemma per table of a report
(`TokensOfReport`, `ResourcesOfReport`, `HoldersOfReport`) gives its entries;
`InternalTimes` says where Go's `time.Time` wraps around.

The sums need more. `MapThenSumSet` of the community modules is a recursive function on
the subsets of a set, under a `CHOOSE`: that there is such a function at all is
`SumsDefined`, and that a sum of n times to live lies between n times the least and n
times the largest is `SumBounds`. The library's induction theorems cannot be
instantiated here, so both are proved by a smallest counterexample (`NoFirstFailure`,
from the well-foundedness of the natural numbers).

Trying to prove `HealthyMeansNothingToDo` corrected it. As first stated, without its last
conjunct, it passed with two resources; but three leases of one holder may add up to
exactly 2^64, a sum that wraps around to 0, and `recommendations` then complains of a
holder "with no recorded TTL". The property now says so.

`TxStoreProofs` proves, under `StoreAssumption` and `TxAssumption` (`NoOne` is not a
goroutine), for any number of goroutines and any kinds of call:

- `CommitsAreAtomic`: `Spec => CommitsAreTransactions`;
- `TokensStayFenced`: `Spec => []SyncedTokensStayFenced`.

Argument. `TxInv` adds three things to `FencingInv`. `Prepared` says of the goroutine
that has the connection, for each statement it may be at, that the draft is the
committed tables with exactly what the statements before have written, that the
checks made so far hold of the committed tables, and that the token read is the next
one there. One lemma per statement shows that it leads to the next one's `Prepared`,
and `CommitIsTransaction` that at COMMIT this is the transaction of `LeaseStore`, which
keeps `FencingInv`. `Synced!FencingInv` says that the tables as of the last sync are
consistent, which is what a power failure needs; `SyncedBehindCounters`, that their
tokens are behind the counters of now, which no transaction can set back
(`CountersGrow`). `StoreCallsProofs` holds what this and `LeaseServiceProofs` need to
know of calls.

Only model-checked: `CallsReturn`, since liveness under fairness and `ENABLED` are out of
the prover's reach. All other properties of the passing runs are theorems. The
properties of the five other runs are false.

## 6. Not modelled

JSON, routing, texts, order and format of what is displayed, CSV, the metrics list,
the fingerprint and the summary maps of the analysis; `GET /health`, `/version` and
`GET /resources`; the columns `acquired_at`, `description` and `created_at`; `MockClock`,
which only the tests and the smoke test use (its `Now` takes no lock, but there the handlers
of the test server run one after the other), and the smoke test, which is a test; a clock that steps back under
the running service (in `LeaseStore` it may); fractions of seconds; a second process on
the same database file; a failed start; a COMMIT that reports an error and takes
effect all the same; in `TxStore`, queries outside a transaction and the rows they leave
unread; the loss of the connection's pragmas when the driver replaces it.
