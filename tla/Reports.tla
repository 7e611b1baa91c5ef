------------------------------ MODULE Reports ------------------------------
(***************************************************************************)
(* The reports of the registry: the statistics of GET /stats, and the      *)
(* analysis of GET /analysis with the audit made over it.                  *)
(*                                                                         *)
(* A report is collected query by query, none of them in a transaction     *)
(* with the next, while transactions commit in between; then everything    *)
(* else is computed from what was collected.  The steps below are the      *)
(* queries and the clock readings; the computations are operators over     *)
(* `seen', named like the Go functions they translate.  Lists are sets     *)
(* and tables here: their order matters for display only, and a list of    *)
(* messages is represented by its length.                                  *)
(***************************************************************************)
EXTENDS LeaseStore, FiniteSetsExt

CONSTANTS
  EpochOffset,  \* seconds from the zero of Go's Time to the unix epoch
  Minute        \* seconds in a minute: the scale of the expiry buckets

ASSUME ReportsAssumption ==
  /\ EpochOffset \in Nat
  /\ Minute \in Nat \ {0}
  /\ 0 \in Instants
  /\ IsFiniteSet(Resources)
  /\ Instants \subseteq 0 .. MaxInt - EpochOffset

VARIABLES
  clock,      \* RealClock, in unix seconds
  stage,      \* the query or clock reading that the report makes next
  numbers,    \* what Stats has counted so far, and the instant it counts for
  seen        \* what Analyze has collected, and (history) when it listed leases

vars == <<leases, fencing_counters, resources, issued,
          clock, stage, numbers, seen>>

NoNumbers == [now |-> 0, active |-> 0, expired |-> 0, known |-> 0, holders |-> 0]
NothingSeen ==
  [leases |-> EmptyTable, resources |-> EmptyTable, next |-> EmptyTable,
   now |-> 0, listed |-> 0]

Init ==
  /\ StoreInit
  /\ clock = 0
  /\ stage = "idle"
  /\ numbers = NoNumbers
  /\ seen = NothingSeen

-----------------------------------------------------------------------------
(* Statistics: four queries for one instant *)

ActiveLeases(now) == Quantify(DOMAIN leases, LAMBDA r : leases[r].expires_at > now)
ExpiredLeases(now) == Quantify(DOMAIN leases, LAMBDA r : leases[r].expires_at <= now)
TotalResources == Cardinality(DOMAIN fencing_counters)
TotalHolders(now) ==
  Cardinality({leases[r].holder : r \in {r \in DOMAIN leases : leases[r].expires_at > now}})

StartStats ==
  /\ stage = "idle"
  /\ stage' = "active_leases"
  /\ numbers' = [NoNumbers EXCEPT !.now = clock]
  /\ UNCHANGED <<storeVars, clock, seen>>

\* One query of Stats: it fills in one number and goes on to the next.
Count(query, next, counted) ==
  /\ stage = query
  /\ stage' = next
  /\ numbers' = counted
  /\ UNCHANGED <<storeVars, clock, seen>>

\* [bug] the resources ever seen are counted before the leases.
StatsQueriesReordered ==
  \/ Count("active_leases", "expired_leases", [numbers EXCEPT !.known = TotalResources])
  \/ Count("expired_leases", "total_resources",
           [numbers EXCEPT !.active = ActiveLeases(numbers.now)])
  \/ Count("total_resources", "total_holders",
           [numbers EXCEPT !.expired = ExpiredLeases(numbers.now)])
  \/ Count("total_holders", "counted", [numbers EXCEPT !.holders = TotalHolders(numbers.now)])

StatsQueries ==
  \/ Count("active_leases", "expired_leases",
           [numbers EXCEPT !.active = ActiveLeases(numbers.now)])
  \/ Count("expired_leases", "total_resources",
           [numbers EXCEPT !.expired = ExpiredLeases(numbers.now)])
  \/ Count("total_resources", "total_holders", [numbers EXCEPT !.known = TotalResources])
  \/ Count("total_holders", "counted", [numbers EXCEPT !.holders = TotalHolders(numbers.now)])

-----------------------------------------------------------------------------
(* Analysis: what is collected *)

StartAnalysis ==
  /\ stage = "idle"
  /\ stage' = "list"
  /\ UNCHANGED <<storeVars, clock, numbers, seen>>

Collect(query, next, collected) ==
  /\ stage = query
  /\ stage' = next
  /\ seen' = collected
  /\ UNCHANGED <<storeVars, clock, numbers>>

\* [bug] a resource that was never leased has 0 as its next token.
PeekFromZero(r) == IF r \in DOMAIN fencing_counters THEN fencing_counters[r] ELSE 0

\* [bug] the peek returns the token that was handed out last.
PeekLastToken(r) == IF r \in DOMAIN fencing_counters THEN fencing_counters[r] - 1 ELSE 1

\* The peek does not create a counter row.
PeekFencingToken(r) == IF r \in DOMAIN fencing_counters THEN fencing_counters[r] ELSE 1

ListLeases == Collect("list", "list_resources", [seen EXCEPT !.leases = leases, !.listed = clock])

\* [bug] the analysis works with the instant at which the process started.
ReadClockBeforeListing == Collect("clock", "peek", [seen EXCEPT !.now = 0])
ReadClock == Collect("clock", "peek", [seen EXCEPT !.now = clock])

ListResources == Collect("list_resources", "clock", [seen EXCEPT !.resources = resources])

PeekTokens ==
  \E r \in DOMAIN seen.resources \ DOMAIN seen.next :
    Collect("peek", "peek", [seen EXCEPT !.next = Upsert(@, r, PeekFencingToken(r))])

\* The report is written, or a query failed and an error is.
Finish ==
  /\ stage # "idle"
  /\ stage' = "idle"
  /\ numbers' = NoNumbers
  /\ seen' = NothingSeen
  /\ UNCHANGED <<storeVars, clock>>

-----------------------------------------------------------------------------
(* Analysis: what is computed from `seen' *)

Wrap64(n) == ((n + MaxInt + 1) % (2 * (MaxInt + 1))) - (MaxInt + 1)

\* time.Unix(sec, 0) counts from the year 1 in an int64, and wraps around.
Internal(sec) == Plus64(sec, EpochOffset)

\* [bug] a lease is still live at the instant of its expiry.
ExpiredAfter(row, now) == Internal(now) > Internal(row.expires_at)

ExpiredAt(row, now) == ~(Internal(row.expires_at) > Internal(now))

FilterExpired(s) == {r \in DOMAIN s.leases : ExpiredAt(s.leases[r], s.now)}
FilterActive(s) == DOMAIN s.leases \ FilterExpired(s)

\* The sum of the times to live of the rows of rs, without the wrap-around.
SumTTL(s, rs) == MapThenSumSet(LAMBDA r : s.leases[r].ttl_seconds, rs)

\* [bug] the seconds that are left are added up.
HolderAnalysisOfRemaining(s) ==
  [h \in {s.leases[r].holder : r \in DOMAIN s.leases} |->
     LET rs == {r \in DOMAIN s.leases : s.leases[r].holder = h}
     IN  [active |-> Cardinality(rs \cap FilterActive(s)),
          expired |-> Cardinality(rs \cap FilterExpired(s)),
          total_ttl |->
            Wrap64(MapThenSumSet(LAMBDA r : s.leases[r].expires_at - s.now, rs))]]

HolderAnalysis(s) ==
  [h \in {s.leases[r].holder : r \in DOMAIN s.leases} |->
     LET rs == {r \in DOMAIN s.leases : s.leases[r].holder = h}
     IN  [active |-> Cardinality(rs \cap FilterActive(s)),
          expired |-> Cardinality(rs \cap FilterExpired(s)),
          total_ttl |-> Wrap64(SumTTL(s, rs))]]

ResourceAnalysis(s) ==
  [n \in DOMAIN s.resources \cup DOMAIN s.leases |->
     [registered |-> n \in DOMAIN s.resources,
      max_ttl |-> IF n \in DOMAIN s.resources THEN s.resources[n] ELSE 0,
      held |-> n \in DOMAIN s.leases,
      expired |-> n \in FilterExpired(s)]]

TokenAnalysis(s) ==
  [n \in DOMAIN s.next |->
     [current |-> s.next[n] - 1, next |-> s.next[n], monotonic |-> s.next[n] > 0]]

CapacityWarnings(rows) ==
  Quantify(DOMAIN rows, LAMBDA n :
    rows[n].registered /\ rows[n].max_ttl > 0 /\ rows[n].held /\ rows[n].expired)

\* How many leases have more than `low' and at most `high' seconds left.
Bucket(s, low, high) ==
  Quantify(DOMAIN s.leases, LAMBDA r :
    Internal(s.leases[r].expires_at) - Internal(s.now) \in low + 1 .. high)
ExpiryBuckets(s) ==
  [expired |-> Bucket(s, -2 * MaxInt - 2, 0), under_1m |-> Bucket(s, 0, Minute),
   under_5m |-> Bucket(s, Minute, 5 * Minute),
   later |-> Bucket(s, 5 * Minute, 2 * MaxInt + 1)]

\* Go's division truncates towards zero.
Quotient(a, n) == IF a < 0 THEN -((-a) \div n) ELSE a \div n

\* [bug] the sum is divided by the number of holders.
DurationStatsPerHolder(s) ==
  LET ttls == {s.leases[r].ttl_seconds : r \in DOMAIN s.leases}
  IN  IF ttls = {} THEN [minimum |-> 0, maximum |-> 0, average |-> 0]
      ELSE [minimum |-> Min(ttls), maximum |-> Max(ttls),
            average |-> Quotient(Wrap64(SumTTL(s, DOMAIN s.leases)),
                                 Cardinality(DOMAIN HolderAnalysis(s)))]

DurationStats(s) ==
  LET ttls == {s.leases[r].ttl_seconds : r \in DOMAIN s.leases}
  IN  IF ttls = {} THEN [minimum |-> 0, maximum |-> 0, average |-> 0]
      ELSE [minimum |-> Min(ttls), maximum |-> Max(ttls),
            average |-> Quotient(Wrap64(SumTTL(s, DOMAIN s.leases)),
                                 Cardinality(DOMAIN s.leases))]

AnalysisHealthy(holders, rows, tokens) ==
  /\ \A h \in DOMAIN holders : holders[h].active >= 0 /\ holders[h].expired >= 0
  /\ \A n \in DOMAIN rows : rows[n].max_ttl >= 0 /\ (rows[n].expired => rows[n].held)
  /\ \A n \in DOMAIN tokens : tokens[n].monotonic /\ tokens[n].next > tokens[n].current

Analyze(s) ==
  [holders |-> HolderAnalysis(s), resources |-> ResourceAnalysis(s),
   tokens |-> TokenAnalysis(s), expiry |-> ExpiryBuckets(s),
   durations |-> DurationStats(s), warnings |-> CapacityWarnings(ResourceAnalysis(s)),
   active |-> Cardinality(FilterActive(s)), expired |-> Cardinality(FilterExpired(s)),
   healthy |-> AnalysisHealthy(HolderAnalysis(s), ResourceAnalysis(s), TokenAnalysis(s))]

-----------------------------------------------------------------------------
(* Analysis: what is derived from a report `a' *)

\* Counts are never negative; what is left of the checks can fail.
Validate(a) ==
  /\ \A h \in DOMAIN a.holders : a.holders[h].total_ttl >= 0
  /\ \A n \in DOMAIN a.resources : a.resources[n].max_ttl >= 0
  /\ \A n \in DOMAIN a.tokens : a.tokens[n].next > a.tokens[n].current

Unavailable(a) == Quantify(DOMAIN a.tokens, LAMBDA n : ~a.tokens[n].monotonic)
OneIf(condition) == IF condition THEN 1 ELSE 0

\* [bug] a healthy report has no reasons.
HealthReasonsOrNone(a) == a.warnings + OneIf(a.expired > 0) + Unavailable(a)

\* "all lease invariants are healthy" is a reason too.
HealthReasons(a) ==
  LET reasons == a.warnings + OneIf(a.expired > 0) + Unavailable(a)
  IN  IF reasons = 0 THEN 1 ELSE reasons

\* GET /analysis adds the reasons to the warnings before it goes on.
AsAnswered(a) == [a EXCEPT !.warnings = @ + HealthReasons(a)]

OperationalScore(a) ==
  LET score == 100 - 5 * a.expired - 10 * a.warnings - 20 * Unavailable(a)
  IN  IF score < 0 THEN 0 ELSE score

\* DefaultThresholds: MaxExpired 0, MaxWarnings 0, MinScore 80.
Breaches(a) ==
  {name \in {"expired", "warnings", "score"} :
     \/ name = "expired" /\ a.expired > 0
     \/ name = "warnings" /\ a.warnings > 0
     \/ name = "score" /\ OperationalScore(a) < 80}
Meets(a) == Breaches(a) = {}

Recommendations(a) ==
  LET n == OneIf(a.expired > 0) + a.warnings
           + Quantify(DOMAIN a.holders, LAMBDA h : a.holders[h].expired > a.holders[h].active)
           + Quantify(DOMAIN a.holders, LAMBDA h :
                        a.holders[h].total_ttl = 0 /\ a.holders[h].active > 0)
           + Quantify(DOMAIN a.resources, LAMBDA r :
                        a.resources[r].registered /\ a.resources[r].max_ttl = 0
                          /\ a.resources[r].held)
           + Quantify(DOMAIN a.resources, LAMBDA r : a.resources[r].held /\ a.resources[r].expired)
           + Unavailable(a)
  IN  IF n = 0 THEN 1 ELSE n

\* [bug] the health reason is not counted as something to do.
StatusOfTheRest(a) ==
  IF Unavailable(a) > 0 THEN "critical"
  ELSE IF Recommendations(a) - 1 > 1 THEN "attention"
  ELSE "healthy"

Status(a) ==
  IF Unavailable(a) > 0 THEN "critical"
  ELSE IF Recommendations(a) > 1 THEN "attention"
  ELSE "healthy"

\* leaseaudit.Check: the resources and the tokens it complains of.
Check(a) ==
  {n \in DOMAIN a.resources : a.resources[n].expired /\ ~a.resources[n].held}
  \cup {n \in DOMAIN a.tokens :
          a.tokens[n].current < 0 \/ a.tokens[n].next <= a.tokens[n].current
            \/ ~a.tokens[n].monotonic}

ReadyForTraffic(a) == a.healthy /\ Validate(a)

-----------------------------------------------------------------------------
(* The tables and the clock change meanwhile *)

Transaction ==
  /\ StoreNext
  /\ UNCHANGED <<clock, stage, numbers, seen>>

Tick ==
  /\ clock + 1 \in Instants
  /\ clock' = clock + 1
  /\ UNCHANGED <<storeVars, stage, numbers, seen>>

Next ==
  \/ StartStats \/ StatsQueries
  \/ StartAnalysis \/ ListLeases \/ ListResources \/ ReadClock \/ PeekTokens
  \/ Finish \/ Transaction \/ Tick

Spec == Init /\ [][Next]_vars
-----------------------------------------------------------------------------
(* Properties *)

Counted == stage = "counted"
Analyzed == stage = "peek" /\ DOMAIN seen.next = DOMAIN seen.resources
Report == Analyze(seen)

\* GET /stats: every lease counted is one of a resource ever seen, although the
\* counts are taken at different moments.  It depends on the order of the
\* queries, and on counters that are never removed.
StatsCountsKnownLeases ==
  Counted => numbers.active <= numbers.known /\ numbers.expired <= numbers.known

\* store.go: "Stats computes summary statistics at the given instant": at no
\* instant has a registry more holders of active leases than active leases.
StatsHoldersHaveLeases == Counted => numbers.holders <= numbers.active

\* The next token a report gives for a resource is larger than the token of the
\* lease it lists for it, although the lease was read first and may have been
\* released, renewed or handed over since.
TokensCoverLeases ==
  \A r \in DOMAIN seen.leases \cap DOMAIN seen.next :
    seen.leases[r].fencing_token < seen.next[r]

\* A lease that a report counts as active was live when it was read: the clock
\* is read after the rows, so that time can only take leases away.
ActiveWasLive ==
  Analyzed => \A r \in FilterActive(seen) : seen.leases[r].expires_at > seen.listed

\* Go's comparison of times and SQL's comparison of seconds agree on what has
\* expired, the instant of expiry included; a lease beyond the last year a Go
\* time can hold is the exception, which the store holds live for ever.  The
\* expiry buckets, which subtract times, agree with the comparison.
ExpiryAgreesUnlessYearWraps ==
  Analyzed =>
    /\ \A r \in DOMAIN seen.leases :
         LET row == seen.leases[r]
         IN  r \in FilterExpired(seen)
               <=> row.expires_at <= seen.now \/ row.expires_at > MaxInt - EpochOffset
    /\ Report.expiry.expired = Report.expired

\* GET /analysis fails (or a report is not ready for traffic) only where the times
\* to live of one holder overflow when they are added; no other state of the
\* tables, torn by the queries or not, makes it fail.
RejectedOnlyWhenSumsOverflow ==
  Analyzed /\ ~ReadyForTraffic(Report) =>
    \E h \in DOMAIN Report.holders :
      SumTTL(seen, {r \in DOMAIN seen.leases : seen.leases[r].holder = h}) > MaxInt

\* The average lies between the extremes unless the sum of all overflows; then
\* it may be negative in a report that Validate accepts, if no single holder's
\* sum overflows.
AverageWithinRange ==
  LET d == Report.durations
  IN  Analyzed /\ SumTTL(seen, DOMAIN seen.leases) <= MaxInt =>
        d.minimum <= d.average /\ d.average <= d.maximum

\* Nothing the queries can collect is objectionable to the audit or unhealthy:
\* the counters are at least 1 and a resource's row and flags come from one
\* list.  (So a finding can only mean that the database was damaged, and a
\* damaged database may still pass: no check compares tokens with leases.)
AuditNeverObjects ==
  Analyzed => Report.healthy /\ Check(AsAnswered(Report)) = {}

\* The report that GET /analysis answers with never meets the default
\* thresholds, because the reasons are counted as warnings and there is always
\* a reason; the report it was made from does when nothing has expired.
AnswerNeverMeetsDefaults ==
  Analyzed => ~Meets(AsAnswered(Report)) /\ (Report.expired = 0 => Meets(Report))

\* GET /analysis says "healthy" exactly when no lease waits for a sweep and no
\* resource is registered and held without a cap; except that it also takes a
\* holder for one "with no recorded TTL" whose times to live add up to just 2^64.
HealthyMeansNothingToDo ==
  Analyzed =>
    (Status(AsAnswered(Report)) = "healthy"
       <=> /\ Report.expired = 0
           /\ \A r \in DOMAIN seen.resources \cap DOMAIN seen.leases : seen.resources[r] > 0
           /\ \A h \in DOMAIN Report.holders : Report.holders[h].total_ttl # 0)
=============================================================================
