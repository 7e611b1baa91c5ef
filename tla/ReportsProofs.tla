--------------------------- MODULE ReportsProofs ---------------------------
(***************************************************************************)
(* Proofs about Reports: what holds of a report although its queries see   *)
(* different moments of the tables, for any number of transactions in      *)
(* between; and what the analysis computes from whatever they have seen.   *)
(*                                                                         *)
(* What relates the queries rests on two facts: a counter, once there,     *)
(* never goes away and never goes back; and the clock is read after the    *)
(* leases are listed.  What the analysis computes rests on the types of    *)
(* what was collected (SeenInv), and, where times to live are added up, on *)
(* the bounds of a sum (SumBounds).                                        *)
(***************************************************************************)
EXTENDS Reports, LeaseStoreProofs, FiniteSetTheorems

-----------------------------------------------------------------------------
(* Rows and counters *)

\* A stored lease is one of a resource whose counter is ahead of its token.
LEMMA RowsHaveCounters ==
  ASSUME FencingInv
  PROVE  \A r \in DOMAIN leases :
           /\ r \in DOMAIN fencing_counters
           /\ leases[r].fencing_token \in Int
           /\ fencing_counters[r] \in Int
           /\ leases[r].fencing_token < fencing_counters[r]
<1> SUFFICES ASSUME NEW r \in DOMAIN leases
             PROVE  /\ r \in DOMAIN fencing_counters
                    /\ leases[r].fencing_token \in Int
                    /\ fencing_counters[r] \in Int
                    /\ leases[r].fencing_token < fencing_counters[r]
  OBVIOUS
<1>1. leases[r].fencing_token \in Int
  BY StoreAssumption DEF FencingInv, TypeOK, LeaseRow, Tokens
<1>2. r \in DOMAIN fencing_counters /\ fencing_counters[r] = leases[r].fencing_token + 1
  BY DEF FencingInv, RowIsNewestGrant
<1> QED
  BY <1>1, <1>2

-----------------------------------------------------------------------------
(* The analysis *)

\* The counters stay ahead of the tokens that were listed, and nothing is peeked
\* before the leases are listed.
CollectedInv ==
  /\ seen = [leases |-> seen.leases, resources |-> seen.resources, next |-> seen.next,
             now |-> seen.now, listed |-> seen.listed]
  /\ stage # "peek" => DOMAIN seen.next = {}
  /\ \A r \in DOMAIN seen.leases :
       /\ r \in DOMAIN fencing_counters
       /\ seen.leases[r].fencing_token \in Int
       /\ fencing_counters[r] \in Int
       /\ seen.leases[r].fencing_token < fencing_counters[r]
  /\ TokensCoverLeases

\* The counts made so far are bounded by the number of counters, or by what was
\* counted as that number.
CountedInv ==
  /\ numbers = [now |-> numbers.now, active |-> numbers.active, expired |-> numbers.expired,
                known |-> numbers.known, holders |-> numbers.holders]
  /\ numbers.active \in Nat /\ numbers.expired \in Nat /\ numbers.known \in Nat
  /\ stage \in {"expired_leases", "total_resources"} => numbers.active <= TotalResources
  /\ stage = "total_resources" => numbers.expired <= TotalResources
  /\ stage \in {"total_holders", "counted"} =>
       numbers.active <= numbers.known /\ numbers.expired <= numbers.known

\* Every step of the reports is a step of the store or leaves the tables alone.
LEMMA StepIsStoreStep ==
  ASSUME [Next]_vars
  PROVE  [StoreNext]_storeVars
<1>1. CASE Next
  BY <1>1 DEF Next, StartStats, StatsQueries, Count, StartAnalysis, ListLeases, Collect,
              ListResources, ReadClock, PeekTokens, Finish, Transaction, Tick
<1>2. CASE UNCHANGED vars
  BY <1>2 DEF vars, storeVars
<1> QED
  BY <1>1, <1>2

\* No step lets a listed token catch up with the counters.
LEMMA CollectedStep ==
  ASSUME FencingInv, CollectedInv, [Next]_vars
  PROVE  CollectedInv'
<1>1. ASSUME seen' = seen, stage' = stage \/ (stage' # "peek" /\ stage # "peek")
      PROVE  CollectedInv'
  <2>1. CountersGrew /\ FencingInv'
    BY StepIsStoreStep, CountersGrow, FencingInvInductive
  <2>2. \A r \in DOMAIN seen.leases : r \in DOMAIN fencing_counters' /\ fencing_counters'[r] \in Int
    BY <2>1, StoreAssumption DEF CountersGrew, CollectedInv, FencingInv, TypeOK
  <2>3. \A r \in DOMAIN seen.leases : seen.leases[r].fencing_token < fencing_counters'[r]
    BY <2>1, <2>2 DEF CountersGrew, CollectedInv
  <2> QED
    BY <1>1, <2>2, <2>3 DEF CollectedInv, TokensCoverLeases
<1>2. CASE StartStats \/ StartAnalysis \/ StatsQueries \/ Transaction \/ Tick \/ UNCHANGED vars
  <2>1. CASE StartStats \/ StartAnalysis
    BY <1>1, <2>1 DEF StartStats, StartAnalysis
  <2>2. ASSUME NEW query, NEW next, NEW counted, query # "peek", next # "peek",
               Count(query, next, counted)
        PROVE  CollectedInv'
    BY <1>1, <2>2 DEF Count
  <2>3. CASE StatsQueries
    BY <2>2, <2>3 DEF StatsQueries
  <2>4. CASE Transaction \/ Tick \/ UNCHANGED vars
    BY <1>1, <2>4 DEF Transaction, Tick, vars
  <2> QED
    BY <1>2, <2>1, <2>3, <2>4
<1>3. CASE ListLeases
  <2>1. /\ stage = "list" /\ stage' = "list_resources"
        /\ fencing_counters' = fencing_counters
        /\ seen' = [leases |-> leases, resources |-> seen.resources, next |-> seen.next,
                    now |-> seen.now, listed |-> clock]
    BY <1>3 DEF ListLeases, Collect, storeVars, CollectedInv
  <2> QED
    BY <2>1, RowsHaveCounters DEF CollectedInv, TokensCoverLeases
<1>4. CASE ReadClock \/ ListResources
  <2>1. /\ stage # "peek"
        /\ fencing_counters' = fencing_counters
        /\ seen' = [leases |-> seen.leases, resources |-> seen'.resources, next |-> seen.next,
                    now |-> seen'.now, listed |-> seen.listed]
    BY <1>4 DEF ReadClock, ListResources, Collect, storeVars, CollectedInv
  <2> QED
    BY <2>1 DEF CollectedInv, TokensCoverLeases
<1>5. CASE PeekTokens
  <2>1. PICK r \in DOMAIN seen.resources \ DOMAIN seen.next :
          Collect("peek", "peek", [seen EXCEPT !.next = Upsert(@, r, PeekFencingToken(r))])
    BY <1>5 DEF PeekTokens
  <2>2. /\ stage' = "peek" /\ fencing_counters' = fencing_counters
        /\ seen' = [leases |-> seen.leases, resources |-> seen.resources,
                    next |-> Upsert(seen.next, r, PeekFencingToken(r)),
                    now |-> seen.now, listed |-> seen.listed]
    BY <2>1 DEF Collect, storeVars, CollectedInv
  <2>3. r \in DOMAIN seen.leases => PeekFencingToken(r) = fencing_counters[r]
    BY DEF CollectedInv, PeekFencingToken
  <2>4. TokensCoverLeases'
    BY <2>2, <2>3 DEF CollectedInv, TokensCoverLeases, Upsert
  <2> QED
    BY <2>2, <2>4 DEF CollectedInv
<1>6. CASE Finish
  BY <1>6 DEF Finish, NothingSeen, EmptyTable, CollectedInv, TokensCoverLeases
<1> QED
  BY <1>2, <1>3, <1>4, <1>5, <1>6 DEF Next

\* In every report, the next token given for a resource is larger than the token
\* of the lease listed for it.
THEOREM ReportTokensCoverLeases == Spec => []TokensCoverLeases
<1>1. Init => FencingInv /\ CollectedInv
  BY FencingInvInductive
     DEF Init, NothingSeen, EmptyTable, CollectedInv, TokensCoverLeases
<1>2. FencingInv /\ CollectedInv /\ [Next]_vars => (FencingInv /\ CollectedInv)'
  BY StepIsStoreStep, FencingInvInductive, CollectedStep
<1>3. CollectedInv => TokensCoverLeases
  BY DEF CollectedInv
<1> QED
  BY <1>1, <1>2, <1>3, PTL DEF Spec
-----------------------------------------------------------------------------
(* The statistics *)

\* A set of leased resources is no larger than the table of counters.
LEMMA LeasesAreKnown ==
  ASSUME FencingInv, NEW rs \in SUBSET DOMAIN leases
  PROVE  Cardinality(rs) \in Nat /\ Cardinality(rs) <= TotalResources
<1>1. IsFiniteSet(DOMAIN fencing_counters)
  BY ReportsAssumption, FS_Subset DEF FencingInv, TypeOK
<1>2. rs \subseteq DOMAIN fencing_counters
  BY DEF FencingInv, RowIsNewestGrant
<1> QED
  BY <1>1, <1>2, FS_Subset, FS_CardinalityType DEF TotalResources

\* The number of counters never falls.
LEMMA KnownResourcesGrow ==
  ASSUME FencingInv, [StoreNext]_storeVars
  PROVE  /\ TotalResources \in Nat /\ TotalResources' \in Nat
         /\ TotalResources <= TotalResources'
<1>1. DOMAIN fencing_counters \subseteq DOMAIN fencing_counters' /\ FencingInv'
  BY CountersGrow, FencingInvInductive DEF CountersGrew
<1>2. IsFiniteSet(DOMAIN fencing_counters) /\ IsFiniteSet(DOMAIN fencing_counters')
  BY <1>1, ReportsAssumption, FS_Subset DEF FencingInv, TypeOK
<1> QED
  BY <1>1, <1>2, FS_Subset, FS_CardinalityType DEF TotalResources

\* No step lets what is counted exceed the number of counters.
LEMMA CountedStep ==
  ASSUME FencingInv, CountedInv, [Next]_vars
  PROVE  CountedInv'
<1>1. ASSUME numbers' = numbers,
             stage' = stage \/ stage' \notin {"expired_leases", "total_resources",
                                            "total_holders", "counted"}
      PROVE  CountedInv'
  <2>1. /\ TotalResources \in Nat /\ TotalResources' \in Nat
        /\ TotalResources <= TotalResources'
    BY StepIsStoreStep, KnownResourcesGrow
  <2> QED
    BY <1>1, <2>1 DEF CountedInv
<1>2. CASE StartAnalysis \/ Transaction \/ Tick \/ UNCHANGED vars
  BY <1>1, <1>2 DEF StartAnalysis, Transaction, Tick, vars
<1>3. CASE ListLeases \/ ReadClock \/ ListResources \/ PeekTokens
  <2>1. CASE ListLeases \/ ReadClock \/ ListResources
    BY <1>1, <2>1 DEF ListLeases, ReadClock, ListResources, Collect
  <2>2. CASE PeekTokens
    BY <1>1, <2>2 DEF PeekTokens, Collect
  <2> QED
    BY <1>3, <2>1, <2>2
<1>4. CASE StartStats \/ Finish
  BY <1>4 DEF StartStats, Finish, NoNumbers, CountedInv
<1>5. CASE StatsQueries
  <2> DEFINE a == ActiveLeases(numbers.now)
             e == ExpiredLeases(numbers.now)
             h == TotalHolders(numbers.now)
  <2>1. a \in Nat /\ a <= TotalResources
    BY LeasesAreKnown DEF ActiveLeases, Quantify
  <2>2. e \in Nat /\ e <= TotalResources
    BY LeasesAreKnown DEF ExpiredLeases, Quantify
  <2>3. TotalResources \in Nat
    BY StepIsStoreStep, KnownResourcesGrow
  <2> HIDE DEF a, e, h
  <2>4. CASE Count("active_leases", "expired_leases", [numbers EXCEPT !.active = a])
    <3>1. numbers' = [now |-> numbers.now, active |-> a, expired |-> numbers.expired,
                      known |-> numbers.known, holders |-> numbers.holders]
          /\ stage' = "expired_leases" /\ TotalResources' = TotalResources
      BY <2>4 DEF Count, CountedInv, storeVars, TotalResources
    <3> QED
      BY <2>1, <3>1 DEF CountedInv
  <2>5. CASE Count("expired_leases", "total_resources", [numbers EXCEPT !.expired = e])
    <3>1. numbers' = [now |-> numbers.now, active |-> numbers.active, expired |-> e,
                      known |-> numbers.known, holders |-> numbers.holders]
          /\ stage = "expired_leases" /\ stage' = "total_resources"
          /\ TotalResources' = TotalResources
      BY <2>5 DEF Count, CountedInv, storeVars, TotalResources
    <3> QED
      BY <2>2, <3>1 DEF CountedInv
  <2>6. CASE Count("total_resources", "total_holders", [numbers EXCEPT !.known = TotalResources])
    <3>1. numbers' = [now |-> numbers.now, active |-> numbers.active,
                      expired |-> numbers.expired,
                      known |-> TotalResources, holders |-> numbers.holders]
          /\ stage = "total_resources" /\ stage' = "total_holders"
      BY <2>6 DEF Count, CountedInv
    <3> QED
      BY <2>3, <3>1 DEF CountedInv
  <2>7. CASE Count("total_holders", "counted", [numbers EXCEPT !.holders = h])
    <3>1. numbers' = [now |-> numbers.now, active |-> numbers.active,
                      expired |-> numbers.expired,
                      known |-> numbers.known, holders |-> h]
          /\ stage = "total_holders" /\ stage' = "counted"
      BY <2>7 DEF Count, CountedInv
    <3> QED
      BY <3>1 DEF CountedInv
  <2> QED
    BY <1>5, <2>4, <2>5, <2>6, <2>7 DEF StatsQueries, a, e, h
<1> QED
  BY <1>2, <1>3, <1>4, <1>5 DEF Next

\* GET /stats never counts more leases, active or expired, than resources ever
\* seen, although the three numbers belong to different moments.
THEOREM StatsCountKnownLeases == Spec => []StatsCountsKnownLeases
<1>1. Init => FencingInv /\ CountedInv
  BY FencingInvInductive DEF Init, NoNumbers, CountedInv
<1>2. FencingInv /\ CountedInv /\ [Next]_vars => (FencingInv /\ CountedInv)'
  BY StepIsStoreStep, FencingInvInductive, CountedStep
<1>3. CountedInv => StatsCountsKnownLeases
  BY DEF CountedInv, StatsCountsKnownLeases, Counted
<1> QED
  BY <1>1, <1>2, <1>3, PTL DEF Spec

-----------------------------------------------------------------------------
(* What an analysis has collected *)

\* The collected rows, caps and tokens have the types of the tables they were
\* read from, and the clock was read after the leases were listed.
SeenInv ==
  /\ clock \in Instants
  /\ DOMAIN seen.leases \subseteq Resources
  /\ seen.leases \in [DOMAIN seen.leases -> LeaseRow]
  /\ DOMAIN seen.resources \subseteq Resources
  /\ seen.resources \in [DOMAIN seen.resources -> Caps \cap Nat]
  /\ \A r \in DOMAIN seen.next : seen.next[r] \in Nat /\ seen.next[r] >= 1
  /\ seen.now \in Instants /\ seen.listed \in Instants
  /\ seen.listed <= clock
  /\ stage = "peek" => seen.listed <= seen.now

\* Instants are numbers.
LEMMA InstantsAreIntegers == \A i \in Instants : i \in Int
  BY StoreAssumption DEF Int64

\* No step collects anything else.
LEMMA SeenStep ==
  ASSUME FencingInv, CollectedInv, SeenInv, [Next]_vars
  PROVE  SeenInv'
<1>0. clock \in Int /\ \A i \in Instants : i \in Int
  BY InstantsAreIntegers DEF SeenInv
<1>1. ASSUME seen' = seen, clock' = clock, stage' = stage \/ stage' # "peek"
      PROVE  SeenInv'
  BY <1>1 DEF SeenInv
<1>2. CASE StartStats \/ StartAnalysis \/ StatsQueries \/ Transaction \/ UNCHANGED vars
  <2>1. CASE StartStats \/ StartAnalysis
    BY <1>1, <2>1 DEF StartStats, StartAnalysis
  <2>2. ASSUME NEW query, NEW next, NEW counted, next # "peek", Count(query, next, counted)
        PROVE  SeenInv'
    BY <1>1, <2>2 DEF Count
  <2>3. CASE StatsQueries
    BY <2>2, <2>3 DEF StatsQueries
  <2>4. CASE Transaction \/ UNCHANGED vars
    BY <1>1, <2>4 DEF Transaction, vars
  <2> QED
    BY <1>2, <2>1, <2>3, <2>4
<1>3. CASE Tick
  <2>1. clock' = clock + 1 /\ clock' \in Instants /\ seen' = seen /\ stage' = stage
    BY <1>3 DEF Tick
  <2>2. seen.listed \in Int /\ seen.listed <= clock
    BY <1>0 DEF SeenInv
  <2>3. seen.listed <= clock'
    BY <1>0, <2>1, <2>2
  <2> QED
    BY <2>1, <2>3 DEF SeenInv
<1>4. CASE ListLeases
  <2>1. /\ stage' = "list_resources" /\ clock' = clock
        /\ seen' = [leases |-> leases, resources |-> seen.resources, next |-> seen.next,
                    now |-> seen.now, listed |-> clock]
    BY <1>4 DEF ListLeases, Collect, CollectedInv
  <2> QED
    BY <1>0, <2>1 DEF SeenInv, FencingInv, TypeOK
<1>5. CASE ListResources
  <2>1. /\ stage' = "clock" /\ clock' = clock
        /\ seen' = [leases |-> seen.leases, resources |-> resources, next |-> seen.next,
                    now |-> seen.now, listed |-> seen.listed]
    BY <1>5 DEF ListResources, Collect, CollectedInv
  <2> QED
    BY <2>1 DEF SeenInv, FencingInv, TypeOK
<1>6. CASE ReadClock
  <2>1. /\ clock' = clock
        /\ seen' = [leases |-> seen.leases, resources |-> seen.resources, next |-> seen.next,
                    now |-> clock, listed |-> seen.listed]
    BY <1>6 DEF ReadClock, Collect, CollectedInv
  <2> QED
    BY <2>1 DEF SeenInv
<1>7. CASE PeekTokens
  <2>1. PICK r \in DOMAIN seen.resources \ DOMAIN seen.next :
          Collect("peek", "peek", [seen EXCEPT !.next = Upsert(@, r, PeekFencingToken(r))])
    BY <1>7 DEF PeekTokens
  <2>2. /\ stage = "peek" /\ clock' = clock
        /\ seen' = [leases |-> seen.leases, resources |-> seen.resources,
                    next |-> Upsert(seen.next, r, PeekFencingToken(r)),
                    now |-> seen.now, listed |-> seen.listed]
    BY <2>1 DEF Collect, CollectedInv
  <2>3. PeekFencingToken(r) \in Nat /\ PeekFencingToken(r) >= 1
    BY StoreAssumption DEF FencingInv, TypeOK, PeekFencingToken
  <2> QED
    BY <2>2, <2>3 DEF SeenInv, Upsert
<1>8. CASE Finish
  <2>1. /\ stage' = "idle" /\ clock' = clock
        /\ seen' = [leases |-> EmptyTable, resources |-> EmptyTable, next |-> EmptyTable,
                    now |-> 0, listed |-> 0]
    BY <1>8 DEF Finish, NothingSeen
  <2>2. 0 <= clock
    BY ReportsAssumption DEF SeenInv
  <2> QED
    BY <2>1, <2>2, ReportsAssumption DEF SeenInv, EmptyTable
<1> QED
  BY <1>2, <1>3, <1>4, <1>5, <1>6, <1>7, <1>8 DEF Next

\* The collected data are typed in every reachable state.
LEMMA SeenInvariant == Spec => [](SeenInv /\ CollectedInv)
<1>1. Init => FencingInv /\ CollectedInv /\ SeenInv
  BY FencingInvInductive, ReportsAssumption
     DEF Init, NothingSeen, EmptyTable, CollectedInv, TokensCoverLeases, SeenInv
<1>2. FencingInv /\ CollectedInv /\ SeenInv /\ [Next]_vars
        => (FencingInv /\ CollectedInv /\ SeenInv)'
  BY StepIsStoreStep, FencingInvInductive, CollectedStep, SeenStep
<1> QED
  BY <1>1, <1>2, PTL DEF Spec

-----------------------------------------------------------------------------
(* What has expired *)

\* Go's Time wraps around where the seconds since the year 1 leave int64; an
\* expiry beyond that is taken for one before the epoch.
LEMMA InternalTimes ==
  ASSUME NEW expires_at \in Int64, NEW now \in Instants
  PROVE  /\ Internal(now) = now + EpochOffset
         /\ Internal(now) \in Int /\ Internal(expires_at) \in Int
         /\ ~(Internal(expires_at) > Internal(now))
              <=> expires_at <= now \/ expires_at > MaxInt - EpochOffset
         /\ Internal(expires_at) - Internal(now) \in -2 * MaxInt - 1 .. 2 * MaxInt + 1
<1>1. /\ MaxInt \in Nat /\ EpochOffset \in Nat /\ expires_at \in Int
      /\ -MaxInt - 1 <= expires_at /\ expires_at <= MaxInt
  BY StoreAssumption, ReportsAssumption DEF Int64
<1>2. now \in Int /\ 0 <= now /\ now <= MaxInt - EpochOffset
  BY <1>1, ReportsAssumption
<1> QED
  BY <1>1, <1>2 DEF Internal, Plus64

\* What a report counts as expired, in seconds.
LEMMA FilterExpiredExact ==
  ASSUME SeenInv, NEW r \in DOMAIN seen.leases
  PROVE  /\ seen.leases[r].expires_at \in Int64
         /\ r \in FilterExpired(seen)
              <=> \/ seen.leases[r].expires_at <= seen.now
                  \/ seen.leases[r].expires_at > MaxInt - EpochOffset
<1>1. seen.leases[r].expires_at \in Int64 /\ seen.now \in Instants
  BY DEF SeenInv, LeaseRow
<1> QED
  BY <1>1, InternalTimes DEF FilterExpired, ExpiredAt

\* A lease that a report counts as active was live when it was listed, although
\* the clock was read later.
THEOREM ReportActiveWasLive == Spec => []ActiveWasLive
<1>1. ASSUME SeenInv PROVE ActiveWasLive
  <2> SUFFICES ASSUME stage = "peek", NEW r \in FilterActive(seen)
               PROVE  seen.leases[r].expires_at > seen.listed
    BY DEF ActiveWasLive, Analyzed
  <2>1. r \in DOMAIN seen.leases /\ r \notin FilterExpired(seen)
    BY DEF FilterActive
  <2>2. /\ seen.leases[r].expires_at \in Int64
        /\ ~(seen.leases[r].expires_at <= seen.now)
    BY <1>1, <2>1, FilterExpiredExact
  <2>3. seen.listed <= seen.now /\ seen.listed \in Int /\ seen.now \in Int
    BY <1>1, InstantsAreIntegers DEF SeenInv
  <2>4. seen.leases[r].expires_at \in Int
    BY <2>2, StoreAssumption DEF Int64
  <2> QED
    BY <2>2, <2>3, <2>4
<1> QED
  BY <1>1, SeenInvariant, PTL

-----------------------------------------------------------------------------
(* What an analysis computes *)

\* The keys of the tables collected are finitely many, and so is all that is
\* counted.
LEMMA Finiteness ==
  ASSUME SeenInv
  PROVE  /\ \A rs \in SUBSET DOMAIN seen.leases : IsFiniteSet(rs) /\ Cardinality(rs) \in Nat
         /\ IsFiniteSet(DOMAIN seen.resources \cup DOMAIN seen.leases)
<1>1. \A rs \in SUBSET Resources : IsFiniteSet(rs) /\ Cardinality(rs) \in Nat
  BY ReportsAssumption, FS_Subset, FS_CardinalityType
<1> QED
  BY <1>1 DEF SeenInv

\* Counting the members of a finite set that satisfy a condition gives a number,
\* which is 0 if and only if none does.
LEMMA CountOfFinite ==
  ASSUME NEW S, IsFiniteSet(S), NEW T \in SUBSET S
  PROVE  Cardinality(T) \in Nat /\ (Cardinality(T) = 0 <=> T = {})
<1>1. IsFiniteSet(T)
  BY FS_Subset
<1> QED
  BY <1>1, FS_CardinalityType, FS_EmptySet

\* The parts of a report, one by one.
LEMMA ReportParts ==
  ASSUME NEW s, NEW a, a = Analyze(s)
  PROVE  /\ a.holders = HolderAnalysis(s) /\ a.resources = ResourceAnalysis(s)
         /\ a.tokens = TokenAnalysis(s) /\ a.expiry = ExpiryBuckets(s)
         /\ a.durations = DurationStats(s)
         /\ a.warnings = CapacityWarnings(ResourceAnalysis(s))
         /\ a.expired = Cardinality(FilterExpired(s))
         /\ a.healthy = AnalysisHealthy(HolderAnalysis(s), ResourceAnalysis(s),
                                        TokenAnalysis(s))
  BY DEF Analyze

\* The answer of GET /analysis is the report with its reasons as warnings.
LEMMA AnswerParts ==
  ASSUME NEW s, NEW a, a = Analyze(s), NEW b, b = AsAnswered(a)
  PROVE  /\ b.holders = a.holders /\ b.resources = a.resources /\ b.tokens = a.tokens
         /\ b.expired = a.expired /\ b.warnings = a.warnings + HealthReasons(a)
  BY DEF Analyze, AsAnswered

\* The entry of a token in a report.
LEMMA TokensOfReport ==
  ASSUME SeenInv, NEW a, a = Analyze(seen), NEW n \in DOMAIN a.tokens
  PROVE  /\ a.tokens[n].current \in Nat /\ a.tokens[n].next \in Nat
         /\ a.tokens[n].monotonic /\ a.tokens[n].next > a.tokens[n].current
<1>1. a.tokens = TokenAnalysis(seen)
  BY ReportParts
<1>2. n \in DOMAIN seen.next
  BY <1>1 DEF TokenAnalysis
<1>3. PICK t : t = seen.next[n] /\ t \in Nat /\ t >= 1
  BY <1>2 DEF SeenInv
<1>4. a.tokens[n] = [current |-> t - 1, next |-> t, monotonic |-> t > 0]
  BY <1>1, <1>2, <1>3 DEF TokenAnalysis
<1>5. a.tokens[n].current = t - 1 /\ a.tokens[n].next = t
  BY <1>4
<1>6. a.tokens[n].monotonic = (t > 0)
  <2>1. PICK e : e = a.tokens[n]
    OBVIOUS
  <2>2. e = [current |-> t - 1, next |-> t, monotonic |-> t > 0]
    BY <1>4, <2>1
  <2>3. e.monotonic = (t > 0)
    BY <2>2, Zenon
  <2> QED
    BY <2>1, <2>3
<1>7. t > 0 /\ t - 1 \in Nat /\ t > t - 1
  BY <1>3
<1>8. a.tokens[n].monotonic
  BY <1>6, <1>7, Zenon
<1> QED
  BY <1>3, <1>5, <1>7, <1>8

\* The entry of a resource in a report.
LEMMA ResourcesOfReport ==
  ASSUME SeenInv, NEW a, a = Analyze(seen)
  PROVE  /\ DOMAIN a.resources = DOMAIN seen.resources \cup DOMAIN seen.leases
         /\ \A n \in DOMAIN a.resources :
              /\ a.resources[n].registered <=> n \in DOMAIN seen.resources
              /\ a.resources[n].held <=> n \in DOMAIN seen.leases
              /\ a.resources[n].expired <=> n \in FilterExpired(seen)
              /\ n \in DOMAIN seen.resources =>
                   /\ a.resources[n].max_ttl = seen.resources[n]
                   /\ seen.resources[n] \in Nat
              /\ n \notin DOMAIN seen.resources => a.resources[n].max_ttl = 0
<1>1. a.resources = ResourceAnalysis(seen)
  BY ReportParts
<1>2. DOMAIN a.resources = DOMAIN seen.resources \cup DOMAIN seen.leases
  BY <1>1 DEF ResourceAnalysis
<1>3. ASSUME NEW n \in DOMAIN a.resources
      PROVE  a.resources[n] =
               [registered |-> n \in DOMAIN seen.resources,
                max_ttl |-> IF n \in DOMAIN seen.resources THEN seen.resources[n] ELSE 0,
                held |-> n \in DOMAIN seen.leases,
                expired |-> n \in FilterExpired(seen)]
  BY <1>1, <1>2, <1>3 DEF ResourceAnalysis
<1>4. \A n \in DOMAIN seen.resources : seen.resources[n] \in Nat
  BY DEF SeenInv
<1>5. ASSUME NEW n \in DOMAIN a.resources
      PROVE  /\ a.resources[n].registered <=> n \in DOMAIN seen.resources
             /\ a.resources[n].held <=> n \in DOMAIN seen.leases
             /\ a.resources[n].expired <=> n \in FilterExpired(seen)
             /\ a.resources[n].max_ttl =
                  IF n \in DOMAIN seen.resources THEN seen.resources[n] ELSE 0
  <2>1. PICK e : e = a.resources[n]
    OBVIOUS
  <2>2. PICK cap : cap = IF n \in DOMAIN seen.resources THEN seen.resources[n] ELSE 0
    OBVIOUS
  <2>3. e = [registered |-> n \in DOMAIN seen.resources, max_ttl |-> cap,
             held |-> n \in DOMAIN seen.leases, expired |-> n \in FilterExpired(seen)]
    BY <1>3, <1>5, <2>1, <2>2, Zenon
  <2>4. /\ e.registered <=> n \in DOMAIN seen.resources
        /\ e.held <=> n \in DOMAIN seen.leases
        /\ e.expired <=> n \in FilterExpired(seen)
        /\ e.max_ttl = cap
    BY <2>3, Zenon
  <2> QED
    BY <2>1, <2>2, <2>4, Zenon
<1> QED
  BY <1>2, <1>4, <1>5

\* The leases listed for a holder.
ListedFor(h) == {r \in DOMAIN seen.leases : seen.leases[r].holder = h}

\* The entry of a holder in a report counts the leases listed for it.
LEMMA HoldersOfReport ==
  ASSUME SeenInv, NEW a, a = Analyze(seen), NEW h \in DOMAIN a.holders
  PROVE  /\ ListedFor(h) # {}
         /\ a.holders[h].active = Cardinality(ListedFor(h) \cap FilterActive(seen))
         /\ a.holders[h].expired = Cardinality(ListedFor(h) \cap FilterExpired(seen))
         /\ a.holders[h].total_ttl = Wrap64(SumTTL(seen, ListedFor(h)))
         /\ a.holders[h].active \in Nat /\ a.holders[h].expired \in Nat
<1>1. a.holders = HolderAnalysis(seen)
  BY ReportParts
<1>2. h \in {seen.leases[r].holder : r \in DOMAIN seen.leases}
  BY <1>1 DEF HolderAnalysis
<1>3. ListedFor(h) # {}
  BY <1>2 DEF ListedFor
<1>4. a.holders[h] = [active |-> Cardinality(ListedFor(h) \cap FilterActive(seen)),
                      expired |-> Cardinality(ListedFor(h) \cap FilterExpired(seen)),
                      total_ttl |-> Wrap64(SumTTL(seen, ListedFor(h)))]
  BY <1>1, <1>2 DEF HolderAnalysis, ListedFor
<1>5. \A es : Cardinality(ListedFor(h) \cap es) \in Nat
  <2>1. \A es : ListedFor(h) \cap es \in SUBSET DOMAIN seen.leases
    BY DEF ListedFor
  <2> QED
    BY <2>1, Finiteness
<1>6. /\ a.holders[h].active = Cardinality(ListedFor(h) \cap FilterActive(seen))
      /\ a.holders[h].expired = Cardinality(ListedFor(h) \cap FilterExpired(seen))
      /\ a.holders[h].total_ttl = Wrap64(SumTTL(seen, ListedFor(h)))
  BY <1>4
<1> QED
  BY <1>3, <1>5, <1>6

\* Nothing that was collected is unavailable, or expired and not held; nothing
\* waits for a sweep unless something has expired.
LEMMA ReportFacts ==
  ASSUME SeenInv, NEW a, a = Analyze(seen)
  PROVE  /\ Unavailable(a) = 0
         /\ a.expired \in Nat /\ a.warnings \in Nat
         /\ a.expired = 0 <=> FilterExpired(seen) = {}
         /\ a.expired = 0 => a.warnings = 0
<1> DEFINE rows == ResourceAnalysis(seen)
           waiting == {n \in DOMAIN rows :
                         /\ rows[n].registered /\ rows[n].max_ttl > 0
                         /\ rows[n].held /\ rows[n].expired}
<1>1. FilterExpired(seen) \subseteq DOMAIN seen.leases
  BY DEF FilterExpired
<1>2. /\ a.expired = Cardinality(FilterExpired(seen)) /\ a.expired \in Nat
      /\ a.expired = 0 <=> FilterExpired(seen) = {}
  BY <1>1, Finiteness, CountOfFinite, ReportParts
<1>3. a.warnings = Cardinality(waiting)
  BY ReportParts DEF CapacityWarnings, Quantify
<1>4. DOMAIN rows = DOMAIN seen.resources \cup DOMAIN seen.leases
      /\ \A n \in DOMAIN rows : rows[n].expired = (n \in FilterExpired(seen))
  BY DEF ResourceAnalysis
<1>5. a.warnings \in Nat /\ (FilterExpired(seen) = {} => a.warnings = 0)
  <2>1. waiting \in SUBSET DOMAIN rows /\ (FilterExpired(seen) = {} => waiting = {})
    BY <1>4
  <2> QED
    BY <1>3, <1>4, <2>1, Finiteness, CountOfFinite
<1>6. Unavailable(a) = 0
  <2>1. \A n \in DOMAIN a.tokens : a.tokens[n].monotonic
    BY TokensOfReport
  <2>2. {n \in DOMAIN a.tokens : ~a.tokens[n].monotonic} = {}
    BY <2>1
  <2> QED
    BY <2>2, FS_EmptySet DEF Unavailable, Quantify
<1> QED
  BY <1>2, <1>5, <1>6

\* Go's comparison of times, SQL's comparison of seconds and the expiry buckets
\* agree on what has expired, up to the last year of Go.
THEOREM ReportExpiryAgrees == Spec => []ExpiryAgreesUnlessYearWraps
<1>1. ASSUME SeenInv PROVE ExpiryAgreesUnlessYearWraps
  <2>1. Bucket(seen, -2 * MaxInt - 2, 0) = Cardinality(FilterExpired(seen))
    <3>1. ASSUME NEW r \in DOMAIN seen.leases
          PROVE  Internal(seen.leases[r].expires_at) - Internal(seen.now)
                     \in (-2 * MaxInt - 2) + 1 .. 0
                   <=> r \in FilterExpired(seen)
      <4>1. seen.leases[r].expires_at \in Int64 /\ seen.now \in Instants
        BY <1>1 DEF SeenInv, LeaseRow
      <4>2. PICK i, j \in Int : /\ i = Internal(seen.leases[r].expires_at)
                                /\ j = Internal(seen.now)
                                /\ i - j \in -2 * MaxInt - 1 .. 2 * MaxInt + 1
        BY <4>1, InternalTimes
      <4>3. i - j \in (-2 * MaxInt - 2) + 1 .. 0 <=> ~(i > j)
        BY <4>2, StoreAssumption
      <4> QED
        BY <4>2, <4>3 DEF FilterExpired, ExpiredAt
    <3>2. {r \in DOMAIN seen.leases :
             Internal(seen.leases[r].expires_at) - Internal(seen.now)
               \in (-2 * MaxInt - 2) + 1 .. 0} = FilterExpired(seen)
      BY <3>1 DEF FilterExpired
    <3> QED
      BY <3>2 DEF Bucket, Quantify
  <2>2. Report.expiry.expired = Report.expired
    <3>1. PICK a : a = Report /\ a = Analyze(seen)
      BY DEF Report
    <3>2. a.expiry = ExpiryBuckets(seen) /\ a.expired = Cardinality(FilterExpired(seen))
      BY <3>1, ReportParts
    <3>3. a.expiry.expired = Bucket(seen, -2 * MaxInt - 2, 0)
      BY <3>2 DEF ExpiryBuckets
    <3> QED
      BY <2>1, <3>1, <3>2, <3>3
  <2> QED
    BY <1>1, <2>2, FilterExpiredExact DEF ExpiryAgreesUnlessYearWraps
<1> QED
  BY <1>1, SeenInvariant, PTL

\* Neither the health check nor the audit objects to what the queries collect.
LEMMA AuditOfSeen ==
  ASSUME SeenInv
  PROVE  AuditNeverObjects
<1>1. PICK a : a = Report
  OBVIOUS
<1>2. PICK b : b = AsAnswered(a)
  OBVIOUS
<1>3. /\ a.holders = HolderAnalysis(seen) /\ a.resources = ResourceAnalysis(seen)
      /\ a.tokens = TokenAnalysis(seen)
      /\ a.healthy = AnalysisHealthy(a.holders, a.resources, a.tokens)
      /\ b.resources = a.resources /\ b.tokens = a.tokens
  BY <1>1, <1>2, ReportParts, AnswerParts DEF Report
<1>4. \A h \in DOMAIN a.holders : a.holders[h].active >= 0 /\ a.holders[h].expired >= 0
  <2>1. a = Analyze(seen)
    BY <1>1 DEF Report
  <2>2. \A h \in DOMAIN a.holders : a.holders[h].active \in Nat /\ a.holders[h].expired \in Nat
    BY <2>1, HoldersOfReport, Zenon
  <2> QED
    BY <2>2
<1>5. \A n \in DOMAIN a.resources :
        /\ a.resources[n].max_ttl >= 0
        /\ a.resources[n].expired => a.resources[n].held
  <2>1. FilterExpired(seen) \subseteq DOMAIN seen.leases
    BY DEF FilterExpired
  <2> QED
    BY <1>1, <2>1, ResourcesOfReport DEF Report
<1>6. \A n \in DOMAIN a.tokens :
        /\ a.tokens[n].current \in Nat /\ a.tokens[n].next \in Nat
        /\ a.tokens[n].monotonic /\ a.tokens[n].next > a.tokens[n].current
  BY <1>1, TokensOfReport DEF Report
<1>7. a.healthy
  BY <1>3, <1>4, <1>5, <1>6 DEF AnalysisHealthy
<1>8. Check(b) = {}
  BY <1>3, <1>5, <1>6 DEF Check
<1> QED
  BY <1>1, <1>2, <1>7, <1>8 DEF AuditNeverObjects

\* Neither the health check nor the audit ever objects to what was collected.
THEOREM ReportAuditNeverObjects == Spec => []AuditNeverObjects
  BY AuditOfSeen, SeenInvariant, PTL

\* The reasons of an answer are at least one, and exactly one if nothing has
\* expired.
LEMMA ReasonsOfReport ==
  ASSUME SeenInv, NEW a, a = Analyze(seen)
  PROVE  /\ HealthReasons(a) \in Nat /\ HealthReasons(a) >= 1
         /\ a.expired = 0 => HealthReasons(a) = 1
  BY ReportFacts DEF HealthReasons, OneIf

\* No answer of GET /analysis meets the default thresholds, and every report
\* without an expired lease does before its reasons are added to it.
THEOREM ReportAnswerNeverMeetsDefaults == Spec => []AnswerNeverMeetsDefaults
<1>1. ASSUME SeenInv PROVE AnswerNeverMeetsDefaults
  <2>1. PICK a : a = Report /\ a = Analyze(seen)
    BY DEF Report
  <2>2. PICK b : b = AsAnswered(a)
    OBVIOUS
  <2>3. ~Meets(b)
    <3>1. b.warnings > 0
      BY <1>1, <2>1, <2>2, AnswerParts, ReasonsOfReport, ReportFacts
    <3>2. "warnings" \in Breaches(b)
      BY <3>1 DEF Breaches
    <3> QED
      BY <3>2 DEF Meets
  <2>4. ASSUME a.expired = 0 PROVE Meets(a)
    <3>1. a.warnings = 0 /\ Unavailable(a) = 0
      BY <1>1, <2>1, <2>4, ReportFacts
    <3>2. OperationalScore(a) = 100
      BY <2>4, <3>1 DEF OperationalScore
    <3> QED
      BY <2>4, <3>1, <3>2 DEF Meets, Breaches
  <2> QED
    BY <2>1, <2>2, <2>3, <2>4 DEF AnswerNeverMeetsDefaults
<1> QED
  BY <1>1, SeenInvariant, PTL

\* What is recommended for a report nothing of which has expired: its reason,
\* and something for each holder whose sum is 0 and each resource without a cap.
LEMMA RecommendationsOfAnswer ==
  ASSUME SeenInv, NEW a, a = Analyze(seen), NEW b, b = AsAnswered(a)
  PROVE  /\ Unavailable(b) = 0 /\ Recommendations(b) \in Int
         /\ a.expired # 0 => Recommendations(b) > 1
         /\ a.expired = 0 =>
              (Recommendations(b) <= 1
                 <=> /\ \A h \in DOMAIN a.holders : a.holders[h].total_ttl # 0
                     /\ \A r \in DOMAIN seen.resources \cap DOMAIN seen.leases :
                          seen.resources[r] > 0)
<1> DEFINE LessActive == {h \in DOMAIN b.holders : b.holders[h].expired > b.holders[h].active}
           NoTTL == {h \in DOMAIN b.holders :
                       b.holders[h].total_ttl = 0 /\ b.holders[h].active > 0}
           NoCap == {r \in DOMAIN b.resources :
                       /\ b.resources[r].registered /\ b.resources[r].max_ttl = 0
                       /\ b.resources[r].held}
           Waiting == {r \in DOMAIN b.resources : b.resources[r].held /\ b.resources[r].expired}
           n == OneIf(b.expired > 0) + b.warnings + Cardinality(LessActive)
                + Cardinality(NoTTL) + Cardinality(NoCap) + Cardinality(Waiting)
                + Unavailable(b)
<1>1. Recommendations(b) = IF n = 0 THEN 1 ELSE n
  BY DEF Recommendations, Quantify
<1>2. /\ b.holders = a.holders /\ b.resources = a.resources /\ b.tokens = a.tokens
      /\ b.expired = a.expired /\ b.warnings = a.warnings + HealthReasons(a)
  BY AnswerParts
<1>3. Unavailable(b) = 0 /\ a.expired \in Nat /\ a.warnings \in Nat
      /\ (a.expired = 0 <=> FilterExpired(seen) = {})
      /\ (a.expired = 0 => a.warnings = 0)
  <2>1. Unavailable(b) = Unavailable(a)
    BY <1>2, Zenon DEF Unavailable, Quantify
  <2> QED
    BY <2>1, ReportFacts
<1>4. HealthReasons(a) \in Nat /\ HealthReasons(a) >= 1
      /\ (a.expired = 0 => HealthReasons(a) = 1)
  BY ReasonsOfReport
<1>5. IsFiniteSet(DOMAIN b.holders) /\ IsFiniteSet(DOMAIN b.resources)
  <2>1. IsFiniteSet(DOMAIN seen.leases)
    BY Finiteness
  <2>2. DOMAIN b.holders = {seen.leases[r].holder : r \in DOMAIN seen.leases}
    <3>1. a.holders = HolderAnalysis(seen)
      BY ReportParts
    <3> QED
      BY <1>2, <3>1 DEF HolderAnalysis
  <2>3. IsFiniteSet(DOMAIN b.holders)
    <3> DEFINE holderOf == [r \in DOMAIN seen.leases |-> seen.leases[r].holder]
    <3>1. holderOf \in Surjection(DOMAIN seen.leases, DOMAIN b.holders)
      BY <2>2 DEF Surjection
    <3> QED
      BY <2>1, <3>1, FS_Surjection
  <2>4. IsFiniteSet(DOMAIN b.resources)
    <3>1. DOMAIN b.resources = DOMAIN seen.resources \cup DOMAIN seen.leases
      BY <1>2, ResourcesOfReport
    <3> QED
      BY <3>1, Finiteness
  <2> QED
    BY <2>3, <2>4
<1>6. /\ Cardinality(LessActive) \in Nat /\ (Cardinality(LessActive) = 0 <=> LessActive = {})
      /\ Cardinality(NoTTL) \in Nat /\ (Cardinality(NoTTL) = 0 <=> NoTTL = {})
      /\ Cardinality(NoCap) \in Nat /\ (Cardinality(NoCap) = 0 <=> NoCap = {})
      /\ Cardinality(Waiting) \in Nat /\ (Cardinality(Waiting) = 0 <=> Waiting = {})
  <2>1. LessActive \in SUBSET DOMAIN b.holders /\ NoTTL \in SUBSET DOMAIN b.holders
        /\ NoCap \in SUBSET DOMAIN b.resources /\ Waiting \in SUBSET DOMAIN b.resources
    OBVIOUS
  <2> HIDE DEF LessActive, NoTTL, NoCap, Waiting
  <2> QED
    BY <1>5, <2>1, CountOfFinite
<1>7. Recommendations(b) \in Int /\ (a.expired # 0 => Recommendations(b) > 1)
  <2> HIDE DEF LessActive, NoTTL, NoCap, Waiting
  <2> QED
    BY <1>1, <1>2, <1>3, <1>4, <1>6 DEF OneIf
<1>8. ASSUME a.expired = 0
      PROVE  Recommendations(b) <= 1
               <=> /\ \A h \in DOMAIN a.holders : a.holders[h].total_ttl # 0
                   /\ \A r \in DOMAIN seen.resources \cap DOMAIN seen.leases :
                        seen.resources[r] > 0
  <2>1. FilterExpired(seen) = {} /\ FilterActive(seen) = DOMAIN seen.leases
    BY <1>3, <1>8 DEF FilterActive
  <2>2. \A h \in DOMAIN a.holders :
          /\ a.holders[h].expired = 0
          /\ a.holders[h].active \in Nat /\ a.holders[h].active > 0
    <3> SUFFICES ASSUME NEW h \in DOMAIN a.holders
                 PROVE  /\ a.holders[h].expired = 0
                        /\ a.holders[h].active \in Nat /\ a.holders[h].active > 0
      OBVIOUS
    <3>1. /\ ListedFor(h) # {} /\ a.holders[h].active \in Nat
          /\ a.holders[h].active = Cardinality(ListedFor(h) \cap FilterActive(seen))
          /\ a.holders[h].expired = Cardinality(ListedFor(h) \cap FilterExpired(seen))
      BY HoldersOfReport
    <3>2. /\ ListedFor(h) \in SUBSET DOMAIN seen.leases
          /\ ListedFor(h) \cap FilterActive(seen) = ListedFor(h)
          /\ ListedFor(h) \cap FilterExpired(seen) = {}
      BY <2>1 DEF ListedFor
    <3>3. Cardinality(ListedFor(h)) # 0
      BY <3>1, <3>2, Finiteness, FS_EmptySet
    <3>4. Cardinality({}) = 0
      BY FS_EmptySet
    <3> QED
      BY <3>1, <3>2, <3>3, <3>4
  <2>3. LessActive = {}
    BY <1>2, <2>2
  <2>4. Waiting = {}
    BY <1>2, <2>1, ResourcesOfReport
  <2>5. NoTTL = {} <=> \A h \in DOMAIN a.holders : a.holders[h].total_ttl # 0
    BY <1>2, <2>2
  <2>6. NoCap = {} <=> \A r \in DOMAIN seen.resources \cap DOMAIN seen.leases :
                        seen.resources[r] > 0
    <3>1. \A r \in DOMAIN b.resources :
            r \in NoCap <=> /\ r \in DOMAIN seen.resources \cap DOMAIN seen.leases
                           /\ ~(seen.resources[r] > 0)
      BY <1>2, ResourcesOfReport
    <3>2. DOMAIN seen.resources \cap DOMAIN seen.leases \subseteq DOMAIN b.resources
      BY <1>2, ResourcesOfReport
    <3> QED
      BY <3>1, <3>2
  <2>7. b.expired = 0 /\ b.warnings = 1
    BY <1>2, <1>3, <1>4, <1>8
  <2> HIDE DEF LessActive, NoTTL, NoCap, Waiting
  <2>8. Recommendations(b) <= 1 <=> NoTTL = {} /\ NoCap = {}
    BY <1>1, <1>3, <1>6, <2>3, <2>4, <2>7 DEF OneIf
  <2> QED
    BY <2>5, <2>6, <2>8
<1> QED
  BY <1>3, <1>7, <1>8

\* "healthy" means that there is nothing to do, and nothing to do means
\* "healthy", for any number of resources and holders.
THEOREM ReportHealthyMeansNothingToDo == Spec => []HealthyMeansNothingToDo
<1>1. ASSUME SeenInv PROVE HealthyMeansNothingToDo
  <2>1. PICK a : a = Report /\ a = Analyze(seen)
    BY DEF Report
  <2>2. PICK b : b = AsAnswered(a)
    OBVIOUS
  <2>3. a.expired \in Nat /\ Recommendations(b) \in Int
    BY <1>1, <2>1, <2>2, ReportFacts, RecommendationsOfAnswer
  <2>4. Status(b) = "healthy" <=> ~(Recommendations(b) > 1)
    BY <1>1, <2>1, <2>2, RecommendationsOfAnswer DEF Status
  <2> QED
    BY <1>1, <2>1, <2>2, <2>3, <2>4, RecommendationsOfAnswer DEF HealthyMeansNothingToDo
<1> QED
  BY <1>1, SeenInvariant, PTL

-----------------------------------------------------------------------------
(* Sums *)

\* SumTTL is a recursive function on the subsets of its argument.  That there
\* is such a function has to be proved: for the subsets of one size after the
\* other.
First(u) == CHOOSE x \in u : TRUE
SumFrom(s, sums, u) ==
  IF u = {} THEN 0 ELSE s.leases[First(u)].ttl_seconds + sums[u \ {First(u)}]
Sums(s, rs) == CHOOSE sums : sums = [u \in SUBSET rs |-> SumFrom(s, sums, u)]

\* The definition of SumTTL through the community modules, unfolded.
LEMMA SumTTLUnfolded ==
  ASSUME NEW s, NEW rs
  PROVE  SumTTL(s, rs) = Sums(s, rs)[rs]
  BY DEF SumTTL, MapThenSumSet, MapThenFoldSet, Sums, SumFrom, First

\* A non-empty set loses one member with its first.
LEMMA WithoutFirst ==
  ASSUME NEW rs, IsFiniteSet(rs), NEW u \in SUBSET rs, u # {}
  PROVE  /\ First(u) \in u /\ u \ {First(u)} \in SUBSET rs
         /\ Cardinality(u) \in Nat
         /\ Cardinality(u \ {First(u)}) = Cardinality(u) - 1
<1>1. First(u) \in u
  BY DEF First
<1>2. IsFiniteSet(u)
  BY FS_Subset
<1> QED
  BY <1>1, <1>2, FS_RemoveElement, FS_CardinalityType

\* What holds of no number up to a first failure holds of all.
LEMMA NoFirstFailure ==
  ASSUME NEW bad \in SUBSET Nat, \A n \in bad : \E m \in bad : m < n
  PROVE  bad = {}
  BY SmallestExists

\* The recursion defines a function.
LEMMA SumsDefined ==
  ASSUME NEW s, NEW rs, IsFiniteSet(rs)
  PROVE  \A u \in SUBSET rs : Sums(s, rs)[u] = SumFrom(s, Sums(s, rs), u)
<1> DEFINE small(n) == {u \in SUBSET rs : Cardinality(u) <= n}
           bad == {n \in Nat : ~ \E sums : sums = [u \in small(n) |-> SumFrom(s, sums, u)]}
<1>1. \A u \in SUBSET rs : Cardinality(u) \in Nat /\ (Cardinality(u) = 0 <=> u = {})
  BY CountOfFinite
<1>2. ASSUME NEW n \in bad PROVE \E m \in bad : m < n
  <2>1. CASE n = 0
    <3>1. \A u \in small(0) : u = {}
      BY <1>1
    <3>2. PICK sums : sums = [u \in small(0) |-> 0]
      OBVIOUS
    <3>3. \A u \in small(0) : SumFrom(s, sums, u) = 0
      BY <3>1 DEF SumFrom
    <3> HIDE DEF small
    <3>4. sums = [u \in small(0) |-> SumFrom(s, sums, u)]
      BY <3>2, <3>3
    <3> QED
      BY <1>2, <2>1, <3>4
  <2>2. CASE n # 0
    <3>1. n \in Nat /\ n - 1 \in Nat
      BY <1>2, <2>2
    <3>2. SUFFICES ASSUME n - 1 \notin bad PROVE FALSE
      <4>1. n - 1 < n
        BY <3>1
      <4> HIDE DEF bad
      <4> QED
        BY <4>1
    <3>3. PICK sums : sums = [u \in small(n - 1) |-> SumFrom(s, sums, u)]
      BY <3>1, <3>2
    <3>4. PICK more : more = [u \in small(n) |-> SumFrom(s, sums, u)]
      OBVIOUS
    <3>5. small(n - 1) \subseteq small(n)
      BY <1>1, <3>1
    <3>6. ASSUME NEW u \in small(n), u # {}
          PROVE  u \ {First(u)} \in small(n - 1)
      <4>1. /\ u \ {First(u)} \in SUBSET rs /\ Cardinality(u) \in Nat
            /\ Cardinality(u \ {First(u)}) = Cardinality(u) - 1
        BY <3>6, WithoutFirst
      <4> QED
        BY <3>1, <3>6, <4>1
    <3> HIDE DEF small
    <3>7. \A v \in small(n - 1) : more[v] = sums[v]
      BY <3>3, <3>4, <3>5
    <3>8. \A u \in small(n) : SumFrom(s, sums, u) = SumFrom(s, more, u)
      BY <3>6, <3>7 DEF SumFrom
    <3>9. more = [u \in small(n) |-> SumFrom(s, more, u)]
      BY <3>4, <3>8
    <3> QED
      BY <1>2, <3>9
  <2> QED
    BY <2>1, <2>2
<1>3. bad = {}
  <2>1. bad \in SUBSET Nat
    OBVIOUS
  <2> HIDE DEF bad
  <2> QED
    BY <1>2, <2>1, NoFirstFailure
<1>4. PICK size \in Nat : size = Cardinality(rs)
  BY <1>1
<1>5. small(size) = SUBSET rs
  BY <1>4, FS_Subset
<1>6. \E sums : sums = [u \in small(size) |-> SumFrom(s, sums, u)]
  <2>1. size \notin bad
    BY <1>3
  <2> HIDE DEF small
  <2> QED
    BY <1>4, <2>1, Zenon
<1> HIDE DEF small, bad
<1>7. \E sums : sums = [u \in SUBSET rs |-> SumFrom(s, sums, u)]
  BY <1>5, <1>6
<1>8. Sums(s, rs) = [u \in SUBSET rs |-> SumFrom(s, Sums(s, rs), u)]
  BY <1>7, Zenon DEF Sums
<1>9. PICK sums : sums = [u \in SUBSET rs |-> SumFrom(s, Sums(s, rs), u)]
  OBVIOUS
<1>10. \A u \in SUBSET rs : sums[u] = SumFrom(s, Sums(s, rs), u)
  BY <1>9
<1> QED
  BY <1>8, <1>9, <1>10

\* A sum of times to live lies between as many times the least and the largest.
LEMMA SumBounds ==
  ASSUME NEW s, NEW rs, IsFiniteSet(rs), NEW least \in Int, NEW most \in Int,
         \A r \in rs : /\ s.leases[r].ttl_seconds \in Int
                       /\ least <= s.leases[r].ttl_seconds
                       /\ s.leases[r].ttl_seconds <= most
  PROVE  /\ SumTTL(s, rs) \in Int
         /\ Cardinality(rs) * least <= SumTTL(s, rs)
         /\ SumTTL(s, rs) <= Cardinality(rs) * most
<1> DEFINE Bounded(u) == /\ Sums(s, rs)[u] \in Int
                         /\ Cardinality(u) * least <= Sums(s, rs)[u]
                         /\ Sums(s, rs)[u] <= Cardinality(u) * most
           bad == {n \in Nat : \E u \in SUBSET rs : Cardinality(u) = n /\ ~Bounded(u)}
<1>1. \A u \in SUBSET rs : Cardinality(u) \in Nat /\ (Cardinality(u) = 0 <=> u = {})
  BY CountOfFinite
<1>2. \A u \in SUBSET rs : Sums(s, rs)[u] = SumFrom(s, Sums(s, rs), u)
  BY SumsDefined
<1>3. ASSUME NEW n \in bad PROVE \E m \in bad : m < n
  <2>1. PICK u \in SUBSET rs : Cardinality(u) = n /\ ~Bounded(u)
    BY <1>3
  <2>2. u # {}
    <3> SUFFICES ASSUME u = {} PROVE FALSE
      OBVIOUS
    <3>1. Sums(s, rs)[u] = 0 /\ Cardinality(u) = 0
      BY <1>1, <1>2 DEF SumFrom
    <3> QED
      BY <2>1, <3>1
  <2>3. PICK v : v = u \ {First(u)}
    OBVIOUS
  <2>4. /\ First(u) \in rs /\ v \in SUBSET rs /\ n \in Nat /\ Cardinality(v) = n - 1
    BY <2>1, <2>2, <2>3, WithoutFirst
  <2>5. PICK ttl \in Int : /\ ttl = s.leases[First(u)].ttl_seconds
                           /\ least <= ttl /\ ttl <= most
    BY <2>4
  <2>6. Sums(s, rs)[u] = ttl + Sums(s, rs)[v]
    BY <1>2, <2>2, <2>3, <2>5 DEF SumFrom
  <2>7. ~Bounded(v)
    <3> SUFFICES ASSUME Bounded(v) PROVE FALSE
      OBVIOUS
    <3>1. PICK sum \in Int : /\ sum = Sums(s, rs)[v]
                             /\ (n - 1) * least <= sum /\ sum <= (n - 1) * most
      BY <2>4
    <3>2. n * least <= ttl + sum /\ ttl + sum <= n * most
      BY <2>4, <2>5, <3>1
    <3> QED
      BY <2>1, <2>6, <3>1, <3>2
  <2>8. n - 1 \in Nat
    BY <1>1, <2>4
  <2> QED
    BY <2>4, <2>7, <2>8
<1>4. bad = {}
  <2>1. bad \in SUBSET Nat
    OBVIOUS
  <2> HIDE DEF bad
  <2> QED
    BY <1>3, <2>1, NoFirstFailure
<1>5. Bounded(rs)
  BY <1>1, <1>4
<1> QED
  BY <1>5, SumTTLUnfolded

\* Every time to live listed is between 1 and MaxInt.
LEMMA ListedTTLs ==
  ASSUME SeenInv
  PROVE  \A r \in DOMAIN seen.leases :
           seen.leases[r].ttl_seconds \in 1 .. MaxInt
  BY StoreAssumption DEF SeenInv, LeaseRow

\* The sum of the times to live of some of the listed leases lies between as many
\* times the least and the largest of them.
LEMMA SumOfListed ==
  ASSUME SeenInv, NEW rs \in SUBSET DOMAIN seen.leases,
         NEW least \in Nat, NEW most \in Nat,
         \A r \in rs : /\ least <= seen.leases[r].ttl_seconds
                       /\ seen.leases[r].ttl_seconds <= most
  PROVE  /\ SumTTL(seen, rs) \in Nat /\ Cardinality(rs) \in Nat
         /\ Cardinality(rs) * least <= SumTTL(seen, rs)
         /\ SumTTL(seen, rs) <= Cardinality(rs) * most
<1>1. IsFiniteSet(rs) /\ Cardinality(rs) \in Nat
  BY Finiteness
<1>2. \A r \in rs : seen.leases[r].ttl_seconds \in Int
  BY ListedTTLs
<1>3. least \in Int /\ most \in Int
  OBVIOUS
<1>4. /\ SumTTL(seen, rs) \in Int
      /\ Cardinality(rs) * least <= SumTTL(seen, rs)
      /\ SumTTL(seen, rs) <= Cardinality(rs) * most
  BY <1>1, <1>2, <1>3, SumBounds
<1>5. Cardinality(rs) * least \in Nat
  BY <1>1
<1> QED
  BY <1>1, <1>4, <1>5

\* An int64 does not wrap around.
LEMMA WrapsNothing ==
  ASSUME NEW n \in Nat, n <= MaxInt
  PROVE  Wrap64(n) = n
<1>1. MaxInt \in Nat
  BY StoreAssumption
<1>2. n + MaxInt + 1 \in Nat /\ 2 * (MaxInt + 1) \in Nat /\ n + MaxInt + 1 < 2 * (MaxInt + 1)
  BY <1>1
<1>3. \A a, b \in Nat : a < b => a % b = a
  OBVIOUS
<1>4. (n + MaxInt + 1) % (2 * (MaxInt + 1)) = n + MaxInt + 1
  BY <1>2, <1>3
<1> QED
  BY <1>1, <1>4 DEF Wrap64

\* A report is rejected only where the times to live of one holder overflow.
THEOREM ReportRejectedOnlyWhenSumsOverflow == Spec => []RejectedOnlyWhenSumsOverflow
<1>1. ASSUME SeenInv, AuditNeverObjects PROVE RejectedOnlyWhenSumsOverflow
  <2> SUFFICES ASSUME Analyzed, ~ReadyForTraffic(Report),
                      \A h \in DOMAIN Report.holders : ~(SumTTL(seen, ListedFor(h)) > MaxInt)
               PROVE  FALSE
    BY DEF RejectedOnlyWhenSumsOverflow, ListedFor
  <2>1. PICK a : a = Report /\ a = Analyze(seen)
    BY DEF Report
  <2>2. \A h \in DOMAIN a.holders : a.holders[h].total_ttl >= 0
    <3> SUFFICES ASSUME NEW h \in DOMAIN a.holders
                 PROVE  a.holders[h].total_ttl >= 0
      OBVIOUS
    <3>1. a.holders[h].total_ttl = Wrap64(SumTTL(seen, ListedFor(h)))
      BY <1>1, <2>1, HoldersOfReport
    <3>2. ListedFor(h) \in SUBSET DOMAIN seen.leases
      BY DEF ListedFor
    <3>3. SumTTL(seen, ListedFor(h)) \in Nat
      BY <1>1, <3>2, ListedTTLs, SumOfListed, StoreAssumption
    <3>4. SumTTL(seen, ListedFor(h)) <= MaxInt
      BY <2>1, <3>3, StoreAssumption
    <3> QED
      BY <3>1, <3>3, <3>4, WrapsNothing
  <2>3. \A n \in DOMAIN a.resources : a.resources[n].max_ttl >= 0
    BY <1>1, <2>1, ResourcesOfReport
  <2>4. \A n \in DOMAIN a.tokens : a.tokens[n].next > a.tokens[n].current
    BY <1>1, <2>1, TokensOfReport
  <2>5. a.healthy
    BY <1>1, <2>1 DEF AuditNeverObjects
  <2> QED
    BY <2>1, <2>2, <2>3, <2>4, <2>5 DEF ReadyForTraffic, Validate
<1>2. SeenInv => AuditNeverObjects
  BY AuditOfSeen
<1> QED
  BY <1>1, <1>2, SeenInvariant, PTL

\* A quotient of natural numbers lies where its dividend does.
LEMMA QuotientBounds ==
  ASSUME NEW a \in Nat, NEW n \in Nat, n > 0, NEW least \in Nat, NEW most \in Nat,
         n * least <= a, a <= n * most
  PROVE  least <= Quotient(a, n) /\ Quotient(a, n) <= most
<1>1. Quotient(a, n) = a \div n
  BY DEF Quotient
<1> QED
  BY <1>1

\* The average time to live lies between the extremes unless the sum overflows.
THEOREM ReportAverageWithinRange == Spec => []AverageWithinRange
<1>1. ASSUME SeenInv PROVE AverageWithinRange
  <2> SUFFICES ASSUME SumTTL(seen, DOMAIN seen.leases) <= MaxInt
               PROVE  /\ Report.durations.minimum <= Report.durations.average
                      /\ Report.durations.average <= Report.durations.maximum
    BY DEF AverageWithinRange
  <2>1. PICK ttls : ttls = {seen.leases[r].ttl_seconds : r \in DOMAIN seen.leases}
    OBVIOUS
  <2>2. PICK d : d = DurationStats(seen) /\ d = Report.durations
    BY ReportParts DEF Report
  <2>3. CASE ttls = {}
    <3>1. d = [minimum |-> 0, maximum |-> 0, average |-> 0]
      BY <2>1, <2>2, <2>3 DEF DurationStats
    <3> QED
      BY <2>2, <3>1
  <2>4. CASE ttls # {}
    <3>1. PICK sum, n : sum = SumTTL(seen, DOMAIN seen.leases)
                        /\ n = Cardinality(DOMAIN seen.leases)
      OBVIOUS
    <3>2. PICK average : average = Quotient(Wrap64(sum), n)
      OBVIOUS
    <3>3. d = [minimum |-> Min(ttls), maximum |-> Max(ttls), average |-> average]
      BY <2>1, <2>2, <2>4, <3>1, <3>2 DEF DurationStats
    <3>4. ttls \in SUBSET (0 .. MaxInt) /\ MaxInt \in Nat /\ ttls \in SUBSET Nat
      BY <1>1, <2>1, ListedTTLs, StoreAssumption
    <3>5. Max(ttls) \in Nat /\ \A ttl \in ttls : ttl <= Max(ttls)
      BY <2>4, <3>4, MaxOfBounded
    <3>6. Min(ttls) \in Nat /\ \A ttl \in ttls : Min(ttls) <= ttl
      <4>1. \E x \in ttls : \A y \in ttls : x <= y
        BY <2>4, <3>4, SmallestExists
      <4>2. Min(ttls) \in ttls /\ \A y \in ttls : Min(ttls) <= y
        BY <4>1, Zenon DEF Min
      <4> QED
        BY <3>4, <4>2
    <3>7. \A r \in DOMAIN seen.leases : /\ Min(ttls) <= seen.leases[r].ttl_seconds
                                        /\ seen.leases[r].ttl_seconds <= Max(ttls)
      BY <2>1, <3>5, <3>6
    <3>8. /\ sum \in Nat /\ n \in Nat
          /\ n * Min(ttls) <= sum /\ sum <= n * Max(ttls)
      BY <1>1, <3>1, <3>5, <3>6, <3>7, SumOfListed
    <3>9. n > 0
      <4>1. DOMAIN seen.leases # {}
        BY <2>1, <2>4
      <4> QED
        BY <1>1, <3>1, <3>8, <4>1, Finiteness, FS_EmptySet
    <3>10. average = Quotient(sum, n)
      BY <3>1, <3>2, <3>8, WrapsNothing
    <3>11. Min(ttls) <= average /\ average <= Max(ttls)
      BY <3>5, <3>6, <3>8, <3>9, <3>10, QuotientBounds
    <3>12. d.minimum = Min(ttls) /\ d.maximum = Max(ttls) /\ d.average = average
      BY <3>3, Zenon
    <3> QED
      BY <2>2, <3>11, <3>12
  <2> QED
    BY <2>3, <2>4
<1> QED
  BY <1>1, SeenInvariant, PTL

=============================================================================
