--------------------------- MODULE TxStoreProofs ---------------------------
(***************************************************************************)
(* Proofs about TxStore, for any number of goroutines and resources, any   *)
(* kinds of call, and any cancellations, errors, crashes and power         *)
(* failures: what is committed is always the transaction of LeaseStore.    *)
(*                                                                         *)
(* The argument: nobody else commits while a goroutine has the connection, *)
(* so at each statement the draft is the committed tables with what the    *)
(* statements before have written, and the checks made so far still hold.  *)
(* The same tables as of the last sync of the log are consistent too, and  *)
(* their tokens are behind the counters of now.                            *)
(***************************************************************************)
EXTENDS TxStore, StoreCallsProofs

Synced == INSTANCE LeaseStore WITH
  leases <- synced.tables.leases, fencing_counters <- synced.tables.counters,
  resources <- synced.tables.resources, issued <- synced.issued

-----------------------------------------------------------------------------
(* The invariant *)

InTx == {"lease", "cap", "ensure", "token", "advance", "write", "commit"}
TxOps == {"acquire", "renew", "transfer", "release", "delete_resource"}
Capped == {"acquire", "renew", "transfer"}
Granting == {"acquire", "transfer"}

RunningStates ==
  [call : Calls, now : Instants \cup {0}, at : InTx \cup {"begin", "exec"},
   token : Tokens \cup {0}, cancelled : BOOLEAN]

\* Who runs what.  A goroutine that has the connection is in a transaction.
RunningOK ==
  /\ running \in [Workers -> {Idle} \cup RunningStates]
  /\ \A w \in Workers : running[w].at = "begin" => Call(w).op \in TxOps
  /\ conn \in Workers \cup {NoOne}
  /\ conn \in Workers => running[conn].at \in InTx

\* The statement w is at is one its call has, with an instant that was read.
OpOK(w) ==
  /\ running[w].now \in Instants
  /\ Call(w).op \in TxOps
  /\ running[w].at = "cap" => Call(w).op \in Capped
  /\ running[w].at \in {"ensure", "token", "advance"} => Call(w).op \in Granting

\* The checks w has passed hold of the committed tables.
LeaseOK(c, now) ==
  CASE c.op = "acquire" -> ~Live(c.resource, now)
    [] c.op = "delete_resource" -> ~Leased(c.resource)
    [] OTHER -> HolderVerdict(c.resource, c.holder, c.token, now) = "ok"
ChecksOK(w) ==
  /\ running[w].at # "lease" => LeaseOK(Call(w), running[w].now)
  /\ running[w].at \notin {"lease", "cap"} /\ Call(w).op \in Capped
       => ~OverCap(Call(w).resource, Call(w).ttl)
  /\ running[w].at = "commit" /\ Call(w).op = "delete_resource"
       => Call(w).resource \in DOMAIN resources

\* The token w has read is the next one of the committed counter.
TokenOK(w) ==
  running[w].at \in {"advance", "write", "commit"} /\ Call(w).op \in Granting =>
    running[w].token = NextToken(Call(w).resource) /\ running[w].token <= MaxToken

\* What w has written so far.
CountersWritten(w) ==
  LET r == Call(w).resource
  IN  IF running[w].at \in {"token", "advance"}
      THEN IF r \in DOMAIN fencing_counters THEN fencing_counters
           ELSE Upsert(fencing_counters, r, 1)
      ELSE IF running[w].at \in {"write", "commit"} /\ Call(w).op \in Granting
      THEN Upsert(fencing_counters, r, NextToken(r) + 1)
      ELSE fencing_counters
RenewedRow(w) ==
  [leases[Call(w).resource] EXCEPT !.expires_at = Plus64(running[w].now, Call(w).ttl),
                                   !.ttl_seconds = Call(w).ttl]
LeasesWritten(w) ==
  LET c == Call(w)
      expiry == Plus64(running[w].now, c.ttl)
  IN  IF running[w].at # "commit" \/ c.op = "delete_resource" THEN leases
      ELSE IF c.op = "release" THEN Delete(leases, {c.resource})
      ELSE IF c.op = "renew" THEN Upsert(leases, c.resource, RenewedRow(w))
      ELSE Upsert(leases, c.resource,
             [holder |-> IF c.op = "transfer" THEN c.newHolder ELSE c.holder,
              fencing_token |-> running[w].token, expires_at |-> expiry,
              ttl_seconds |-> c.ttl])
ResourcesWritten(w) ==
  IF running[w].at = "commit" /\ Call(w).op = "delete_resource"
  THEN Delete(resources, {Call(w).resource}) ELSE resources

DraftOK(w) ==
  /\ draft = [leases |-> LeasesWritten(w), counters |-> CountersWritten(w),
              resources |-> ResourcesWritten(w)]
Prepared(w) == OpOK(w) /\ ChecksOK(w) /\ TokenOK(w) /\ DraftOK(w)

\* Tokens issued before the last sync are behind the counters.
SyncedBehindCounters ==
  \A r \in Resources : \A g \in synced.issued[r] :
    r \in DOMAIN fencing_counters /\ g.token < fencing_counters[r]

TxInv ==
  /\ FencingInv
  /\ Synced!FencingInv
  /\ SyncedBehindCounters
  /\ RunningOK
  /\ conn \in Workers => Prepared(conn)

-----------------------------------------------------------------------------
(* What w runs *)

\* A statement that succeeds moves its call to the next one, and no other call.
LEMMA SuccessMoves ==
  ASSUME RunningOK, NEW w \in Workers, conn = w, NEW tables, NEW token \in Tokens \cup {0},
         After(Call(w), running[w].at) \in InTx, Succeeds(w, tables, token)
  PROVE  /\ running'[w].at = After(Call(w), running[w].at)
         /\ running'[w].token = token
         /\ running'[w].call = running[w].call
         /\ running'[w].now = running[w].now
         /\ RunningOK'
         /\ conn' = w
         /\ draft' = tables
         /\ UNCHANGED <<leases, fencing_counters, resources, issued, synced>>
<1> DEFINE next == After(Call(w), running[w].at)
<1>1. running' = [running EXCEPT ![w].at = next, ![w].token = token]
  BY DEF Succeeds
<1>2. /\ conn' = w /\ draft' = tables
      /\ UNCHANGED <<leases, fencing_counters, resources, issued, synced>>
  BY DEF Succeeds, storeVars
<1>3. next \in InTx
  OBVIOUS
<1> HIDE DEF next
<1>4. running \in [Workers -> {Idle} \cup RunningStates]
  BY DEF RunningOK
<1>5. running[w] \in RunningStates
  BY <1>4 DEF RunningOK, InTx, Idle
<1>6. /\ running'[w].at = next /\ running'[w].token = token
      /\ running'[w].call = running[w].call /\ running'[w].now = running[w].now
  BY <1>1, <1>4, <1>5 DEF RunningStates
<1>7. running'[w] \in RunningStates
  BY <1>1, <1>3, <1>4, <1>5 DEF RunningStates
<1>8. \A v \in Workers : v # w => running'[v] = running[v]
  BY <1>1, <1>4
<1>9. DOMAIN running' = Workers /\ running' = [v \in Workers |-> running'[v]]
  BY <1>1, <1>4
<1>10. running' \in [Workers -> {Idle} \cup RunningStates]
  BY <1>4, <1>7, <1>8, <1>9
<1>11. \A v \in Workers : running'[v].at = "begin" => running'[v].call.op \in TxOps
  BY <1>3, <1>6, <1>8 DEF RunningOK, InTx, Call
<1>12. RunningOK'
  BY <1>2, <1>3, <1>6, <1>10, <1>11 DEF RunningOK, Call
<1> QED
  BY <1>2, <1>6, <1>12 DEF next

-----------------------------------------------------------------------------
(* One statement after the other.  Each keeps what is committed, and       *)
(* leaves its call prepared for the next.                                  *)

\* The checks made on the draft are checks of the committed tables until a
\* row is written.
LEMMA DraftChecks ==
  ASSUME NEW w, draft.leases = leases, draft.resources = resources,
         Call(w).op \in TxOps
  PROVE  /\ LeaseCheck(Call(w), running[w].now) <=> LeaseOK(Call(w), running[w].now)
         /\ Draft!OverCap(Call(w).resource, Call(w).ttl)
              <=> OverCap(Call(w).resource, Call(w).ttl)
  BY DEF LeaseCheck, LeaseOK, Draft!Live, Draft!Leased, Draft!HolderVerdict, Draft!OverCap,
         Live, Leased, HolderVerdict, OverCap

\* The SELECT of the lease: from now on its check is known to hold.
LEMMA ReadLeaseKeepsInv ==
  ASSUME RunningOK, NEW w \in Workers, Prepared(w),
         Runs(w, "lease", LeaseCheck(Call(w), running[w].now)),
         Succeeds(w, draft, running[w].token)
  PROVE  /\ RunningOK' /\ conn' = w /\ Prepared(w)'
         /\ UNCHANGED <<leases, fencing_counters, resources, issued, synced>>
<1>1. /\ conn = w /\ running[w].at = "lease" /\ Call(w).op \in TxOps
      /\ running[w].now \in Instants
  BY DEF Runs, Prepared, OpOK
<1>2. draft = [leases |-> leases, counters |-> fencing_counters, resources |-> resources]
  BY <1>1 DEF Prepared, DraftOK, LeasesWritten, CountersWritten, ResourcesWritten
<1>3. LeaseOK(Call(w), running[w].now)
  BY <1>1, <1>2, DraftChecks DEF Runs
<1>4. After(Call(w), "lease") =
        IF Call(w).op \in {"release", "delete_resource"} THEN "write" ELSE "cap"
  BY DEF After
<1>5. running[w].token \in Tokens \cup {0}
  BY <1>1 DEF RunningOK, RunningStates, Idle
<1>6. /\ running'[w].at = After(Call(w), "lease")
      /\ running'[w].call = running[w].call /\ running'[w].now = running[w].now
      /\ RunningOK' /\ conn' = w /\ draft' = draft
      /\ UNCHANGED <<leases, fencing_counters, resources, issued, synced>>
  BY <1>1, <1>4, <1>5, SuccessMoves DEF InTx
<1>7. OpOK(w)'
  BY <1>1, <1>4, <1>6 DEF OpOK, Call, TxOps, Capped
<1>8. ChecksOK(w)'
  BY <1>1, <1>3, <1>4, <1>6
     DEF ChecksOK, Call, TxOps, Capped, LeaseOK, Live, Leased, HolderVerdict
<1>9. TokenOK(w)'
  BY <1>1, <1>4, <1>6 DEF TokenOK, Call, Granting
<1>10. DraftOK(w)'
  BY <1>1, <1>2, <1>4, <1>6
     DEF DraftOK, Call, Granting, LeasesWritten, CountersWritten, ResourcesWritten
<1> QED
  BY <1>6, <1>7, <1>8, <1>9, <1>10 DEF Prepared

\* The SELECT of the cap: from now on the time to live is known to fit.
LEMMA ReadCapKeepsInv ==
  ASSUME RunningOK, NEW w \in Workers, Prepared(w),
         Runs(w, "cap", ~Draft!OverCap(Call(w).resource, Call(w).ttl)),
         Succeeds(w, draft, running[w].token)
  PROVE  /\ RunningOK' /\ conn' = w /\ Prepared(w)'
         /\ UNCHANGED <<leases, fencing_counters, resources, issued, synced>>
<1>1. /\ conn = w /\ running[w].at = "cap" /\ Call(w).op \in Capped
      /\ running[w].now \in Instants
  BY DEF Runs, Prepared, OpOK
<1>2. draft = [leases |-> leases, counters |-> fencing_counters, resources |-> resources]
  BY <1>1 DEF Prepared, DraftOK, LeasesWritten, CountersWritten, ResourcesWritten
<1>3. ~OverCap(Call(w).resource, Call(w).ttl) /\ LeaseOK(Call(w), running[w].now)
  BY <1>1, <1>2, DraftChecks DEF Runs, Prepared, ChecksOK, Capped, TxOps
<1>4. After(Call(w), "cap") = IF Call(w).op = "renew" THEN "write" ELSE "ensure"
  BY DEF After
<1>5. running[w].token \in Tokens \cup {0}
  BY <1>1 DEF RunningOK, RunningStates, Idle
<1>6. /\ running'[w].at = After(Call(w), "cap")
      /\ running'[w].call = running[w].call /\ running'[w].now = running[w].now
      /\ RunningOK' /\ conn' = w /\ draft' = draft
      /\ UNCHANGED <<leases, fencing_counters, resources, issued, synced>>
  BY <1>1, <1>4, <1>5, SuccessMoves DEF InTx
<1>7. OpOK(w)'
  BY <1>1, <1>4, <1>6 DEF OpOK, Call, TxOps, Capped, Granting
<1>8. ChecksOK(w)'
  BY <1>1, <1>3, <1>4, <1>6
     DEF ChecksOK, Call, TxOps, Capped, LeaseOK, Live, Leased, HolderVerdict, OverCap
<1>9. TokenOK(w)'
  BY <1>1, <1>4, <1>6 DEF TokenOK, Call, Granting
<1>10. DraftOK(w)'
  BY <1>1, <1>2, <1>4, <1>6
     DEF DraftOK, Call, Granting, LeasesWritten, CountersWritten, ResourcesWritten
<1> QED
  BY <1>6, <1>7, <1>8, <1>9, <1>10 DEF Prepared

\* INSERT OR IGNORE: the draft has a counter for the resource.
LEMMA EnsureCounterKeepsInv ==
  ASSUME RunningOK, NEW w \in Workers, Prepared(w), Runs(w, "ensure", TRUE),
         Succeeds(w, IF Call(w).resource \in DOMAIN draft.counters THEN draft
                     ELSE [draft EXCEPT !.counters = Upsert(@, Call(w).resource, 1)],
                  running[w].token)
  PROVE  /\ RunningOK' /\ conn' = w /\ Prepared(w)'
         /\ UNCHANGED <<leases, fencing_counters, resources, issued, synced>>
<1>1. /\ conn = w /\ running[w].at = "ensure" /\ Call(w).op \in Granting
      /\ running[w].now \in Instants
  BY DEF Runs, Prepared, OpOK
<1>2. draft = [leases |-> leases, counters |-> fencing_counters, resources |-> resources]
  BY <1>1 DEF Prepared, DraftOK, LeasesWritten, CountersWritten, ResourcesWritten
<1>3. ~OverCap(Call(w).resource, Call(w).ttl) /\ LeaseOK(Call(w), running[w].now)
  BY <1>1 DEF Prepared, ChecksOK, Capped, Granting
<1>4. After(Call(w), "ensure") = "token"
  BY DEF After
<1>5. running[w].token \in Tokens \cup {0}
  BY <1>1 DEF RunningOK, RunningStates, Idle
<1> DEFINE r == Call(w).resource
           ensured == IF r \in DOMAIN fencing_counters THEN fencing_counters
                      ELSE Upsert(fencing_counters, r, 1)
           tables == IF r \in DOMAIN draft.counters THEN draft
                     ELSE [draft EXCEPT !.counters = Upsert(@, r, 1)]
<1>6. tables = [leases |-> leases, counters |-> ensured, resources |-> resources]
  <2> DEFINE counted == Upsert(fencing_counters, r, 1)
  <2>1. draft.counters = fencing_counters
    BY <1>2
  <2>2. tables = IF r \in DOMAIN fencing_counters THEN draft
                 ELSE [draft EXCEPT !.counters = counted]
    BY <2>1
  <2> HIDE DEF counted, tables
  <2>3. [draft EXCEPT !.counters = counted]
          = [leases |-> leases, counters |-> counted, resources |-> resources]
    BY <1>2
  <2> QED
    BY <1>2, <2>2, <2>3 DEF counted
<1>7. Succeeds(w, tables, running[w].token)
  OBVIOUS
<1> HIDE DEF tables
<1>8. /\ running'[w].at = "token"
      /\ running'[w].call = running[w].call /\ running'[w].now = running[w].now
      /\ RunningOK' /\ conn' = w /\ draft' = tables
      /\ UNCHANGED <<leases, fencing_counters, resources, issued, synced>>
  BY <1>1, <1>4, <1>5, <1>7, SuccessMoves DEF InTx
<1>9. OpOK(w)'
  BY <1>1, <1>8 DEF OpOK, Call, TxOps, Granting
<1>10. ChecksOK(w)'
  BY <1>1, <1>3, <1>8
     DEF ChecksOK, Call, Granting, LeaseOK, Live, Leased, OverCap, HolderVerdict
<1>11. TokenOK(w)'
  BY <1>8 DEF TokenOK
<1>12. DraftOK(w)'
  BY <1>6, <1>8
     DEF DraftOK, Call, LeasesWritten, CountersWritten, ResourcesWritten
<1> QED
  BY <1>8, <1>9, <1>10, <1>11, <1>12 DEF Prepared

\* The SELECT of next_token: the token is the committed counter's next.
LEMMA ReadTokenKeepsInv ==
  ASSUME FencingInv, RunningOK, NEW w \in Workers, Prepared(w),
         Runs(w, "token", draft.counters[Call(w).resource] <= MaxToken),
         Succeeds(w, draft, draft.counters[Call(w).resource])
  PROVE  /\ RunningOK' /\ conn' = w /\ Prepared(w)'
         /\ UNCHANGED <<leases, fencing_counters, resources, issued, synced>>
<1>1. /\ conn = w /\ running[w].at = "token" /\ Call(w).op \in Granting
      /\ running[w].now \in Instants
  BY DEF Runs, Prepared, OpOK
<1> DEFINE r == Call(w).resource
           ensured == IF r \in DOMAIN fencing_counters THEN fencing_counters
                      ELSE Upsert(fencing_counters, r, 1)
<1>2. draft = [leases |-> leases, counters |-> ensured, resources |-> resources]
  BY <1>1 DEF Prepared, DraftOK, LeasesWritten, CountersWritten, ResourcesWritten
<1>3. ~OverCap(Call(w).resource, Call(w).ttl) /\ LeaseOK(Call(w), running[w].now)
  BY <1>1 DEF Prepared, ChecksOK, Capped, Granting
<1>4. After(Call(w), "token") = "advance"
  BY DEF After
<1>5. draft.counters[r] = NextToken(r)
  BY <1>2 DEF NextToken, Upsert
<1>6. NextToken(r) \in Tokens /\ NextToken(r) <= MaxToken
  BY <1>5, StoreAssumption DEF Runs, NextToken, Tokens, FencingInv, TypeOK
<1>7. /\ running'[w].at = "advance" /\ running'[w].token = NextToken(r)
      /\ running'[w].call = running[w].call /\ running'[w].now = running[w].now
      /\ RunningOK' /\ conn' = w /\ draft' = draft
      /\ UNCHANGED <<leases, fencing_counters, resources, issued, synced>>
  BY <1>1, <1>4, <1>5, <1>6, SuccessMoves DEF InTx
<1>8. OpOK(w)'
  BY <1>1, <1>7 DEF OpOK, Call, TxOps, Granting
<1>9. ChecksOK(w)'
  BY <1>1, <1>3, <1>7
     DEF ChecksOK, Call, Granting, LeaseOK, Live, Leased, OverCap, HolderVerdict
<1>10. TokenOK(w)'
  BY <1>6, <1>7 DEF TokenOK, Call, NextToken
<1>11. DraftOK(w)'
  BY <1>2, <1>7
     DEF DraftOK, Call, LeasesWritten, CountersWritten, ResourcesWritten
<1> QED
  BY <1>7, <1>8, <1>9, <1>10, <1>11 DEF Prepared

\* The UPDATE of next_token: the draft's counter is past the token.
LEMMA AdvanceCounterKeepsInv ==
  ASSUME FencingInv, RunningOK, NEW w \in Workers, Prepared(w), Runs(w, "advance", TRUE),
         Succeeds(w, [draft EXCEPT !.counters[Call(w).resource] = @ + 1], running[w].token)
  PROVE  /\ RunningOK' /\ conn' = w /\ Prepared(w)'
         /\ UNCHANGED <<leases, fencing_counters, resources, issued, synced>>
<1>1. /\ conn = w /\ running[w].at = "advance" /\ Call(w).op \in Granting
      /\ running[w].now \in Instants
  BY DEF Runs, Prepared, OpOK
<1> DEFINE r == Call(w).resource
           ensured == IF r \in DOMAIN fencing_counters THEN fencing_counters
                      ELSE Upsert(fencing_counters, r, 1)
           advanced == Upsert(fencing_counters, r, NextToken(r) + 1)
           tables == [draft EXCEPT !.counters[r] = @ + 1]
<1>2. draft = [leases |-> leases, counters |-> ensured, resources |-> resources]
  BY <1>1 DEF Prepared, DraftOK, LeasesWritten, CountersWritten, ResourcesWritten
<1>3. ~OverCap(Call(w).resource, Call(w).ttl) /\ LeaseOK(Call(w), running[w].now)
  BY <1>1 DEF Prepared, ChecksOK, Capped, Granting
<1>4. After(Call(w), "advance") = "write"
  BY DEF After
<1>5. running[w].token = NextToken(r) /\ running[w].token <= MaxToken
  BY <1>1 DEF Prepared, TokenOK
<1>6. running[w].token \in Tokens \cup {0}
  BY <1>1 DEF RunningOK, RunningStates, Idle
<1>7. tables = [leases |-> leases, counters |-> advanced, resources |-> resources]
  <2>1. [ensured EXCEPT ![r] = @ + 1] = advanced
    <3>1. DOMAIN ensured = DOMAIN fencing_counters \cup {r}
      BY DEF Upsert
    <3>2. ensured[r] = NextToken(r)
      BY DEF Upsert, NextToken
    <3>3. \A s \in DOMAIN fencing_counters : s # r => ensured[s] = fencing_counters[s]
      BY DEF Upsert
    <3>4. ensured = [s \in DOMAIN ensured |-> ensured[s]]
      BY DEF Upsert, FencingInv, TypeOK
    <3> HIDE DEF ensured
    <3> QED
      BY <3>1, <3>2, <3>3, <3>4 DEF Upsert
  <2> HIDE DEF ensured, advanced
  <2>2. tables = [leases |-> leases, counters |-> [ensured EXCEPT ![r] = @ + 1],
                  resources |-> resources]
    BY <1>2
  <2> QED
    BY <2>1, <2>2
<1>8. Succeeds(w, tables, running[w].token)
  OBVIOUS
<1> HIDE DEF tables
<1>9. /\ running'[w].at = "write" /\ running'[w].token = running[w].token
      /\ running'[w].call = running[w].call /\ running'[w].now = running[w].now
      /\ RunningOK' /\ conn' = w /\ draft' = tables
      /\ UNCHANGED <<leases, fencing_counters, resources, issued, synced>>
  BY <1>1, <1>4, <1>6, <1>8, SuccessMoves DEF InTx
<1>10. OpOK(w)'
  BY <1>1, <1>9 DEF OpOK, Call, TxOps, Granting
<1>11. ChecksOK(w)'
  BY <1>1, <1>3, <1>9
     DEF ChecksOK, Call, Granting, LeaseOK, Live, Leased, OverCap, HolderVerdict
<1>12. TokenOK(w)'
  BY <1>5, <1>9 DEF TokenOK, Call, NextToken
<1>13. DraftOK(w)'
  BY <1>1, <1>7, <1>9
     DEF DraftOK, Call, LeasesWritten, CountersWritten, ResourcesWritten, NextToken
<1> QED
  BY <1>9, <1>10, <1>11, <1>12, <1>13 DEF Prepared

\* The tables as a call leaves them: its row is written, or deleted.
RowWritten(w) ==
  LET r == Call(w).resource
  IN  CASE Call(w).op = "release" -> [draft EXCEPT !.leases = Delete(@, {r})]
        [] Call(w).op = "delete_resource" -> [draft EXCEPT !.resources = Delete(@, {r})]
        [] OTHER -> [draft EXCEPT !.leases = Upsert(@, r, NewRow(w))]

\* The last write: the draft is the outcome of the call.
LEMMA WriteRowKeepsInv ==
  ASSUME FencingInv, RunningOK, NEW w \in Workers, Prepared(w),
         Runs(w, "write", Call(w).op = "delete_resource"
                            => Call(w).resource \in DOMAIN draft.resources),
         Succeeds(w, RowWritten(w), running[w].token)
  PROVE  /\ RunningOK' /\ conn' = w /\ Prepared(w)'
         /\ UNCHANGED <<leases, fencing_counters, resources, issued, synced>>
<1> DEFINE c == Call(w)
           r == Call(w).resource
           expiry == Plus64(running[w].now, c.ttl)
           row == IF c.op = "renew"
                  THEN [leases[r] EXCEPT !.expires_at = expiry, !.ttl_seconds = c.ttl]
                  ELSE [holder |-> IF c.op = "transfer" THEN c.newHolder ELSE c.holder,
                        fencing_token |-> running[w].token,
                        expires_at |-> expiry, ttl_seconds |-> c.ttl]
           counters == IF c.op \in Granting
                       THEN Upsert(fencing_counters, r, NextToken(r) + 1)
                       ELSE fencing_counters
<1>1. /\ conn = w /\ running[w].at = "write" /\ Call(w).op \in TxOps
      /\ running[w].now \in Instants
  BY DEF Runs, Prepared, OpOK
<1>2. draft = [leases |-> leases, counters |-> counters, resources |-> resources]
  BY <1>1 DEF Prepared, DraftOK, LeasesWritten, CountersWritten, ResourcesWritten
<1>3. /\ LeaseOK(Call(w), running[w].now)
      /\ c.op \in Capped => ~OverCap(Call(w).resource, Call(w).ttl)
      /\ c.op = "delete_resource" => r \in DOMAIN resources
  BY <1>1, <1>2 DEF Prepared, ChecksOK, Runs
<1>4. After(Call(w), "write") = "commit"
  BY DEF After
<1>5. running[w].token \in Tokens \cup {0}
  BY <1>1 DEF RunningOK, RunningStates, Idle
<1>6. /\ running'[w].at = "commit" /\ running'[w].token = running[w].token
      /\ running'[w].call = running[w].call /\ running'[w].now = running[w].now
      /\ RunningOK' /\ conn' = w /\ draft' = RowWritten(w)
      /\ UNCHANGED <<leases, fencing_counters, resources, issued, synced>>
  BY <1>1, <1>4, <1>5, SuccessMoves DEF InTx
<1>7. OpOK(w)'
  BY <1>1, <1>6 DEF OpOK, Call
<1>8. ChecksOK(w)'
  BY <1>1, <1>3, <1>6
     DEF ChecksOK, Call, LeaseOK, Live, Leased, OverCap, HolderVerdict
<1>9. TokenOK(w)'
  BY <1>1, <1>6 DEF Prepared, TokenOK, Call, NextToken
<1>10. NewRow(w) = row
  BY <1>2 DEF NewRow
<1>11. DraftOK(w)'
  <2>1. CASE c.op = "release"
    <3>1. RowWritten(w) = [leases |-> Delete(leases, {r}), counters |-> fencing_counters,
                           resources |-> resources]
      BY <1>2, <2>1 DEF RowWritten, Granting
    <3> QED
      BY <1>6, <2>1, <3>1
         DEF DraftOK, Call, Granting, LeasesWritten, CountersWritten, ResourcesWritten
  <2>2. CASE c.op = "delete_resource"
    <3>1. RowWritten(w) = [leases |-> leases, counters |-> fencing_counters,
                           resources |-> Delete(resources, {r})]
      BY <1>2, <2>2 DEF RowWritten, Granting
    <3> QED
      BY <1>6, <2>2, <3>1
         DEF DraftOK, Call, Granting, LeasesWritten, CountersWritten, ResourcesWritten
  <2>3. CASE c.op \in Capped
    <3> HIDE DEF row, counters
    <3>1. RowWritten(w) = [leases |-> Upsert(leases, r, row), counters |-> counters,
                           resources |-> resources]
      BY <1>2, <1>10, <2>3 DEF RowWritten, Capped
    <3>2. LeasesWritten(w)' = Upsert(leases, r, row)
      <4>1. CASE c.op = "renew"
        BY <1>6, <4>1 DEF LeasesWritten, RenewedRow, Call, Granting, row
      <4>2. CASE c.op \in Granting
        BY <1>6, <4>2 DEF LeasesWritten, Call, Granting, row
      <4> QED
        BY <2>3, <4>1, <4>2 DEF Capped, Granting
    <3>3. CountersWritten(w)' = counters
      BY <1>6 DEF CountersWritten, Call, NextToken, counters
    <3>4. ResourcesWritten(w)' = resources
      BY <1>6, <2>3 DEF ResourcesWritten, Call, Capped
    <3> QED
      BY <1>6, <3>1, <3>2, <3>3, <3>4 DEF DraftOK
  <2> QED
    BY <1>1, <2>1, <2>2, <2>3 DEF TxOps, Capped
<1> QED
  BY <1>6, <1>7, <1>8, <1>9, <1>11 DEF Prepared

\* A successful COMMIT.
CommitOf(w) ==
  /\ Runs(w, "commit", TRUE)
  /\ leases' = draft.leases
  /\ fencing_counters' = draft.counters
  /\ resources' = draft.resources
  /\ issued' = Granted(w)

\* What it commits is what the transaction of LeaseStore does, and its checks hold.
LEMMA CommitIsTransaction ==
  ASSUME NEW w \in Workers, Prepared(w), CommitOf(w)
  PROVE  Transaction(Call(w), running[w].now)
<1> DEFINE c == Call(w)
           now == running[w].now
<1>1. running[w].at = "commit" /\ c.op \in TxOps
  BY DEF Prepared, OpOK, CommitOf, Runs
<1>2. /\ leases' = LeasesWritten(w) /\ fencing_counters' = CountersWritten(w)
      /\ resources' = ResourcesWritten(w)
  BY DEF Prepared, DraftOK, CommitOf
<1>3. /\ LeaseOK(c, now)
      /\ c.op \in Capped => ~OverCap(c.resource, c.ttl)
      /\ c.op = "delete_resource" => c.resource \in DOMAIN resources
  BY <1>1 DEF Prepared, ChecksOK
<1>4. ASSUME c.op \in Granting
      PROVE  PutGrant(c.resource, IF c.op = "transfer" THEN c.newHolder ELSE c.holder,
                      c.ttl, now)
  <2> DEFINE h == IF c.op = "transfer" THEN c.newHolder ELSE c.holder
             tok == NextToken(c.resource)
             row == [holder |-> h, fencing_token |-> tok, expires_at |-> Plus64(now, c.ttl),
                     ttl_seconds |-> c.ttl]
  <2>1. running[w].token = tok /\ tok <= MaxToken
    BY <1>1, <1>4 DEF Prepared, TokenOK
  <2>2. leases' = Upsert(leases, c.resource, row)
    BY <1>1, <1>2, <1>4, <2>1 DEF LeasesWritten, Granting
  <2>3. fencing_counters' = Upsert(fencing_counters, c.resource, tok + 1)
        /\ resources' = resources
    BY <1>1, <1>2, <1>4 DEF CountersWritten, ResourcesWritten, Granting
  <2>4. draft.leases[c.resource].holder = h
    BY <2>2 DEF CommitOf, Upsert
  <2>5. issued' = [issued EXCEPT ![c.resource] = @ \cup {[holder |-> h, token |-> tok]}]
    BY <1>4, <2>1, <2>4 DEF CommitOf, Granted, Granting
  <2> QED
    BY <2>1, <2>2, <2>3, <2>5 DEF PutGrant
<1>5. CASE c.op = "acquire"
  <2>1. PutGrant(c.resource, c.holder, c.ttl, now)
    BY <1>4, <1>5 DEF Granting
  <2> QED
    BY <1>3, <1>5, <2>1 DEF Transaction, Acquire, AcquireVerdict, LeaseOK, Capped
<1>6. CASE c.op = "transfer"
  <2>1. PutGrant(c.resource, c.newHolder, c.ttl, now)
    BY <1>4, <1>6 DEF Granting
  <2>2. ExtendVerdict(c.resource, c.holder, c.token, c.ttl, now) = "ok"
    BY <1>3, <1>6 DEF LeaseOK, Capped, ExtendVerdict
  <2> QED
    BY <1>6, <2>1, <2>2 DEF Transaction, Transfer
<1>7. CASE c.op = "renew"
  <2>1. ExtendVerdict(c.resource, c.holder, c.token, c.ttl, now) = "ok"
    BY <1>3, <1>7 DEF LeaseOK, Capped, ExtendVerdict
  <2>2. leases' = Upsert(leases, c.resource,
          [leases[c.resource] EXCEPT !.expires_at = Plus64(now, c.ttl),
                                     !.ttl_seconds = c.ttl])
    <3>1. leases' = Upsert(leases, c.resource, RenewedRow(w))
      BY <1>1, <1>2, <1>7 DEF LeasesWritten
    <3>2. RenewedRow(w) = [leases[c.resource] EXCEPT !.expires_at = Plus64(now, c.ttl),
                                                     !.ttl_seconds = c.ttl]
      BY Zenon DEF RenewedRow
    <3> QED
      BY <3>1, <3>2, Zenon
  <2>3. UNCHANGED <<fencing_counters, resources, issued>>
    BY <1>1, <1>2, <1>7
       DEF CountersWritten, ResourcesWritten, Granting, CommitOf, Granted
  <2> QED
    BY <1>7, <2>1, <2>2, <2>3 DEF Transaction, Renew
<1>8. CASE c.op = "release"
  BY <1>1, <1>2, <1>3, <1>8
     DEF Transaction, Release, LeaseOK, LeasesWritten, CountersWritten, ResourcesWritten,
         Granting, CommitOf, Granted
<1>9. CASE c.op = "delete_resource"
  BY <1>1, <1>2, <1>3, <1>9
     DEF Transaction, DeleteResource, DeleteVerdict, LeaseOK, LeasesWritten,
         CountersWritten, ResourcesWritten, Granting, CommitOf, Granted
<1> QED
  BY <1>1, <1>5, <1>6, <1>7, <1>8, <1>9 DEF TxOps

-----------------------------------------------------------------------------
(* Every step *)

\* w has failed, or returned, or was never there.
LEMMA IdleKeepsRunningOK ==
  ASSUME RunningOK, NEW w \in Workers, running' = [running EXCEPT ![w] = Idle],
         conn' = NoOne \/ (conn' = conn /\ conn # w)
  PROVE  RunningOK'
<1>1. Idle.at = "idle"
  BY DEF Idle
<1>2. conn' \in Workers => running'[conn'] = running[conn']
  BY TxAssumption DEF RunningOK
<1>3. running' \in [Workers -> {Idle} \cup RunningStates]
  BY DEF RunningOK
<1>4. \A v \in Workers : running'[v].at = "begin" => running'[v].call.op \in TxOps
  BY <1>1 DEF RunningOK, Call
<1> QED
  BY <1>2, <1>3, <1>4, TxAssumption DEF RunningOK, Call

\* A goroutine whose call and draft are untouched stays prepared.
LEMMA StaysPrepared ==
  ASSUME NEW v \in Workers, Prepared(v), running'[v].at = running[v].at,
         running'[v].call = running[v].call, running'[v].now = running[v].now,
         running'[v].token = running[v].token, draft' = draft,
         leases' = leases, fencing_counters' = fencing_counters, resources' = resources
  PROVE  Prepared(v)'
<1>1. OpOK(v)' /\ TokenOK(v)'
  BY DEF Prepared, OpOK, TokenOK, Call, NextToken
<1>2. ChecksOK(v)'
  BY DEF Prepared, ChecksOK, LeaseOK, Call, Live, Leased, OverCap, HolderVerdict
<1>3. DraftOK(v)'
  <2>1. RenewedRow(v)' = RenewedRow(v)
    BY Zenon DEF RenewedRow, Call
  <2>2. LeasesWritten(v)' = LeasesWritten(v)
    BY <2>1 DEF LeasesWritten, Call
  <2>3. /\ CountersWritten(v)' = CountersWritten(v)
        /\ ResourcesWritten(v)' = ResourcesWritten(v)
    BY DEF CountersWritten, ResourcesWritten, Call, NextToken
  <2> QED
    BY <2>2, <2>3 DEF Prepared, DraftOK
<1> QED
  BY <1>1, <1>2, <1>3 DEF Prepared

\* A statement succeeds, or fails with its transaction, or commits it.
LEMMA StatementCases ==
  ASSUME FencingInv, RunningOK, conn \in Workers => Prepared(conn),
         NEW w \in Workers, RunStatement(w)
  PROVE  \/ /\ RunningOK' /\ conn' = w /\ Prepared(w)'
            /\ UNCHANGED <<leases, fencing_counters, resources, issued, synced>>
         \/ conn = w /\ RollBack(w)
         \/ /\ CommitOf(w)
            /\ conn' = NoOne
            /\ running' = [running EXCEPT ![w] = Idle]
            /\ UNCHANGED synced
<1> DEFINE Advances ==
      /\ RunningOK' /\ conn' = w /\ Prepared(w)'
      /\ UNCHANGED <<leases, fencing_counters, resources, issued, synced>>
<1>1. ASSUME NEW s, NEW check, Runs(w, s, check) PROVE conn = w /\ Prepared(w)
  BY <1>1 DEF Runs
<1>2. ASSUME NEW s, Fails(w, s) PROVE conn = w /\ RollBack(w)
  BY <1>2 DEF Fails, Runs
<1>3. CASE ReadLease(w)
  BY <1>1, <1>2, <1>3, ReadLeaseKeepsInv DEF ReadLease
<1>4. CASE ReadCap(w)
  BY <1>1, <1>2, <1>4, ReadCapKeepsInv DEF ReadCap
<1>5. CASE EnsureCounter(w)
  BY <1>1, <1>2, <1>5, EnsureCounterKeepsInv DEF EnsureCounter
<1>6. CASE ReadToken(w)
  BY <1>1, <1>2, <1>6, ReadTokenKeepsInv DEF ReadToken
<1>7. CASE AdvanceCounter(w)
  <2>1. CASE Fails(w, "advance")
    BY <1>2, <2>1
  <2>2. CASE /\ Runs(w, "advance", TRUE)
             /\ Succeeds(w, [draft EXCEPT !.counters[Call(w).resource] = @ + 1],
                         running[w].token)
    BY <1>1, <2>2, AdvanceCounterKeepsInv
  <2> QED
    BY <1>7, <2>1, <2>2, Zenon DEF AdvanceCounter
<1>8. CASE WriteRow(w)
  <2>1. CASE Fails(w, "write")
    BY <1>2, <2>1
  <2>2. CASE /\ Runs(w, "write", Call(w).op = "delete_resource"
                                   => Call(w).resource \in DOMAIN draft.resources)
             /\ Succeeds(w, RowWritten(w), running[w].token)
    BY <1>1, <2>2, WriteRowKeepsInv
  <2> QED
    BY <1>8, <2>1, <2>2, Zenon DEF WriteRow, RowWritten
<1>9. CASE Commit(w)
  BY <1>2, <1>9 DEF Commit, CommitOf
<1> QED
  BY <1>3, <1>4, <1>5, <1>6, <1>7, <1>8, <1>9 DEF RunStatement

\* What any step does to the committed tables.
CallCommits ==
  \E w \in Workers :
    /\ Busy(w)
    /\ \E now \in Instants :
         /\ Transaction(Call(w), now)
         /\ ~Waiting(w) => now = running[w].now

\* Only whole transactions and power failures change the committed tables.
LEMMA StepEffect ==
  ASSUME TxInv, [Next]_vars
  PROVE  /\ CallCommits \/ PowerLoss \/ UNCHANGED storeVars
         /\ synced' = synced \/ (Sync /\ UNCHANGED storeVars)
<1>1. ASSUME NEW w \in Workers, RunStatement(w)
      PROVE  (CallCommits \/ UNCHANGED storeVars) /\ synced' = synced
  <2>1. CASE /\ CommitOf(w) /\ synced' = synced
    <3>1. conn = w /\ running[w].at = "commit"
      BY <2>1 DEF CommitOf, Runs
    <3>2. Prepared(w) /\ running[w].now \in Instants
      BY <3>1 DEF TxInv, Prepared, OpOK
    <3>3. Transaction(Call(w), running[w].now)
      BY <2>1, <3>2, CommitIsTransaction
    <3>4. Busy(w)
      BY <3>1 DEF Busy, Idle
    <3> QED
      BY <2>1, <3>2, <3>3, <3>4 DEF CallCommits
  <2>2. CASE conn = w /\ RollBack(w)
    BY <2>2 DEF RollBack
  <2>3. CASE UNCHANGED <<leases, fencing_counters, resources, issued, synced>>
    BY <2>3 DEF storeVars
  <2> QED
    BY <1>1, <2>1, <2>2, <2>3, StatementCases DEF TxInv
<1>2. ASSUME NEW w \in Workers, NEW now \in Instants, Exec(w, now)
      PROVE  (CallCommits \/ UNCHANGED storeVars) /\ synced' = synced
  <2>1. Busy(w) /\ Waiting(w)
    BY <1>2 DEF Exec, Busy, Waiting, Idle
  <2>2. CASE Transaction(Call(w), now)
    BY <1>2, <2>1, <2>2 DEF CallCommits, Exec
  <2> QED
    BY <1>2, <2>2 DEF Exec
<1>3. ASSUME NEW w \in Workers,
             \/ \E c \in Calls : Receive(w, c)
             \/ \E now \in Instants : Begin(w, now)
             \/ Cancel(w) \/ GiveUp(w) \/ RollBackCancelled(w) \/ TxDone(w)
      PROVE  UNCHANGED storeVars /\ synced' = synced
  BY <1>3 DEF Receive, Begin, Cancel, GiveUp, RollBackCancelled, TxDone
<1>4. CASE Crash \/ Sync \/ PowerLoss
  BY <1>4 DEF Crash, Sync, PowerLoss
<1>5. CASE UNCHANGED vars
  BY <1>5 DEF vars, storeVars
<1> QED
  BY <1>1, <1>2, <1>3, <1>4, <1>5 DEF Next

\* Fencing, now and as of the last sync of the log.
LEMMA StepKeepsFencing ==
  ASSUME TxInv, [Next]_vars
  PROVE  FencingInv' /\ Synced!FencingInv' /\ SyncedBehindCounters'
<1> USE DEF TxInv
<1>1. CASE UNCHANGED storeVars /\ synced' = synced
  <2>1. FencingInv'
    BY <1>1, FencingInvInductive
  <2>2. Synced!FencingInv'
    BY <1>1 DEF Synced!FencingInv, Synced!TypeOK, Synced!CounterAheadOfTokens,
                Synced!RowIsNewestGrant, Synced!TokenNamesOneHolder
  <2> QED
    BY <1>1, <2>1, <2>2 DEF SyncedBehindCounters, storeVars
<1>2. CASE CallCommits /\ synced' = synced
  <2>1. PICK w \in Workers : Busy(w) /\ \E now \in Instants : Transaction(Call(w), now)
    BY <1>2 DEF CallCommits
  <2>2. Call(w) \in Calls
    BY <2>1 DEF Busy, RunningOK, RunningStates, Call
  <2>3. StoreNext
    BY <2>1, <2>2, TransactionIsStoreStep
  <2>4. FencingInv' /\ CountersGrew
    BY <2>3, FencingInvInductive, CountersGrow
  <2>5. Synced!FencingInv'
    BY <1>2 DEF Synced!FencingInv, Synced!TypeOK, Synced!CounterAheadOfTokens,
                Synced!RowIsNewestGrant, Synced!TokenNamesOneHolder
  <2>6. SyncedBehindCounters'
    <3> SUFFICES ASSUME NEW r \in Resources, NEW g \in synced.issued[r]
                 PROVE  r \in DOMAIN fencing_counters' /\ g.token < fencing_counters'[r]
      BY <1>2 DEF SyncedBehindCounters
    <3>1. r \in DOMAIN fencing_counters /\ g.token < fencing_counters[r]
      BY DEF SyncedBehindCounters
    <3>2. r \in DOMAIN fencing_counters' /\ fencing_counters[r] <= fencing_counters'[r]
      BY <2>4, <3>1 DEF CountersGrew
    <3>3. g.token \in Int
      BY StoreAssumption DEF Synced!FencingInv, Synced!TypeOK, Synced!Grants, Synced!Tokens
    <3>4. fencing_counters[r] \in Int /\ fencing_counters'[r] \in Int
      BY <2>4, <3>1, <3>2, StoreAssumption DEF FencingInv, TypeOK
    <3> QED
      BY <3>1, <3>2, <3>3, <3>4
  <2> QED
    BY <2>4, <2>5, <2>6
<1>3. CASE PowerLoss
  <2>1. /\ leases' = synced.tables.leases /\ fencing_counters' = synced.tables.counters
        /\ resources' = synced.tables.resources /\ issued' = synced.issued
        /\ synced' = synced
    BY <1>3 DEF PowerLoss
  <2>2. FencingInv'
    <3>1. TypeOK'
      BY <2>1 DEF Synced!FencingInv, Synced!TypeOK, TypeOK, Synced!LeaseRow, LeaseRow,
                  Synced!Grants, Grants, Synced!Tokens, Tokens, Synced!Int64, Int64
    <3>2. CounterAheadOfTokens'
      BY <2>1 DEF Synced!FencingInv, Synced!CounterAheadOfTokens, CounterAheadOfTokens
    <3>3. RowIsNewestGrant'
      BY <2>1 DEF Synced!FencingInv, Synced!RowIsNewestGrant, RowIsNewestGrant
    <3>4. TokenNamesOneHolder'
      BY <2>1 DEF Synced!FencingInv, Synced!TokenNamesOneHolder, TokenNamesOneHolder
    <3> QED
      BY <3>1, <3>2, <3>3, <3>4 DEF FencingInv
  <2>3. Synced!FencingInv'
    BY <2>1 DEF Synced!FencingInv, Synced!TypeOK, Synced!CounterAheadOfTokens,
                Synced!RowIsNewestGrant, Synced!TokenNamesOneHolder
  <2>4. SyncedBehindCounters'
    BY <2>1 DEF Synced!FencingInv, Synced!CounterAheadOfTokens, SyncedBehindCounters
  <2> QED
    BY <2>2, <2>3, <2>4
<1>4. CASE Sync /\ UNCHANGED storeVars
  <2>1. FencingInv'
    BY <1>4, FencingInvInductive
  <2>2. /\ synced'.tables.leases = leases /\ synced'.tables.counters = fencing_counters
        /\ synced'.tables.resources = resources /\ synced'.issued = issued
    BY <1>4 DEF Sync, Log, Tables
  <2>3. Synced!TypeOK'
    BY <2>2 DEF FencingInv, Synced!TypeOK, TypeOK, Synced!LeaseRow, LeaseRow,
                Synced!Grants, Grants, Synced!Tokens, Tokens, Synced!Int64, Int64
  <2>4. Synced!CounterAheadOfTokens'
    BY <2>2 DEF FencingInv, Synced!CounterAheadOfTokens, CounterAheadOfTokens
  <2>5. Synced!RowIsNewestGrant'
    BY <2>2 DEF FencingInv, Synced!RowIsNewestGrant, RowIsNewestGrant
  <2>6. Synced!TokenNamesOneHolder'
    BY <2>2 DEF FencingInv, Synced!TokenNamesOneHolder, TokenNamesOneHolder
  <2>7. SyncedBehindCounters'
    BY <1>4, <2>2 DEF FencingInv, CounterAheadOfTokens, SyncedBehindCounters, storeVars
  <2> QED
    BY <2>1, <2>3, <2>4, <2>5, <2>6, <2>7 DEF Synced!FencingInv
<1>5. PowerLoss => synced' = synced
  BY DEF PowerLoss
<1> QED
  BY <1>1, <1>2, <1>3, <1>4, <1>5, StepEffect

\* The connection, and what the goroutine that has it has prepared.
LEMMA StepKeepsPrepared ==
  ASSUME TxInv, [Next]_vars
  PROVE  RunningOK' /\ (conn' \in Workers => Prepared(conn)')
<1> USE DEF TxInv
<1>1. ASSUME NEW w \in Workers, RunStatement(w)
      PROVE  RunningOK' /\ (conn' \in Workers => Prepared(conn)')
  <2>1. CASE RunningOK' /\ conn' = w /\ Prepared(w)'
    BY <2>1
  <2>2. CASE conn' = NoOne /\ running' = [running EXCEPT ![w] = Idle]
    BY <2>2, IdleKeepsRunningOK, TxAssumption
  <2> QED
    BY <1>1, <2>1, <2>2, StatementCases DEF RollBack
<1>2. ASSUME NEW w \in Workers, NEW c \in Calls, Receive(w, c)
      PROVE  RunningOK' /\ (conn' \in Workers => Prepared(conn)')
  <2> DEFINE received == [call |-> c, now |-> 0, at |-> FirstStatement(c), token |-> 0,
                          cancelled |-> FALSE]
  <2>1. FirstStatement(c) \in {"begin", "exec"}
        /\ (FirstStatement(c) = "begin" => c.op \in TxOps)
    BY DEF FirstStatement, TxOps
  <2>2. received \in RunningStates /\ received.call = c /\ received.at = FirstStatement(c)
    BY <2>1 DEF RunningStates
  <2>3. running' = [running EXCEPT ![w] = received] /\ UNCHANGED <<storeVars, conn, draft>>
    BY <1>2 DEF Receive
  <2>4. running[w].at = "idle"
    BY <1>2 DEF Receive, Busy, Idle
  <2> HIDE DEF received
  <2>5. conn \in Workers => conn # w
    BY <2>4 DEF RunningOK, InTx
  <2>6. running' \in [Workers -> {Idle} \cup RunningStates]
    BY <2>2, <2>3 DEF RunningOK
  <2>7. \A v \in Workers : v # w => running'[v] = running[v]
    BY <2>3 DEF RunningOK
  <2>8. running'[w] = received
    BY <2>3 DEF RunningOK
  <2>9. \A v \in Workers : running'[v].at = "begin" => running'[v].call.op \in TxOps
    BY <2>1, <2>2, <2>7, <2>8 DEF RunningOK, Call
  <2>10. RunningOK'
    BY <2>3, <2>5, <2>6, <2>7, <2>9 DEF RunningOK, Call
  <2>11. conn \in Workers => running'[conn] = running[conn]
    BY <2>5, <2>7
  <2> QED
    BY <2>3, <2>10, <2>11, StaysPrepared DEF storeVars
<1>3. ASSUME NEW w \in Workers, NEW now \in Instants, Begin(w, now)
      PROVE  RunningOK' /\ (conn' \in Workers => Prepared(conn)')
  <2>1. /\ running[w].at = "begin" /\ conn' = w /\ draft' = Tables
        /\ running' = [running EXCEPT ![w].at = "lease", ![w].now = now]
        /\ UNCHANGED storeVars
    BY <1>3 DEF Begin
  <2>2. running[w] \in RunningStates /\ Call(w).op \in TxOps
    BY <2>1 DEF RunningOK, Idle
  <2>3. running'[w] \in RunningStates /\ running'[w].at = "lease"
        /\ running'[w].now = now /\ running'[w].call = running[w].call
    BY <2>1, <2>2 DEF RunningOK, RunningStates, InTx
  <2>4. \A v \in Workers : v # w => running'[v] = running[v]
    BY <2>1 DEF RunningOK
  <2>5. running' \in [Workers -> {Idle} \cup RunningStates]
    <3>1. running \in [Workers -> {Idle} \cup RunningStates]
      BY DEF RunningOK
    <3>2. running' = [v \in Workers |-> running'[v]]
      BY <2>1, <3>1
    <3> QED
      BY <2>3, <2>4, <3>1, <3>2
  <2>6. \A v \in Workers : running'[v].at = "begin" => running'[v].call.op \in TxOps
    BY <2>3, <2>4 DEF RunningOK, Call
  <2>7. RunningOK'
    BY <2>1, <2>3, <2>5, <2>6 DEF RunningOK, Call, InTx
  <2>8. OpOK(w)' /\ ChecksOK(w)' /\ TokenOK(w)'
    BY <2>2, <2>3 DEF OpOK, ChecksOK, TokenOK, Call
  <2>9. DraftOK(w)'
    BY <2>1, <2>3
       DEF DraftOK, LeasesWritten, CountersWritten, ResourcesWritten, Tables, storeVars
  <2> QED
    BY <2>1, <2>7, <2>8, <2>9 DEF Prepared
<1>4. ASSUME NEW w \in Workers, NEW now \in Instants, Exec(w, now)
      PROVE  RunningOK' /\ (conn' \in Workers => Prepared(conn)')
  <2>1. conn' = NoOne /\ running' = [running EXCEPT ![w] = Idle]
    BY <1>4 DEF Exec
  <2> QED
    BY <2>1, IdleKeepsRunningOK, TxAssumption
<1>5. ASSUME NEW w \in Workers, Cancel(w)
      PROVE  RunningOK' /\ (conn' \in Workers => Prepared(conn)')
  <2>1. /\ running' = [running EXCEPT ![w].cancelled = TRUE]
        /\ UNCHANGED <<storeVars, conn, draft>>
        /\ running[w] \in RunningStates
    BY <1>5 DEF Cancel, Busy, RunningOK
  <2>2. /\ running'[w] \in RunningStates /\ running'[w].at = running[w].at
        /\ running'[w].call = running[w].call /\ running'[w].now = running[w].now
        /\ running'[w].token = running[w].token
    BY <2>1 DEF RunningOK, RunningStates
  <2>3. \A v \in Workers : v # w => running'[v] = running[v]
    BY <2>1 DEF RunningOK
  <2>4. running' \in [Workers -> {Idle} \cup RunningStates]
    <3>1. running \in [Workers -> {Idle} \cup RunningStates]
      BY DEF RunningOK
    <3>2. running' = [v \in Workers |-> running'[v]]
      BY <2>1, <3>1
    <3> QED
      BY <2>2, <2>3, <3>1, <3>2
  <2>5. \A v \in Workers : /\ running'[v].at = running[v].at
                           /\ running'[v].call = running[v].call
                           /\ running'[v].now = running[v].now
                           /\ running'[v].token = running[v].token
    BY <2>2, <2>3
  <2>6. RunningOK'
    BY <2>1, <2>4, <2>5 DEF RunningOK, Call
  <2> QED
    BY <2>1, <2>5, <2>6, StaysPrepared DEF storeVars
<1>6. ASSUME NEW w \in Workers, GiveUp(w) \/ TxDone(w)
      PROVE  RunningOK' /\ (conn' \in Workers => Prepared(conn)')
  <2>1. /\ running' = [running EXCEPT ![w] = Idle]
        /\ UNCHANGED <<storeVars, conn, draft>>
    BY <1>6 DEF GiveUp, TxDone
  <2>2. conn # w
    BY <1>6 DEF GiveUp, TxDone, Waiting, RunningOK, InTx
  <2>3. RunningOK'
    BY <2>1, <2>2, IdleKeepsRunningOK
  <2>4. conn \in Workers => running'[conn] = running[conn]
    BY <2>1, <2>2 DEF RunningOK
  <2> QED
    BY <2>1, <2>3, <2>4, StaysPrepared DEF storeVars
<1>7. ASSUME NEW w \in Workers, RollBackCancelled(w)
      PROVE  RunningOK' /\ (conn' \in Workers => Prepared(conn)')
  BY <1>7, TxAssumption DEF RollBackCancelled, RunningOK, Call
<1>8. CASE Crash \/ PowerLoss
  <2>1. conn' = NoOne /\ running' = [w \in Workers |-> Idle]
    BY <1>8 DEF Crash, PowerLoss, Lost
  <2> QED
    BY <2>1, TxAssumption DEF RunningOK, Idle, Call
<1>9. CASE Sync \/ UNCHANGED vars
  <2>1. UNCHANGED <<leases, fencing_counters, resources, conn, draft, running>>
    BY <1>9 DEF Sync, vars, storeVars, txVars
  <2>2. RunningOK'
    BY <2>1 DEF RunningOK, Call
  <2> QED
    BY <2>1, <2>2, StaysPrepared
<1> QED
  BY <1>1, <1>2, <1>3, <1>4, <1>5, <1>6, <1>7, <1>8, <1>9 DEF Next

-----------------------------------------------------------------------------
(* Theorems *)

\* The invariant is inductive.
LEMMA TxInvInductive ==
  /\ Init => TxInv
  /\ TxInv /\ [Next]_vars => TxInv'
<1>1. ASSUME Init PROVE TxInv
  <2>1. FencingInv
    BY <1>1, FencingInvInductive DEF Init
  <2>2. Synced!FencingInv
    BY <1>1 DEF Init, StoreInit, Log, Tables, EmptyTable, Synced!FencingInv, Synced!TypeOK,
                Synced!CounterAheadOfTokens, Synced!RowIsNewestGrant,
                Synced!TokenNamesOneHolder
  <2>3. SyncedBehindCounters
    BY <1>1 DEF Init, StoreInit, Log, SyncedBehindCounters
  <2>4. RunningOK /\ conn \notin Workers
    BY <1>1, TxAssumption DEF Init, RunningOK, Idle, Call
  <2> QED
    BY <2>1, <2>2, <2>3, <2>4 DEF TxInv
<1>2. ASSUME TxInv, [Next]_vars PROVE TxInv'
  BY <1>2, StepKeepsFencing, StepKeepsPrepared DEF TxInv
<1> QED
  BY <1>1, <1>2

\* Fencing, and a draft that is the committed tables plus the statements so far.
THEOREM TxInvariant == Spec => []TxInv
  BY TxInvInductive, PTL DEF Spec

\* Whatever is cancelled, fails or crashes at whatever statement, the tables are
\* fenced, and no token issued before the last sync is handed out again.
THEOREM TokensStayFenced == Spec => []SyncedTokensStayFenced
<1>1. TxInv => SyncedTokensStayFenced
  BY DEF TxInv, SyncedBehindCounters, SyncedTokensStayFenced
<1> QED
  BY <1>1, TxInvariant, PTL

\* Each commit is the whole transaction of one call, as LeaseStore has it.
THEOREM CommitsAreAtomic == Spec => CommitsAreTransactions
<1>1. TxInv /\ [Next]_vars => [CallCommits \/ PowerLoss]_storeVars
  BY StepEffect
<1> QED
  BY <1>1, TxInvariant, PTL DEF Spec, CommitsAreTransactions, CallCommits
=============================================================================
