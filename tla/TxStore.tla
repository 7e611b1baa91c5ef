------------------------------ MODULE TxStore ------------------------------
(***************************************************************************)
(* The store below its transactions (internal/store over database/sql and  *)
(* SQLite): the one connection of the pool, the statements of a            *)
(* transaction, the cancellation of its context between any two of them,   *)
(* errors, crashes, and what a power failure leaves of a write-ahead log   *)
(* that is not synced at every commit (PRAGMA synchronous=NORMAL).         *)
(*                                                                         *)
(* The variables of LeaseStore are the committed tables here.  The tables  *)
(* as the open transaction sees them are `draft'.  BeginTx(ctx, nil) is a  *)
(* deferred transaction, not the BEGIN IMMEDIATE of the comments: that     *)
(* each call is atomic all the same is due to the single connection.       *)
(***************************************************************************)
EXTENDS StoreCalls

CONSTANTS
  Workers,   \* goroutines that call the store
  Ops,       \* the kinds of call they make
  NoOne      \* "the connection is free"

ASSUME TxAssumption == NoOne \notin Workers

VARIABLES
  conn,      \* the goroutine that has the connection of the pool, or NoOne
  draft,     \* the tables as the open transaction sees them
  running,   \* running[w]: the call w makes and the statement it runs next
  synced     \* the committed tables, and issued, as of the last sync of the log

txVars == <<conn, draft, running>>
vars == <<leases, fencing_counters, resources, issued, conn, draft, running, synced>>

Draft == INSTANCE LeaseStore WITH
  leases <- draft.leases, fencing_counters <- draft.counters, resources <- draft.resources

Tables == [leases |-> leases, counters |-> fencing_counters, resources |-> resources]
NoDraft == [leases |-> EmptyTable, counters |-> EmptyTable, resources |-> EmptyTable]
Log == [tables |-> Tables, issued |-> issued]

Idle == [at |-> "idle"]
Busy(w) == running[w] # Idle
Waiting(w) == running[w].at \in {"begin", "exec"}
Call(w) == running[w].call

\* The statement a call starts with.  A sweep, a forced release and a
\* registration are one statement outside a transaction.
FirstStatement(c) ==
  IF c.op \in {"acquire", "renew", "transfer", "release", "delete_resource"}
  THEN "begin" ELSE "exec"

\* The statement that follows s when its check holds.
After(c, s) ==
  CASE s = "begin" -> "lease"
    [] s = "lease" -> IF c.op \in {"release", "delete_resource"} THEN "write" ELSE "cap"
    [] s = "cap" -> IF c.op = "renew" THEN "write" ELSE "ensure"
    [] s = "ensure" -> "token"
    [] s = "token" -> "advance"
    [] s = "advance" -> "write"
    [] OTHER -> "commit"

Init ==
  /\ StoreInit
  /\ conn = NoOne
  /\ draft = NoDraft
  /\ running = [w \in Workers |-> Idle]
  /\ synced = Log

-----------------------------------------------------------------------------
(* The connection *)

\* A call arrives.  The instant its caller read is fixed when it is first used.
Receive(w, c) ==
  /\ ~Busy(w)
  /\ running' = [running EXCEPT ![w] =
       [call |-> c, now |-> 0, at |-> FirstStatement(c), token |-> 0, cancelled |-> FALSE]]
  /\ UNCHANGED <<storeVars, conn, draft, synced>>

\* The client goes away, and the context of its request is cancelled.
Cancel(w) ==
  /\ Busy(w)
  /\ ~running[w].cancelled
  /\ running' = [running EXCEPT ![w].cancelled = TRUE]
  /\ UNCHANGED <<storeVars, conn, draft, synced>>

\* A caller whose context is cancelled stops waiting for the connection.
GiveUp(w) ==
  /\ Waiting(w)
  /\ running[w].cancelled
  /\ running' = [running EXCEPT ![w] = Idle]
  /\ UNCHANGED <<storeVars, conn, draft, synced>>

Begin(w, now) ==
  /\ running[w].at = "begin"
  /\ ~running[w].cancelled
  /\ conn = NoOne
  /\ conn' = w
  /\ draft' = Tables
  /\ running' = [running EXCEPT ![w].at = "lease", ![w].now = now]
  /\ UNCHANGED <<storeVars, synced>>

\* A statement outside a transaction: it takes effect, or a check or an error
\* leaves everything as it was.
Exec(w, now) ==
  /\ running[w].at = "exec"
  /\ ~running[w].cancelled
  /\ conn = NoOne
  /\ Transaction(Call(w), now) \/ UNCHANGED storeVars
  /\ running' = [running EXCEPT ![w] = Idle]
  /\ UNCHANGED <<conn, draft, synced>>

\* The deferred tx.Rollback() of a call that returns.
RollBack(w) ==
  /\ conn' = NoOne
  /\ draft' = NoDraft
  /\ running' = [running EXCEPT ![w] = Idle]
  /\ UNCHANGED <<storeVars, synced>>

\* database/sql rolls back the transaction of a cancelled context by itself,
\* and frees the connection, at whatever statement its caller is.
RollBackCancelled(w) ==
  /\ conn = w
  /\ running[w].cancelled
  /\ conn' = NoOne
  /\ draft' = NoDraft
  /\ UNCHANGED <<storeVars, running, synced>>

\* The caller's next statement fails with ErrTxDone.
TxDone(w) ==
  /\ Busy(w) /\ ~Waiting(w)
  /\ conn # w
  /\ running' = [running EXCEPT ![w] = Idle]
  /\ UNCHANGED <<storeVars, conn, draft, synced>>

-----------------------------------------------------------------------------
(* The statements of a transaction.  Each may fail, and the call with it.  *)

\* w runs the statement s of its transaction, if its check holds.
Runs(w, s, check) ==
  /\ conn = w
  /\ running[w].at = s
  /\ ~running[w].cancelled
  /\ check

Fails(w, s) == Runs(w, s, TRUE) /\ RollBack(w)

Succeeds(w, tables, token) ==
  /\ draft' = tables
  /\ running' = [running EXCEPT ![w].at = After(Call(w), @), ![w].token = token]
  /\ UNCHANGED <<storeVars, conn, synced>>

\* The SELECT of the row, and the checks made on it.
LeaseCheck(c, now) ==
  CASE c.op = "acquire" -> ~Draft!Live(c.resource, now)
    [] c.op = "delete_resource" -> ~Draft!Leased(c.resource)
    [] OTHER -> Draft!HolderVerdict(c.resource, c.holder, c.token, now) = "ok"

ReadLease(w) ==
  \/ /\ Runs(w, "lease", LeaseCheck(Call(w), running[w].now))
     /\ Succeeds(w, draft, running[w].token)
  \/ Fails(w, "lease")

\* [bug] the cap is read through the pool, not through the transaction.
ReadCapFromPool(w) ==
  /\ conn = NoOne
  /\ running[w].at = "cap"
  /\ ~Draft!OverCap(Call(w).resource, Call(w).ttl)
  /\ Succeeds(w, draft, running[w].token)

ReadCap(w) ==
  \/ /\ Runs(w, "cap", ~Draft!OverCap(Call(w).resource, Call(w).ttl))
     /\ Succeeds(w, draft, running[w].token)
  \/ Fails(w, "cap")

EnsureCounter(w) ==
  LET r == Call(w).resource
  IN  \/ /\ Runs(w, "ensure", TRUE)
         /\ Succeeds(w, IF r \in DOMAIN draft.counters THEN draft
                        ELSE [draft EXCEPT !.counters = Upsert(@, r, 1)], running[w].token)
      \/ Fails(w, "ensure")

\* (MaxToken bounds the model.)
ReadToken(w) ==
  LET next == draft.counters[Call(w).resource]
  IN  \/ Runs(w, "token", next <= MaxToken) /\ Succeeds(w, draft, next)
      \/ Fails(w, "token")

\* [bug] the counter is advanced outside the transaction of the caller.
AdvanceCounterAtOnce(w) ==
  LET counters == Upsert(draft.counters, Call(w).resource, running[w].token + 1)
  IN  /\ Runs(w, "advance", TRUE)
      /\ draft' = [draft EXCEPT !.counters = counters]
      /\ fencing_counters' = counters
      /\ running' = [running EXCEPT ![w].at = After(Call(w), @)]
      /\ UNCHANGED <<leases, resources, issued, conn, synced>>

AdvanceCounter(w) ==
  \/ /\ Runs(w, "advance", TRUE)
     /\ Succeeds(w, [draft EXCEPT !.counters[Call(w).resource] = @ + 1], running[w].token)
  \/ Fails(w, "advance")

\* The row a call writes, from the row it read and the token it allocated.
NewRow(w) ==
  LET c == Call(w)
      expiry == Plus64(running[w].now, c.ttl)
  IN  IF c.op = "renew"
      THEN [draft.leases[c.resource] EXCEPT !.expires_at = expiry, !.ttl_seconds = c.ttl]
      ELSE [holder |-> IF c.op = "transfer" THEN c.newHolder ELSE c.holder,
            fencing_token |-> running[w].token, expires_at |-> expiry, ttl_seconds |-> c.ttl]

WriteRow(w) ==
  LET r == Call(w).resource
  IN  \/ /\ Runs(w, "write", Call(w).op = "delete_resource" => r \in DOMAIN draft.resources)
         /\ Succeeds(w,
              CASE Call(w).op = "release" -> [draft EXCEPT !.leases = Delete(@, {r})]
                [] Call(w).op = "delete_resource" -> [draft EXCEPT !.resources = Delete(@, {r})]
                [] OTHER -> [draft EXCEPT !.leases = Upsert(@, r, NewRow(w))],
              running[w].token)
      \/ Fails(w, "write")

\* A grant is committed with its token.
Granted(w) ==
  LET c == Call(w)
  IN  IF c.op \notin {"acquire", "transfer"} THEN issued
      ELSE [issued EXCEPT ![c.resource] = @ \cup
              {[holder |-> draft.leases[c.resource].holder, token |-> running[w].token]}]

\* A failed COMMIT has rolled the transaction back.
Commit(w) ==
  \/ /\ Runs(w, "commit", TRUE)
     /\ leases' = draft.leases
     /\ fencing_counters' = draft.counters
     /\ resources' = draft.resources
     /\ issued' = Granted(w)
     /\ conn' = NoOne
     /\ draft' = NoDraft
     /\ running' = [running EXCEPT ![w] = Idle]
     /\ UNCHANGED synced
  \/ Fails(w, "commit")

-----------------------------------------------------------------------------
(* Failures of the process and of the machine *)

\* What runs is gone; SQLite drops what was not committed when it opens the
\* file again.
Lost ==
  /\ conn' = NoOne
  /\ draft' = NoDraft
  /\ running' = [w \in Workers |-> Idle]

Crash == Lost /\ UNCHANGED <<storeVars, synced>>

\* A checkpoint syncs the log.
Sync ==
  /\ synced' = Log
  /\ UNCHANGED <<storeVars, txVars>>

\* [bug] the rows are synced at every commit and the counters are not.
PowerLossOfCounters ==
  /\ Lost
  /\ fencing_counters' = synced.tables.counters
  /\ issued' = synced.issued
  /\ UNCHANGED <<leases, resources, synced>>

\* What was committed after the last sync is lost.  (Later commits may survive
\* too; then the sync might have been later.)  `issued' is what the surviving
\* transactions granted.
PowerLoss ==
  /\ Lost
  /\ leases' = synced.tables.leases
  /\ fencing_counters' = synced.tables.counters
  /\ resources' = synced.tables.resources
  /\ issued' = synced.issued
  /\ UNCHANGED synced

-----------------------------------------------------------------------------
RunStatement(w) ==
  \/ ReadLease(w) \/ ReadCap(w) \/ EnsureCounter(w) \/ ReadToken(w) \/ AdvanceCounter(w)
  \/ WriteRow(w) \/ Commit(w)

Next ==
  \/ \E w \in Workers :
       \/ \E c \in {c \in Calls : c.op \in Ops} : Receive(w, c)
       \/ \E now \in Instants : Begin(w, now) \/ Exec(w, now)
       \/ Cancel(w) \/ GiveUp(w)
       \/ RunStatement(w) \/ RollBackCancelled(w) \/ TxDone(w)
  \/ Crash \/ Sync \/ PowerLoss

\* A goroutine that can go on does.  The connection goes to one of those that
\* wait for it, chosen at random each time it is freed.
Fairness ==
  \A w \in Workers :
    /\ WF_vars(RunStatement(w))
    /\ WF_vars(RollBackCancelled(w))
    /\ WF_vars(TxDone(w))
    /\ WF_vars(GiveUp(w))
    /\ SF_vars(\E now \in Instants : Begin(w, now))
    /\ SF_vars(\E now \in Instants : Exec(w, now))

Spec == Init /\ [][Next]_vars
FairSpec == Spec /\ Fairness

-----------------------------------------------------------------------------
(* Properties *)

\* Every change to the committed tables is the whole transaction of one call,
\* with the outcome it would have if nothing else ran, or a power failure: no
\* statement is committed without the others, whatever is cancelled when.
CommitsAreTransactions ==
  [][\/ \E w \in Workers :
          /\ Busy(w)
          /\ \E now \in Instants :
               /\ Transaction(Call(w), now)
               /\ ~Waiting(w) => now = running[w].now
     \/ PowerLoss]_storeVars

\* Fencing survives crashes and power failures: what is left of the tables is as
\* consistent as before, and no token that was issued before the last sync can
\* be handed out again.
SyncedTokensStayFenced ==
  /\ FencingInv
  /\ \A r \in Resources : \A g \in synced.issued[r] :
       r \in DOMAIN fencing_counters /\ g.token < fencing_counters[r]

\* Every call returns: none waits for the connection for ever, and none waits
\* for itself.
CallsReturn == \A w \in Workers : Busy(w) ~> ~Busy(w)
=============================================================================
