----------------------------- MODULE StoreCalls -----------------------------
(***************************************************************************)
(* The calls of the lease manager that change the store, as values: what a *)
(* request is decoded into, and the store transaction it stands for.       *)
(***************************************************************************)
EXTENDS LeaseStore

AcquireCalls == [op : {"acquire"}, resource : Resources, holder : Holders, ttl : TTLs]
RenewCalls ==
  [op : {"renew"}, resource : Resources, holder : Holders, token : Tokens, ttl : TTLs]
TransferCalls ==
  [op : {"transfer"}, resource : Resources, holder : Holders, token : Tokens, ttl : TTLs,
   newHolder : Holders]
ReleaseCalls == [op : {"release"}, resource : Resources, holder : Holders, token : Tokens]
TokenCalls == RenewCalls \cup TransferCalls \cup ReleaseCalls
AdminCalls ==
  [op : {"sweep"}] \cup [op : {"force_release", "delete_resource"}, resource : Resources]
  \cup [op : {"register_resource", "update_resource"}, resource : Resources, cap : Caps]

Calls == AcquireCalls \cup TokenCalls \cup AdminCalls

\* (Registering reads the clock for created_at only, which is left out.)
UsesClock(c) == c.op \notin {"force_release", "update_resource", "register_resource"}

\* The store transaction of a call that was given the instant `now'.
Transaction(c, now) ==
  \/ c.op = "acquire" /\ Acquire(c.resource, c.holder, c.ttl, now)
  \/ c.op = "renew" /\ Renew(c.resource, c.holder, c.token, c.ttl, now)
  \/ c.op = "transfer" /\ Transfer(c.resource, c.holder, c.token, c.ttl, now, c.newHolder)
  \/ c.op = "release" /\ Release(c.resource, c.holder, c.token, now)
  \/ c.op = "sweep" /\ Sweep(now)
  \/ c.op = "force_release" /\ ForceRelease(c.resource)
  \/ c.op = "register_resource" /\ RegisterResource(c.resource, c.cap)
  \/ c.op = "update_resource" /\ UpdateResource(c.resource, c.cap)
  \/ c.op = "delete_resource" /\ DeleteResource(c.resource, now)
=============================================================================
