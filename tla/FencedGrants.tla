---------------------------- MODULE FencedGrants ----------------------------
(***************************************************************************)
(* What a lease registry promises about fencing tokens, whatever clock its *)
(* callers read and however leases come to an end.  Every grant of a       *)
(* resource carries a token larger than all the tokens issued for that     *)
(* resource before; the grant in force, if there is one, is the last one   *)
(* issued; and a grant that stopped being in force is never in force       *)
(* again.  A downstream system that remembers the largest token it has     *)
(* seen can therefore reject every stale holder.                           *)
(*                                                                         *)
(* No code corresponds to this module line by line: it is the contract     *)
(* that the comments of Acquire and Transfer state, and LeaseStore is      *)
(* shown to implement it.                                                  *)
(***************************************************************************)
EXTENDS Naturals

CONSTANTS
  Resources,   \* the names that can be leased
  Holders,     \* the clients a lease can be granted to
  Tokens       \* the fencing tokens available

VARIABLES
  current,     \* current[r]: the grant in force, as a set of at most one grant
  issued       \* issued[r]: every grant of r ever made

vars == <<current, issued>>

Grants == [holder : Holders, token : Tokens]

Init ==
  /\ current = [r \in Resources |-> {}]
  /\ issued = [r \in Resources |-> {}]

\* A new grant supersedes the one in force and outranks every earlier one.
Issue(r, g) ==
  /\ \A old \in issued[r] : old.token < g.token
  /\ issued' = [issued EXCEPT ![r] = @ \cup {g}]
  /\ current' = [current EXCEPT ![r] = {g}]

\* The grants of some resources end: by release, by sweep or by force.
Drop(rs) ==
  /\ current' = [r \in Resources |-> IF r \in rs THEN {} ELSE current[r]]
  /\ UNCHANGED issued

Next ==
  \/ \E r \in Resources, g \in Grants : Issue(r, g)
  \/ \E rs \in SUBSET Resources : Drop(rs)

Spec == Init /\ [][Next]_vars
=============================================================================
