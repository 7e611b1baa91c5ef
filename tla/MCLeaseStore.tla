---------------------------- MODULE MCLeaseStore ----------------------------
(* Values of the constants of LeaseStore for TLC. *)
EXTENDS LeaseStore, TLC

MCCaps == {-1, 0, 1}
MCInstants == 0 .. 2

\* Holders (and resources) are interchangeable: nothing orders or names them.
Symmetry == Permutations(Resources) \cup Permutations(Holders)
=============================================================================
