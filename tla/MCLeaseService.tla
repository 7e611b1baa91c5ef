--------------------------- MODULE MCLeaseService ---------------------------
(* Values of the constants of LeaseService for TLC. *)
EXTENDS LeaseService, TLC

NoCaps == {}
SomeCaps == {-1, 1}
Instants3 == 0 .. 2
Instants4 == 0 .. 3
Instants5 == 0 .. 4

\* Connections, holders and resources are interchangeable.
Symmetry ==
  Permutations(Workers) \cup Permutations(Holders) \cup Permutations(Resources)
=============================================================================
