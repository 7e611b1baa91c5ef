----------------------------- MODULE MCReports -----------------------------
(* Values of the constants of Reports for TLC. *)
EXTENDS Reports, TLC

MCCaps == {0, 6}
ZeroCap == {0}
Instants2 == 0 .. 1

\* Holders and resources are interchangeable.
Symmetry == Permutations(Resources) \cup Permutations(Holders)
=============================================================================
