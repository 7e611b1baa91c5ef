----------------------------- MODULE MCTxStore -----------------------------
(* Values of the constants of TxStore for TLC. *)
EXTENDS TxStore, TLC

NoCaps == {}
OneCap == {1}
\* Before and after the expiry of a lease granted at 0.
InstantsAroundExpiry == {0, 2}

\* Goroutines, holders and resources are interchangeable.
Symmetry ==
  Permutations(Workers) \cup Permutations(Holders) \cup Permutations(Resources)
=============================================================================
