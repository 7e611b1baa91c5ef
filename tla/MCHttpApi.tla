----------------------------- MODULE MCHttpApi -----------------------------
(* Values of the constants of HttpApi for TLC. *)
EXTENDS HttpApi, TLC

NegativeAndOne == {-1, 1}
ZeroAndNegative == {-1, 0}
FirstInstants == {0, 1, 2}

\* Connections and holders are interchangeable.
Symmetry == Permutations(Workers) \cup Permutations(Holders)
=============================================================================
