----------------------------- MODULE MCSession ------------------------------
(* Small instances of HemSession for TLC.                                  *)
EXTENDS SessionPath, TLC

\* Clock offsets: none, behind, ahead but within the lifetime asked for, and
\* ahead of it (every requested expiry is past)
MCOffsets == {-3, 0, 2, 4}
\* No drift, and drift past the lifetime
MCDriftOnly == {0, 4}
MCLives == {1, 3}

\* Scopes are interchangeable
MCSymmetry == Permutations(Scopes)
=============================================================================
