----------------------------- MODULE MCConfirm ------------------------------
(* Instance of ConfirmEngine for model checking.                           *)
EXTENDS ConfirmEngine, TLC

\* Behind by more than PastSkew, right, inside the window, ahead of it
MCOffsets == {-3, 0, 1, 2, 3}

MCSymmetry == Permutations(Handles) \union Permutations(Scopes)
=============================================================================
