--------------------------- MODULE MCDualWrite ---------------------------
(* Symmetry for model checking DualWrite.                                  *)
EXTENDS DualWrite, TLC

Symmetry == Permutations(Client) \cup Permutations(Key)
=============================================================================
