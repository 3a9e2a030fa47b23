----------------------------- MODULE MCApiKeys -----------------------------
(* ApiKeys with the definition TLC needs to check it.                      *)
EXTENDS ApiKeys, TLC

(* App keys are interchangeable, and so are calls.                         *)
Symmetry == Permutations(AppKey) \cup Permutations(Call)
=============================================================================
