--------------------------- MODULE MCOnboarding ---------------------------
(* Onboarding with the definitions TLC needs to check it.                  *)
EXTENDS Onboarding, TLC

Symmetry == Permutations(Vendor) \cup Permutations(Code) \cup Permutations(Caller)
=============================================================================
