------------------------------ MODULE MCAuth ------------------------------
(* Auth with the definition TLC needs to check it.                         *)
EXTENDS Auth, TLC

(* Calls are interchangeable, and so are requests.                         *)
Symmetry == Permutations(Call) \cup Permutations(Request)
=============================================================================
