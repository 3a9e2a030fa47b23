-------------------------- MODULE MCApprovalFlow --------------------------
(* ApprovalFlow with the definitions TLC needs to check it.               *)
EXTENDS ApprovalFlow, TLC

(* Vendors and users are interchangeable in every action and property.    *)
Symmetry == Permutations(Approver) \cup Permutations(Call)
=============================================================================
