--------------------------- MODULE SignCondition ---------------------------
(***************************************************************************)
(* The counting rule that closes an approval node: evaluateSignCondition   *)
(* of internal/services/approval_service.go, a pure function of the node's *)
(* sign type, its number of signer rows and the approved and rejected      *)
(* signature counts.  No constants and no state.                           *)
(***************************************************************************)
EXTENDS Integers

SignType == {"SINGLE", "ANY", "ALL", "MAJORITY"}

(***************************************************************************)
(* The zero SignType of a node configuration row that was not found.       *)
(***************************************************************************)
NoSignType == ""

(* Mutants of Threshold: half is enough; one more than the majority.       *)
HalfThreshold(total) == (total + 1) \div 2

UnreachableThreshold(total) == total \div 2 + 2

(***************************************************************************)
(* threshold := totalSigners/2 + 1 (the code computes the same value twice *)
(* for an even total).                                                     *)
(***************************************************************************)
Threshold(total) == total \div 2 + 1

EvaluateSignCondition(type, total, approved, rejected) ==
  \/ total = 0
  \/ /\ type \in {"SINGLE", "ANY"}
     /\ approved >= 1 \/ rejected >= 1
  \/ /\ type = "ALL"
     /\ approved + rejected >= total
  \/ /\ type = "MAJORITY"
     /\ approved >= Threshold(total) \/ rejected >= Threshold(total)
  \/ /\ type \notin SignType
     /\ approved >= 1
=============================================================================
