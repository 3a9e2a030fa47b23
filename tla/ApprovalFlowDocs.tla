------------------------- MODULE ApprovalFlowDocs -------------------------
(***************************************************************************)
(* What the API document says about the approval workflow and the handlers *)
(* do not keep: the property of a run that finds a counterexample.         *)
(***************************************************************************)
EXTENDS ApprovalFlow

(***************************************************************************)
(* docs/openapi.yaml: a rejection terminates the flow.  The goroutine of   *)
(* an earlier Withdraw turns the rejected flow PENDING, open to signatures.*)
(***************************************************************************)
RejectionTerminates ==
  \A v \in Vendor : flow[v].stage = "REJECTED" => flow[v].status = "REJECTED"
=============================================================================
