--------------------------- MODULE AtomicCommit ---------------------------
(***************************************************************************)
(* What TwoPhaseManager promises its callers: a call that returns without  *)
(* an error has committed on every participant, one that returns an error  *)
(* on none, or is torn, because a commit failed (or the process stopped)   *)
(* when another had succeeded; and what has become of a call stays.        *)
(* Nothing is promised to calls that meet: they are interfered with.       *)
(***************************************************************************)
CONSTANT Call

VARIABLE outcome

Outcome == {"running", "committed", "aborted", "torn", "interfered"}

Init == outcome = [c \in Call |-> "running"]

Decide(c) ==
  /\ outcome[c] = "running"
  /\ \E o \in {"committed", "aborted", "torn"} : outcome' = [outcome EXCEPT ![c] = o]

Meet(C) ==
  /\ \A c \in C : outcome[c] = "running"
  /\ outcome' = [c \in Call |-> IF c \in C THEN "interfered" ELSE outcome[c]]

Next == (\E c \in Call : Decide(c)) \/ (\E C \in SUBSET Call : Meet(C))

Spec == Init /\ [][Next]_outcome
=============================================================================
