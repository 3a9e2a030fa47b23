----------------------------- MODULE TwoPhase -----------------------------
(***************************************************************************)
(* TwoPhaseManager: one manager for all callers, which keeps one current   *)
(* transaction per participant.  Its methods hold its mutex, so each is    *)
(* one action, but Approve and Execute call them one after the other       *)
(* without it, and a Begin of one call replaces the transactions of        *)
(* another.                                                                *)
(*                                                                         *)
(* Transactions end once: by Commit or Rollback of the manager, well or    *)
(* with an error.  The map of participants is iterated in any order.       *)
(***************************************************************************)
EXTENDS FiniteSets

CONSTANTS
  Call,         \* calls of Approve or Execute
  Participant,  \* registered databases
  None          \* no transaction

ASSUME NoneAssumption == None \notin Call

ASSUME ParticipantAssumption == Participant # {}

VARIABLES
  xa,          \* participants whose dialect is postgres or mysql
  status,      \* Status of each participant
  current,     \* Tx of each participant: the call whose transaction it is
  tx,          \* the transaction each call has on each participant
  phase,       \* what each call does next, or what it returned
  met          \* the calls during which another one called Begin, or that
               \* called Begin during another one

vars == <<xa, status, current, tx, phase, met>>

Running == {"work", "prepared"}

(* The participants that Commit and rollbackLocked do not skip.            *)
Pending == {p \in Participant : status[p] \in {"active", "prepared"}}

IsOpen(p) == current[p] # None /\ tx[current[p]][p] = "open"

(* The current transactions of P end as `end'; the ended ones stay.        *)
Ended(P, end) ==
  [c \in Call |-> [p \in Participant |->
    IF p \in P /\ current[p] = c /\ tx[c][p] = "open" THEN end ELSE tx[c][p]]]

Returns(c, result) == phase' = [phase EXCEPT ![c] = result]

-----------------------------------------------------------------------------
(* NewTwoPhaseManager and Register.                                        *)
Init ==
  /\ xa \in SUBSET Participant
  /\ status = [p \in Participant |-> "idle"]
  /\ current = [p \in Participant |-> None]
  /\ tx = [c \in Call |-> [p \in Participant |-> "none"]]
  /\ phase = [c \in Call |-> "idle"]
  /\ met = {}

(* Who else is running when c calls Begin.                                 *)
Meets(c) == LET others == {d \in Call : phase[d] \in Running}
            IN  met' = IF others = {} THEN met ELSE met \cup others \cup {c}

TxForgotten(c, P) == current             \* mutant: p.Tx is not set

StartedBy(c, P) == [p \in Participant |-> IF p \in P THEN c ELSE current[p]]

Begin(c) ==
  /\ phase[c] = "idle"
  /\ Returns(c, "work")
  /\ status' = [p \in Participant |-> "active"]
  /\ current' = StartedBy(c, Participant)
  /\ tx' = [tx EXCEPT ![c] = [p \in Participant |-> "open"]]
  /\ Meets(c)
  /\ UNCHANGED xa

(* One participant's Begin fails when those of P have succeeded: they are  *)
(* rolled back, but keep the transaction that is now theirs.               *)
BeginFails(c) ==
  /\ phase[c] = "idle"
  /\ Returns(c, "error")
  /\ \E P \in SUBSET Participant \ {Participant} :
       /\ status' = [p \in Participant |-> IF p \in P THEN "idle" ELSE status[p]]
       /\ current' = StartedBy(c, P)
       /\ tx' = [tx EXCEPT ![c] = [p \in Participant |->
                                     IF p \in P THEN "rolledback" ELSE "none"]]
  /\ Meets(c)
  /\ UNCHANGED xa

(* rollbackLocked.  Rollback fails for a transaction that has ended (and   *)
(* the error is not gorm.ErrInvalidTransaction), and may fail for others,  *)
(* which the database rolls back all the same.                             *)
RollbackLocked ==
  /\ \E F \in SUBSET Pending :
       /\ \A p \in Pending \ F : IsOpen(p)
       /\ status' = [p \in Participant |->
                       IF p \in Pending \ F THEN "rolledback" ELSE status[p]]
  /\ tx' = Ended(Pending, "rolledback")

(* The statements of the call fail, or it panics.                          *)
Rollback(c) ==
  /\ phase[c] = "work"
  /\ Returns(c, "error")
  /\ RollbackLocked
  /\ UNCHANGED <<xa, current, met>>

(* PREPARE TRANSACTION and XA PREPARE take no parameter; with the one they *)
(* are given they are syntax errors.  Other dialects do nothing.           *)
Prepare(c) ==
  /\ phase[c] = "work"
  /\ \A p \in xa : status[p] # "active"
  /\ Returns(c, "prepared")
  /\ status' = [p \in Participant |-> IF status[p] = "active" THEN "prepared" ELSE status[p]]
  /\ UNCHANGED <<xa, current, tx, met>>

PrepareFails(c) ==
  /\ phase[c] = "work"
  /\ \E p \in xa : status[p] = "active"
  /\ Returns(c, "error")
  /\ RollbackLocked
  /\ UNCHANGED <<xa, current, met>>

NoError(F) == "ok"                       \* mutant: Commit forgets the errors it met

CommitResult(F) == IF F = {} THEN "ok" ELSE "error"

EveryPending(F) == Pending               \* mutant: the status is set before the error is looked at

CommittedNow(F) == Pending \ F

(* A failed Commit leaves its transaction rolled back, and Commit goes on. *)
Commit(c) ==
  /\ phase[c] = "prepared"
  /\ \E F \in SUBSET Pending :
       /\ \A p \in Pending \ F : IsOpen(p)
       /\ Returns(c, CommitResult(F))
       /\ status' = [p \in Participant |-> IF p \in CommittedNow(F) THEN "committed" ELSE status[p]]
       /\ tx' = [d \in Call |-> [p \in Participant |->
                   IF p \in F THEN Ended(F, "rolledback")[d][p]
                   ELSE Ended(Pending, "committed")[d][p]]]
  /\ UNCHANGED <<xa, current, met>>

(* The process stops, perhaps in the middle of a Commit, when those of P   *)
(* have committed; the databases roll the other open transactions back.    *)
Crash ==
  /\ \E c \in Call : phase[c] \in Running
  /\ \E P \in SUBSET Pending :
       /\ P # {} => \E c \in Call : phase[c] = "prepared"
       /\ tx' = [c \in Call |-> [p \in Participant |->
                   IF tx[c][p] # "open" THEN tx[c][p]
                   ELSE IF p \in P /\ current[p] = c THEN "committed" ELSE "rolledback"]]
  /\ phase' = [c \in Call |-> IF phase[c] \in Running THEN "crashed" ELSE phase[c]]
  /\ status' = [p \in Participant |-> "idle"]
  /\ current' = [p \in Participant |-> None]
  /\ UNCHANGED <<xa, met>>

Next ==
  \/ \E c \in Call : \/ Begin(c) \/ BeginFails(c) \/ Rollback(c)
                     \/ Prepare(c) \/ PrepareFails(c) \/ Commit(c)
  \/ Crash

Spec == Init /\ [][Next]_vars

-----------------------------------------------------------------------------
Status == {"idle", "active", "prepared", "committed", "rolledback"}

TxState == {"none", "open", "committed", "rolledback"}

Phase == {"idle", "ok", "error", "crashed"} \cup Running

(* Types, and a pending participant has a transaction.                     *)
TypeOK ==
  /\ xa \in SUBSET Participant
  /\ status \in [Participant -> Status]
  /\ current \in [Participant -> Call \cup {None}]
  /\ tx \in [Call -> [Participant -> TxState]]
  /\ phase \in [Call -> Phase]
  /\ met \in SUBSET Call
  /\ \A p \in Pending : current[p] # None

(* The status that Statuses reports is that of the transaction: what is    *)
(* committed or rolled back really is, although calls end the transactions *)
(* of each other.                                                          *)
StatusIsTrue ==
  \A p \in Participant :
    status[p] \in {"committed", "rolledback"} => tx[current[p]][p] = status[p]

-----------------------------------------------------------------------------
(* What has become of a call.  AtomicCommit knows no call that is wrong    *)
(* (what it returned is not what happened) or leaked (a transaction is     *)
(* open, and nobody will end it).                                          *)
Became(c) ==
  LET States == {tx[c][p] : p \in Participant}
  IN  IF c \in met THEN "interfered"
      ELSE IF phase[c] \in {"idle", "work", "prepared"} THEN "running"
      ELSE IF "open" \in States THEN "leaked"
      ELSE IF States = {"committed"} THEN IF phase[c] = "error" THEN "wrong" ELSE "committed"
      ELSE IF phase[c] = "ok" THEN "wrong"
      ELSE IF "committed" \in States THEN "torn" ELSE "aborted"

AC == INSTANCE AtomicCommit WITH outcome <- [c \in Call |-> Became(c)]

(* The manager implements the atomic commit for calls that run alone.      *)
CommitIsAtomic == AC!Spec
=============================================================================
