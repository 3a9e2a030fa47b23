-------------------------- MODULE TwoPhaseProofs --------------------------
(***************************************************************************)
(* For any number of calls and participants: the manager implements        *)
(* AtomicCommit for calls that run alone, and the status it reports is     *)
(* that of the transactions, although calls end those of each other.       *)
(***************************************************************************)
EXTENDS TwoPhase, TLAPS

(* A call that has not begun has no transaction anywhere.                  *)
Fresh ==
  \A c \in Call :
    phase[c] = "idle" => \A p \in Participant : tx[c][p] = "none" /\ current[p] # c

(* Whatever status is set, it is that of some call's transaction.          *)
Owned == \A p \in Participant : status[p] # "idle" => current[p] # None

(***************************************************************************)
(* A running call that has met nobody is the only one that runs, and the   *)
(* manager holds its transactions, open, and nothing else.                 *)
(***************************************************************************)
Holds(c) ==
  \A p \in Participant :
    /\ current[p] = c
    /\ tx[c][p] = "open"
    /\ status[p] = IF phase[c] = "work" THEN "active" ELSE "prepared"

Alone ==
  \A c \in Call \ met :
    phase[c] \in Running => Holds(c) /\ \A d \in Call : phase[d] \in Running => d = c

Over == {"ok", "error", "crashed"}

(* One that has ended alone has no open transaction, and did what it said. *)
Kept(c) ==
  /\ \A p \in Participant : tx[c][p] # "open"
  /\ phase[c] = "ok" => \A p \in Participant : tx[c][p] = "committed"
  /\ phase[c] = "error" => \E p \in Participant : tx[c][p] # "committed"

Settled == \A c \in Call \ met : phase[c] \in Over => Kept(c)

Inv == TypeOK /\ StatusIsTrue /\ Fresh /\ Owned /\ Alone /\ Settled

-----------------------------------------------------------------------------
LEMMA InitInv == Init => Inv
<1> SUFFICES ASSUME Init PROVE Inv
  OBVIOUS
<1>1. TypeOK
  BY DEF Init, TypeOK, Status, TxState, Phase, Running, Pending
<1>2. StatusIsTrue /\ Owned
  BY DEF Init, StatusIsTrue, Owned
<1>3. Fresh
  BY NoneAssumption DEF Init, Fresh
<1>4. Alone /\ Settled
  BY DEF Init, Alone, Settled, Running, Over
<1> QED
  BY <1>1, <1>2, <1>3, <1>4 DEF Inv

(* What the manager's statements do to a transaction.                      *)
LEMMA EndedIs ==
  ASSUME NEW P, NEW end, NEW c \in Call, NEW p \in Participant
  PROVE  /\ Ended(P, end)[c][p] \in {tx[c][p], end}
         /\ p \in P /\ current[p] = c /\ tx[c][p] = "open" => Ended(P, end)[c][p] = end
         /\ p \notin P \/ current[p] # c \/ tx[c][p] # "open" => Ended(P, end)[c][p] = tx[c][p]
BY DEF Ended

LEMMA EndedType ==
  ASSUME TypeOK, NEW P, NEW end \in TxState
  PROVE  Ended(P, end) \in [Call -> [Participant -> TxState]]
BY DEF TypeOK, Ended

(* A call with no open transaction keeps its row.                          *)
LEMMA EndedKeeps ==
  ASSUME TypeOK, NEW P, NEW end, NEW c \in Call, \A p \in Participant : tx[c][p] # "open"
  PROVE  Ended(P, end)[c] = tx[c]
<1>1. tx[c] \in [Participant -> TxState]
  BY DEF TypeOK
<1>2. tx[c] = [p \in Participant |-> tx[c][p]]
  BY <1>1
<1> QED
  BY <1>2 DEF Ended

(* A Begin makes those that run, and itself if any do, meet.               *)
LEMMA MeetsIs ==
  ASSUME TypeOK, NEW c \in Call, Meets(c)
  PROVE  /\ met' \in SUBSET Call
         /\ met \subseteq met'
         /\ \A d \in Call : phase[d] \in Running => d \in met' /\ c \in met'
<1> DEFINE others == {d \in Call : phase[d] \in Running}
<1>1. met' = IF others = {} THEN met ELSE met \cup others \cup {c}
  BY DEF Meets
<1>2. met \in SUBSET Call
  BY DEF TypeOK
<1> QED
  BY <1>1, <1>2

(* Types need not look at pending participants, for they have an owner.    *)
LEMMA TypeFromOwned ==
  ASSUME TypeOK, xa' = xa,
         status' \in [Participant -> Status],
         current' \in [Participant -> Call \cup {None}],
         tx' \in [Call -> [Participant -> TxState]],
         phase' \in [Call -> Phase],
         met' \in SUBSET Call,
         Owned'
  PROVE  TypeOK'
BY DEF TypeOK, Owned, Pending

LEMMA PhaseReturns ==
  ASSUME TypeOK, NEW c \in Call, NEW result \in Phase, Returns(c, result)
  PROVE  /\ phase' \in [Call -> Phase]
         /\ phase'[c] = result
         /\ \A d \in Call : d # c => phase'[d] = phase[d]
BY DEF TypeOK, Returns

-----------------------------------------------------------------------------
LEMMA BeginInv ==
  ASSUME Inv, NEW c \in Call, Begin(c)
  PROVE  Inv'
<1>1. TypeOK /\ Fresh /\ Settled
  BY DEF Inv
<1>2. /\ met' \in SUBSET Call
      /\ met \subseteq met'
      /\ \A d \in Call : phase[d] \in Running => d \in met' /\ c \in met'
  BY <1>1, MeetsIs DEF Begin
<1>3. /\ phase' \in [Call -> Phase]
      /\ phase'[c] = "work"
      /\ \A d \in Call : d # c => phase'[d] = phase[d]
  BY <1>1, PhaseReturns DEF Begin, Phase, Running
<1>4. /\ xa' = xa
      /\ status' = [p \in Participant |-> "active"]
      /\ current' = [p \in Participant |-> c]
      /\ tx' = [tx EXCEPT ![c] = [p \in Participant |-> "open"]]
  BY DEF Begin, StartedBy
<1>5. /\ tx' \in [Call -> [Participant -> TxState]]
      /\ \A p \in Participant : tx'[c][p] = "open"
      /\ \A d \in Call : d # c => tx'[d] = tx[d]
  BY <1>1, <1>4 DEF TypeOK, TxState
<1>6. Owned'
  BY <1>4, NoneAssumption DEF Owned
<1>7. TypeOK'
  BY <1>1, <1>2, <1>3, <1>4, <1>5, <1>6, TypeFromOwned DEF Status
<1>8. StatusIsTrue'
  BY <1>4 DEF StatusIsTrue
<1>9. Fresh'
  BY <1>1, <1>3, <1>4, <1>5 DEF Fresh
<1>10. Alone'
  <2> SUFFICES ASSUME NEW d \in Call, d \notin met', phase'[d] \in Running
               PROVE  Holds(d)' /\ \A e \in Call : phase'[e] \in Running => e = d
    BY DEF Alone
  <2>1. d = c
    BY <1>2, <1>3
  <2>2. Holds(c)'
    BY <1>3, <1>4, <1>5 DEF Holds
  <2>3. ASSUME NEW e \in Call, phase'[e] \in Running PROVE e = c
    BY <1>2, <1>3, <2>1, <2>3
  <2> QED
    BY <2>1, <2>2, <2>3
<1>11. Settled'
  <2> SUFFICES ASSUME NEW d \in Call, d \notin met', phase'[d] \in Over
               PROVE  Kept(d)'
    BY DEF Settled
  <2>1. d # c /\ d \notin met
    BY <1>2, <1>3 DEF Over
  <2>2. Kept(d)
    BY <1>1, <1>3, <2>1 DEF Settled
  <2> QED
    BY <1>3, <1>5, <2>1, <2>2 DEF Kept
<1> QED
  BY <1>6, <1>7, <1>8, <1>9, <1>10, <1>11 DEF Inv

LEMMA BeginFailsInv ==
  ASSUME Inv, NEW c \in Call, BeginFails(c)
  PROVE  Inv'
<1>1. TypeOK /\ Fresh /\ Settled /\ Owned /\ StatusIsTrue
  BY DEF Inv
<1>2. /\ met' \in SUBSET Call
      /\ met \subseteq met'
      /\ \A d \in Call : phase[d] \in Running => d \in met' /\ c \in met'
  BY <1>1, MeetsIs DEF BeginFails
<1>3. /\ phase' \in [Call -> Phase]
      /\ phase'[c] = "error"
      /\ \A d \in Call : d # c => phase'[d] = phase[d]
  BY <1>1, PhaseReturns DEF BeginFails, Phase
<1>4. PICK P \in SUBSET Participant :
        /\ status' = [p \in Participant |-> IF p \in P THEN "idle" ELSE status[p]]
        /\ current' = StartedBy(c, P)
        /\ tx' = [tx EXCEPT ![c] = [p \in Participant |->
                                      IF p \in P THEN "rolledback" ELSE "none"]]
  BY DEF BeginFails
<1>5. /\ tx' \in [Call -> [Participant -> TxState]]
      /\ \A p \in Participant : tx'[c][p] \in {"rolledback", "none"}
      /\ \A d \in Call : d # c => tx'[d] = tx[d]
  BY <1>1, <1>4 DEF TypeOK, TxState
<1>6. \A p \in Participant : current'[p] = IF p \in P THEN c ELSE current[p]
  BY <1>4 DEF StartedBy
<1>7. Owned'
  BY <1>1, <1>4, <1>6 DEF Owned
<1>8. current' \in [Participant -> Call \cup {None}]
  BY <1>1, <1>4 DEF StartedBy, TypeOK
<1>9. status' \in [Participant -> Status] /\ xa' = xa
  BY <1>1, <1>4 DEF BeginFails, TypeOK, Status
<1>10. TypeOK'
  BY <1>1, <1>2, <1>3, <1>5, <1>7, <1>8, <1>9, TypeFromOwned
<1>11. StatusIsTrue'
  <2> SUFFICES ASSUME NEW p \in Participant, status'[p] \in {"committed", "rolledback"}
               PROVE  tx'[current'[p]][p] = status'[p]
    BY DEF StatusIsTrue
  <2>1. p \notin P /\ status'[p] = status[p] /\ current'[p] = current[p]
    BY <1>4, <1>6
  <2>2. current[p] \in Call /\ current[p] # c
    BY <1>1, <2>1 DEF Owned, TypeOK, Fresh, BeginFails
  <2> QED
    BY <1>1, <1>5, <2>1, <2>2 DEF StatusIsTrue
<1>12. Fresh'
  BY <1>1, <1>3, <1>5, <1>6 DEF Fresh
<1>13. Alone'
  <2> SUFFICES ASSUME NEW d \in Call, d \notin met', phase'[d] \in Running
               PROVE  FALSE
    BY DEF Alone
  <2> QED
    BY <1>2, <1>3 DEF Running
<1>14. Settled'
  <2> SUFFICES ASSUME NEW d \in Call, d \notin met', phase'[d] \in Over
               PROVE  Kept(d)'
    BY DEF Settled
  <2>1. CASE d = c
    BY <1>3, <1>5, <2>1, ParticipantAssumption DEF Kept
  <2>2. CASE d # c
    <3>1. Kept(d)
      BY <1>1, <1>2, <1>3, <2>2 DEF Settled
    <3> QED
      BY <1>3, <1>5, <2>2, <3>1 DEF Kept
  <2> QED
    BY <2>1, <2>2
<1> QED
  BY <1>7, <1>10, <1>11, <1>12, <1>13, <1>14 DEF Inv

-----------------------------------------------------------------------------
(***************************************************************************)
(* The two ways a call can end by itself: what is common to them is that   *)
(* pending transactions end, and only those that are open and current.     *)
(***************************************************************************)
EndsSome(c, result) ==
  /\ phase[c] \in Running
  /\ Returns(c, result)
  /\ tx' \in [Call -> [Participant -> TxState]]
  /\ \A d \in Call, p \in Participant :
       tx[d][p] # "open" \/ p \notin Pending => tx'[d][p] = tx[d][p]
  /\ \A p \in Participant :
       status'[p] = status[p] \/ (/\ p \in Pending
                                  /\ status'[p] \in {"committed", "rolledback"}
                                  /\ tx'[current[p]][p] = status'[p])
  /\ status' \in [Participant -> Status]
  /\ UNCHANGED <<xa, current, met>>

LEMMA EndingInv ==
  ASSUME Inv, NEW c \in Call, NEW result \in {"ok", "error"}, EndsSome(c, result),
         c \notin met => Kept(c)'
  PROVE  Inv'
<1>1. TypeOK /\ Fresh /\ Settled /\ Owned /\ StatusIsTrue /\ Alone
  BY DEF Inv
<1>2. /\ phase' \in [Call -> Phase]
      /\ phase'[c] = result
      /\ \A d \in Call : d # c => phase'[d] = phase[d]
  BY <1>1, PhaseReturns DEF EndsSome, Phase
<1>3. xa' = xa /\ current' = current /\ met' = met
  BY DEF EndsSome
<1>4. Owned'
  <2>1. ASSUME NEW p \in Participant, status'[p] # "idle" PROVE current'[p] # None
    BY <1>1, <1>3, <2>1 DEF EndsSome, Owned, Pending
  <2> QED
    BY <2>1 DEF Owned
<1>5. TypeOK'
  BY <1>1, <1>2, <1>3, <1>4, TypeFromOwned DEF EndsSome, TypeOK
<1>6. StatusIsTrue'
  <2> SUFFICES ASSUME NEW p \in Participant, status'[p] \in {"committed", "rolledback"}
               PROVE  tx'[current[p]][p] = status'[p]
    BY <1>3 DEF StatusIsTrue
  <2>1. CASE status'[p] = status[p]
    <3>1. current[p] \in Call
      BY <1>1, <2>1 DEF Owned, TypeOK
    <3>2. p \notin Pending
      BY <2>1 DEF Pending
    <3>3. tx'[current[p]][p] = tx[current[p]][p]
      BY <3>1, <3>2 DEF EndsSome
    <3> QED
      BY <1>1, <2>1, <3>3 DEF StatusIsTrue
  <2>2. CASE status'[p] # status[p]
    BY <2>2 DEF EndsSome
  <2> QED
    BY <2>1, <2>2
<1>7. Fresh'
  <2> SUFFICES ASSUME NEW d \in Call, phase'[d] = "idle", NEW p \in Participant
               PROVE  tx'[d][p] = "none" /\ current[p] # d
    BY <1>3 DEF Fresh
  <2>1. phase[d] = "idle"
    BY <1>2
  <2>2. tx[d][p] = "none" /\ current[p] # d
    BY <1>1, <2>1 DEF Fresh
  <2> QED
    BY <2>2 DEF EndsSome
<1>8. Alone'
  <2> SUFFICES ASSUME NEW d \in Call, d \notin met, phase'[d] \in Running
               PROVE  FALSE
    BY <1>3 DEF Alone
  <2>1. d # c /\ phase[d] \in Running
    BY <1>2 DEF Running
  <2> QED
    BY <1>1, <2>1 DEF Alone, EndsSome
<1>9. Settled'
  <2> SUFFICES ASSUME NEW d \in Call, d \notin met, phase'[d] \in Over
               PROVE  Kept(d)'
    BY <1>3 DEF Settled
  <2>1. CASE d = c
    BY <2>1
  <2>2. CASE d # c
    <3>1. phase'[d] = phase[d] /\ Kept(d)
      BY <1>1, <1>2, <2>2 DEF Settled
    <3>2. \A p \in Participant : tx'[d][p] = tx[d][p]
      BY <3>1 DEF EndsSome, Kept
    <3> QED
      BY <3>1, <3>2 DEF Kept
  <2> QED
    BY <2>1, <2>2
<1> QED
  BY <1>4, <1>5, <1>6, <1>7, <1>8, <1>9 DEF Inv

(* Alone, a call finds every participant pending with a transaction of its *)
(* own.                                                                    *)
LEMMA AllItsOwn ==
  ASSUME Inv, NEW c \in Call, c \notin met, phase[c] \in Running
  PROVE  /\ Pending = Participant
         /\ \A p \in Participant : current[p] = c /\ tx[c][p] = "open"
BY DEF Inv, Alone, Holds, Pending

LEMMA RollbackInv ==
  ASSUME Inv, NEW c \in Call, phase[c] = "work", Returns(c, "error"), RollbackLocked,
         UNCHANGED <<xa, current, met>>
  PROVE  Inv' /\ EndsSome(c, "error")
<1>1. TypeOK
  BY DEF Inv
<1>2. PICK F \in SUBSET Pending :
        /\ \A p \in Pending \ F : IsOpen(p)
        /\ status' = [p \in Participant |->
                        IF p \in Pending \ F THEN "rolledback" ELSE status[p]]
  BY DEF RollbackLocked
<1>3. tx' = Ended(Pending, "rolledback")
  BY DEF RollbackLocked
<1>4. tx' \in [Call -> [Participant -> TxState]]
  BY <1>1, <1>3, EndedType DEF TxState
<1>5. \A d \in Call, p \in Participant :
        tx[d][p] # "open" \/ p \notin Pending => tx'[d][p] = tx[d][p]
  BY <1>3, EndedIs
<1>6. \A p \in Participant :
        status'[p] = status[p] \/ (/\ p \in Pending
                                   /\ status'[p] \in {"committed", "rolledback"}
                                   /\ tx'[current[p]][p] = status'[p])
  <2> SUFFICES ASSUME NEW p \in Participant, p \in Pending \ F
               PROVE  tx'[current[p]][p] = "rolledback"
    BY <1>2
  <2>1. current[p] \in Call /\ tx[current[p]][p] = "open"
    BY <1>1, <1>2 DEF IsOpen, TypeOK
  <2> QED
    BY <1>3, <2>1, EndedIs
<1>7. status' \in [Participant -> Status]
  BY <1>1, <1>2 DEF TypeOK, Status
<1>8. EndsSome(c, "error")
  BY <1>4, <1>5, <1>6, <1>7 DEF EndsSome, Running
<1>9. ASSUME c \notin met PROVE Kept(c)'
  <2>1. /\ Pending = Participant
        /\ \A p \in Participant : current[p] = c /\ tx[c][p] = "open"
    BY <1>9, AllItsOwn DEF Running
  <2>2. \A p \in Participant : tx'[c][p] = "rolledback"
    BY <1>3, <2>1, EndedIs
  <2>3. phase'[c] = "error"
    BY <1>1 DEF Returns, TypeOK
  <2> QED
    BY <2>2, <2>3, ParticipantAssumption DEF Kept
<1> QED
  BY <1>8, <1>9, EndingInv

LEMMA CommitInv ==
  ASSUME Inv, NEW c \in Call, Commit(c)
  PROVE  Inv' /\ \E result \in {"ok", "error"} : EndsSome(c, result)
<1>1. TypeOK
  BY DEF Inv
<1>2. PICK F \in SUBSET Pending :
        /\ \A p \in Pending \ F : IsOpen(p)
        /\ Returns(c, CommitResult(F))
        /\ status' = [p \in Participant |->
                        IF p \in Pending \ F THEN "committed" ELSE status[p]]
        /\ tx' = [d \in Call |-> [p \in Participant |->
                    IF p \in F THEN Ended(F, "rolledback")[d][p]
                    ELSE Ended(Pending, "committed")[d][p]]]
  BY DEF Commit, CommittedNow
<1> DEFINE result == CommitResult(F)
<1>3. result = IF F = {} THEN "ok" ELSE "error"
  BY DEF CommitResult
<1> HIDE DEF result
<1>4. \A d \in Call, p \in Participant :
        tx'[d][p] = IF p \in F THEN Ended(F, "rolledback")[d][p]
                    ELSE Ended(Pending, "committed")[d][p]
  BY <1>2
<1>5. tx' \in [Call -> [Participant -> TxState]]
  <2>1. \A d \in Call, p \in Participant :
          /\ Ended(F, "rolledback")[d][p] \in TxState
          /\ Ended(Pending, "committed")[d][p] \in TxState
    BY <1>1, EndedType DEF TxState
  <2> QED
    BY <1>2, <2>1
<1>6. \A d \in Call, p \in Participant :
        tx[d][p] # "open" \/ p \notin Pending => tx'[d][p] = tx[d][p]
  BY <1>4, EndedIs
<1>7. \A p \in Participant :
        status'[p] = status[p] \/ (/\ p \in Pending
                                   /\ status'[p] \in {"committed", "rolledback"}
                                   /\ tx'[current[p]][p] = status'[p])
  <2> SUFFICES ASSUME NEW p \in Participant, p \in Pending \ F
               PROVE  tx'[current[p]][p] = "committed"
    BY <1>2
  <2>1. current[p] \in Call /\ tx[current[p]][p] = "open"
    BY <1>1, <1>2 DEF IsOpen, TypeOK
  <2> QED
    BY <1>4, <2>1, EndedIs
<1>8. status' \in [Participant -> Status]
  BY <1>1, <1>2 DEF TypeOK, Status
<1>9. phase[c] \in Running /\ UNCHANGED <<xa, current, met>>
  BY DEF Commit, Running
<1>10. EndsSome(c, result)
  BY <1>2, <1>5, <1>6, <1>7, <1>8, <1>9 DEF EndsSome, result
<1>11. ASSUME c \notin met PROVE Kept(c)'
  <2>1. /\ Pending = Participant
        /\ \A p \in Participant : current[p] = c /\ tx[c][p] = "open"
    BY <1>9, <1>11, AllItsOwn
  <2>2. \A p \in Participant : tx'[c][p] = IF p \in F THEN "rolledback" ELSE "committed"
    BY <1>4, <2>1, EndedIs
  <2>3. phase'[c] = result
    BY <1>1, <1>2 DEF Returns, TypeOK, result
  <2> QED
    BY <1>3, <2>2, <2>3 DEF Kept, Pending
<1> QED
  BY <1>3, <1>10, <1>11, EndingInv

-----------------------------------------------------------------------------
LEMMA PrepareInv ==
  ASSUME Inv, NEW c \in Call, Prepare(c)
  PROVE  Inv'
<1>1. TypeOK /\ Fresh /\ Settled /\ Owned /\ StatusIsTrue /\ Alone
  BY DEF Inv
<1>2. /\ phase' \in [Call -> Phase]
      /\ phase'[c] = "prepared"
      /\ \A d \in Call : d # c => phase'[d] = phase[d]
  BY <1>1, PhaseReturns DEF Prepare, Phase, Running
<1>3. /\ UNCHANGED <<xa, current, tx, met>>
      /\ \A p \in Participant :
           status'[p] = IF status[p] = "active" THEN "prepared" ELSE status[p]
      /\ status' \in [Participant -> Status]
  BY <1>1 DEF Prepare, TypeOK, Status
<1>4. Owned'
  BY <1>1, <1>3 DEF Owned
<1>5. TypeOK'
  BY <1>1, <1>2, <1>3, <1>4, TypeFromOwned DEF TypeOK
<1>6. StatusIsTrue' /\ Fresh'
  BY <1>1, <1>2, <1>3 DEF StatusIsTrue, Fresh
<1>7. Alone'
  <2> SUFFICES ASSUME NEW d \in Call, d \notin met, phase'[d] \in Running
               PROVE  Holds(d)' /\ \A e \in Call : phase'[e] \in Running => e = d
    BY <1>3 DEF Alone
  <2>1. phase[c] = "work"
    BY DEF Prepare
  <2>2. phase[d] \in Running
    BY <1>2, <2>1 DEF Running
  <2>3. /\ Holds(d)
        /\ \A e \in Call : phase[e] \in Running => e = d
    BY <1>1, <2>2 DEF Alone
  <2>4. d = c
    BY <2>1, <2>3 DEF Running
  <2>5. Holds(c)'
    BY <1>2, <1>3, <2>1, <2>3, <2>4 DEF Holds
  <2>6. ASSUME NEW e \in Call, phase'[e] \in Running PROVE e = c
    BY <1>2, <2>3, <2>4, <2>6
  <2> QED
    BY <2>4, <2>5, <2>6
<1>8. Settled'
  BY <1>1, <1>2, <1>3 DEF Settled, Kept, Over
<1> QED
  BY <1>4, <1>5, <1>6, <1>7, <1>8 DEF Inv

LEMMA CrashInv ==
  ASSUME Inv, Crash
  PROVE  Inv'
<1>1. TypeOK /\ Fresh /\ Settled
  BY DEF Inv
<1>2. /\ xa' = xa /\ met' = met
      /\ \A d \in Call : phase'[d] = IF phase[d] \in Running THEN "crashed" ELSE phase[d]
      /\ phase' \in [Call -> Phase]
  BY <1>1 DEF Crash, TypeOK, Phase
<1>3. /\ status' = [p \in Participant |-> "idle"]
      /\ current' = [p \in Participant |-> None]
  BY DEF Crash
<1>4. /\ tx' \in [Call -> [Participant -> TxState]]
      /\ \A d \in Call, p \in Participant :
           /\ tx'[d][p] # "open"
           /\ tx[d][p] # "open" => tx'[d][p] = tx[d][p]
  BY <1>1 DEF Crash, TypeOK, TxState
<1>5. Owned' /\ StatusIsTrue'
  BY <1>3 DEF Owned, StatusIsTrue
<1>6. TypeOK'
  BY <1>1, <1>2, <1>3, <1>4, <1>5, TypeFromOwned DEF TypeOK, Status
<1>7. Fresh'
  BY <1>1, <1>2, <1>3, <1>4, NoneAssumption DEF Fresh
<1>8. Alone'
  BY <1>2 DEF Alone, Running
<1>9. Settled'
  <2> SUFFICES ASSUME NEW d \in Call, d \notin met, phase'[d] \in Over
               PROVE  Kept(d)'
    BY <1>2 DEF Settled
  <2>1. CASE phase[d] \in Running
    BY <1>2, <1>4, <2>1 DEF Kept
  <2>2. CASE phase[d] \notin Running
    <3>1. phase'[d] = phase[d] /\ Kept(d)
      BY <1>1, <1>2, <2>2 DEF Settled
    <3>2. \A p \in Participant : tx'[d][p] = tx[d][p]
      BY <1>4, <3>1 DEF Kept
    <3> QED
      BY <3>1, <3>2 DEF Kept
  <2> QED
    BY <2>1, <2>2
<1> QED
  BY <1>5, <1>6, <1>7, <1>8, <1>9 DEF Inv

LEMMA NextInv == Inv /\ [Next]_vars => Inv'
<1> SUFFICES ASSUME Inv, [Next]_vars PROVE Inv'
  OBVIOUS
<1>1. ASSUME NEW c \in Call, Begin(c) PROVE Inv'
  BY <1>1, BeginInv
<1>2. ASSUME NEW c \in Call, BeginFails(c) PROVE Inv'
  BY <1>2, BeginFailsInv
<1>3. ASSUME NEW c \in Call, Rollback(c) \/ PrepareFails(c) PROVE Inv'
  BY <1>3, RollbackInv DEF Rollback, PrepareFails
<1>4. ASSUME NEW c \in Call, Prepare(c) PROVE Inv'
  BY <1>4, PrepareInv
<1>5. ASSUME NEW c \in Call, Commit(c) PROVE Inv'
  BY <1>5, CommitInv
<1>6. CASE Crash
  BY <1>6, CrashInv
<1>7. CASE UNCHANGED vars
  BY <1>7 DEF vars, Inv, TypeOK, Pending, StatusIsTrue, Fresh, Owned, Alone, Holds,
              Settled, Kept
<1> QED
  BY <1>1, <1>2, <1>3, <1>4, <1>5, <1>6, <1>7 DEF Next

LEMMA Invariance == Spec => []Inv
BY InitInv, NextInv, PTL DEF Spec

(***************************************************************************)
(* Whatever calls do to each other's transactions, every variable of the   *)
(* manager keeps its type, and a pending participant has a transaction.    *)
(***************************************************************************)
THEOREM ManagerIsTyped == Spec => []TypeOK
<1>1. Inv => TypeOK
  BY DEF Inv
<1> QED
  BY <1>1, Invariance, PTL

(***************************************************************************)
(* The status that Statuses reports as committed or rolled back is what    *)
(* the database did, for any overlap of calls and any failures.            *)
(***************************************************************************)
THEOREM ReportsAreTrue == Spec => []StatusIsTrue
<1>1. Inv => StatusIsTrue
  BY DEF Inv
<1> QED
  BY <1>1, Invariance, PTL

-----------------------------------------------------------------------------
(* The refinement.                                                         *)

Outcomes == [c \in Call |-> Became(c)]

Final == {"committed", "aborted", "torn"}

BecameRightly ==
  \A c \in Call :
    /\ c \in met => Became(c) = "interfered"
    /\ (c \notin met /\ phase[c] \in {"idle"} \cup Running) => Became(c) = "running"
    /\ (c \notin met /\ phase[c] \in Over) => Became(c) \in Final

(* What has become of a call, by its phase: never "wrong", never "leaked". *)
LEMMA BecameIs == Inv => BecameRightly
<1> SUFFICES ASSUME Inv, NEW c \in Call
             PROVE  /\ c \in met => Became(c) = "interfered"
                    /\ (c \notin met /\ phase[c] \in {"idle"} \cup Running) => Became(c) = "running"
                    /\ (c \notin met /\ phase[c] \in Over) => Became(c) \in Final
  BY DEF BecameRightly
<1> DEFINE States == {tx[c][p] : p \in Participant}
<1>1. c \in met => Became(c) = "interfered"
  BY DEF Became
<1>2. c \notin met /\ phase[c] \in {"idle"} \cup Running => Became(c) = "running"
  BY DEF Became, Running
<1>3. ASSUME c \notin met, phase[c] \in Over PROVE Became(c) \in Final
  <2>1. Kept(c)
    BY <1>3 DEF Inv, Settled
  <2>2. "open" \notin States
    BY <2>1 DEF Kept
  <2>3. phase[c] = "ok" => States = {"committed"}
    BY <2>1, ParticipantAssumption DEF Kept
  <2>4. phase[c] = "error" => States # {"committed"}
    <3>1. ASSUME phase[c] = "error" PROVE States # {"committed"}
      <4>1. PICK p \in Participant : tx[c][p] # "committed"
        BY <2>1, <3>1 DEF Kept
      <4>2. tx[c][p] \in States
        OBVIOUS
      <4> QED
        BY <4>1, <4>2
    <3> QED
      BY <3>1
  <2>5. Became(c) = IF "open" \in States THEN "leaked"
                    ELSE IF States = {"committed"}
                         THEN IF phase[c] = "error" THEN "wrong" ELSE "committed"
                    ELSE IF phase[c] = "ok" THEN "wrong"
                    ELSE IF "committed" \in States THEN "torn" ELSE "aborted"
    BY <1>3 DEF Became, Over
  <2> HIDE DEF States
  <2> QED
    BY <2>2, <2>3, <2>4, <2>5 DEF Final
<1> QED
  BY <1>1, <1>2, <1>3

LEMMA BecameStays ==
  ASSUME NEW c \in Call, phase'[c] = phase[c], tx'[c] = tx[c], c \in met <=> c \in met'
  PROVE  Became(c)' = Became(c)
<1>1. {tx[c][p] : p \in Participant}' = {tx[c][p] : p \in Participant}
  OBVIOUS
<1> QED
  BY <1>1 DEF Became

(* A step of the abstract commit: one call is decided, ...                 *)
LEMMA OneDecided ==
  ASSUME NEW c \in Call, Became(c) = "running", Became(c)' \in Final,
         \A d \in Call : d # c => Became(d)' = Became(d)
  PROVE  [AC!Next]_Outcomes
<1>1. Outcomes' = [Outcomes EXCEPT ![c] = Became(c)']
  BY DEF Outcomes
<1>2. AC!Decide(c)
  BY <1>1 DEF AC!Decide, Outcomes, Final
<1> QED
  BY <1>2 DEF AC!Next

(* ... or calls meet, ...                                                  *)
LEMMA SomeMeet ==
  ASSUME NEW C \in SUBSET Call,
         \A c \in C : Became(c) = "running" /\ Became(c)' = "interfered",
         \A d \in Call \ C : Became(d)' = Became(d)
  PROVE  [AC!Next]_Outcomes
<1>1. Outcomes' = [c \in Call |-> IF c \in C THEN "interfered" ELSE Outcomes[c]]
  BY DEF Outcomes
<1>2. AC!Meet(C)
  BY <1>1 DEF AC!Meet, Outcomes
<1> QED
  BY <1>2 DEF AC!Next

(* ... or nothing is to be seen.                                           *)
LEMMA NothingSeen ==
  ASSUME \A d \in Call : Became(d)' = Became(d)
  PROVE  [AC!Next]_Outcomes
BY DEF Outcomes

(***************************************************************************)
(* A step in which nobody meets and no call that is over, or idle, is      *)
(* disturbed: at most the one that runs alone is decided.                  *)
(***************************************************************************)
LEMMA QuietStep ==
  ASSUME Inv, BecameRightly, BecameRightly', TypeOK', met' = met,
         \A d \in Call \ met : phase[d] \notin Running =>
           phase'[d] = phase[d] /\ tx'[d] = tx[d],
         \A d \in Call \ met : phase[d] \in Running => phase'[d] # "idle"
  PROVE  [AC!Next]_Outcomes
<1>1. ASSUME NEW d \in Call, d \in met \/ phase[d] \notin Running
      PROVE  Became(d)' = Became(d)
  <2>1. CASE d \in met
    BY <2>1 DEF BecameRightly
  <2>2. CASE d \notin met
    BY <1>1, <2>2, BecameStays
  <2> QED
    BY <2>1, <2>2
<1>2. CASE \A c \in Call \ met : phase[c] \notin Running
  BY <1>1, <1>2, NothingSeen
<1>3. ASSUME NEW c \in Call \ met, phase[c] \in Running PROVE [AC!Next]_Outcomes
  <2>1. \A d \in Call : d # c => Became(d)' = Became(d)
    BY <1>1, <1>3 DEF Inv, Alone
  <2>2. Became(c) = "running"
    BY <1>3 DEF BecameRightly
  <2>3. phase'[c] \in Running \cup Over
    BY <1>3 DEF TypeOK, Phase, Over
  <2>4. CASE phase'[c] \in Over
    <3>1. Became(c)' \in Final
      BY <1>3, <2>4 DEF BecameRightly
    <3> QED
      BY <2>1, <2>2, <3>1, OneDecided
  <2>5. CASE phase'[c] \in Running
    <3>1. Became(c)' = "running"
      BY <1>3, <2>5 DEF BecameRightly
    <3> QED
      BY <2>1, <2>2, <3>1, NothingSeen
  <2> QED
    BY <2>3, <2>4, <2>5
<1> QED
  BY <1>2, <1>3

(* A call begins, well or not: alone, or it meets those that run.          *)
LEMMA BeginningStep ==
  ASSUME BecameRightly, BecameRightly', NEW c \in Call,
         phase[c] = "idle", phase'[c] \in {"work", "error"}, Meets(c),
         \A d \in Call : d # c => phase'[d] = phase[d] /\ tx'[d] = tx[d]
  PROVE  [AC!Next]_Outcomes
<1> DEFINE others == {d \in Call : phase[d] \in Running}
<1>1. met' = IF others = {} THEN met ELSE met \cup others \cup {c}
  BY DEF Meets
<1>2. CASE others = {}
  <2>1. \A d \in Call : d # c => Became(d)' = Became(d)
    BY <1>1, <1>2, BecameStays
  <2>2. CASE c \in met
    <3>1. Became(c)' = Became(c)
      BY <1>1, <1>2, <2>2 DEF BecameRightly
    <3> QED
      BY <2>1, <3>1, NothingSeen
  <2>3. CASE c \notin met
    <3>1. Became(c) = "running"
      BY <2>3 DEF BecameRightly
    <3>2. Became(c)' = "running" \/ Became(c)' \in Final
      BY <1>1, <1>2, <2>3 DEF BecameRightly, Running, Over
    <3> QED
      BY <2>1, <3>1, <3>2, OneDecided, NothingSeen
  <2> QED
    BY <2>2, <2>3
<1>3. CASE others # {}
  <2> DEFINE C == (others \cup {c}) \ met
  <2>1. met' = met \cup others \cup {c}
    BY <1>1, <1>3
  <2>2. \A d \in C : d \in Call /\ d \notin met /\ phase[d] \in {"idle"} \cup Running
    OBVIOUS
  <2>3. \A d \in C : Became(d) = "running" /\ Became(d)' = "interfered"
    BY <2>1, <2>2 DEF BecameRightly
  <2>4. ASSUME NEW d \in Call \ C PROVE Became(d)' = Became(d)
    <3>1. CASE d \in met
      BY <2>1, <3>1 DEF BecameRightly
    <3>2. CASE d \notin met
      <4>1. d # c /\ d \notin met'
        BY <2>1, <3>2
      <4> QED
        BY <3>2, <4>1, BecameStays
    <3> QED
      BY <3>1, <3>2
  <2>5. C \in SUBSET Call
    BY <2>2
  <2> HIDE DEF C
  <2> QED
    BY <2>3, <2>4, <2>5, SomeMeet
<1> QED
  BY <1>2, <1>3

(* A call ends by itself: others keep what has become of them.             *)
LEMMA EndingStep ==
  ASSUME Inv, BecameRightly, BecameRightly', TypeOK', NEW c \in Call,
         NEW result \in {"ok", "error"}, EndsSome(c, result)
  PROVE  [AC!Next]_Outcomes
<1>1. TypeOK
  BY DEF Inv
<1>2. phase'[c] = result /\ \A d \in Call : d # c => phase'[d] = phase[d]
  BY <1>1, PhaseReturns DEF EndsSome, Phase
<1>3. ASSUME NEW d \in Call \ met, phase[d] \notin Running
      PROVE  phase'[d] = phase[d] /\ tx'[d] = tx[d]
  <2>1. d # c
    BY <1>3 DEF EndsSome
  <2>2. phase[d] \in {"idle"} \cup Over
    BY <1>1, <1>3 DEF TypeOK, Phase, Over
  <2>3. \A p \in Participant : tx[d][p] # "open"
    BY <1>3, <2>2 DEF Inv, Fresh, Settled, Kept
  <2>4. \A p \in Participant : tx'[d][p] = tx[d][p]
    BY <2>3 DEF EndsSome
  <2>5. tx[d] \in [Participant -> TxState] /\ tx'[d] \in [Participant -> TxState]
    BY <1>1 DEF TypeOK
  <2>6. tx'[d] = tx[d]
    BY <2>4, <2>5
  <2> QED
    BY <1>2, <2>1, <2>6
<1>4. \A d \in Call \ met : phase[d] \in Running => phase'[d] # "idle"
  BY <1>2 DEF Running
<1>5. met' = met
  BY DEF EndsSome
<1> QED
  BY <1>3, <1>4, <1>5, QuietStep

LEMMA StepRefines ==
  ASSUME Inv, BecameRightly, BecameRightly', TypeOK', [Next]_vars
  PROVE  [AC!Next]_Outcomes
<1>1. TypeOK
  BY DEF Inv
<1>2. ASSUME NEW c \in Call, Begin(c) PROVE [AC!Next]_Outcomes
  <2>1. phase'[c] = "work" /\ \A d \in Call : d # c => phase'[d] = phase[d]
    BY <1>1, <1>2, PhaseReturns DEF Begin, Phase, Running
  <2>2. \A d \in Call : d # c => tx'[d] = tx[d]
    BY <1>1, <1>2 DEF Begin, TypeOK
  <2>3. phase[c] = "idle" /\ Meets(c)
    BY <1>2 DEF Begin
  <2> QED
    BY <2>1, <2>2, <2>3, BeginningStep
<1>3. ASSUME NEW c \in Call, BeginFails(c) PROVE [AC!Next]_Outcomes
  <2>1. phase'[c] = "error" /\ \A d \in Call : d # c => phase'[d] = phase[d]
    BY <1>1, <1>3, PhaseReturns DEF BeginFails, Phase
  <2>2. \A d \in Call : d # c => tx'[d] = tx[d]
    BY <1>1, <1>3 DEF BeginFails, TypeOK
  <2>3. phase[c] = "idle" /\ Meets(c)
    BY <1>3 DEF BeginFails
  <2> QED
    BY <2>1, <2>2, <2>3, BeginningStep
<1>4. ASSUME NEW c \in Call, Rollback(c) \/ PrepareFails(c) PROVE [AC!Next]_Outcomes
  <2>1. EndsSome(c, "error")
    BY <1>4, RollbackInv DEF Rollback, PrepareFails
  <2> QED
    BY <2>1, EndingStep
<1>5. ASSUME NEW c \in Call, Commit(c) PROVE [AC!Next]_Outcomes
  BY <1>5, CommitInv, EndingStep
<1>6. ASSUME NEW c \in Call, Prepare(c) PROVE [AC!Next]_Outcomes
  <2>1. phase'[c] = "prepared" /\ \A d \in Call : d # c => phase'[d] = phase[d]
    BY <1>1, <1>6, PhaseReturns DEF Prepare, Phase, Running
  <2>2. phase[c] \in Running /\ tx' = tx /\ met' = met
    BY <1>6 DEF Prepare, Running
  <2> QED
    BY <2>1, <2>2, QuietStep DEF Running
<1>7. CASE Crash
  <2>1. /\ met' = met
        /\ \A d \in Call : phase'[d] = IF phase[d] \in Running THEN "crashed" ELSE phase[d]
    BY <1>1, <1>7 DEF Crash, TypeOK
  <2>2. ASSUME NEW d \in Call \ met, phase[d] \notin Running PROVE tx'[d] = tx[d]
    <3>1. phase[d] \in {"idle"} \cup Over
      BY <1>1, <2>2 DEF TypeOK, Phase, Over
    <3>2. \A p \in Participant : tx[d][p] # "open"
      BY <2>2, <3>1 DEF Inv, Fresh, Settled, Kept
    <3>3. tx'[d] = [p \in Participant |-> tx[d][p]]
      BY <1>7, <3>2 DEF Crash
    <3> QED
      BY <1>1, <3>3 DEF TypeOK
  <2> QED
    BY <2>1, <2>2, QuietStep
<1>8. CASE UNCHANGED vars
  BY <1>8, BecameStays, NothingSeen DEF vars
<1> QED
  BY <1>2, <1>3, <1>4, <1>5, <1>6, <1>7, <1>8 DEF Next

(***************************************************************************)
(* A call of the manager that runs alone commits on every participant and  *)
(* returns no error, or on none and returns one, or is torn by a commit    *)
(* that failed or a crash; what has become of it is never changed by later *)
(* calls, whatever earlier ones that met have left in the manager.         *)
(***************************************************************************)
THEOREM AtomicWhenAlone == Spec => CommitIsAtomic
<1>1. Init => AC!Init
  BY DEF Init, AC!Init, Became
<1>2. Inv /\ BecameRightly /\ BecameRightly' /\ TypeOK' /\ [Next]_vars
        => [AC!Next]_[c \in Call |-> Became(c)]
  BY StepRefines DEF Outcomes
<1>3. Inv => BecameRightly /\ TypeOK
  BY BecameIs DEF Inv
<1> QED
  BY <1>1, <1>2, <1>3, Invariance, PTL DEF Spec, CommitIsAtomic, AC!Spec
=============================================================================
