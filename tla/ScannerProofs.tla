--------------------------- MODULE ScannerProofs ---------------------------
(***************************************************************************)
(* For any finite set of workers and any configuration of the scanner: the *)
(* counters are exact, an open breaker has a cause, and a scanner without  *)
(* DegradeOnFail fails closed.                                             *)
(***************************************************************************)
EXTENDS Scanner, FiniteSetTheorems, TLAPS

InPhases(S) == {w \in Worker : phase[w] \in S}

(* TypeOK without the counters, which are what CountersAreExact says.      *)
Shape ==
  /\ degradeOnFail \in BOOLEAN
  /\ degraded \in BOOLEAN
  /\ failures \in 0..FailureThreshold
  /\ phase \in [Worker -> Phase]
  /\ result \in [Worker -> Result]

ScannerInv == Shape /\ CountersAreExact /\ OpenBreakerHasCause /\ FailsClosed

-----------------------------------------------------------------------------
(* One worker's step changes the size of a set of phases by what it does.  *)
LEMMA CountAfterStep ==
  ASSUME phase \in [Worker -> Phase], NEW w \in Worker, NEW from, NEW to, NEW S,
         Step(w, from, to)
  PROVE  /\ (from \in S <=> to \in S) =>
              Cardinality(InPhases(S))' = Cardinality(InPhases(S))
         /\ from \notin S /\ to \in S =>
              Cardinality(InPhases(S))' = Cardinality(InPhases(S)) + 1
         /\ from \in S /\ to \notin S =>
              Cardinality(InPhases(S))' = Cardinality(InPhases(S)) - 1
         /\ Cardinality(InPhases(S)) \in Nat
<1>1. phase[w] = from /\ phase'[w] = to
  BY DEF Step
<1>2. \A x \in Worker : x # w => phase'[x] = phase[x]
  BY DEF Step
<1>3. IsFiniteSet(InPhases(S)) /\ Cardinality(InPhases(S)) \in Nat
  BY WorkerAssumption, FS_Subset, FS_CardinalityType DEF InPhases
<1>4. CASE from \in S <=> to \in S
  <2>1. InPhases(S)' = InPhases(S)
    BY <1>1, <1>2, <1>4 DEF InPhases
  <2> QED
    BY <2>1, <1>3, <1>4
<1>5. CASE from \notin S /\ to \in S
  <2>1. InPhases(S)' = InPhases(S) \cup {w} /\ w \notin InPhases(S)
    BY <1>1, <1>2, <1>5 DEF InPhases
  <2> QED
    BY <2>1, <1>3, <1>5, FS_AddElement
<1>6. CASE from \in S /\ to \notin S
  <2>1. InPhases(S)' = InPhases(S) \ {w} /\ w \in InPhases(S)
    BY <1>1, <1>2, <1>6 DEF InPhases
  <2> QED
    BY <2>1, <1>3, <1>6, FS_RemoveElement
<1> QED
  BY <1>3, <1>4, <1>5, <1>6

(* The counters stay exact if they move with the worker's phase.           *)
LEMMA CountersFollow ==
  ASSUME phase \in [Worker -> Phase], CountersAreExact,
         NEW w \in Worker, NEW from, NEW to, Step(w, from, to),
         \/ (from \in Queued <=> to \in Queued) /\ currentQueue' = currentQueue
         \/ from \notin Queued /\ to \in Queued /\ currentQueue' = currentQueue + 1
         \/ from \in Queued /\ to \notin Queued /\ currentQueue' = currentQueue - 1,
         \/ (from \in Holding <=> to \in Holding) /\ slots' = slots
         \/ /\ from \notin Holding /\ to \in Holding
            /\ slots' = slots + 1 /\ slots < MaxConcurrent
         \/ from \in Holding /\ to \notin Holding /\ slots' = slots - 1
  PROVE  CountersAreExact'
<1>1. /\ currentQueue = Cardinality(InPhases(Queued))
      /\ slots = Cardinality(InPhases(Holding))
      /\ slots <= MaxConcurrent
  BY DEF CountersAreExact, InPhases
<1>2. currentQueue' = Cardinality(InPhases(Queued))'
  BY <1>1, CountAfterStep
<1>3. slots' = Cardinality(InPhases(Holding))' /\ slots \in Nat
  BY <1>1, CountAfterStep
<1>4. slots' <= MaxConcurrent
  BY <1>1, <1>3, ConfigAssumption
<1> QED
  BY <1>2, <1>3, <1>4 DEF CountersAreExact, InPhases

(* A step of a worker keeps phases phases, and moves no other worker.      *)
LEMMA PhaseAfterStep ==
  ASSUME phase \in [Worker -> Phase], NEW w \in Worker, NEW from, NEW to \in Phase,
         Step(w, from, to)
  PROVE  /\ phase' \in [Worker -> Phase]
         /\ phase[w] = from /\ phase'[w] = to
         /\ \A x \in Worker : x # w => phase'[x] = phase[x]
BY DEF Step

LEMMA ResultAfterReturn ==
  ASSUME result \in [Worker -> Result], NEW w \in Worker, NEW res \in Result,
         Returns(w, res)
  PROVE  /\ result' \in [Worker -> Result]
         /\ result'[w] = res
         /\ \A x \in Worker : x # w => result'[x] = result[x]
BY DEF Returns

(* A failure that is recorded is a cause for an open breaker.              *)
LEMMA FailureRecorded ==
  ASSUME Shape, RecordFailure
  PROVE  /\ failures' \in 1..FailureThreshold
         /\ degraded' \in BOOLEAN
         /\ ~degradeOnFail => degraded' = degraded
<1>1. PICK kept \in 0..failures :
        /\ failures' = Recorded(kept)
        /\ degraded' = (degraded \/ (degradeOnFail /\ Recorded(kept) >= FailureThreshold))
  BY DEF RecordFailure
<1>2. Recorded(kept) \in 1..FailureThreshold
  BY ConfigAssumption DEF Recorded, Shape
<1>3. degraded' \in BOOLEAN
  BY <1>1 DEF Shape
<1>4. ~degradeOnFail => degraded' = degraded
  BY <1>1, Zenon DEF Shape
<1> QED
  BY <1>1, <1>2, <1>3, <1>4
-----------------------------------------------------------------------------
(***************************************************************************)
(* What a step of a worker has to show: the counters move with its phase,  *)
(* an open breaker keeps a cause, and no result is made up.                *)
(***************************************************************************)
LEMMA WorkerStepKeeps ==
  ASSUME ScannerInv, NEW w \in Worker, NEW from, NEW to \in Phase, Step(w, from, to),
         \/ (from \in Queued <=> to \in Queued) /\ currentQueue' = currentQueue
         \/ from \notin Queued /\ to \in Queued /\ currentQueue' = currentQueue + 1
         \/ from \in Queued /\ to \notin Queued /\ currentQueue' = currentQueue - 1,
         \/ (from \in Holding <=> to \in Holding) /\ slots' = slots
         \/ /\ from \notin Holding /\ to \in Holding
            /\ slots' = slots + 1 /\ slots < MaxConcurrent
         \/ from \in Holding /\ to \notin Holding /\ slots' = slots - 1,
         degradeOnFail' = degradeOnFail,
         degraded' \in BOOLEAN,
         failures' \in 0..FailureThreshold,
         ~degradeOnFail => ~degraded',
         \/ /\ degraded' = degraded /\ failures' = failures
            /\ from \in {"forgiven", "closing"} /\ degraded => to = "closing"
         \/ degraded' => failures' > 0
         \/ to = "forgiven",
         \/ result' = result
         \/ \E res \in Result : Returns(w, res) /\ (res = "unscanned" => degradeOnFail)
  PROVE  ScannerInv'
<1>1. /\ phase' \in [Worker -> Phase]
      /\ phase[w] = from /\ phase'[w] = to
      /\ \A x \in Worker : x # w => phase'[x] = phase[x]
  BY PhaseAfterStep DEF ScannerInv, Shape
<1>2. CountersAreExact'
  BY CountersFollow DEF ScannerInv, Shape
<1>3. /\ result' \in [Worker -> Result]
      /\ ~degradeOnFail => \A x \in Worker : result'[x] # "unscanned"
  <2>1. CASE result' = result
    BY <2>1 DEF ScannerInv, Shape, FailsClosed
  <2>2. ASSUME NEW res \in Result, Returns(w, res), res = "unscanned" => degradeOnFail
        PROVE  /\ result' \in [Worker -> Result]
               /\ ~degradeOnFail => \A x \in Worker : result'[x] # "unscanned"
    BY <2>2, ResultAfterReturn DEF ScannerInv, Shape, FailsClosed
  <2> QED
    BY <2>1, <2>2
<1>4. OpenBreakerHasCause'
  <2>1. CASE /\ degraded' = degraded /\ failures' = failures
             /\ from \in {"forgiven", "closing"} /\ degraded => to = "closing"
    <3> SUFFICES ASSUME degraded, ~(failures > 0)
                 PROVE  \E x \in Worker : phase'[x] \in {"forgiven", "closing"}
      BY <2>1 DEF OpenBreakerHasCause
    <3>1. PICK x \in Worker : phase[x] \in {"forgiven", "closing"}
      BY DEF ScannerInv, OpenBreakerHasCause
    <3> QED
      BY <2>1, <3>1, <1>1
  <2>2. CASE degraded' => failures' > 0
    BY <2>2 DEF OpenBreakerHasCause
  <2>3. CASE to = "forgiven"
    BY <2>3, <1>1 DEF OpenBreakerHasCause
  <2> QED
    BY <2>1, <2>2, <2>3
<1> QED
  BY <1>1, <1>2, <1>3, <1>4 DEF ScannerInv, Shape, FailsClosed

(* Fallback is a result, and unscanned only where the configuration says.  *)
LEMMA FallbackIsAllowed ==
  Fallback \in Result /\ (Fallback = "unscanned" => degradeOnFail)
BY DEF Fallback, Result

(***************************************************************************)
(* Every step keeps the invariant.                                         *)
(***************************************************************************)
LEMMA ScannerStep == ScannerInv /\ [Next]_vars => ScannerInv'
<1> SUFFICES ASSUME ScannerInv, [Next]_vars PROVE ScannerInv'
  OBVIOUS
<1> USE DEF Phase, Queued, Holding
<1>s. /\ Shape /\ degraded \in BOOLEAN /\ failures \in 0..FailureThreshold
      /\ ~degradeOnFail => ~degraded
  BY DEF ScannerInv, Shape, FailsClosed
<1>1. ASSUME NEW w \in Worker, Start(w) PROVE ScannerInv'
  <2>1. CASE degraded
    <3>1. "unscanned" \in Result /\ degradeOnFail
      BY <2>1, <1>s DEF Result
    <3>2. result' \in [Worker -> Result]
      BY <2>1, <3>1, <1>1, ResultAfterReturn DEF Start, ScannerInv, Shape
    <3> QED
      BY <2>1, <3>1, <3>2, <1>1
      DEF Start, ScannerInv, Shape, CountersAreExact, OpenBreakerHasCause, FailsClosed
  <2>2. CASE ~degraded
    <3>1. Step(w, "idle", "breakerClosed") /\ Returns(w, "none") /\ "none" \in Result
      BY <2>2, <1>1 DEF Start, Result
    <3> QED
      BY <3>1, <1>1, <1>s, WorkerStepKeeps DEF Start
  <2> QED
    BY <2>1, <2>2
<1>2. ASSUME NEW w \in Worker, CheckQueue(w) PROVE ScannerInv'
  <2>1. CASE currentQueue >= MaxQueueDepth
    BY <2>1, <1>2, <1>s, FallbackIsAllowed, WorkerStepKeeps DEF CheckQueue
  <2>2. CASE ~(currentQueue >= MaxQueueDepth)
    BY <2>2, <1>2, <1>s, WorkerStepKeeps DEF CheckQueue
  <2> QED
    BY <2>1, <2>2
<1>3. ASSUME NEW w \in Worker, Join(w) PROVE ScannerInv'
  BY <1>3, <1>s, WorkerStepKeeps DEF Join
<1>4. ASSUME NEW w \in Worker, Acquire(w) PROVE ScannerInv'
  BY <1>4, <1>s, WorkerStepKeeps DEF Acquire
<1>5. ASSUME NEW w \in Worker, GiveUpWaiting(w) PROVE ScannerInv'
  BY <1>5, <1>s, FallbackIsAllowed, WorkerStepKeeps DEF GiveUpWaiting
<1>6. ASSUME NEW w \in Worker, Limit(w) PROVE ScannerInv'
  <2>1. CASE Step(w, "limited", "dialling") /\ UNCHANGED result
    BY <2>1, <1>6, <1>s, WorkerStepKeeps DEF Limit
  <2>2. CASE Step(w, "limited", "releasing") /\ Returns(w, Fallback)
    BY <2>2, <1>6, <1>s, FallbackIsAllowed, WorkerStepKeeps DEF Limit
  <2> QED
    BY <2>1, <2>2, <1>6 DEF Limit
<1>7. ASSUME NEW w \in Worker, FileError(w) PROVE ScannerInv'
  <2>1. PICK from \in {"dialling", "connected"} : Step(w, from, "releasing")
    BY <1>7 DEF FileError
  <2>2. Returns(w, "error") /\ "error" \in Result
    BY <1>7 DEF FileError, Result
  <2> QED
    BY <2>1, <2>2, <1>7, <1>s, WorkerStepKeeps DEF FileError
<1>8. ASSUME NEW w \in Worker, Dial(w) PROVE ScannerInv'
  <2>1. CASE /\ Step(w, "dialling", "connected")
             /\ UNCHANGED <<degraded, failures, result>>
    BY <2>1, <1>8, <1>s, WorkerStepKeeps DEF Dial
  <2>2. CASE /\ Step(w, "dialling", "releasing") /\ RecordFailure
             /\ Returns(w, Fallback)
    <3>1. /\ failures' \in 0..FailureThreshold /\ failures' > 0
          /\ degraded' \in BOOLEAN
          /\ ~degradeOnFail => ~degraded'
      BY <2>2, <1>s, FailureRecorded
    <3>2. /\ Step(w, "dialling", "releasing") /\ Returns(w, Fallback)
          /\ degradeOnFail' = degradeOnFail
          /\ currentQueue' = currentQueue /\ slots' = slots
      BY <2>2, <1>8 DEF Dial
    <3>3. degraded' => failures' > 0
      BY <3>1
    <3> QED
      BY <3>1, <3>2, <3>3, FallbackIsAllowed, WorkerStepKeeps
  <2> QED
    BY <2>1, <2>2, <1>8 DEF Dial
<1>9. ASSUME NEW w \in Worker, Converse(w) PROVE ScannerInv'
  <2>0. {"scanned", "error"} \subseteq Result
    BY DEF Result
  <2>1. CASE /\ Step(w, "connected", "succeeded") /\ Returns(w, "scanned")
             /\ UNCHANGED <<degraded, failures>>
    BY <2>0, <2>1, <1>9, <1>s, WorkerStepKeeps DEF Converse
  <2>2. CASE /\ Step(w, "connected", "releasing") /\ RecordFailure
             /\ Returns(w, "error")
    <3>1. /\ failures' \in 0..FailureThreshold /\ failures' > 0
          /\ degraded' \in BOOLEAN
          /\ ~degradeOnFail => ~degraded'
      BY <2>2, <1>s, FailureRecorded
    <3>2. /\ Step(w, "connected", "releasing") /\ Returns(w, "error")
          /\ degradeOnFail' = degradeOnFail
          /\ currentQueue' = currentQueue /\ slots' = slots
      BY <2>2, <1>9 DEF Converse
    <3>3. degraded' => failures' > 0
      BY <3>1
    <3> QED
      BY <2>0, <3>1, <3>2, <3>3, WorkerStepKeeps
  <2> QED
    BY <2>1, <2>2, <1>9 DEF Converse
<1>10. ASSUME NEW w \in Worker, ForgetFailures(w) PROVE ScannerInv'
  <2>1. 0 \in 0..FailureThreshold
    BY ConfigAssumption
  <2> QED
    BY <2>1, <1>10, <1>s, WorkerStepKeeps DEF ForgetFailures
<1>11. ASSUME NEW w \in Worker, LookAtBreaker(w) PROVE ScannerInv'
  <2>1. CASE degraded
    <3>1. Step(w, "forgiven", "closing")
      BY <2>1, <1>11 DEF LookAtBreaker
    <3> QED
      BY <3>1, <1>11, <1>s, WorkerStepKeeps DEF LookAtBreaker
  <2>2. CASE ~degraded
    <3>1. Step(w, "forgiven", "releasing")
      BY <2>2, <1>11 DEF LookAtBreaker
    <3> QED
      BY <2>2, <3>1, <1>11, <1>s, WorkerStepKeeps DEF LookAtBreaker
  <2> QED
    BY <2>1, <2>2
<1>12. ASSUME NEW w \in Worker, CloseBreaker(w) PROVE ScannerInv'
  <2>1. /\ degraded' \in BOOLEAN
        /\ ~degradeOnFail => ~degraded'
        /\ degraded' => failures' # 0
    BY <1>12, <1>s, Zenon DEF CloseBreaker, BreakerAfterSuccess
  <2>2. failures' \in 0..FailureThreshold
    BY <1>12, <1>s DEF CloseBreaker
  <2>3. degraded' => failures' > 0
    BY <2>1, <2>2, ConfigAssumption
  <2>4. /\ Step(w, "closing", "releasing") /\ result' = result
        /\ degradeOnFail' = degradeOnFail
        /\ currentQueue' = currentQueue /\ slots' = slots
    BY <1>12 DEF CloseBreaker
  <2> QED
    BY <2>1, <2>2, <2>3, <2>4, WorkerStepKeeps
<1>13. ASSUME NEW w \in Worker, Release(w) PROVE ScannerInv'
  BY <1>13, <1>s, WorkerStepKeeps DEF Release, SlotReleased
<1>14. ASSUME NEW w \in Worker, Leave(w) PROVE ScannerInv'
  BY <1>14, <1>s, WorkerStepKeeps DEF Leave
<1>15. CASE Close
  BY <1>15
  DEF Close, ScannerInv, Shape, CountersAreExact, OpenBreakerHasCause, FailsClosed
<1>16. CASE UNCHANGED vars
  BY <1>16
  DEF vars, ScannerInv, Shape, CountersAreExact, OpenBreakerHasCause, FailsClosed
<1> QED
  BY <1>1, <1>2, <1>3, <1>4, <1>5, <1>6, <1>7, <1>8, <1>9, <1>10, <1>11, <1>12,
     <1>13, <1>14, <1>15, <1>16 DEF Next, Continue

LEMMA ScannerInit == Init => ScannerInv
<1> SUFFICES ASSUME Init PROVE ScannerInv
  OBVIOUS
<1>1. Shape
  <2>1. degradeOnFail \in BOOLEAN /\ degraded \in BOOLEAN
    BY DEF Init
  <2>2. failures \in 0..FailureThreshold
    BY ConfigAssumption DEF Init
  <2>3. "idle" \in Phase /\ "none" \in Result
    BY DEF Phase, Result
  <2>4. phase \in [Worker -> Phase] /\ result \in [Worker -> Result]
    BY <2>3 DEF Init
  <2> QED
    BY <2>1, <2>2, <2>4 DEF Shape
<1>2. InPhases(Queued) = {} /\ InPhases(Holding) = {}
  BY DEF Init, InPhases, Queued, Holding
<1>3. CountersAreExact
  BY <1>2, FS_EmptySet, ConfigAssumption DEF Init, CountersAreExact, InPhases
<1> QED
  BY <1>1, <1>3 DEF Init, ScannerInv, OpenBreakerHasCause, FailsClosed

THEOREM ScannerIsSafe == Spec => []ScannerInv
<1> QED
  BY ScannerInit, ScannerStep, PTL DEF Spec

(***************************************************************************)
(* The scanner's variables keep their types; the counters never go below   *)
(* zero.                                                                   *)
(***************************************************************************)
THEOREM ScannerTypes == Spec => []TypeOK
<1>1. ScannerInv => TypeOK
  <2> SUFFICES ASSUME ScannerInv PROVE TypeOK
    OBVIOUS
  <2>1. \A S : Cardinality(InPhases(S)) \in Nat
    BY WorkerAssumption, FS_Subset, FS_CardinalityType DEF InPhases
  <2>2. currentQueue \in Nat /\ slots \in Nat
    BY <2>1 DEF ScannerInv, CountersAreExact, InPhases
  <2> QED
    BY <2>2 DEF ScannerInv, Shape, TypeOK
<1> QED
  BY <1>1, ScannerIsSafe, PTL

(***************************************************************************)
(* No slot and no place in the queue is lost, and MaxConcurrent is kept.   *)
(***************************************************************************)
THEOREM NothingLeaks == Spec => []CountersAreExact
<1>1. ScannerInv => CountersAreExact
  BY DEF ScannerInv
<1> QED
  BY <1>1, ScannerIsSafe, PTL

(***************************************************************************)
(* The two sections of recordSuccess never leave the breaker open without  *)
(* a failure on record or a scan that will look at it.                     *)
(***************************************************************************)
THEOREM BreakerHasCause == Spec => []OpenBreakerHasCause
<1>1. ScannerInv => OpenBreakerHasCause
  BY DEF ScannerInv
<1> QED
  BY <1>1, ScannerIsSafe, PTL

(***************************************************************************)
(* Without DegradeOnFail nothing unscanned is reported clean.              *)
(***************************************************************************)
THEOREM ScannerFailsClosed == Spec => []FailsClosed
<1>1. ScannerInv => FailsClosed
  BY DEF ScannerInv
<1> QED
  BY <1>1, ScannerIsSafe, PTL
=============================================================================
