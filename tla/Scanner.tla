------------------------------ MODULE Scanner ------------------------------
(***************************************************************************)
(* ClamAVScanner: the admission of concurrent scans (queue depth, a        *)
(* semaphore of MaxConcurrent slots, the rate limiter) and the circuit     *)
(* breaker.  The atomics and the failureMu sections of the code are the    *)
(* steps; anything may happen between two of them.  A worker is a goroutine *)
(* of the HTTP server that scans one file after another.                   *)
(*                                                                         *)
(* failures is len(failureTs), counted up to the threshold, the only       *)
(* lengths that decide anything being 0 and the threshold.  failureCnt,    *)
(* lastFailing and the two totals are only ever reported and are left out. *)
(***************************************************************************)
EXTENDS Integers, FiniteSets

CONSTANTS
  Worker,            \* goroutines that call Scan
  MaxConcurrent,     \* cfg.MaxConcurrent, the capacity of sem
  MaxQueueDepth,     \* cfg.MaxQueueDepth
  FailureThreshold   \* cfg.FailureThreshold

ASSUME WorkerAssumption == IsFiniteSet(Worker)

(* NewClamAVScanner replaces values that are not positive.                 *)
ASSUME ConfigAssumption ==
  /\ MaxConcurrent \in Nat \ {0}
  /\ MaxQueueDepth \in Nat \ {0}
  /\ FailureThreshold \in Nat \ {0}

VARIABLES
  degradeOnFail,  \* cfg.DegradeOnFail, fixed when the scanner is built
  degraded,       \* the breaker is open
  failures,       \* failures on record
  currentQueue,   \* the atomic counter
  slots,          \* occupied slots of sem
  phase,          \* what each worker does next
  result          \* what its current or last Scan returned

vars == <<degradeOnFail, degraded, failures, currentQueue, slots, phase, result>>

(* Phases of a worker that is counted in currentQueue, and in sem.         *)
Holding == {"limited", "dialling", "connected", "succeeded", "forgiven",
            "closing", "releasing"}

Queued == Holding \cup {"waiting", "leaving"}

Phase == Queued \cup {"idle", "breakerClosed", "admitted"}

Result == {"none", "scanned", "unscanned", "error"}

-----------------------------------------------------------------------------
Step(w, from, to) == phase[w] = from /\ phase' = [phase EXCEPT ![w] = to]

Returns(w, res) == result' = [result EXCEPT ![w] = res]

(* A scan that could not be made: reported clean and degraded, or an error.*)
AlwaysUnscanned == "unscanned"           \* mutant: DegradeOnFail is not asked

NilResult == "nil"                       \* mutant: neither a result nor an error

Fallback == IF degradeOnFail THEN "unscanned" ELSE "error"

(* recordFailure, under failureMu: failures that have left the window go.  *)
Recorded(kept) == IF kept + 1 < FailureThreshold THEN kept + 1 ELSE FailureThreshold

RecordFailure ==
  \E kept \in 0..failures :
    /\ failures' = Recorded(kept)
    /\ degraded' = (degraded \/ (degradeOnFail /\ Recorded(kept) >= FailureThreshold))

-----------------------------------------------------------------------------
(* Admission.                                                              *)

Start(w) ==
  /\ IF degraded
     THEN phase[w] = "idle" /\ UNCHANGED phase /\ Returns(w, "unscanned")
     ELSE Step(w, "idle", "breakerClosed") /\ Returns(w, "none")
  /\ UNCHANGED <<degradeOnFail, degraded, failures, currentQueue, slots>>

CheckQueue(w) ==
  /\ IF currentQueue >= MaxQueueDepth
     THEN Step(w, "breakerClosed", "idle") /\ Returns(w, Fallback)
     ELSE Step(w, "breakerClosed", "admitted") /\ UNCHANGED result
  /\ UNCHANGED <<degradeOnFail, degraded, failures, currentQueue, slots>>

Join(w) ==
  /\ Step(w, "admitted", "waiting")
  /\ currentQueue' = currentQueue + 1
  /\ UNCHANGED <<degradeOnFail, degraded, failures, slots, result>>

NeverExpires == FALSE                    \* mutant: QueueTimeout is not applied

QueueTimeout == TRUE

(* The select: a slot, or QueueTimeout or the end of the request.          *)
Acquire(w) ==
  /\ slots < MaxConcurrent
  /\ Step(w, "waiting", "limited")
  /\ slots' = slots + 1
  /\ UNCHANGED <<degradeOnFail, degraded, failures, currentQueue, result>>

GiveUpWaiting(w) ==
  /\ QueueTimeout
  /\ Step(w, "waiting", "leaving")
  /\ Returns(w, Fallback)
  /\ UNCHANGED <<degradeOnFail, degraded, failures, currentQueue, slots>>

(* limiter.Wait; its error is that of the request's context.               *)
Limit(w) ==
  /\ \/ Step(w, "limited", "dialling") /\ UNCHANGED result
     \/ Step(w, "limited", "releasing") /\ Returns(w, Fallback)
  /\ UNCHANGED <<degradeOnFail, degraded, failures, currentQueue, slots>>

-----------------------------------------------------------------------------
(* The conversation with clamd; every wait in it has a deadline.           *)

(* The file cannot be read, or is too large: no fault of clamd.            *)
FileError(w) ==
  /\ \E from \in {"dialling", "connected"} : Step(w, from, "releasing")
  /\ Returns(w, "error")
  /\ UNCHANGED <<degradeOnFail, degraded, failures, currentQueue, slots>>

Dial(w) ==
  /\ \/ /\ Step(w, "dialling", "connected")
        /\ UNCHANGED <<degraded, failures, result>>
     \/ /\ Step(w, "dialling", "releasing")
        /\ RecordFailure
        /\ Returns(w, Fallback)
  /\ UNCHANGED <<degradeOnFail, currentQueue, slots>>

(* Once connected, a failure is an error even if DegradeOnFail is set.     *)
Converse(w) ==
  /\ \/ /\ Step(w, "connected", "succeeded")
        /\ Returns(w, "scanned")
        /\ UNCHANGED <<degraded, failures>>
     \/ /\ Step(w, "connected", "releasing")
        /\ RecordFailure
        /\ Returns(w, "error")
  /\ UNCHANGED <<degradeOnFail, currentQueue, slots>>

-----------------------------------------------------------------------------
(* recordSuccess: two sections of failureMu, the breaker read in between.  *)

ForgetFailures(w) ==
  /\ Step(w, "succeeded", "forgiven")
  /\ failures' = 0
  /\ UNCHANGED <<degradeOnFail, degraded, currentQueue, slots, result>>

LookAtBreaker(w) ==
  /\ Step(w, "forgiven", IF degraded THEN "closing" ELSE "releasing")
  /\ UNCHANGED <<degradeOnFail, degraded, failures, currentQueue, slots, result>>

StaysOpen == TRUE                        \* mutant: no one closes the breaker

BreakerAfterSuccess == degraded /\ failures # 0

CloseBreaker(w) ==
  /\ Step(w, "closing", "releasing")
  /\ degraded' = BreakerAfterSuccess
  /\ UNCHANGED <<degradeOnFail, failures, currentQueue, slots, result>>

-----------------------------------------------------------------------------
(* The deferred calls of Scan, last in first out.                          *)

SlotLeaked(n) == n                       \* mutant: an early return keeps its slot

SlotReleased(n) == n - 1

Release(w) ==
  /\ Step(w, "releasing", "leaving")
  /\ slots' = SlotReleased(slots)
  /\ UNCHANGED <<degradeOnFail, degraded, failures, currentQueue, result>>

Leave(w) ==
  /\ Step(w, "leaving", "idle")
  /\ currentQueue' = currentQueue - 1
  /\ UNCHANGED <<degradeOnFail, degraded, failures, slots, result>>

(* Close of the Scanner interface, whatever the scans do.                  *)
Close ==
  /\ degraded' = FALSE
  /\ UNCHANGED <<degradeOnFail, failures, currentQueue, slots, phase, result>>

Init ==
  /\ degradeOnFail \in BOOLEAN
  /\ degraded = FALSE
  /\ failures = 0
  /\ currentQueue = 0
  /\ slots = 0
  /\ phase = [w \in Worker |-> "idle"]
  /\ result = [w \in Worker |-> "none"]

(* What a call of Scan that has started does next.                         *)
Continue(w) ==
  \/ CheckQueue(w)
  \/ Join(w)
  \/ Acquire(w)
  \/ GiveUpWaiting(w)
  \/ Limit(w)
  \/ FileError(w)
  \/ Dial(w)
  \/ Converse(w)
  \/ ForgetFailures(w)
  \/ LookAtBreaker(w)
  \/ CloseBreaker(w)
  \/ Release(w)
  \/ Leave(w)

Next == (\E w \in Worker : Start(w) \/ Continue(w)) \/ Close

Spec == Init /\ [][Next]_vars

(***************************************************************************)
(* Goroutines that can run do run, timers fire, and the limiter and the    *)
(* sockets have deadlines.  Nobody has to start another scan.              *)
(***************************************************************************)
FairSpec == Spec /\ \A w \in Worker : WF_vars(Continue(w))

-----------------------------------------------------------------------------
(* Properties.                                                             *)

TypeOK ==
  /\ degradeOnFail \in BOOLEAN
  /\ degraded \in BOOLEAN
  /\ failures \in 0..FailureThreshold
  /\ currentQueue \in Nat
  /\ slots \in Nat
  /\ phase \in [Worker -> Phase]
  /\ result \in [Worker -> Result]

(***************************************************************************)
(* Whatever way a scan ends, its place in the queue and its slot come      *)
(* back: the counters are the numbers of scans that hold them, and no more *)
(* than MaxConcurrent scans talk to clamd.                                 *)
(***************************************************************************)
CountersAreExact ==
  /\ currentQueue = Cardinality({w \in Worker : phase[w] \in Queued})
  /\ slots = Cardinality({w \in Worker : phase[w] \in Holding})
  /\ slots <= MaxConcurrent

(***************************************************************************)
(* recordSuccess clears the failures and closes the breaker in separate    *)
(* sections.  Whatever other scans do in between, an open breaker has a    *)
(* failure on record, or a successful scan that is about to look at it.    *)
(* (It may have fewer failures than the threshold: one recorded between    *)
(* the two sections is enough to keep it open.)                            *)
(***************************************************************************)
OpenBreakerHasCause ==
  degraded => failures > 0 \/ \E w \in Worker : phase[w] \in {"forgiven", "closing"}

(***************************************************************************)
(* Without DegradeOnFail the scanner fails closed: the breaker never opens *)
(* and nothing is reported clean that was not scanned.                     *)
(***************************************************************************)
FailsClosed ==
  ~degradeOnFail => ~degraded /\ \A w \in Worker : result[w] # "unscanned"

(* Every Scan returns, however many others hold the slots.                 *)
EveryScanReturns == \A w \in Worker : phase[w] # "idle" ~> phase[w] = "idle"
=============================================================================
