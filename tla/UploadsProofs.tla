--------------------------- MODULE UploadsProofs ---------------------------
(***************************************************************************)
(* For any number of uploads, contents and calls of Verify: what becomes   *)
(* of a file that several uploads write, remove and have rows for, when    *)
(* any step may fail and the process may stop at any time.                 *)
(***************************************************************************)
EXTENDS Uploads, LocalStorageProofs

(* Steps of an upload that knows its key, ...                              *)
Keyed == {"put", "copy", "insert", "cleanup", "stored", "copyFailed",
          "tornBehind", "cleaned", "leftBehind"}

(* ... that has created its file and not removed it, ...                   *)
Writers == {"copy", "insert", "cleanup", "stored", "tornBehind", "leftBehind"}

(* ... and that has removed it.                                            *)
Removers == {"copyFailed", "cleaned"}

(* An upload that is copying has the file of its own key open.             *)
HandlesFit ==
  \A u \in Caller : /\ step[u] \in Keyed => key[u] \in Key
                    /\ step[u] = "copy" => handle[u].key = key[u]

(* A file that is not whole is still named by the path of a writer whom    *)
(* nobody has truncated: his Finish will make it whole.  Or its writer is  *)
(* gone and could not take it away.                                        *)
HasItsWriter(k) ==
  \E u \in Caller :
    /\ key[u] = k
    /\ \/ step[u] \in {"crashed", "tornBehind"}
       \/ step[u] = "copy" /\ handle[u].linked = TRUE /\ handle[u].cut = FALSE

TornHaveWriters == \A k \in Key : dir[k] = "partial" => HasItsWriter(k)

Removed(k) == \E w \in Caller : key[w] = k /\ step[w] \in Removers

(* A file that was written and is not there has been removed.              *)
GoneWereRemoved ==
  \A k \in Key, u \in Caller :
    dir[k] = "absent" /\ key[u] = k /\ step[u] \in Writers => Removed(k)

Owned(k) == \E u \in Caller : key[u] = k /\ step[u] \in Writers \cup {"crashed"}

FilesHaveOwners == \A k \in Key : dir[k] # "absent" => Owned(k)

FilesInv == HandlesFit /\ TornHaveWriters /\ GoneWereRemoved /\ FilesHaveOwners

(* A verdict that was saved is seen by whoever reads the row afterwards.   *)
VerdictsCount ==
  \A c \in Verifier :
    verifying[c].step # "idle" =>
      /\ verifying[c].late = FALSE
      /\ verifying[c].step = "verified" => status[verifying[c].row] # "PENDING"

Inv == TypeOK /\ FilesInv /\ VerdictsCount

-----------------------------------------------------------------------------
(* The steps of an upload.                                                 *)

AllSteps == {"idle"} \cup Running \cup Ended

LEMMA StepChanges ==
  ASSUME TypeOK, NEW u \in Caller, NEW from, NEW to \in AllSteps, Goes(u, from, to)
  PROVE  /\ step' \in [Caller -> AllSteps]
         /\ step[u] = from /\ step'[u] = to
         /\ \A w \in Caller : w # u => step'[w] = step[w]
BY DEF TypeOK, AllSteps, Goes

(* The file system stays, and u neither begins to copy nor has removed a   *)
(* file nor crashed.                                                       *)
LEMMA QuietStep ==
  ASSUME Inv, NEW u \in Caller, UNCHANGED <<dir, handle>>,
         \A w \in Caller : w # u => step'[w] = step[w] /\ key'[w] = key[w],
         step[u] \notin Removers \cup {"copy", "crashed", "tornBehind"}, step'[u] # "copy",
         step'[u] \in Keyed => key'[u] \in Key,
         step[u] \in Writers <=> step'[u] \in Writers,
         step[u] \in Writers => key'[u] = key[u]
  PROVE  FilesInv'
<1>1. HandlesFit'
  BY DEF Inv, FilesInv, HandlesFit
<1>2. ASSUME NEW k \in Key PROVE HasItsWriter(k) => HasItsWriter(k)'
  BY DEF HasItsWriter
<1>3. ASSUME NEW k \in Key PROVE Removed(k) => Removed(k)'
  BY DEF Removed
<1>4. ASSUME NEW k \in Key PROVE Owned(k) => Owned(k)'
  BY DEF Owned
<1>5. TornHaveWriters'
  BY <1>2 DEF Inv, FilesInv, TornHaveWriters
<1>6. GoneWereRemoved'
  BY <1>3 DEF Inv, FilesInv, GoneWereRemoved
<1>7. FilesHaveOwners'
  BY <1>4 DEF Inv, FilesInv, FilesHaveOwners
<1> QED
  BY <1>1, <1>5, <1>6, <1>7 DEF FilesInv

LEMMA PutStep ==
  ASSUME Inv, NEW u \in Caller, Goes(u, "put", "copy"), Create(u, key[u]), key' = key
  PROVE  FilesInv' /\ StorageTypeOK'
<1>1. TypeOK /\ StorageTypeOK /\ "copy" \in AllSteps
  BY DEF Inv, TypeOK, AllSteps, Running
<1>2. /\ step[u] = "put" /\ step'[u] = "copy"
      /\ \A w \in Caller : w # u => step'[w] = step[w]
  BY <1>1, StepChanges
<1>3. PICK k \in Key : k = key[u]
  BY <1>2 DEF Inv, FilesInv, HandlesFit, Keyed
<1>4. Create(u, k)
  BY <1>3
<1>5. /\ StorageTypeOK'
      /\ dir'[k] = "partial" /\ OthersStay(k)
      /\ handle'[u].key = k /\ handle'[u].linked = TRUE /\ handle'[u].cut = FALSE
      /\ \A d \in Caller : d # u =>
           /\ handle'[d].key = handle[d].key
           /\ handle[d].key # k => handle'[d] = handle[d]
  BY <1>1, <1>4, CreateEffect
<1>6. HandlesFit'
  BY <1>2, <1>3, <1>5 DEF Inv, FilesInv, HandlesFit, Keyed
<1>7. HasItsWriter(k)' /\ Owned(k)'
  BY <1>2, <1>3, <1>5 DEF HasItsWriter, Owned, Writers
<1>8. ASSUME NEW j \in Key, j # k PROVE HasItsWriter(j) => HasItsWriter(j)'
  <2>1. ASSUME NEW w \in Caller, key[w] = j, step[w] = "copy" PROVE handle'[w] = handle[w]
    BY <1>2, <1>3, <1>5, <1>8, <2>1 DEF Inv, FilesInv, HandlesFit
  <2> QED
    BY <1>2, <1>3, <1>8, <2>1 DEF HasItsWriter
<1>9. ASSUME NEW j \in Key, j # k
      PROVE  /\ Removed(j) => Removed(j)'
             /\ Owned(j) => Owned(j)'
  BY <1>2, <1>3, <1>9 DEF Removed, Owned
<1>10. TornHaveWriters'
  BY <1>5, <1>7, <1>8 DEF Inv, FilesInv, TornHaveWriters, OthersStay
<1>11. GoneWereRemoved'
  BY <1>2, <1>3, <1>5, <1>9 DEF Inv, FilesInv, GoneWereRemoved, OthersStay
<1>12. FilesHaveOwners'
  BY <1>5, <1>7, <1>9 DEF Inv, FilesInv, FilesHaveOwners, OthersStay
<1> QED
  BY <1>5, <1>6, <1>10, <1>11, <1>12 DEF FilesInv

LEMMA CopyStep ==
  ASSUME Inv, NEW u \in Caller, Goes(u, "copy", "insert"), Finish(u, TRUE), key' = key
  PROVE  FilesInv' /\ StorageTypeOK' /\ handle'[u] = Closed
<1>1. TypeOK /\ StorageTypeOK /\ "insert" \in AllSteps
  BY DEF Inv, TypeOK, AllSteps, Running
<1>2. /\ step[u] = "copy" /\ step'[u] = "insert"
      /\ \A w \in Caller : w # u => step'[w] = step[w]
  BY <1>1, StepChanges
<1>3. PICK k \in Key : k = key[u] /\ handle[u].key = k
  BY <1>2 DEF Inv, FilesInv, HandlesFit, Keyed
<1>4. /\ StorageTypeOK'
      /\ dir'[k] \in {dir[k], "whole"} /\ OthersStay(k)
      /\ handle[u].linked = TRUE /\ handle[u].cut = FALSE => dir'[k] = "whole"
      /\ handle'[u] = Closed
      /\ \A d \in Caller : d # u => handle'[d] = handle[d]
  BY <1>1, <1>3, FinishEffect
<1>5. HandlesFit'
  BY <1>2, <1>4 DEF Inv, FilesInv, HandlesFit, Keyed
<1>6. ASSUME NEW j \in Key
      PROVE  /\ Removed(j) => Removed(j)'
             /\ Owned(j) => Owned(j)'
  BY <1>2 DEF Removed, Owned, Removers, Writers
<1>7. ASSUME NEW j \in Key, dir'[j] = "partial" PROVE HasItsWriter(j)'
  <2>1. dir[j] = "partial"
    BY <1>4, <1>7 DEF OthersStay
  <2>2. PICK w \in Caller : /\ key[w] = j
                            /\ \/ step[w] \in {"crashed", "tornBehind"}
                               \/ /\ step[w] = "copy"
                                  /\ handle[w].linked = TRUE /\ handle[w].cut = FALSE
    BY <2>1 DEF Inv, FilesInv, TornHaveWriters, HasItsWriter
  <2>3. w # u
    BY <1>2, <1>3, <1>4, <1>7, <2>2
  <2> QED
    BY <1>2, <1>4, <2>2, <2>3 DEF HasItsWriter
<1>8. TornHaveWriters'
  BY <1>7 DEF TornHaveWriters
<1>9. GoneWereRemoved'
  <2> SUFFICES ASSUME NEW j \in Key, NEW w \in Caller, dir'[j] = "absent", key[w] = j,
                      step'[w] \in Writers
               PROVE  Removed(j)'
    BY DEF GoneWereRemoved
  <2>1. dir[j] = "absent" /\ step[w] \in Writers
    BY <1>2, <1>4 DEF OthersStay, Writers
  <2> QED
    BY <1>6, <2>1 DEF Inv, FilesInv, GoneWereRemoved
<1>10. FilesHaveOwners'
  <2> SUFFICES ASSUME NEW j \in Key, dir'[j] # "absent" PROVE Owned(j)'
    BY DEF FilesHaveOwners
  <2>1. CASE j = k
    BY <1>2, <1>3, <2>1 DEF Owned, Writers
  <2>2. CASE j # k
    BY <1>4, <1>6, <2>2 DEF Inv, FilesInv, FilesHaveOwners, OthersStay
  <2> QED
    BY <2>1, <2>2
<1> QED
  BY <1>4, <1>5, <1>8, <1>9, <1>10 DEF FilesInv

(* The path of k is gone, because u failed or cleaned up.                  *)
LEMMA RemovalStep ==
  ASSUME Inv, NEW u \in Caller, NEW k \in Key, key[u] = k, key' = key,
         dir'[k] = "absent", OthersStay(k), step'[u] \in Removers,
         step[u] \in Writers,
         \A w \in Caller : w # u => /\ step'[w] = step[w]
                                    /\ handle'[w].key = handle[w].key
                                    /\ handle[w].key # k => handle'[w] = handle[w]
  PROVE  FilesInv'
<1>1. HandlesFit'
  BY DEF Inv, FilesInv, HandlesFit, Keyed, Removers
<1>2. Removed(k)'
  BY DEF Removed
<1>3. ASSUME NEW j \in Key, j # k
      PROVE  /\ HasItsWriter(j) => HasItsWriter(j)'
             /\ Removed(j) => Removed(j)'
             /\ Owned(j) => Owned(j)'
  <2>1. ASSUME NEW w \in Caller, key[w] = j, step[w] = "copy" PROVE handle'[w] = handle[w]
    BY <1>3, <2>1 DEF Inv, FilesInv, HandlesFit
  <2>2. HasItsWriter(j) => HasItsWriter(j)'
    BY <1>3, <2>1 DEF HasItsWriter
  <2> QED
    BY <1>3, <2>2 DEF Removed, Owned
<1>4. TornHaveWriters'
  BY <1>3 DEF Inv, FilesInv, TornHaveWriters, OthersStay
<1>5. GoneWereRemoved'
  <2> SUFFICES ASSUME NEW j \in Key, NEW w \in Caller, dir'[j] = "absent", key[w] = j,
                      step'[w] \in Writers, j # k
               PROVE  Removed(j)'
    BY <1>2 DEF GoneWereRemoved
  <2>1. w # u /\ dir[j] = "absent" /\ step[w] \in Writers
    BY DEF OthersStay
  <2> QED
    BY <1>3, <2>1 DEF Inv, FilesInv, GoneWereRemoved
<1>6. FilesHaveOwners'
  BY <1>3 DEF Inv, FilesInv, FilesHaveOwners, OthersStay
<1> QED
  BY <1>1, <1>4, <1>5, <1>6 DEF FilesInv

(* The path of k stays, although u failed.                                 *)
LEMMA RemainsStep ==
  ASSUME Inv, NEW u \in Caller, NEW k \in Key, key[u] = k, key' = key, dir' = dir,
         step[u] = "copy", step'[u] = "tornBehind",
         \A w \in Caller : w # u => step'[w] = step[w] /\ handle'[w] = handle[w]
  PROVE  FilesInv'
<1>1. HandlesFit'
  BY DEF Inv, FilesInv, HandlesFit, Keyed
<1>2. ASSUME NEW j \in Key
      PROVE  /\ HasItsWriter(j) => HasItsWriter(j)'
             /\ Removed(j) => Removed(j)'
             /\ Owned(j) => Owned(j)'
  <2>1. HasItsWriter(j) => HasItsWriter(j)'
    BY DEF HasItsWriter
  <2>2. Removed(j) => Removed(j)'
    BY DEF Removed, Removers
  <2>3. Owned(j) => Owned(j)'
    BY DEF Owned, Writers
  <2> QED
    BY <2>1, <2>2, <2>3
<1>3. TornHaveWriters' /\ FilesHaveOwners'
  BY <1>2 DEF Inv, FilesInv, TornHaveWriters, FilesHaveOwners
<1>4. GoneWereRemoved'
  <2>1. \A w \in Caller : step'[w] \in Writers => step[w] \in Writers
    BY DEF Writers
  <2> QED
    BY <1>2, <2>1 DEF Inv, FilesInv, GoneWereRemoved
<1> QED
  BY <1>1, <1>3, <1>4 DEF FilesInv

(* What is left to show of a step of an upload.                            *)
LEMMA UploadStep ==
  ASSUME Inv, NEW u \in Caller, UNCHANGED verification, StorageTypeOK', FilesInv',
         step' \in [Caller -> AllSteps], key' \in [Caller -> Key \cup {NoKey}],
         \A w \in Caller : (handle'[w] # Closed) <=> (step'[w] = "copy")
  PROVE  Inv'
<1>1. TypeOK'
  BY DEF Inv, TypeOK, verification, AllSteps
<1>2. VerdictsCount'
  BY DEF Inv, VerdictsCount, verification
<1> QED
  BY <1>1, <1>2 DEF Inv

(* A move that neither opens nor removes a file.                           *)
QuietMove(from, to) ==
  /\ to \in AllSteps \ {"copy"}
  /\ from \notin Removers \cup {"copy", "crashed", "tornBehind"}
  /\ from \in Writers <=> to \in Writers

LEMMA QuietMoves ==
  /\ QuietMove("idle", "scan") /\ QuietMove("idle", "refused")
  /\ QuietMove("scan", "process") /\ QuietMove("scan", "refused")
  /\ QuietMove("process", "put") /\ QuietMove("process", "refused")
  /\ QuietMove("put", "refused")
  /\ QuietMove("insert", "stored") /\ QuietMove("insert", "cleanup")
  /\ QuietMove("cleanup", "leftBehind")
BY DEF QuietMove, AllSteps, Running, Ended, Removers, Writers

LEMMA UploadQuietly ==
  ASSUME Inv, NEW u \in Caller, NEW from, NEW to, QuietMove(from, to), Goes(u, from, to),
         UNCHANGED <<dir, handle, verification>>,
         key' \in [Caller -> Key \cup {NoKey}],
         \A w \in Caller : w # u => key'[w] = key[w],
         to \in Keyed => key'[u] \in Key,
         from \in Writers => key'[u] = key[u]
  PROVE  Inv'
<1>1. TypeOK /\ StorageTypeOK /\ to \in AllSteps
  BY DEF Inv, TypeOK, QuietMove
<1>2. /\ step' \in [Caller -> AllSteps]
      /\ step[u] = from /\ step'[u] = to
      /\ \A w \in Caller : w # u => step'[w] = step[w]
  BY <1>1, StepChanges
<1>3. FilesInv'
  <2>1. step[u] \notin Removers \cup {"copy", "crashed", "tornBehind"} /\ step'[u] # "copy"
    BY <1>2 DEF QuietMove
  <2>2. step[u] \in Writers <=> step'[u] \in Writers
    BY <1>2 DEF QuietMove
  <2> QED
    BY <1>2, <2>1, <2>2, QuietStep
<1>4. StorageTypeOK'
  BY <1>1 DEF StorageTypeOK
<1>5. \A w \in Caller : (handle'[w] # Closed) <=> (step'[w] = "copy")
  BY <1>1, <1>2 DEF TypeOK, QuietMove
<1> QED
  BY <1>2, <1>3, <1>4, <1>5, UploadStep

(* The same when it knows its key, or has none yet.                        *)
LEMMA UploadMoves ==
  ASSUME Inv, NEW u \in Caller, NEW from, NEW to, QuietMove(from, to), Goes(u, from, to),
         UNCHANGED <<dir, handle, key, verification>>,
         from \in Keyed \/ to \notin Keyed
  PROVE  Inv'
<1>1. TypeOK /\ step[u] = from
  BY DEF Inv, Goes
<1>2. to \in Keyed => key'[u] \in Key
  BY <1>1 DEF Inv, FilesInv, HandlesFit
<1>3. key' \in [Caller -> Key \cup {NoKey}]
  BY <1>1 DEF TypeOK
<1> QED
  BY <1>2, <1>3, UploadQuietly

(* The upload is still before its Put, and ends, or takes its next step.   *)
LEMMA BeforePutInv ==
  ASSUME Inv, NEW u \in Caller, Receive(u) \/ Scan(u) \/ Process(u)
  PROVE  Inv'
<1>1. CASE Receive(u)
  <2>1. "scan" \notin Keyed /\ "refused" \notin Keyed
    BY DEF Keyed
  <2>2. UNCHANGED <<dir, handle, key, verification>>
    BY <1>1 DEF Receive
  <2>3. CASE Goes(u, "idle", "scan")
    BY <2>1, <2>2, <2>3, QuietMoves, UploadMoves
  <2>4. CASE Goes(u, "idle", "refused")
    BY <2>1, <2>2, <2>4, QuietMoves, UploadMoves
  <2> QED
    BY <1>1, <2>3, <2>4 DEF Receive
<1>2. CASE Scan(u)
  <2>1. "process" \notin Keyed /\ "refused" \notin Keyed
    BY DEF Keyed
  <2>2. UNCHANGED <<dir, handle, key, verification>>
    BY <1>2 DEF Scan
  <2>3. CASE Goes(u, "scan", "process")
    BY <2>1, <2>2, <2>3, QuietMoves, UploadMoves
  <2>4. CASE Goes(u, "scan", "refused")
    BY <2>1, <2>2, <2>4, QuietMoves, UploadMoves
  <2> QED
    BY <1>2, <2>3, <2>4 DEF Scan
<1>3. CASE Process(u)
  <2>1. UNCHANGED <<dir, handle, verification>>
    BY <1>3 DEF Process
  <2>2. CASE Goes(u, "process", "put") /\ \E k \in Key : key' = [key EXCEPT ![u] = k]
    <3>1. /\ key' \in [Caller -> Key \cup {NoKey}]
          /\ key'[u] \in Key
          /\ \A w \in Caller : w # u => key'[w] = key[w]
      BY <2>2 DEF Inv, TypeOK
    <3>2. "process" \notin Writers
      BY DEF Writers
    <3> QED
      BY <2>1, <2>2, <3>1, <3>2, QuietMoves, UploadQuietly
  <2>3. CASE Goes(u, "process", "refused") /\ UNCHANGED key
    <3>1. "refused" \notin Keyed
      BY DEF Keyed
    <3> QED
      BY <2>1, <2>3, <3>1, QuietMoves, UploadMoves
  <2> QED
    BY <1>3, <2>2, <2>3 DEF Process
<1> QED
  BY <1>1, <1>2, <1>3

(* The other writers of a path have a file open as before.                 *)
LEMMA OthersKeepOpen ==
  ASSUME Inv, StorageTypeOK', NEW w \in Caller, NEW k \in Key, step'[w] = step[w],
         handle'[w].key = handle[w].key, handle[w].key # k => handle'[w] = handle[w]
  PROVE  (handle'[w] # Closed) <=> (step'[w] = "copy")
<1>1. CASE step[w] = "copy"
  <2>1. handle[w].key = key[w] /\ key[w] \in Key
    BY <1>1 DEF Inv, FilesInv, HandlesFit, Keyed
  <2> QED
    BY <1>1, <2>1, ClosedIsClosed DEF StorageTypeOK
<1>2. CASE step[w] # "copy"
  <2>1. handle[w] = Closed /\ handle[w].key # k
    BY <1>2, ClosedIsClosed DEF Inv, TypeOK
  <2> QED
    BY <1>2, <2>1
<1> QED
  BY <1>1, <1>2

LEMMA PutInv ==
  ASSUME Inv, NEW u \in Caller, Put(u)
  PROVE  Inv'
<1>1. UNCHANGED <<key, verification>> /\ TypeOK
  BY DEF Put, Inv
<1>2. CASE Goes(u, "put", "copy") /\ Create(u, key[u])
  <2>1. FilesInv' /\ StorageTypeOK'
    BY <1>1, <1>2, PutStep
  <2>2. "copy" \in AllSteps
    BY DEF AllSteps, Running
  <2>3. /\ step' \in [Caller -> AllSteps]
        /\ step[u] = "put" /\ step'[u] = "copy"
        /\ \A w \in Caller : w # u => step'[w] = step[w]
    BY <1>1, <1>2, <2>2, StepChanges
  <2>4. PICK k \in Key : k = key[u]
    BY <2>3 DEF Inv, FilesInv, HandlesFit, Keyed
  <2>5. Create(u, k) /\ StorageTypeOK
    BY <1>1, <1>2, <2>4 DEF TypeOK
  <2>6. /\ handle'[u].key = k
        /\ \A d \in Caller : d # u => /\ handle'[d].key = handle[d].key
                                      /\ handle[d].key # k => handle'[d] = handle[d]
    BY <2>5, CreateEffect
  <2>7. handle'[u] # Closed
    BY <2>1, <2>6, ClosedIsClosed DEF StorageTypeOK
  <2>8. ASSUME NEW w \in Caller, w # u PROVE (handle'[w] # Closed) <=> (step'[w] = "copy")
    BY <2>1, <2>3, <2>6, <2>8, OthersKeepOpen
  <2>9. \A w \in Caller : (handle'[w] # Closed) <=> (step'[w] = "copy")
    BY <2>3, <2>7, <2>8
  <2> QED
    BY <1>1, <2>1, <2>3, <2>9, UploadStep DEF TypeOK
<1>3. CASE Goes(u, "put", "refused") /\ UNCHANGED <<dir, handle>>
  <2>1. "put" \in Keyed
    BY DEF Keyed
  <2> QED
    BY <1>1, <1>3, <2>1, QuietMoves, UploadMoves
<1> QED
  BY <1>2, <1>3 DEF Put

LEMMA CopyInv ==
  ASSUME Inv, NEW u \in Caller, Copy(u)
  PROVE  Inv'
<1>1. UNCHANGED <<key, verification>> /\ Goes(u, "copy", "insert") /\ Finish(u, TRUE)
  BY DEF Copy
<1>2. FilesInv' /\ StorageTypeOK' /\ handle'[u] = Closed
  BY <1>1, CopyStep
<1>3. TypeOK /\ "insert" \in AllSteps
  BY DEF Inv, AllSteps, Running
<1>4. /\ step' \in [Caller -> AllSteps]
      /\ step[u] = "copy" /\ step'[u] = "insert"
      /\ \A w \in Caller : w # u => step'[w] = step[w]
  BY <1>1, <1>3, StepChanges
<1>5. \A w \in Caller : w # u => handle'[w] = handle[w]
  BY <1>1, <1>3 DEF Finish, TypeOK, StorageTypeOK
<1>6. \A w \in Caller : (handle'[w] # Closed) <=> (step'[w] = "copy")
  BY <1>2, <1>3, <1>4, <1>5 DEF TypeOK
<1> QED
  BY <1>1, <1>2, <1>3, <1>4, <1>6, UploadStep DEF TypeOK

LEMMA CopyErrorInv ==
  ASSUME Inv, NEW u \in Caller, CopyError(u)
  PROVE  Inv'
<1>1. PICK removed \in BOOLEAN :
        Goes(u, "copy", AfterCopyError(removed)) /\ CopyFails(u, removed)
  BY DEF CopyError
<1> DEFINE to == AfterCopyError(removed)
<1>2. /\ UNCHANGED <<key, verification>> /\ TypeOK /\ StorageTypeOK
      /\ to \in AllSteps /\ to # "copy"
      /\ removed = TRUE => to = "copyFailed"
      /\ removed = FALSE => to = "tornBehind"
  BY DEF CopyError, AfterCopyError, Inv, TypeOK, AllSteps, Ended
<1> HIDE DEF to
<1>3. /\ step' \in [Caller -> AllSteps]
      /\ step[u] = "copy" /\ step'[u] = to
      /\ \A w \in Caller : w # u => step'[w] = step[w]
  BY <1>1, <1>2, StepChanges DEF to
<1>4. PICK k \in Key : k = key[u] /\ handle[u].key = k
  BY <1>3 DEF Inv, FilesInv, HandlesFit, Keyed
<1>5. /\ StorageTypeOK'
      /\ OthersStay(k)
      /\ removed = TRUE => dir'[k] = "absent"
      /\ removed = FALSE => dir' = dir
      /\ handle'[u] = Closed
      /\ \A d \in Caller : d # u =>
           /\ handle'[d].key = handle[d].key
           /\ handle[d].key # k => handle'[d] = handle[d]
           /\ removed = FALSE => handle'[d] = handle[d]
  BY <1>1, <1>2, <1>4, CopyFailsEffect
<1>6. FilesInv'
  <2>1. CASE removed = TRUE
    BY <1>2, <1>3, <1>4, <1>5, <2>1, RemovalStep DEF Removers, Writers
  <2>2. CASE removed = FALSE
    BY <1>2, <1>3, <1>4, <1>5, <2>2, RemainsStep
  <2> QED
    BY <2>1, <2>2
<1>7. ASSUME NEW w \in Caller, w # u PROVE (handle'[w] # Closed) <=> (step'[w] = "copy")
  BY <1>3, <1>5, <1>7, OthersKeepOpen
<1>8. \A w \in Caller : (handle'[w] # Closed) <=> (step'[w] = "copy")
  BY <1>2, <1>3, <1>5, <1>7
<1> QED
  BY <1>2, <1>3, <1>5, <1>6, <1>8, UploadStep DEF TypeOK

LEMMA InsertInv ==
  ASSUME Inv, NEW u \in Caller, Insert(u)
  PROVE  Inv'
<1>1. UNCHANGED <<dir, handle, key, verification>> /\ "insert" \in Keyed
  BY DEF Insert, Keyed
<1>2. CASE Goes(u, "insert", "stored")
  BY <1>1, <1>2, QuietMoves, UploadMoves
<1>3. CASE Goes(u, "insert", "cleanup")
  BY <1>1, <1>3, QuietMoves, UploadMoves
<1> QED
  BY <1>2, <1>3 DEF Insert, AfterInsertError

LEMMA CleanupInv ==
  ASSUME Inv, NEW u \in Caller, Cleanup(u)
  PROVE  Inv'
<1>1. UNCHANGED <<key, verification>> /\ TypeOK /\ StorageTypeOK /\ step[u] = "cleanup"
  BY DEF Cleanup, Inv, TypeOK, Goes
<1>2. PICK k \in Key : k = key[u]
  BY <1>1 DEF Inv, FilesInv, HandlesFit, Keyed
<1>3. CASE Goes(u, "cleanup", "cleaned") /\ Delete(key[u])
  <2>1. "cleaned" \in AllSteps
    BY DEF AllSteps, Ended
  <2>2. /\ step' \in [Caller -> AllSteps]
        /\ step'[u] = "cleaned"
        /\ \A w \in Caller : w # u => step'[w] = step[w]
    BY <1>1, <1>3, <2>1, StepChanges
  <2>3. /\ StorageTypeOK'
        /\ dir'[k] = "absent" /\ OthersStay(k)
        /\ \A d \in Caller : /\ handle'[d].key = handle[d].key
                             /\ handle[d].key # k => handle'[d] = handle[d]
    BY <1>1, <1>2, <1>3, DeleteEffect
  <2>4. FilesInv'
    BY <1>1, <1>2, <2>2, <2>3, RemovalStep DEF Removers, Writers
  <2>5. ASSUME NEW w \in Caller, w # u PROVE (handle'[w] # Closed) <=> (step'[w] = "copy")
    BY <2>2, <2>3, <2>5, OthersKeepOpen
  <2>6. handle'[u] = Closed
    <3>1. handle[u] = Closed /\ handle[u].key # k
      BY <1>1, ClosedIsClosed DEF TypeOK
    <3> QED
      BY <2>3, <3>1
  <2>7. \A w \in Caller : (handle'[w] # Closed) <=> (step'[w] = "copy")
    BY <2>2, <2>5, <2>6
  <2> QED
    BY <1>1, <2>2, <2>3, <2>4, <2>7, UploadStep DEF TypeOK
<1>4. CASE Goes(u, "cleanup", "leftBehind") /\ UNCHANGED <<dir, handle>>
  <2>1. "cleanup" \in Keyed
    BY DEF Keyed
  <2> QED
    BY <1>1, <1>4, <2>1, QuietMoves, UploadMoves
<1> QED
  BY <1>3, <1>4 DEF Cleanup

-----------------------------------------------------------------------------
(* Verify, and the end of the process.                                     *)

LEMMA FilesStay ==
  ASSUME FilesInv, UNCHANGED <<dir, handle, step, key>>
  PROVE  FilesInv'
BY DEF FilesInv, HandlesFit, TornHaveWriters, HasItsWriter, GoneWereRemoved, Removed,
       FilesHaveOwners, Owned

LEMMA VerifyReadInv ==
  ASSUME Inv, NEW c \in Verifier, NEW u \in Caller, VerifyRead(c, u)
  PROVE  Inv'
<1>1. UNCHANGED <<dir, handle, step, key, status>> /\ TypeOK /\ VerdictsCount
  BY DEF VerifyRead, Inv
<1> DEFINE late == \E d \in Verifier : verifying[d].step = "verified" /\ verifying[d].row = u
<1>2. late = FALSE
  BY <1>1 DEF VerifyRead, VerdictsCount, Verifiable
<1>3. PICK verdict \in {"VERIFIED", "REJECTED"} :
        verifying' = [verifying EXCEPT ![c] = [step |-> "save", row |-> u,
                                               verdict |-> verdict, late |-> late]]
  BY DEF VerifyRead
<1> DEFINE row == [step |-> "save", row |-> u, verdict |-> verdict, late |-> late]
<1>4. row \in Verification /\ row.step = "save" /\ row.late = FALSE
  BY <1>2 DEF Verification
<1> HIDE DEF late, row
<1>5. verifying' = [verifying EXCEPT ![c] = row]
  BY <1>3 DEF row
<1>6. /\ verifying' \in [Verifier -> Verification \cup {[step |-> "idle"]}]
      /\ verifying'[c] = row
      /\ \A d \in Verifier : d # c => verifying'[d] = verifying[d]
  BY <1>1, <1>4, <1>5 DEF TypeOK
<1>7. TypeOK'
  BY <1>1, <1>6 DEF TypeOK, StorageTypeOK
<1>8. VerdictsCount'
  BY <1>1, <1>4, <1>6 DEF VerdictsCount
<1> QED
  BY <1>1, <1>7, <1>8, FilesStay DEF Inv

LEMMA VerifySaveInv ==
  ASSUME Inv, NEW c \in Verifier, VerifySave(c)
  PROVE  Inv'
<1>1. /\ UNCHANGED <<dir, handle, step, key>> /\ TypeOK /\ VerdictsCount
      /\ verifying[c].step = "save"
  BY DEF VerifySave, Inv
<1>2. verifying[c] \in Verification
  BY <1>1 DEF TypeOK
<1>3. ASSUME NEW to \in {"verified", "failed"},
             verifying' = [verifying EXCEPT ![c].step = to]
      PROVE  /\ verifying' \in [Verifier -> Verification \cup {[step |-> "idle"]}]
             /\ verifying'[c].step = to
             /\ verifying'[c].row = verifying[c].row
             /\ verifying'[c].late = verifying[c].late
             /\ \A d \in Verifier : d # c => verifying'[d] = verifying[d]
  <2> DEFINE row == [verifying[c] EXCEPT !.step = to]
  <2>1. /\ row \in Verification
        /\ row.step = to
        /\ row.row = verifying[c].row
        /\ row.late = verifying[c].late
    BY <1>2 DEF Verification
  <2> HIDE DEF row
  <2>2. verifying' = [verifying EXCEPT ![c] = row]
    BY <1>1, <1>3 DEF TypeOK, row
  <2> QED
    BY <1>1, <2>1, <2>2 DEF TypeOK
<1>4. CASE /\ status' = [status EXCEPT ![verifying[c].row] = verifying[c].verdict]
           /\ verifying' = [verifying EXCEPT ![c].step = "verified"]
  <2>1. PICK u \in Caller : u = verifying[c].row
    BY <1>2 DEF Verification
  <2>2. PICK verdict \in {"VERIFIED", "REJECTED"} : verdict = verifying[c].verdict
    BY <1>2 DEF Verification
  <2>3. status' = [status EXCEPT ![u] = verdict]
    BY <1>4, <2>1, <2>2
  <2>4. /\ status' \in [Caller -> {"PENDING", "VERIFIED", "REJECTED"}]
        /\ status'[u] # "PENDING"
        /\ \A w \in Caller : status[w] # "PENDING" => status'[w] # "PENDING"
    BY <1>1, <2>3 DEF TypeOK
  <2>5. /\ verifying' \in [Verifier -> Verification \cup {[step |-> "idle"]}]
        /\ verifying'[c].row = u
        /\ verifying'[c].late = verifying[c].late
        /\ \A d \in Verifier : d # c => verifying'[d] = verifying[d]
    BY <1>3, <1>4, <2>1
  <2>6. TypeOK'
    BY <1>1, <2>4, <2>5 DEF TypeOK, StorageTypeOK
  <2>7. \A d \in Verifier : verifying[d].step # "idle" => verifying[d].row \in Caller
    BY <1>1 DEF TypeOK, Verification
  <2>8. VerdictsCount'
    BY <1>1, <2>4, <2>5, <2>7 DEF VerdictsCount
  <2> QED
    BY <1>1, <2>6, <2>8, FilesStay DEF Inv
<1>5. CASE verifying' = [verifying EXCEPT ![c].step = "failed"] /\ UNCHANGED status
  <2>1. /\ verifying' \in [Verifier -> Verification \cup {[step |-> "idle"]}]
        /\ verifying'[c].step = "failed"
        /\ verifying'[c].late = verifying[c].late
        /\ \A d \in Verifier : d # c => verifying'[d] = verifying[d]
    BY <1>3, <1>5
  <2>2. TypeOK'
    BY <1>1, <1>5, <2>1 DEF TypeOK, StorageTypeOK
  <2>3. VerdictsCount'
    BY <1>1, <1>5, <2>1 DEF VerdictsCount
  <2> QED
    BY <1>1, <2>2, <2>3, FilesStay DEF Inv
<1> QED
  BY <1>4, <1>5 DEF VerifySave

LEMMA CrashInv ==
  ASSUME Inv, Crash
  PROVE  Inv'
<1>1. TypeOK /\ FilesInv /\ VerdictsCount /\ UNCHANGED <<dir, key, status>>
  BY DEF Inv, Crash
<1>2. /\ step' \in [Caller -> AllSteps]
      /\ \A u \in Caller : step'[u] = IF step[u] \in Running THEN "crashed" ELSE step[u]
  BY <1>1 DEF Crash, TypeOK, AllSteps, Ended
<1>3. handle' \in [Caller -> Handle] /\ \A u \in Caller : handle'[u] = Closed
  BY ClosedIsClosed DEF Crash, AllClosed
<1>4. ASSUME NEW c \in Verifier
      PROVE  /\ verifying'[c] \in Verification \cup {[step |-> "idle"]}
             /\ \/ verifying'[c] = verifying[c]
                \/ /\ verifying[c].step = "save" /\ verifying'[c].step = "failed"
                   /\ verifying'[c].late = verifying[c].late
  <2>1. verifying'[c] = IF verifying[c].step = "save"
                        THEN [verifying[c] EXCEPT !.step = "failed"] ELSE verifying[c]
    BY DEF Crash
  <2>2. verifying[c] \in Verification \cup {[step |-> "idle"]}
    BY <1>1 DEF TypeOK
  <2>3. CASE verifying[c].step = "save"
    BY <2>1, <2>2, <2>3 DEF Verification
  <2>4. CASE verifying[c].step # "save"
    BY <2>1, <2>2, <2>4
  <2> QED
    BY <2>3, <2>4
<1>5. TypeOK'
  <2>1. verifying' \in [Verifier -> Verification \cup {[step |-> "idle"]}]
    <3>1. verifying' = [c \in Verifier |-> verifying'[c]]
      BY DEF Crash
    <3> QED
      BY <1>4, <3>1
  <2>2. \A u \in Caller : (handle'[u] # Closed) <=> (step'[u] = "copy")
    BY <1>2, <1>3 DEF Running
  <2> QED
    BY <1>1, <1>2, <1>3, <2>1, <2>2 DEF TypeOK, StorageTypeOK, AllSteps
<1>6. VerdictsCount'
  BY <1>1, <1>4 DEF VerdictsCount
<1>7. FilesInv'
  <2>1. HandlesFit'
    BY <1>1, <1>2 DEF FilesInv, HandlesFit, Keyed, Running
  <2>2. \A k \in Key : HasItsWriter(k) => HasItsWriter(k)'
    BY <1>1, <1>2 DEF HasItsWriter, Running
  <2>3. \A k \in Key : Removed(k) => Removed(k)'
    BY <1>1, <1>2 DEF Removed, Removers, Running
  <2>4. \A k \in Key : Owned(k) => Owned(k)'
    BY <1>1, <1>2 DEF Owned, Writers
  <2>5. TornHaveWriters'
    BY <1>1, <2>2 DEF FilesInv, TornHaveWriters
  <2>6. \A u \in Caller : step'[u] \in Writers => step[u] \in Writers
    BY <1>2 DEF Writers
  <2>7. GoneWereRemoved'
    BY <1>1, <2>3, <2>6 DEF FilesInv, GoneWereRemoved
  <2>8. FilesHaveOwners'
    BY <1>1, <2>4 DEF FilesInv, FilesHaveOwners
  <2> QED
    BY <2>1, <2>5, <2>7, <2>8 DEF FilesInv
<1> QED
  BY <1>5, <1>6, <1>7 DEF Inv

LEMMA InitInv == Init => Inv
<1> SUFFICES ASSUME Init PROVE Inv
  OBVIOUS
<1>1. StorageTypeOK
  BY ClosedIsClosed DEF Init, StorageTypeOK, EmptyDir, AllClosed, FileState
<1>2. \A u \in Caller : handle[u] = Closed /\ step[u] = "idle"
  BY DEF Init, AllClosed
<1>3. TypeOK
  BY <1>1, <1>2 DEF Init, TypeOK
<1>4. FilesInv
  BY <1>2 DEF Init, EmptyDir, FilesInv, HandlesFit, TornHaveWriters, GoneWereRemoved,
              FilesHaveOwners, Keyed, Writers
<1>5. VerdictsCount
  BY DEF Init, VerdictsCount
<1> QED
  BY <1>3, <1>4, <1>5 DEF Inv

LEMMA StepInv ==
  ASSUME Inv, [Next]_vars
  PROVE  Inv'
<1>1. CASE UNCHANGED vars
  <2>1. TypeOK' /\ VerdictsCount'
    BY <1>1 DEF vars, Inv, TypeOK, StorageTypeOK, VerdictsCount
  <2> QED
    BY <1>1, <2>1, FilesStay DEF vars, Inv
<1> QED
  BY <1>1, BeforePutInv, PutInv, CopyInv, CopyErrorInv, InsertInv, CleanupInv,
     VerifyReadInv, VerifySaveInv, CrashInv DEF Next

LEMMA InvAlways == Spec => []Inv
<1>1. Inv /\ [Next]_vars => Inv'
  BY StepInv
<1> QED
  BY <1>1, InitInv, PTL DEF Spec

-----------------------------------------------------------------------------
(* Types; and a file is open exactly while its upload is copying, so none  *)
(* is left open by an error or by the end of the process.                  *)
THEOREM UploadsAreTyped == Spec => []TypeOK
BY InvAlways, PTL DEF Inv

(* The row of an upload has its file, whole, unless another upload of the  *)
(* same content writes it again or has ended badly: no number of uploads   *)
(* that truncate and remove each other's file can do it otherwise.         *)
THEOREM RowsKeepTheirFile == Spec => []RowsHaveTheirFile
<1>1. Inv => RowsHaveTheirFile
  <2> SUFFICES ASSUME Inv, NEW u \in Caller, step[u] = "stored", dir[key[u]] # "whole"
               PROVE  \E w \in Caller \ {u} :
                        /\ key[w] = key[u]
                        /\ step[w] \in {"copy", "copyFailed", "tornBehind", "cleaned",
                                        "crashed"}
    BY DEF RowsHaveTheirFile
  <2>1. PICK k \in Key : k = key[u]
    BY DEF Inv, FilesInv, HandlesFit, Keyed
  <2>2. dir[k] \in {"absent", "partial"}
    BY <2>1 DEF Inv, TypeOK, StorageTypeOK, FileState
  <2>3. CASE dir[k] = "partial"
    BY <2>1, <2>3 DEF Inv, FilesInv, TornHaveWriters, HasItsWriter
  <2>4. CASE dir[k] = "absent"
    <3>1. Removed(k)
      BY <2>1, <2>4 DEF Inv, FilesInv, GoneWereRemoved, Writers
    <3> QED
      BY <2>1, <3>1 DEF Removed, Removers
  <2> QED
    BY <2>2, <2>3, <2>4
<1> QED
  BY <1>1, InvAlways, PTL

(* Every file that is not whole is being written, or its writer crashed,   *)
(* or failed and could not remove it: uploads whose steps all succeed, or  *)
(* whose Put fails and removes its target, never leave half a file behind, *)
(* however many of them write to, truncate and unlink the same path.       *)
THEOREM TornAreExplained == Spec => []TornFilesAreExplained
<1>1. Inv => TornFilesAreExplained
  BY DEF Inv, FilesInv, TornHaveWriters, HasItsWriter, TornFilesAreExplained
<1> QED
  BY <1>1, InvAlways, PTL

(* Once no upload runs, every file has a row, or is left over from a crash *)
(* or a removal that failed.                                               *)
THEOREM LeftoversHaveCauses == Spec => []LeftoversAreExplained
<1>1. Inv => LeftoversAreExplained
  <2> SUFFICES ASSUME Inv, \A u \in Caller : step[u] \notin Running, NEW k \in Key, Exists(k)
               PROVE  \E u \in Caller :
                        /\ key[u] = k
                        /\ step[u] \in {"stored", "leftBehind", "tornBehind", "crashed"}
    BY DEF LeftoversAreExplained
  <2>1. Owned(k)
    BY DEF Inv, FilesInv, FilesHaveOwners, Exists
  <2> QED
    BY <2>1 DEF Owned, Writers, Running
<1> QED
  BY <1>1, InvAlways, PTL

(* Whoever reads a row after a verdict on it was saved does not get to     *)
(* give another one.                                                       *)
THEOREM VerdictsAreFinal == Spec => []VerdictsOverlap
<1>1. Inv => VerdictsOverlap
  BY DEF Inv, VerdictsCount, VerdictsOverlap
<1> QED
  BY <1>1, InvAlways, PTL
=============================================================================
