------------------------------ MODULE Uploads ------------------------------
(***************************************************************************)
(* FileServiceV2.UploadQualificationFile over LocalStorage: a file is      *)
(* scanned, processed, put under a key made of the hash of its content,    *)
(* and then its row is inserted.  Uploads of one content by one vendor on  *)
(* one day share the key, and with it the file, although each has a row.   *)
(*                                                                         *)
(* A caller is one upload; its row exists once its step is "stored".  From *)
(* then on QualificationService.Verify may read and save the row.  Its     *)
(* Delete is left out: the router gives its binder no vendor_id, so every  *)
(* request for it ends in an error.                                        *)
(***************************************************************************)
EXTENDS LocalStorage

CONSTANT Verifier   \* calls of Verify

VARIABLES
  step,      \* what each upload does next, or how it ended
  key,       \* the key it computed
  status,    \* the status of its row
  verifying  \* each Verify: its next step, its row and its verdict

vars == <<dir, handle, step, key, status, verifying>>

Running == {"scan", "process", "put", "copy", "insert", "cleanup"}

Ended == {"stored",       \* the row is inserted
          "refused",      \* an error before anything was stored
          "copyFailed",   \* Put failed half-way and removed the target
          "tornBehind",   \* Put failed half-way and could not remove it
          "cleaned",      \* the insert failed and the file was deleted
          "leftBehind",   \* the insert failed and so did the Delete
          "crashed"}      \* the process stopped during the upload

verification == <<status, verifying>>

Goes(u, from, to) == step[u] = from /\ step' = [step EXCEPT ![u] = to]

-----------------------------------------------------------------------------
Init ==
  /\ dir = EmptyDir
  /\ handle = AllClosed
  /\ step = [u \in Caller |-> "idle"]
  /\ key = [u \in Caller |-> NoKey]
  /\ status = [u \in Caller |-> "PENDING"]
  /\ verifying = [c \in Verifier |-> [step |-> "idle"]]

(* The vendor is looked up, size, extension and type are checked, and the  *)
(* file is copied to a temporary one: any of it may end the upload.        *)
Receive(u) ==
  /\ Goes(u, "idle", "scan") \/ Goes(u, "idle", "refused")
  /\ UNCHANGED <<dir, handle, key, verification>>

(* Skipped, clean (or degraded) and the upload goes on; infected or an     *)
(* error and it ends.                                                      *)
Scan(u) ==
  /\ Goes(u, "scan", "process") \/ Goes(u, "scan", "refused")
  /\ UNCHANGED <<dir, handle, key, verification>>

(* Cropping may fail.  The key names the processed content.                *)
Process(u) ==
  /\ \/ /\ Goes(u, "process", "put")
        /\ \E k \in Key : key' = [key EXCEPT ![u] = k]
     \/ Goes(u, "process", "refused") /\ UNCHANGED key
  /\ UNCHANGED <<dir, handle, verification>>

(* storage.Put: the request may be over, or the file cannot be created.    *)
Put(u) ==
  /\ \/ Goes(u, "put", "copy") /\ Create(u, key[u])
     \/ Goes(u, "put", "refused") /\ UNCHANGED <<dir, handle>>
  /\ UNCHANGED <<key, verification>>

Copy(u) ==
  /\ Goes(u, "copy", "insert") /\ Finish(u, TRUE)
  /\ UNCHANGED <<key, verification>>

InsertAnyway(removed) == "insert"        \* mutant: the error of Put is not looked at

AfterCopyError(removed) == IF removed THEN "copyFailed" ELSE "tornBehind"

CopyError(u) ==
  /\ \E removed \in BOOLEAN :
       Goes(u, "copy", AfterCopyError(removed)) /\ CopyFails(u, removed)
  /\ UNCHANGED <<key, verification>>

NoCleanup == "cleaned"                   \* mutant: the file of a failed insert stays

AfterInsertError == "cleanup"

Insert(u) ==
  /\ Goes(u, "insert", "stored") \/ Goes(u, "insert", AfterInsertError)
  /\ UNCHANGED <<dir, handle, key, verification>>

(* The error of this Delete is ignored.                                    *)
Cleanup(u) ==
  /\ \/ Goes(u, "cleanup", "cleaned") /\ Delete(key[u])
     \/ Goes(u, "cleanup", "leftBehind") /\ UNCHANGED <<dir, handle>>
  /\ UNCHANGED <<key, verification>>

-----------------------------------------------------------------------------
AnyStatus(u) == TRUE                     \* mutant: the status is not looked at

Verifiable(u) == status[u] = "PENDING"

(* late: somebody's verdict on the row was already saved.                  *)
VerifyRead(c, u) ==
  /\ verifying[c].step = "idle" /\ step[u] = "stored" /\ Verifiable(u)
  /\ \E verdict \in {"VERIFIED", "REJECTED"} :
       verifying' = [verifying EXCEPT ![c] =
         [step |-> "save", row |-> u, verdict |-> verdict,
          late |-> \E d \in Verifier : verifying[d].step = "verified" /\ verifying[d].row = u]]
  /\ UNCHANGED <<dir, handle, step, key, status>>

(* db.Save of the row that was read, or its error.                         *)
VerifySave(c) ==
  /\ verifying[c].step = "save"
  /\ \/ /\ status' = [status EXCEPT ![verifying[c].row] = verifying[c].verdict]
        /\ verifying' = [verifying EXCEPT ![c].step = "verified"]
     \/ verifying' = [verifying EXCEPT ![c].step = "failed"] /\ UNCHANGED status
  /\ UNCHANGED <<dir, handle, step, key>>

(* The process stops; files and rows stay as they are.                     *)
Crash ==
  /\ \/ \E u \in Caller : step[u] \in Running
     \/ \E c \in Verifier : verifying[c].step = "save"
  /\ step' = [u \in Caller |-> IF step[u] \in Running THEN "crashed" ELSE step[u]]
  /\ handle' = AllClosed
  /\ verifying' = [c \in Verifier |-> IF verifying[c].step = "save"
                                      THEN [verifying[c] EXCEPT !.step = "failed"]
                                      ELSE verifying[c]]
  /\ UNCHANGED <<dir, key, status>>

Next ==
  \/ \E u \in Caller : \/ Receive(u) \/ Scan(u) \/ Process(u) \/ Put(u)
                       \/ Copy(u) \/ CopyError(u) \/ Insert(u) \/ Cleanup(u)
  \/ \E c \in Verifier : VerifySave(c) \/ \E u \in Caller : VerifyRead(c, u)
  \/ Crash

Spec == Init /\ [][Next]_vars

-----------------------------------------------------------------------------
Verification == [step : {"save", "verified", "failed"}, row : Caller,
                 verdict : {"VERIFIED", "REJECTED"}, late : BOOLEAN]

(* Types, and a file is open exactly while its upload is copying.          *)
TypeOK ==
  /\ StorageTypeOK
  /\ step \in [Caller -> {"idle"} \cup Running \cup Ended]
  /\ key \in [Caller -> Key \cup {NoKey}]
  /\ status \in [Caller -> {"PENDING", "VERIFIED", "REJECTED"}]
  /\ verifying \in [Verifier -> Verification \cup {[step |-> "idle"]}]
  /\ \A u \in Caller : (handle[u] # Closed) <=> (step[u] = "copy")

(* A qualification's row has its file, whole; it loses it only to another  *)
(* upload of the same content that is just writing it again or that ended  *)
(* badly, by an error of Put, by its clean-up or with the process.         *)
RowsHaveTheirFile ==
  \A u \in Caller :
    step[u] = "stored" =>
      \/ dir[key[u]] = "whole"
      \/ \E w \in Caller \ {u} :
           /\ key[w] = key[u]
           /\ step[w] \in {"copy", "copyFailed", "tornBehind", "cleaned", "crashed"}

(* A file that is not whole is being written, or its writer crashed, or    *)
(* failed and then failed to remove it too.  An upload whose removal       *)
(* succeeded never leaves one, whoever else wrote to the same path.        *)
TornFilesAreExplained ==
  \A k \in Key :
    dir[k] = "partial" =>
      \E u \in Caller : key[u] = k /\ step[u] \in {"copy", "crashed", "tornBehind"}

(* When no upload runs, a file without a row is left over from a crash or  *)
(* from a removal that failed, by Put itself or as the clean-up.           *)
LeftoversAreExplained ==
  (\A u \in Caller : step[u] \notin Running) =>
    \A k \in Key :
      Exists(k) => \E u \in Caller :
                     /\ key[u] = k
                     /\ step[u] \in {"stored", "leftBehind", "tornBehind", "crashed"}

(* Two verdicts on one row are both saved only if each verifier had read   *)
(* the row before the other's verdict was saved.                           *)
VerdictsOverlap ==
  \A c \in Verifier : verifying[c].step = "verified" => ~verifying[c].late
=============================================================================
