--------------------------- MODULE LocalStorage ---------------------------
(***************************************************************************)
(* LocalStorage: one directory of files, and the files that its callers    *)
(* are copying into it.  S3Storage is the same thing in another directory  *)
(* (only its emulation is implemented).                                    *)
(*                                                                         *)
(* Keys are derived from a hash of the content, so every writer of a key   *)
(* writes the same bytes, and a file is absent, partial or whole.  A file  *)
(* is not its path: os.Create truncates the file the path names, whoever   *)
(* is still copying into it, and os.Remove takes the path away from        *)
(* writers that go on copying into a file nobody can open any more.        *)
(***************************************************************************)
EXTENDS FiniteSets

CONSTANTS
  Caller,   \* those who call Put
  Key,      \* storage keys, as good as contents
  NoKey     \* no file open

ASSUME NoKeyAssumption == NoKey \notin Key

VARIABLES
  dir,      \* what the path of each key names
  handle    \* the file each caller is copying into

FileState == {"absent", "partial", "whole"}

(* key: the path that was created; linked: the path still names this file; *)
(* cut: somebody truncated it since.                                       *)
Handle == [key : Key \cup {NoKey}, linked : BOOLEAN, cut : BOOLEAN]

Closed == [key |-> NoKey, linked |-> FALSE, cut |-> FALSE]

EmptyDir == [k \in Key |-> "absent"]

AllClosed == [c \in Caller |-> Closed]

Exists(k) == dir[k] # "absent"

-----------------------------------------------------------------------------
(* Put, first half: os.Create, which truncates what is there.              *)
Create(c, k) ==
  /\ dir' = [dir EXCEPT ![k] = "partial"]
  /\ handle' = [d \in Caller |->
                  IF d = c THEN [key |-> k, linked |-> TRUE, cut |-> FALSE]
                  ELSE IF handle[d].key = k /\ handle[d].linked
                       THEN [handle[d] EXCEPT !.cut = TRUE]
                       ELSE handle[d]]

(* What a writer leaves: everything it wrote, unless it was truncated      *)
(* meanwhile or (intact = FALSE) had less than everything to write.        *)
Left(h, intact) == IF intact /\ ~h.cut THEN {"whole"} ELSE {dir[h.key], "whole"}

(* Put, second half: io.Copy has come to the end.                          *)
Finish(c, intact) ==
  /\ handle[c] # Closed
  /\ IF handle[c].linked
     THEN \E content \in Left(handle[c], intact) :
            dir' = [dir EXCEPT ![handle[c].key] = content]
     ELSE UNCHANGED dir
  /\ handle' = [handle EXCEPT ![c] = Closed]

(* The writers of k once its path is gone.                                 *)
Unlinked(k) == [d \in Caller |-> IF handle[d].key = k
                                 THEN [handle[d] EXCEPT !.linked = FALSE, !.cut = FALSE]
                                 ELSE handle[d]]

KeepTarget(c, removed) ==                \* mutant: the target is never removed
  /\ handle[c] # Closed
  /\ handle' = [handle EXCEPT ![c] = Closed]
  /\ UNCHANGED dir

LeaveOpen(c, removed) ==                 \* mutant: the file is not closed
  /\ handle[c] # Closed
  /\ dir' = [dir EXCEPT ![handle[c].key] = "absent"]
  /\ handle' = Unlinked(handle[c].key)

(* Put fails while copying and removes its target: the path, whatever file *)
(* it names by now.  The error of os.Remove is ignored; then the path and  *)
(* what was written stay (removed = FALSE).  The file is closed last.      *)
CopyFails(c, removed) ==
  LET k == handle[c].key IN
  /\ handle[c] # Closed
  /\ dir' = IF removed THEN [dir EXCEPT ![k] = "absent"] ELSE dir
  /\ handle' = [(IF removed THEN Unlinked(k) ELSE handle) EXCEPT ![c] = Closed]

(* Delete; a file that is not there is not an error.                       *)
Delete(k) ==
  /\ dir' = [dir EXCEPT ![k] = "absent"]
  /\ handle' = Unlinked(k)

-----------------------------------------------------------------------------
StorageTypeOK ==
  /\ dir \in [Key -> FileState]
  /\ handle \in [Caller -> Handle]
=============================================================================
