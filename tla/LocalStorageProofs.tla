------------------------ MODULE LocalStorageProofs ------------------------
(***************************************************************************)
(* What the operations of LocalStorage do to the path of a key and to the  *)
(* files its writers have open, for any number of writers and keys: the    *)
(* facts that the proofs about its users need.                             *)
(***************************************************************************)
EXTENDS LocalStorage, TLAPS

OthersStay(k) == \A j \in Key : j # k => dir'[j] = dir[j]

LEMMA ClosedIsClosed ==
  /\ Closed \in Handle
  /\ Closed.key \notin Key
  /\ \A h \in Handle : h.key \in Key => h # Closed
BY NoKeyAssumption DEF Closed, Handle

LEMMA CreateEffect ==
  ASSUME StorageTypeOK, NEW c \in Caller, NEW k \in Key, Create(c, k)
  PROVE  /\ StorageTypeOK'
         /\ dir'[k] = "partial" /\ OthersStay(k)
         /\ handle'[c].key = k /\ handle'[c].linked = TRUE /\ handle'[c].cut = FALSE
         /\ \A d \in Caller : d # c =>
              /\ handle'[d].key = handle[d].key
              /\ handle'[d].linked = handle[d].linked
              /\ handle[d].key # k => handle'[d] = handle[d]
<1>1. dir' = [dir EXCEPT ![k] = "partial"] /\ "partial" \in FileState
  BY DEF Create, FileState
<1>2. dir' \in [Key -> FileState] /\ dir'[k] = "partial" /\ OthersStay(k)
  BY <1>1 DEF StorageTypeOK, OthersStay
<1> DEFINE new == [key |-> k, linked |-> TRUE, cut |-> FALSE]
<1>3. new \in Handle /\ new.key = k /\ new.linked = TRUE /\ new.cut = FALSE
  BY DEF Handle
<1>4. handle'[c] = new
  BY DEF Create
<1>5. ASSUME NEW d \in Caller, d # c
      PROVE  /\ handle'[d] \in Handle
             /\ handle'[d].key = handle[d].key
             /\ handle'[d].linked = handle[d].linked
             /\ handle[d].key # k => handle'[d] = handle[d]
  <2>1. handle[d] \in Handle
    BY DEF StorageTypeOK
  <2>2. handle'[d] = IF handle[d].key = k /\ handle[d].linked
                     THEN [handle[d] EXCEPT !.cut = TRUE] ELSE handle[d]
    BY <1>5 DEF Create
  <2> QED
    BY <2>1, <2>2 DEF Handle
<1> HIDE DEF new
<1>6. handle' \in [Caller -> Handle]
  <2>1. \A d \in Caller : handle'[d] \in Handle
    BY <1>3, <1>4, <1>5
  <2>2. handle' = [d \in Caller |-> handle'[d]]
    BY DEF Create
  <2> QED
    BY <2>1, <2>2
<1> QED
  BY <1>2, <1>3, <1>4, <1>5, <1>6 DEF StorageTypeOK

LEMMA FinishEffect ==
  ASSUME StorageTypeOK, NEW c \in Caller, NEW k \in Key, NEW intact \in BOOLEAN,
         handle[c].key = k, Finish(c, intact)
  PROVE  /\ StorageTypeOK'
         /\ dir'[k] \in {dir[k], "whole"} /\ OthersStay(k)
         /\ intact = TRUE /\ handle[c].linked = TRUE /\ handle[c].cut = FALSE
              => dir'[k] = "whole"
         /\ handle'[c] = Closed
         /\ \A d \in Caller : d # c => handle'[d] = handle[d]
<1>1. /\ handle' \in [Caller -> Handle]
      /\ handle'[c] = Closed
      /\ \A d \in Caller : d # c => handle'[d] = handle[d]
  BY ClosedIsClosed DEF Finish, StorageTypeOK
<1>2. handle[c] \in Handle
  BY DEF StorageTypeOK
<1>3. CASE handle[c].linked = TRUE
  <2>1. PICK content \in Left(handle[c], intact) : dir' = [dir EXCEPT ![k] = content]
    BY <1>3 DEF Finish
  <2>2. /\ content \in {dir[k], "whole"}
        /\ intact = TRUE /\ handle[c].cut = FALSE => content = "whole"
    BY <2>1 DEF Left
  <2>3. content \in FileState
    BY <2>2 DEF StorageTypeOK, FileState
  <2>4. dir' \in [Key -> FileState] /\ dir'[k] = content /\ OthersStay(k)
    BY <2>1, <2>3 DEF StorageTypeOK, OthersStay
  <2> QED
    BY <1>1, <2>2, <2>4 DEF StorageTypeOK
<1>4. CASE handle[c].linked # TRUE
  <2>1. dir' = dir
    BY <1>2, <1>4 DEF Finish, Handle
  <2> QED
    BY <1>1, <1>4, <2>1 DEF StorageTypeOK, OthersStay
<1> QED
  BY <1>3, <1>4

LEMMA UnlinkedEffect ==
  ASSUME StorageTypeOK, NEW k \in Key
  PROVE  /\ Unlinked(k) \in [Caller -> Handle]
         /\ \A d \in Caller : /\ Unlinked(k)[d].key = handle[d].key
                              /\ handle[d].key # k => Unlinked(k)[d] = handle[d]
<1>1. ASSUME NEW d \in Caller
      PROVE  /\ Unlinked(k)[d] \in Handle
             /\ Unlinked(k)[d].key = handle[d].key
             /\ handle[d].key # k => Unlinked(k)[d] = handle[d]
  <2>1. handle[d] \in Handle
    BY DEF StorageTypeOK
  <2>2. Unlinked(k)[d] = IF handle[d].key = k
                         THEN [handle[d] EXCEPT !.linked = FALSE, !.cut = FALSE]
                         ELSE handle[d]
    BY DEF Unlinked
  <2> QED
    BY <2>1, <2>2 DEF Handle
<1>2. Unlinked(k) = [d \in Caller |-> Unlinked(k)[d]]
  BY DEF Unlinked
<1> QED
  BY <1>1, <1>2

LEMMA DeleteEffect ==
  ASSUME StorageTypeOK, NEW k \in Key, Delete(k)
  PROVE  /\ StorageTypeOK'
         /\ dir'[k] = "absent" /\ OthersStay(k)
         /\ \A d \in Caller : /\ handle'[d].key = handle[d].key
                              /\ handle[d].key # k => handle'[d] = handle[d]
<1>1. dir' = [dir EXCEPT ![k] = "absent"] /\ "absent" \in FileState /\ handle' = Unlinked(k)
  BY DEF Delete, FileState
<1> QED
  BY <1>1, UnlinkedEffect DEF StorageTypeOK, OthersStay

LEMMA CopyFailsEffect ==
  ASSUME StorageTypeOK, NEW c \in Caller, NEW k \in Key, NEW removed \in BOOLEAN,
         handle[c].key = k, CopyFails(c, removed)
  PROVE  /\ StorageTypeOK'
         /\ dir'[k] \in {dir[k], "absent"} /\ OthersStay(k)
         /\ removed = TRUE => dir'[k] = "absent"
         /\ removed = FALSE => dir' = dir
         /\ handle'[c] = Closed
         /\ \A d \in Caller : d # c =>
              /\ handle'[d].key = handle[d].key
              /\ handle[d].key # k => handle'[d] = handle[d]
              /\ removed = FALSE => handle'[d] = handle[d]
<1>1. CASE removed = TRUE
  <2>1. /\ dir' = [dir EXCEPT ![k] = "absent"] /\ "absent" \in FileState
        /\ handle' = [Unlinked(k) EXCEPT ![c] = Closed]
    BY <1>1 DEF CopyFails, FileState
  <2>2. dir' \in [Key -> FileState] /\ dir'[k] = "absent" /\ OthersStay(k)
    BY <2>1 DEF StorageTypeOK, OthersStay
  <2>3. /\ handle' \in [Caller -> Handle]
        /\ handle'[c] = Closed
        /\ \A d \in Caller : d # c => handle'[d] = Unlinked(k)[d]
    BY <2>1, UnlinkedEffect, ClosedIsClosed
  <2> QED
    BY <1>1, <2>2, <2>3, UnlinkedEffect DEF StorageTypeOK
<1>2. CASE removed = FALSE
  <2>1. dir' = dir /\ handle' = [handle EXCEPT ![c] = Closed]
    BY <1>2 DEF CopyFails
  <2> QED
    BY <1>2, <2>1, ClosedIsClosed DEF StorageTypeOK, OthersStay
<1> QED
  BY <1>1, <1>2
=============================================================================
