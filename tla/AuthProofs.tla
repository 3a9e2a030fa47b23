---------------------------- MODULE AuthProofs ----------------------------
(***************************************************************************)
(* For any app keys, any number of calls and requests and any bound on the *)
(* versions: first of the keys by themselves (Spec), then of the requests  *)
(* that are checked while they change (AuthSpec).  The checks change       *)
(* nothing about the keys, so all that is proved of Spec holds under them  *)
(* as well, and every answer has its reason.                               *)
(***************************************************************************)
EXTENDS Auth, TLAPS

-----------------------------------------------------------------------------
(***************************************************************************)
(* The keys: the versions of an app key are dense, only the last of them  *)
(* can be ACTIVE, and what has left ACTIVE stays out of it.                *)
(***************************************************************************)

(* Versions are handed out one by one and no row is ever deleted.          *)
VersionsAreDense ==
  \A k \in AppKey, m, n \in Version : Exists(k, n) /\ m < n => Exists(k, m)

(* An ACTIVE version is the last of its app key and does not run out.      *)
ActiveIsLast ==
  \A k \in AppKey, n \in Version :
    HasStatus(k, n, "ACTIVE") =>
      /\ keys[<<k, n>>].expire = "never"
      /\ \A m \in Version : Exists(k, m) => m <= n

(* The row a rotation has read is still there, whatever its status.        *)
ReadRowsExist ==
  \A c \in Call :
    job[c].op = "rotate" => Exists(job[c].app, job[c].version)

KeyInv == TypeOK /\ VersionsAreDense /\ ActiveIsLast /\ ReadRowsExist /\ KeyAvailable

-----------------------------------------------------------------------------
(* No row of the table looks like the absence of a row.                    *)
LEMMA RowsAreRows == \A r \in KeyRow : r # NoRow
BY DEF KeyRow, NoRow, Status

(* The rows the program writes are rows.                                   *)
LEMMA WrittenRows ==
  /\ NewKey \in KeyRow /\ NewKey.status = "ACTIVE" /\ NewKey.expire = "never"
  /\ OldKey \in KeyRow /\ OldKey.status = "ROTATING" /\ OldKey.expire = "future"
BY DEF KeyRow, NewKey, OldKey, Status, Expiry

(* A call that waits to write knows the key, and the version, it read.     *)
LEMMA JobShape ==
  ASSUME NEW j \in Job
  PROVE  /\ j.op = "create" => j.app \in AppKey
         /\ j.op = "rotate" => j.app \in AppKey /\ j.version \in Version
BY DEF Job, Idle, Done

(***************************************************************************)
(* The initial table is empty.                                             *)
(***************************************************************************)
LEMMA InitKeys == Init => KeyInv
<1> SUFFICES ASSUME Init PROVE KeyInv
  OBVIOUS
<1>1. TypeOK
  BY DEF Init, TypeOK, Job
<1>2. \A k \in AppKey, n \in Version : ~Exists(k, n)
  BY DEF Init, Exists
<1>3. \A c \in Call : job[c].op = "idle"
  BY DEF Init, Idle
<1> QED
  BY <1>1, <1>2, <1>3
  DEF KeyInv, VersionsAreDense, ActiveIsLast, ReadRowsExist, KeyAvailable, HasStatus

(***************************************************************************)
(* What a step has to show: it touches at most the rows old and new of the *)
(* app key k0.  Each lemma below is about one form of table update.        *)
(***************************************************************************)
LEMMA InsertKeeps ==
  ASSUME KeyInv, NEW k0 \in AppKey, NEW n0 \in Version,
         ~Exists(k0, n0), n0 # 1 => Exists(k0, n0 - 1),
         keys' \in [AppKey \X Version -> KeyRow \cup {NoRow}],
         keys'[<<k0, n0>>] = NewKey,
         \A k \in AppKey, n \in Version :
           \/ <<k, n>> = <<k0, n0>>
           \/ k = k0 /\ n = n0 - 1 /\ keys'[<<k, n>>] = OldKey
           \/ ~(k = k0 /\ n = n0 - 1) /\ keys'[<<k, n>>] = keys[<<k, n>>]
  PROVE  /\ VersionsAreDense' /\ ActiveIsLast' /\ KeyAvailable'
         /\ \A k \in AppKey, n \in Version : Exists(k, n) => Exists(k, n)'
         /\ \A k \in AppKey, n \in Version :
              Exists(k, n) /\ HasStatus(k, n, "ACTIVE")' => HasStatus(k, n, "ACTIVE")
<1> USE VersionAssumption DEF Version
<1>1. keys \in [AppKey \X Version -> KeyRow \cup {NoRow}]
  BY DEF KeyInv, TypeOK
<1>2. \A m \in Version : Exists(k0, m) <=> m < n0
  BY DEF KeyInv, VersionsAreDense
<1>3. \A m \in Version : Exists(k0, m)' <=> m <= n0
  BY <1>2, RowsAreRows, WrittenRows DEF Exists
<1>4. \A k \in AppKey \ {k0}, m \in Version : keys'[<<k, m>>] = keys[<<k, m>>]
  OBVIOUS
<1>5. \A m \in Version : HasStatus(k0, m, "ACTIVE")' <=> m = n0
  <2> SUFFICES ASSUME NEW m \in Version
               PROVE  HasStatus(k0, m, "ACTIVE")' <=> m = n0
    OBVIOUS
  <2>1. CASE m = n0
    BY <2>1, RowsAreRows, WrittenRows DEF HasStatus, Exists
  <2>2. CASE m = n0 - 1
    BY <2>2, WrittenRows DEF HasStatus
  <2>3. CASE m # n0 /\ m # n0 - 1
    <3>1. keys'[<<k0, m>>] = keys[<<k0, m>>]
      BY <2>3
    <3>2. HasStatus(k0, m, "ACTIVE") => n0 - 1 <= m /\ m < n0
      BY <1>2 DEF KeyInv, ActiveIsLast, HasStatus
    <3> QED
      BY <2>3, <3>1, <3>2 DEF HasStatus, Exists
  <2> QED
    BY <2>1, <2>2, <2>3
<1>6. VersionsAreDense'
  BY <1>3, <1>4 DEF KeyInv, VersionsAreDense, Exists
<1>7. ActiveIsLast'
  BY <1>3, <1>4, <1>5, WrittenRows DEF KeyInv, ActiveIsLast, Exists, HasStatus
<1>8. KeyAvailable'
  <2> SUFFICES ASSUME NEW k \in AppKey, NEW n \in Version, Exists(k, n)'
               PROVE  \E m \in Version :
                        \/ HasStatus(k, m, "ACTIVE")' /\ Accepted(k, m)'
                        \/ HasStatus(k, m, "REVOKED")'
    BY DEF KeyAvailable
  <2>1. CASE k = k0
    BY <2>1, <1>5, WrittenRows DEF Accepted
  <2>2. CASE k # k0
    <3>1. Exists(k, n)
      BY <2>2, <1>4 DEF Exists
    <3>2. PICK m \in Version :
            \/ HasStatus(k, m, "ACTIVE") /\ Accepted(k, m)
            \/ HasStatus(k, m, "REVOKED")
      BY <3>1 DEF KeyInv, KeyAvailable
    <3>3. keys'[<<k, m>>] = keys[<<k, m>>]
      BY <2>2, <1>4
    <3> QED
      BY <3>2, <3>3 DEF Exists, HasStatus, Accepted
  <2> QED
    BY <2>1, <2>2
<1>9. \A k \in AppKey, n \in Version : Exists(k, n) => Exists(k, n)'
  BY <1>2, <1>3, <1>4 DEF Exists
<1>10. \A k \in AppKey, n \in Version :
         Exists(k, n) /\ HasStatus(k, n, "ACTIVE")' => HasStatus(k, n, "ACTIVE")
  BY <1>4, <1>5 DEF Exists, HasStatus
<1> QED
  BY <1>6, <1>7, <1>8, <1>9, <1>10

(***************************************************************************)
(* An update of one row that does not make it ACTIVE keeps the invariant   *)
(* if the row was not ACTIVE, or is REVOKED now.                           *)
(***************************************************************************)
LEMMA UpdateKeeps ==
  ASSUME KeyInv, NEW k0 \in AppKey, NEW n0 \in Version, Exists(k0, n0),
         NEW row \in KeyRow, row.status # "ACTIVE",
         \/ row.status = "REVOKED"
         \/ ~HasStatus(k0, n0, "ACTIVE") /\ row.status = keys[<<k0, n0>>].status,
         keys' = [keys EXCEPT ![<<k0, n0>>] = row]
  PROVE  /\ VersionsAreDense' /\ ActiveIsLast' /\ KeyAvailable'
         /\ \A k \in AppKey, n \in Version : Exists(k, n) => Exists(k, n)'
         /\ \A k \in AppKey, n \in Version :
              Exists(k, n) /\ HasStatus(k, n, "ACTIVE")' => HasStatus(k, n, "ACTIVE")
<1>1. keys \in [AppKey \X Version -> KeyRow \cup {NoRow}]
  BY DEF KeyInv, TypeOK
<1>2. keys'[<<k0, n0>>] = row
  BY <1>1
<1>3. \A k \in AppKey, n \in Version :
        <<k, n>> # <<k0, n0>> => keys'[<<k, n>>] = keys[<<k, n>>]
  BY <1>1
<1>4. \A k \in AppKey, n \in Version : Exists(k, n)' <=> Exists(k, n)
  BY <1>2, <1>3, RowsAreRows DEF Exists
<1>5. \A k \in AppKey, n \in Version :
        HasStatus(k, n, "ACTIVE")' =>
          HasStatus(k, n, "ACTIVE") /\ keys'[<<k, n>>] = keys[<<k, n>>]
  BY <1>2, <1>3, <1>4 DEF HasStatus, Exists
<1>6. VersionsAreDense'
  BY <1>4 DEF KeyInv, VersionsAreDense
<1>7. ActiveIsLast'
  BY <1>4, <1>5 DEF KeyInv, ActiveIsLast
<1>8. KeyAvailable'
  <2> SUFFICES ASSUME NEW k \in AppKey, NEW n \in Version, Exists(k, n)'
               PROVE  \E m \in Version :
                        \/ HasStatus(k, m, "ACTIVE")' /\ Accepted(k, m)'
                        \/ HasStatus(k, m, "REVOKED")'
    BY DEF KeyAvailable
  <2>1. PICK m \in Version :
          \/ HasStatus(k, m, "ACTIVE") /\ Accepted(k, m)
          \/ HasStatus(k, m, "REVOKED")
    BY <1>4 DEF KeyInv, KeyAvailable
  <2>2. CASE <<k, m>> # <<k0, n0>>
    BY <2>1, <2>2, <1>3 DEF Exists, HasStatus, Accepted
  <2>3. CASE <<k, m>> = <<k0, n0>>
    BY <2>1, <2>3, <1>2, <1>4 DEF HasStatus, Exists
  <2> QED
    BY <2>2, <2>3
<1>9. \A k \in AppKey, n \in Version : Exists(k, n) => Exists(k, n)'
  BY <1>4
<1>10. \A k \in AppKey, n \in Version :
         Exists(k, n) /\ HasStatus(k, n, "ACTIVE")' => HasStatus(k, n, "ACTIVE")
  BY <1>5
<1> QED
  BY <1>6, <1>7, <1>8, <1>9, <1>10

-----------------------------------------------------------------------------
(***************************************************************************)
(* Every step keeps the invariant, and makes nothing ACTIVE that was there *)
(* and was not.                                                            *)
(***************************************************************************)
OnlyNewKeysBecomeActive ==
  \A k \in AppKey, n \in Version :
    Exists(k, n) /\ HasStatus(k, n, "ACTIVE")' => HasStatus(k, n, "ACTIVE")

RowsStay == \A k \in AppKey, n \in Version : Exists(k, n) => Exists(k, n)'

(* A step that leaves the table alone has nothing to show about it.        *)
LEMMA TableUnchanged ==
  ASSUME KeyInv, keys' = keys
  PROVE  /\ VersionsAreDense' /\ ActiveIsLast' /\ KeyAvailable'
         /\ RowsStay /\ OnlyNewKeysBecomeActive
BY DEF KeyInv, VersionsAreDense, ActiveIsLast, KeyAvailable, RowsStay,
       OnlyNewKeysBecomeActive, Exists, HasStatus, Accepted

(* A call that ends, or is not there yet, has no row to look for.          *)
LEMMA ReadRowsStay ==
  ASSUME KeyInv, RowsStay, NEW c \in Call, NEW j \in Job,
         j.op = "rotate" => Exists(j.app, j.version)',
         job' = [job EXCEPT ![c] = j]
  PROVE  ReadRowsExist' /\ job' \in [Call -> Job]
<1>1. job \in [Call -> Job]
  BY DEF KeyInv, TypeOK
<1>2. job'[c] = j /\ \A d \in Call : d # c => job'[d] = job[d]
  BY <1>1
<1>3. \A d \in Call : job[d].op = "rotate" =>
        /\ job[d].app \in AppKey /\ job[d].version \in Version
        /\ Exists(job[d].app, job[d].version)
  BY <1>1, JobShape DEF KeyInv, ReadRowsExist
<1>4. ReadRowsExist'
  <2> SUFFICES ASSUME NEW d \in Call, job'[d].op = "rotate"
               PROVE  Exists(job[d].app, job[d].version)'
    BY DEF ReadRowsExist
  <2>1. CASE d = c
    BY <2>1, <1>2 DEF Exists
  <2>2. CASE d # c
    <3>1. job'[d] = job[d]
      BY <2>2, <1>2
    <3>2. Exists(job[d].app, job[d].version) => keys'[<<job[d].app, job[d].version>>] # NoRow
      BY <3>1, <1>3 DEF RowsStay, Exists
    <3> QED
      BY <3>1, <3>2, <1>3 DEF Exists
  <2> QED
    BY <2>1, <2>2
<1> QED
  BY <1>1, <1>4

LEMMA StepKeeps == KeyInv /\ [Next]_vars => KeyInv' /\ OnlyNewKeysBecomeActive
<1> SUFFICES ASSUME KeyInv, [Next]_vars
             PROVE  KeyInv' /\ OnlyNewKeysBecomeActive
  OBVIOUS
<1>t. /\ keys \in [AppKey \X Version -> KeyRow \cup {NoRow}]
      /\ job \in [Call -> Job]
  BY DEF KeyInv, TypeOK
<1>d. Done \in Job /\ Done.op = "done"
  BY DEF Done, Job
<1>v. 1 \in Version
  BY VersionAssumption DEF Version
<1>q. ASSUME VersionsAreDense', ActiveIsLast', KeyAvailable', ReadRowsExist',
             OnlyNewKeysBecomeActive, job' \in [Call -> Job],
             keys' \in [AppKey \X Version -> KeyRow \cup {NoRow}]
      PROVE  KeyInv' /\ OnlyNewKeysBecomeActive
  BY <1>q DEF KeyInv, TypeOK
<1>1. ASSUME NEW c \in Call, NEW k \in AppKey, CreateCheck(c, k)
      PROVE  KeyInv' /\ OnlyNewKeysBecomeActive
  <2> DEFINE j == [op |-> "create", app |-> k]
  <2>1. j \in Job /\ j.op # "rotate"
    BY DEF Job
  <2> HIDE DEF j
  <2>2. job' = [job EXCEPT ![c] = j] /\ keys' = keys
    BY <1>1 DEF CreateCheck, j
  <2>3. ReadRowsExist' /\ job' \in [Call -> Job]
    BY <2>1, <2>2, TableUnchanged, ReadRowsStay
  <2> QED
    BY <1>q, <1>t, <2>2, <2>3, TableUnchanged
<1>2. ASSUME NEW c \in Call, CreateInsert(c)
      PROVE  KeyInv' /\ OnlyNewKeysBecomeActive
  <2> DEFINE k == job[c].app
  <2>1. k \in AppKey
    BY <1>2, <1>t, JobShape DEF CreateInsert
  <2>2. job' = [job EXCEPT ![c] = Done]
    BY <1>2 DEF CreateInsert
  <2>3. CASE keys' = keys
    BY <2>2, <2>3, <1>q, <1>t, <1>d, TableUnchanged, ReadRowsStay
  <2>4. CASE ~Exists(k, 1) /\ keys' = [keys EXCEPT ![<<k, 1>>] = NewKey]
    <3> HIDE DEF k
    <3>1. keys' \in [AppKey \X Version -> KeyRow \cup {NoRow}] /\ keys'[<<k, 1>>] = NewKey
      BY <2>1, <2>4, <1>t, <1>v, WrittenRows
    <3>2. \A l \in AppKey, n \in Version :
            \/ <<l, n>> = <<k, 1>>
            \/ l = k /\ n = 1 - 1 /\ keys'[<<l, n>>] = OldKey
            \/ ~(l = k /\ n = 1 - 1) /\ keys'[<<l, n>>] = keys[<<l, n>>]
      BY <2>1, <2>4, <1>t, VersionAssumption DEF Version
    <3>3. /\ VersionsAreDense' /\ ActiveIsLast' /\ KeyAvailable'
          /\ RowsStay /\ OnlyNewKeysBecomeActive
      BY <3>1, <3>2, <2>1, <2>4, <1>v, 1 # 1 => Exists(k, 1 - 1), InsertKeeps DEF RowsStay, OnlyNewKeysBecomeActive
    <3> QED
      BY <3>1, <3>3, <2>2, <1>q, <1>d, ReadRowsStay
  <2> QED
    BY <1>2, <2>3, <2>4 DEF CreateInsert, VersionTaken
<1>3. ASSUME NEW c \in Call, NEW k \in AppKey, NEW n \in Version, RotateRead(c, k, n)
      PROVE  KeyInv' /\ OnlyNewKeysBecomeActive
  <2> DEFINE j == [op |-> "rotate", app |-> k, version |-> n]
  <2>1. j \in Job /\ j.app = k /\ j.version = n
    BY DEF Job
  <2> HIDE DEF j
  <2>2. job' = [job EXCEPT ![c] = j] /\ keys' = keys /\ Exists(k, n)
    BY <1>3 DEF RotateRead, HasStatus, j
  <2>3. Exists(j.app, j.version)'
    BY <2>1, <2>2 DEF Exists
  <2>4. ReadRowsExist' /\ job' \in [Call -> Job]
    BY <2>1, <2>2, <2>3, TableUnchanged, ReadRowsStay
  <2> QED
    BY <1>q, <1>t, <2>2, <2>4, TableUnchanged
<1>4. ASSUME NEW c \in Call, RotateCommit(c)
      PROVE  KeyInv' /\ OnlyNewKeysBecomeActive
  <2> DEFINE k == job[c].app
             n == job[c].version
  <2>1. k \in AppKey /\ n \in Version /\ Exists(k, n)
    BY <1>4, <1>t, JobShape DEF RotateCommit, KeyInv, ReadRowsExist
  <2>2. job' = [job EXCEPT ![c] = Done]
    BY <1>4 DEF RotateCommit
  <2>3. CASE keys' = keys
    BY <2>2, <2>3, <1>q, <1>t, <1>d, TableUnchanged, ReadRowsStay
  <2>4. CASE n < MaxVersion /\ ~Exists(k, n + 1) /\ keys' = Rotated(k, n)
    <3> HIDE DEF k, n
    <3>1. n + 1 \in Version /\ (n + 1) - 1 = n /\ n + 1 # n
      BY <2>1, <2>4, VersionAssumption DEF Version
    <3>2. keys' \in [AppKey \X Version -> KeyRow \cup {NoRow}]
      BY <2>1, <2>4, <3>1, <1>t, WrittenRows DEF Rotated
    <3>3. keys'[<<k, n>>] = OldKey /\ keys'[<<k, n + 1>>] = NewKey
      BY <2>1, <2>4, <3>1, <1>t DEF Rotated
    <3>4. \A l \in AppKey, m \in Version :
            <<l, m>> # <<k, n>> /\ <<l, m>> # <<k, n + 1>> =>
              keys'[<<l, m>>] = keys[<<l, m>>]
      BY <2>1, <2>4, <3>1, <1>t DEF Rotated
    <3>5. \A l \in AppKey, m \in Version :
            \/ <<l, m>> = <<k, n + 1>>
            \/ l = k /\ m = (n + 1) - 1 /\ keys'[<<l, m>>] = OldKey
            \/ ~(l = k /\ m = (n + 1) - 1) /\ keys'[<<l, m>>] = keys[<<l, m>>]
      BY <3>1, <3>3, <3>4
    <3>6. n + 1 # 1 => Exists(k, (n + 1) - 1)
      BY <2>1, <3>1
    <3>7. /\ VersionsAreDense' /\ ActiveIsLast' /\ KeyAvailable'
          /\ RowsStay /\ OnlyNewKeysBecomeActive
      BY <2>1, <2>4, <3>1, <3>2, <3>3, <3>5, <3>6, InsertKeeps
      DEF RowsStay, OnlyNewKeysBecomeActive
    <3> QED
      BY <3>2, <3>7, <2>2, <1>q, <1>d, ReadRowsStay
  <2> QED
    BY <1>4, <2>3, <2>4 DEF RotateCommit, VersionTaken, RolledBack
<1>u. ASSUME NEW k \in AppKey, NEW n \in Version, Exists(k, n),
             NEW row \in KeyRow, row.status # "ACTIVE",
             \/ row.status = "REVOKED"
             \/ ~HasStatus(k, n, "ACTIVE") /\ row.status = keys[<<k, n>>].status,
             keys' = [keys EXCEPT ![<<k, n>>] = row], job' = job
      PROVE  KeyInv' /\ OnlyNewKeysBecomeActive
  <2>1. /\ VersionsAreDense' /\ ActiveIsLast' /\ KeyAvailable'
        /\ RowsStay /\ OnlyNewKeysBecomeActive
    BY <1>u, UpdateKeeps DEF RowsStay, OnlyNewKeysBecomeActive
  <2>2. ReadRowsExist'
    BY <2>1, <1>u, <1>t, JobShape DEF KeyInv, ReadRowsExist, RowsStay, Exists
  <2>3. keys' \in [AppKey \X Version -> KeyRow \cup {NoRow}]
    BY <1>u, <1>t
  <2> QED
    BY <2>1, <2>2, <2>3, <1>u, <1>t, <1>q
<1>5. ASSUME NEW k \in AppKey, NEW n \in Version, Revoke(k, n)
      PROVE  KeyInv' /\ OnlyNewKeysBecomeActive
  <2> DEFINE row == [status |-> "REVOKED", expire |-> "past"]
  <2>1. row \in KeyRow /\ row.status = "REVOKED"
    BY DEF KeyRow, Status, Expiry
  <2>2. Exists(k, n) /\ keys' = [keys EXCEPT ![<<k, n>>] = row] /\ job' = job
    BY <1>5 DEF Revoke
  <2> HIDE DEF row
  <2> QED
    BY <2>1, <2>2, <1>u
<1>6. ASSUME NEW k \in AppKey, NEW n \in Version, Expire(k, n)
      PROVE  KeyInv' /\ OnlyNewKeysBecomeActive
  <2> DEFINE row == [keys[<<k, n>>] EXCEPT !.expire = "past"]
  <2>1. keys[<<k, n>>] \in KeyRow /\ keys[<<k, n>>].expire = "future"
    BY <1>6, <1>t DEF Expire, Exists
  <2>2. row \in KeyRow /\ row.status = keys[<<k, n>>].status
    BY <2>1 DEF KeyRow, Expiry
  <2>3. ~HasStatus(k, n, "ACTIVE")
    BY <2>1 DEF KeyInv, ActiveIsLast
  <2>4. keys' = [keys EXCEPT ![<<k, n>>] = row] /\ job' = job /\ Exists(k, n)
    BY <1>6 DEF Expire
  <2> HIDE DEF row
  <2>5. row.status # "ACTIVE"
    BY <2>2, <2>3, <2>4 DEF HasStatus
  <2> QED
    BY <2>2, <2>3, <2>4, <2>5, <1>u
<1>7. CASE UNCHANGED vars
  BY <1>7, <1>q, <1>t, TableUnchanged DEF vars, KeyInv, ReadRowsExist, Exists
<1> QED
  BY <1>1, <1>2, <1>3, <1>4, <1>5, <1>6, <1>7 DEF Next

THEOREM KeysAreConsistent == Spec => []KeyInv
<1>1. Init => KeyInv
  BY InitKeys
<1>2. KeyInv /\ [Next]_vars => KeyInv'
  BY StepKeeps
<1> QED
  BY <1>1, <1>2, PTL DEF Spec

(***************************************************************************)
(* Every row and every half-finished call keeps its type.                  *)
(***************************************************************************)
THEOREM KeysAreTyped == Spec => []TypeOK
<1>1. KeyInv => TypeOK
  BY DEF KeyInv
<1> QED
  BY <1>1, KeysAreConsistent, PTL

(***************************************************************************)
(* However calls of Create, Rotate and Revoke overlap, an app key has at   *)
(* most one ACTIVE version.                                                *)
(***************************************************************************)
THEOREM AtMostOneActive == Spec => []OneActiveKey
<1>1. KeyInv => OneActiveKey
  BY VersionAssumption DEF KeyInv, ActiveIsLast, OneActiveKey, HasStatus, Version
<1> QED
  BY <1>1, KeysAreConsistent, PTL

(***************************************************************************)
(* Only a revocation can leave an app key without an accepted version that *)
(* does not run out; a rotation that fails or overlaps another cannot.     *)
(***************************************************************************)
THEOREM RotationKeepsAKey == Spec => []KeyAvailable
<1>1. KeyInv => KeyAvailable
  BY DEF KeyInv
<1> QED
  BY <1>1, KeysAreConsistent, PTL

(***************************************************************************)
(* No Save of a row read earlier makes a retired version ACTIVE again.     *)
(***************************************************************************)
THEOREM RetiredForGood == Spec => NeverReactivated
<1>1. KeyInv /\ [Next]_vars =>
        [\A k \in AppKey, n \in Version :
           Exists(k, n) /\ ~HasStatus(k, n, "ACTIVE") => ~HasStatus(k, n, "ACTIVE")']_vars
  BY StepKeeps DEF OnlyNewKeysBecomeActive
<1> QED
  BY <1>1, KeysAreConsistent, PTL DEF Spec, NeverReactivated

-----------------------------------------------------------------------------

RequestRow ==
  [step : Checking \cup Answer, app : AppKey, version : Version \cup {Unknown},
   secrets : SUBSET Version, announced : BOOLEAN, always : BOOLEAN, ever : BOOLEAN,
   late : BOOLEAN, blind : BOOLEAN]

(* The secret the request was signed with is accepted now.                 *)
Good(q) == q.version # Unknown /\ Accepted(q.app, q.version)

(***************************************************************************)
(* A request that is being checked has kept its account, and what it has   *)
(* read so far agrees with it.                                             *)
(***************************************************************************)
KeepsAccount(q) ==
  /\ q.always => Good(q)
  /\ Good(q) => q.ever
  /\ q.late /\ q.always => HasStatus(q.app, q.version, "ROTATING")
  /\ q.step = "hasRotating" => /\ q.version \in q.secrets => q.ever
                               /\ q.version \notin q.secrets => ~q.always
  /\ q.step = "expiredInfo" => ~q.always \/ q.blind

(* An answer that has been given is true.                                  *)
IsTrue(q) ==
  /\ q.step = "accepted" => q.ever
  /\ q.step \in {"mismatch", "expired", "invalid"} => ~q.always \/ q.blind
  /\ q.step = "accepted" /\ q.late => q.announced \/ ~q.always \/ q.blind

RequestInv ==
  \A r \in Request :
    \/ request[r] \in [step : KeylessStep]
    \/ /\ request[r] \in RequestRow
       /\ request[r].step \in Checking => KeepsAccount(request[r])
       /\ IsTrue(request[r])

AuthInv == RequestTypeOK /\ RequestInv

-----------------------------------------------------------------------------
(* Checking a request leaves the keys alone.                               *)
LEMMA AuthImplementsKeys == AuthSpec => Spec
<1>1. AuthInit => Init
  BY DEF AuthInit
<1>2. [AuthNext]_authVars => [Next]_vars
  <2>1. ASSUME NEW r \in Request, Check(r) PROVE UNCHANGED vars
    BY <2>1 DEF Check, ArriveUnsigned, Arrive, ReadSecrets, ReadExpiredInfo, ReadRotating
  <2> QED
    BY <2>1 DEF AuthNext, KeysChange, authVars
<1> QED
  BY <1>1, <1>2, PTL DEF AuthSpec, Spec

(* Only the two marks of the account change.                               *)
LEMMA AccountRow ==
  ASSUME NEW q \in RequestRow, NEW always \in BOOLEAN, NEW ever \in BOOLEAN
  PROVE  [q EXCEPT !.always = always, !.ever = ever] \in RequestRow
BY DEF RequestRow

(* The secrets that are read are those of versions.                        *)
LEMMA AcceptedAreVersions ==
  ASSUME NEW k \in AppKey
  PROVE  /\ AcceptedBy(k) \in SUBSET Version
         /\ \A n \in Version : n \in AcceptedBy(k) <=> Accepted(k, n)
         /\ Unknown \notin AcceptedBy(k)
BY DEF AcceptedBy, Version, Unknown

(***************************************************************************)
(* What a step has to show of the requests: one of them moves to a row     *)
(* that keeps its account, the keys stay.                                  *)
(***************************************************************************)
LEMMA OneRequest ==
  ASSUME AuthInv, NEW r \in Request, NEW q \in RequestRow, UNCHANGED vars,
         request' = [request EXCEPT ![r] = q],
         q.step \in Checking => KeepsAccount(q), IsTrue(q)
  PROVE  AuthInv'
<1>1. request \in [Request -> [step : KeylessStep] \cup RequestRow]
  BY DEF AuthInv, RequestTypeOK, RequestRow
<1>2. request' \in [Request -> [step : KeylessStep] \cup RequestRow]
  BY <1>1
<1>3. RequestTypeOK'
  BY <1>2 DEF RequestTypeOK, RequestRow
<1>4. \A s \in Request : request'[s] = IF s = r THEN q ELSE request[s]
  BY <1>1
<1>5. keys' = keys
  BY DEF vars
<1>6. RequestInv'
  <2> SUFFICES ASSUME NEW s \in Request
               PROVE  \/ request'[s] \in [step : KeylessStep]
                      \/ /\ request'[s] \in RequestRow
                         /\ request'[s].step \in Checking => KeepsAccount(request[s])'
                         /\ IsTrue(request'[s])
    BY DEF RequestInv, IsTrue, RequestRow
  <2>1. CASE s = r
    BY <1>4, <1>5, <2>1 DEF KeepsAccount, Good, Accepted, HasStatus, Exists
  <2>2. CASE s # r
    BY <1>4, <1>5, <2>2 DEF AuthInv, RequestInv, KeepsAccount, Good, Accepted, HasStatus, Exists
  <2> QED
    BY <2>1, <2>2
<1> QED
  BY <1>3, <1>6 DEF AuthInv

(* A request that is being checked has a row, and an account.              *)
LEMMA RowOf ==
  ASSUME AuthInv, NEW r \in Request, request[r].step \notin KeylessStep
  PROVE  /\ request[r] \in RequestRow
         /\ request[r].step \in Checking => KeepsAccount(request[r])
         /\ IsTrue(request[r])
BY DEF AuthInv, RequestInv

(* A request answered without the keys has nothing to account for.        *)
LEMMA UnsignedKeeps ==
  ASSUME AuthInv, NEW r \in Request, NEW headers, ArriveUnsigned(r, headers)
  PROVE  AuthInv'
<1> DEFINE answer == IF headers \subseteq {"nonce"} THEN "unauthenticated" ELSE "refused"
           q == [step |-> answer]
<1>1. q \in [step : KeylessStep] /\ request' = [request EXCEPT ![r] = q]
  BY DEF ArriveUnsigned, KeylessStep
<1> HIDE DEF q
<1>2. request \in [Request -> [step : KeylessStep] \cup RequestRow]
  BY DEF AuthInv, RequestTypeOK, RequestRow
<1>3. /\ request' \in [Request -> [step : KeylessStep] \cup RequestRow]
      /\ \A s \in Request : request'[s] = IF s = r THEN q ELSE request[s]
  BY <1>1, <1>2
<1>4. keys' = keys
  BY DEF ArriveUnsigned, vars
<1>5. RequestInv'
  <2> SUFFICES ASSUME NEW s \in Request
               PROVE  \/ request'[s] \in [step : KeylessStep]
                      \/ /\ request'[s] \in RequestRow
                         /\ request'[s].step \in Checking => KeepsAccount(request[s])'
                         /\ IsTrue(request'[s])
    BY DEF RequestInv, IsTrue, RequestRow
  <2>1. CASE s = r
    BY <1>1, <1>3, <2>1
  <2>2. CASE s # r
    BY <1>3, <1>4, <2>2
    DEF AuthInv, RequestInv, KeepsAccount, Good, Accepted, HasStatus, Exists
  <2> QED
    BY <2>1, <2>2
<1> QED
  BY <1>3, <1>5 DEF AuthInv, RequestTypeOK, RequestRow

LEMMA CheckKeeps ==
  ASSUME AuthInv, NEW r \in Request, Check(r)
  PROVE  AuthInv'
<1> USE DEF Checking, Answer, KeylessStep
<1>0. ASSUME NEW headers \in SUBSET Header, ArriveUnsigned(r, headers)
      PROVE  AuthInv'
  BY <1>0, UnsignedKeeps
<1>1. ASSUME NEW k \in AppKey, NEW n \in Version \cup {Unknown}, Arrive(r, k, n)
      PROVE  AuthInv'
  <2> DEFINE good == n # Unknown /\ Accepted(k, n)
             q == [step |-> "secrets", app |-> k, version |-> n, secrets |-> {},
                   announced |-> FALSE, always |-> good, ever |-> good,
                   late |-> n # Unknown /\ HasStatus(k, n, "ROTATING"), blind |-> FALSE]
  <2>1. good \in BOOLEAN /\ (n # Unknown /\ HasStatus(k, n, "ROTATING")) \in BOOLEAN
    OBVIOUS
  <2>2. q \in RequestRow
    BY <2>1 DEF RequestRow
  <2>3. request' = [request EXCEPT ![r] = q] /\ UNCHANGED vars
    BY <1>1 DEF Arrive
  <2>4. KeepsAccount(q)
    BY DEF KeepsAccount, Good
  <2>5. IsTrue(q)
    BY DEF IsTrue
  <2> HIDE DEF q
  <2> QED
    BY <2>2, <2>3, <2>4, <2>5, OneRequest
<1>2. ASSUME ReadSecrets(r) PROVE AuthInv'
  <2>1. /\ request[r] \in RequestRow /\ request[r].app \in AppKey
        /\ KeepsAccount(request[r])
    BY <1>2, RowOf DEF ReadSecrets, RequestRow
  <2>2. PICK fails \in BOOLEAN :
          LET secrets == IF fails THEN {} ELSE AcceptedBy(request[r].app) IN
          request' = [request EXCEPT ![r].secrets = secrets,
                                     ![r].step = IF secrets = {} THEN "expiredInfo"
                                                 ELSE "hasRotating",
                                     ![r].blind = fails]
    BY <1>2 DEF ReadSecrets
  <2> DEFINE secrets == IF fails THEN {} ELSE AcceptedBy(request[r].app)
             q == [request[r] EXCEPT !.secrets = secrets,
                                     !.step = IF secrets = {} THEN "expiredInfo"
                                              ELSE "hasRotating",
                                     !.blind = fails]
  <2>3. secrets \in SUBSET Version
    BY <2>1, AcceptedAreVersions
  <2>4. Good(request[r]) /\ ~fails => request[r].version \in secrets
    BY <2>1, AcceptedAreVersions DEF Good, RequestRow
  <2>5. request[r].version \in secrets => Good(request[r])
    BY <2>1, AcceptedAreVersions DEF Good, RequestRow
  <2>6. request' = [request EXCEPT ![r] = q]
    BY <2>2
  <2> HIDE DEF secrets
  <2>7. q \in RequestRow
    BY <2>1, <2>3 DEF RequestRow
  <2>8. /\ q.app = request[r].app /\ q.version = request[r].version
        /\ q.always = request[r].always /\ q.ever = request[r].ever
        /\ q.late = request[r].late /\ q.secrets = secrets /\ q.blind = fails
        /\ q.step = IF secrets = {} THEN "expiredInfo" ELSE "hasRotating"
    BY <2>1 DEF RequestRow
  <2> HIDE DEF q
  <2>9. /\ Good(q) <=> Good(request[r])
        /\ HasStatus(q.app, q.version, "ROTATING")
             <=> HasStatus(request[r].app, request[r].version, "ROTATING")
    BY <2>8 DEF Good
  <2>10. KeepsAccount(q)
    <3>1. q.always => Good(q)
      BY <2>1, <2>8, <2>9 DEF KeepsAccount
    <3>2. Good(q) => q.ever
      BY <2>1, <2>8, <2>9 DEF KeepsAccount
    <3>3. q.late /\ q.always => HasStatus(q.app, q.version, "ROTATING")
      BY <2>1, <2>8, <2>9 DEF KeepsAccount
    <3>4. q.version \in q.secrets => q.ever
      BY <2>5, <2>8, <2>9, <3>2
    <3>5. secrets # {} => ~fails
      BY DEF secrets
    <3>6. q.version \notin q.secrets => fails \/ ~q.always
      BY <2>4, <2>8, <2>9, <3>1
    <3>7. q.step = "hasRotating" => secrets # {}
      BY <2>8
    <3>8. q.step = "expiredInfo" => q.version \notin q.secrets
      BY <2>8
    <3> QED
      BY <2>8, <3>1, <3>2, <3>3, <3>4, <3>5, <3>6, <3>7, <3>8 DEF KeepsAccount
  <2>11. IsTrue(q)
    BY <2>8 DEF IsTrue
  <2>12. UNCHANGED vars
    BY <1>2 DEF ReadSecrets
  <2> QED
    BY <2>6, <2>7, <2>10, <2>11, <2>12, OneRequest
<1>3. ASSUME ReadExpiredInfo(r) PROVE AuthInv'
  <2>1. request[r] \in RequestRow /\ KeepsAccount(request[r])
    BY <1>3, RowOf DEF ReadExpiredInfo
  <2>2. PICK answer \in {"expired", "invalid"} :
          request' = [request EXCEPT ![r].step = answer]
    BY <1>3 DEF ReadExpiredInfo
  <2> DEFINE q == [request[r] EXCEPT !.step = answer]
  <2>3. request' = [request EXCEPT ![r] = q]
    BY <2>2
  <2>4. q \in RequestRow
    BY <2>1 DEF RequestRow
  <2>5. q.step = answer /\ q.always = request[r].always /\ q.blind = request[r].blind
    BY <2>1 DEF RequestRow
  <2>6. IsTrue(q)
    BY <1>3, <2>1, <2>5 DEF IsTrue, KeepsAccount, ReadExpiredInfo
  <2> HIDE DEF q
  <2>7. UNCHANGED vars
    BY <1>3 DEF ReadExpiredInfo
  <2> QED
    BY <2>3, <2>4, <2>5, <2>6, <2>7, OneRequest
<1>4. ASSUME ReadRotating(r) PROVE AuthInv'
  <2>1. request[r] \in RequestRow /\ KeepsAccount(request[r])
    BY <1>4, RowOf DEF ReadRotating
  <2>2. PICK fails \in BOOLEAN :
          request' = [request EXCEPT
            ![r].announced = ~fails /\ HasRotatingKey(request[r].app),
            ![r].step = IF Matches(request[r]) THEN "accepted" ELSE "mismatch",
            ![r].blind = @ \/ fails]
    BY <1>4 DEF ReadRotating
  <2> DEFINE told == ~fails /\ HasRotatingKey(request[r].app)
             blind == request[r].blind \/ fails
             q == [request[r] EXCEPT !.announced = told,
                     !.step = IF Matches(request[r]) THEN "accepted" ELSE "mismatch",
                     !.blind = blind]
  <2>3. request' = [request EXCEPT ![r] = q]
    BY <2>2
  <2>4. told \in BOOLEAN /\ blind \in BOOLEAN
    OBVIOUS
  <2>5. request[r].late /\ request[r].always /\ ~fails => told
    BY <2>1, AcceptedAreVersions DEF KeepsAccount, Good, HasRotatingKey, RequestRow
  <2>6. fails => blind
    OBVIOUS
  <2> HIDE DEF told, blind
  <2>7. q \in RequestRow
    BY <2>1, <2>4 DEF RequestRow
  <2>8. /\ q.always = request[r].always /\ q.ever = request[r].ever
        /\ q.late = request[r].late /\ q.announced = told /\ q.blind = blind
        /\ q.step = IF request[r].version \in request[r].secrets THEN "accepted"
                    ELSE "mismatch"
    BY <2>1 DEF RequestRow, Matches
  <2> HIDE DEF q
  <2>9. IsTrue(q)
    BY <1>4, <2>1, <2>5, <2>6, <2>8 DEF IsTrue, KeepsAccount, ReadRotating
  <2>10. UNCHANGED vars
    BY <1>4 DEF ReadRotating
  <2> QED
    BY <2>3, <2>7, <2>8, <2>9, <2>10, OneRequest
<1> QED
  BY <1>0, <1>1, <1>2, <1>3, <1>4 DEF Check

(***************************************************************************)
(* The keys change under the requests.  A retired key that is accepted     *)
(* afterwards is still a retired one: nothing makes it ACTIVE.             *)
(***************************************************************************)
LEMMA RetiredStays ==
  ASSUME KeyInv, Next, NEW k \in AppKey, NEW n \in Version,
         HasStatus(k, n, "ROTATING"), Accepted(k, n)'
  PROVE  HasStatus(k, n, "ROTATING")'
<1>1. OnlyNewKeysBecomeActive
  BY StepKeeps
<1>2. Exists(k, n) /\ ~HasStatus(k, n, "ACTIVE")
  BY DEF HasStatus
<1>3. ~HasStatus(k, n, "ACTIVE")'
  BY <1>1, <1>2 DEF OnlyNewKeysBecomeActive
<1> QED
  BY <1>3 DEF Accepted

LEMMA ChangeKeeps ==
  ASSUME AuthInv, KeyInv, KeysChange
  PROVE  AuthInv'
<1> USE DEF Checking, Answer, KeylessStep
<1>1. request \in [Request -> [step : KeylessStep] \cup RequestRow]
  BY DEF AuthInv, RequestTypeOK, RequestRow
<1>2. ASSUME NEW r \in Request, request[r].step \in Checking
      PROVE  /\ request'[r] \in RequestRow
             /\ KeepsAccount(request[r])'
             /\ IsTrue(request'[r])
  <2> DEFINE k == request[r].app
             n == request[r].version
             good == \E k1 \in AppKey, n1 \in Version :
                       k = k1 /\ n = n1 /\ Accepted(k1, n1)'
  <2>1. request[r] \in RequestRow /\ KeepsAccount(request[r])
    BY <1>2, RowOf
  <2>2. k \in AppKey /\ n \in Version \cup {Unknown} /\ Unknown \notin Version
    BY <2>1 DEF RequestRow, Version, Unknown
  <2>3. request'[r] = Seen(request[r])
    BY <1>2 DEF KeysChange
  <2> DEFINE always == request[r].always /\ good
             ever   == request[r].ever \/ good
  <2>4. Seen(request[r]) = [request[r] EXCEPT !.always = always, !.ever = ever]
    BY DEF Seen
  <2>5. good \in BOOLEAN /\ always \in BOOLEAN /\ ever \in BOOLEAN
    OBVIOUS
  <2> HIDE DEF good, always, ever
  <2>6. request'[r] \in RequestRow
    BY <2>1, <2>3, <2>4, <2>5, AccountRow
  <2>7. /\ request'[r].app = k /\ request'[r].version = n
        /\ request'[r].step = request[r].step /\ request'[r].secrets = request[r].secrets
        /\ request'[r].late = request[r].late /\ request'[r].blind = request[r].blind
    BY <2>1, <2>3, <2>4 DEF RequestRow
  <2>8. request'[r].always = always /\ request'[r].ever = ever
    BY <2>1, <2>3, <2>4 DEF RequestRow
  <2>9. Good(request[r])' <=> good
    <3>1. CASE n = Unknown
      BY <2>2, <2>7, <3>1 DEF Good, good
    <3>2. CASE n # Unknown
      BY <2>2, <2>7, <3>2 DEF Good, good, Accepted, HasStatus, Exists
    <3> QED
      BY <3>1, <3>2
  <2>10. request[r].late /\ request[r].always /\ good
           => HasStatus(request[r].app, request[r].version, "ROTATING")'
    <3> SUFFICES ASSUME request[r].late, request[r].always, good
                 PROVE  HasStatus(request[r].app, request[r].version, "ROTATING")'
      OBVIOUS
    <3>1. PICK k1 \in AppKey, n1 \in Version : k = k1 /\ n = n1 /\ Accepted(k1, n1)'
      BY DEF good
    <3>2. HasStatus(k1, n1, "ROTATING")
      BY <2>1, <3>1 DEF KeepsAccount
    <3>3. HasStatus(k1, n1, "ROTATING")'
      BY <3>1, <3>2, RetiredStays DEF KeysChange
    <3> QED
      BY <2>7, <3>1, <3>3 DEF HasStatus, Exists
  <2>11. /\ request'[r].always <=> request[r].always /\ good
         /\ request'[r].ever <=> request[r].ever \/ good
    BY <2>8 DEF always, ever
  <2>12. KeepsAccount(request[r])'
    BY <2>1, <2>7, <2>9, <2>10, <2>11 DEF KeepsAccount
  <2>13. IsTrue(request'[r])
    BY <1>2, <2>7 DEF IsTrue
  <2> QED
    BY <2>6, <2>12, <2>13
<1>3. ASSUME NEW r \in Request, request[r].step \notin Checking
      PROVE  request'[r] = request[r]
  BY <1>3 DEF KeysChange
<1>4. RequestInv'
  <2> SUFFICES ASSUME NEW r \in Request
               PROVE  \/ request'[r] \in [step : KeylessStep]
                      \/ /\ request'[r] \in RequestRow
                         /\ request'[r].step \in Checking => KeepsAccount(request[r])'
                         /\ IsTrue(request'[r])
    BY DEF RequestInv, IsTrue, RequestRow
  <2>1. CASE request[r].step \in Checking
    BY <1>2, <2>1
  <2>2. CASE request[r].step \notin Checking
    BY <1>3, <2>2 DEF AuthInv, RequestInv
  <2> QED
    BY <2>1, <2>2
<1>5. request' \in [Request -> [step : KeylessStep] \cup RequestRow]
  <2>1. \A r \in Request : request'[r] \in [step : KeylessStep] \cup RequestRow
    BY <1>1, <1>2, <1>3
  <2>2. request' = [r \in Request |-> request'[r]]
    BY DEF KeysChange
  <2> QED
    BY <2>1, <2>2
<1> QED
  BY <1>4, <1>5 DEF AuthInv, RequestTypeOK, RequestRow

-----------------------------------------------------------------------------
(***************************************************************************)
(* However the keys change while requests are checked, every request has   *)
(* its type, keeps its account of the secret it was signed with, and every *)
(* answer given is true.                                                   *)
(***************************************************************************)
THEOREM RequestsAreConsistent == AuthSpec => []AuthInv
<1>1. AuthInit => AuthInv
  BY DEF AuthInit, AuthInv, RequestTypeOK, RequestInv, KeylessStep
<1>2. AuthInv /\ KeyInv /\ [AuthNext]_authVars => AuthInv'
  <2> SUFFICES ASSUME AuthInv, KeyInv, [AuthNext]_authVars PROVE AuthInv'
    OBVIOUS
  <2>1. CASE KeysChange
    BY <2>1, ChangeKeeps
  <2>2. ASSUME NEW r \in Request, Check(r) PROVE AuthInv'
    BY <2>2, CheckKeeps
  <2>3. CASE UNCHANGED authVars
    BY <2>3 DEF authVars, vars, AuthInv, RequestTypeOK, RequestInv, KeepsAccount, Good,
                IsTrue, Accepted, HasStatus, Exists
  <2> QED
    BY <2>1, <2>2, <2>3 DEF AuthNext
<1> QED
  BY <1>1, <1>2, AuthImplementsKeys, KeysAreConsistent, PTL DEF AuthSpec

(***************************************************************************)
(* A request is let in only with a secret that was accepted at some moment *)
(* of it, and turned away only if it was not all the time, or a statement  *)
(* of the check failed: for any rotations and revocations in between.      *)
(***************************************************************************)
THEOREM EveryAnswerIsTrue == AuthSpec => []AnswersAreTrue
<1>1. AuthInv => AnswersAreTrue
  BY DEF AuthInv, RequestInv, IsTrue, AnswersAreTrue, KeylessStep
<1> QED
  BY <1>1, RequestsAreConsistent, PTL

(***************************************************************************)
(* A client that is let in with a retired key learns that there is a new   *)
(* one, unless its key ended meanwhile or the statement failed.            *)
(***************************************************************************)
THEOREM RetiredClientsAreTold == AuthSpec => []RotationIsAnnounced
<1>1. AuthInv => RotationIsAnnounced
  BY DEF AuthInv, RequestInv, IsTrue, RotationIsAnnounced, KeylessStep
<1> QED
  BY <1>1, RequestsAreConsistent, PTL

(* Every request that is being checked or was answered keeps its type.     *)
THEOREM RequestsAreTyped == AuthSpec => []RequestTypeOK
BY RequestsAreConsistent, PTL DEF AuthInv
=============================================================================
