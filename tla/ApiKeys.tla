------------------------------ MODULE ApiKeys ------------------------------
(***************************************************************************)
(* APIKeyService: the versions of every app key, their rotation and        *)
(* revocation.  Create and Rotate check or read the table outside the      *)
(* statements that change it, so each of them is two steps, with anything  *)
(* in between; Revoke is one UPDATE statement.                             *)
(*                                                                         *)
(* CleanupExpired and CleanupExpiredFull change nothing: their first       *)
(* statement is an Update without a model, for which gorm returns an error *)
(* before it executes any SQL.  Rows are therefore never deleted.          *)
(***************************************************************************)
EXTENDS Integers

CONSTANTS
  AppKey,     \* app_key values
  Call,       \* calls of Create and Rotate, each made at most once
  MaxVersion  \* bound on the versions of a key

ASSUME VersionAssumption == MaxVersion \in Nat \ {0}

Version == 1..MaxVersion

Status == {"ACTIVE", "ROTATING", "REVOKED"}

(* What the clock makes of expire_at: NULL, later than now, not later.     *)
Expiry == {"never", "future", "past"}

KeyRow == [status : Status, expire : Expiry]

NoRow == [status |-> "none"]

Idle == [op |-> "idle"]

Done == [op |-> "done"]

Job ==
  {Idle, Done} \cup [op : {"create"}, app : AppKey]
               \cup [op : {"rotate"}, app : AppKey, version : Version]

VARIABLES
  keys,  \* the api_keys table, indexed by its unique key <<app_key, version>>
  job    \* how far each call has come, and the version of the row it has read

vars == <<keys, job>>

-----------------------------------------------------------------------------
Exists(k, n) == keys[<<k, n>>] # NoRow

HasStatus(k, n, st) == Exists(k, n) /\ keys[<<k, n>>].status = st

(* GetActiveSecrets: requests signed with this version are accepted.       *)
Accepted(k, n) ==
  /\ \E st \in {"ACTIVE", "ROTATING"} : HasStatus(k, n, st)
  /\ keys[<<k, n>>].expire # "past"

ReusedKey == [status |-> "ACTIVE"]       \* mutant: the row lacks a column

NewKey == [status |-> "ACTIVE", expire |-> "never"]

OldKey == [status |-> "ROTATING", expire |-> "future"]

IndexDropped(k, n) == FALSE              \* mutant: no unique index

(* The unique index on app_key and version refuses the row.                *)
VersionTaken(k, n) == Exists(k, n)

CreateCheck(c, k) ==
  /\ job[c] = Idle
  /\ \A n \in Version : ~Exists(k, n)
  /\ job' = [job EXCEPT ![c] = [op |-> "create", app |-> k]]
  /\ UNCHANGED keys

CreateInsert(c) ==
  LET k == job[c].app IN
  /\ job[c].op = "create"
  /\ \/ ~VersionTaken(k, 1) /\ keys' = [keys EXCEPT ![<<k, 1>>] = NewKey]
     \/ UNCHANGED keys                   \* the index or the database refuses
  /\ job' = [job EXCEPT ![c] = Done]

(* First ACTIVE row: the one with the smallest id, so the oldest version.  *)
RotateRead(c, k, n) ==
  /\ job[c] = Idle
  /\ HasStatus(k, n, "ACTIVE")
  /\ \A m \in 1..(n - 1) : ~HasStatus(k, m, "ACTIVE")
  /\ job' = [job EXCEPT ![c] = [op |-> "rotate", app |-> k, version |-> n]]
  /\ UNCHANGED keys

(***************************************************************************)
(* The transaction of Rotate.  Save writes the whole row that was read,    *)
(* whatever it is now; if the successor cannot be created, or the commit   *)
(* fails, the Save is rolled back with it.                                 *)
(***************************************************************************)
Rotated(k, n) == [keys EXCEPT ![<<k, n>>] = OldKey, ![<<k, n + 1>>] = NewKey]

SavedAnyway(k, n) == [keys EXCEPT ![<<k, n>>] = OldKey]  \* mutant: no transaction

RolledBack(k, n) == keys

RotateCommit(c) ==
  LET k == job[c].app
      n == job[c].version
  IN
  /\ job[c].op = "rotate"
  /\ \/ /\ n < MaxVersion
        /\ ~VersionTaken(k, n + 1)
        /\ keys' = Rotated(k, n)
     \/ keys' = RolledBack(k, n)
  /\ job' = [job EXCEPT ![c] = Done]

(* One UPDATE: a version that does not exist is a success without effect.  *)
Revoke(k, n) ==
  /\ Exists(k, n)
  /\ keys' = [keys EXCEPT ![<<k, n>>] = [status |-> "REVOKED", expire |-> "past"]]
  /\ UNCHANGED job

(* Time passes expire_at.                                                  *)
Expire(k, n) ==
  /\ Exists(k, n)
  /\ keys[<<k, n>>].expire = "future"
  /\ keys' = [keys EXCEPT ![<<k, n>>].expire = "past"]
  /\ UNCHANGED job

Init ==
  /\ keys = [row \in AppKey \X Version |-> NoRow]
  /\ job = [c \in Call |-> Idle]

Next ==
  \/ \E c \in Call, k \in AppKey : CreateCheck(c, k)
  \/ \E c \in Call : CreateInsert(c)
  \/ \E c \in Call, k \in AppKey, n \in Version : RotateRead(c, k, n)
  \/ \E c \in Call : RotateCommit(c)
  \/ \E k \in AppKey, n \in Version : Revoke(k, n)
  \/ \E k \in AppKey, n \in Version : Expire(k, n)

Spec == Init /\ [][Next]_vars

-----------------------------------------------------------------------------
(* Properties.                                                             *)

TypeOK ==
  /\ keys \in [AppKey \X Version -> KeyRow \cup {NoRow}]
  /\ job \in [Call -> Job]

(***************************************************************************)
(* However rotations, creations and revocations overlap, an app key has at *)
(* most one ACTIVE version, the one Rotate would retire next.              *)
(***************************************************************************)
OneActiveKey ==
  \A k \in AppKey, m, n \in Version :
    HasStatus(k, m, "ACTIVE") /\ HasStatus(k, n, "ACTIVE") => m = n

(***************************************************************************)
(* No rotation, failed or overlapped, leaves the clients of an app key     *)
(* without a key that does not run out: there is an ACTIVE version unless  *)
(* someone revoked one.                                                    *)
(***************************************************************************)
KeyAvailable ==
  \A k \in AppKey :
    (\E n \in Version : Exists(k, n)) =>
      \E n \in Version :
        \/ HasStatus(k, n, "ACTIVE") /\ Accepted(k, n)
        \/ HasStatus(k, n, "REVOKED")

(***************************************************************************)
(* GetActiveSecrets accepts a retired key only until it runs out: no step  *)
(* makes a version ACTIVE again that has left ACTIVE.                      *)
(***************************************************************************)
NeverReactivated ==
  [][\A k \in AppKey, n \in Version :
       Exists(k, n) /\ ~HasStatus(k, n, "ACTIVE") => ~HasStatus(k, n, "ACTIVE")']_vars

(***************************************************************************)
(* docs/API_KEY_ROTATION_RUNBOOK.md: a revocation takes effect at once and *)
(* without a grace period.  A Rotate that read the key before saves it as  *)
(* ROTATING, and requests signed with the revoked key are accepted again.  *)
(***************************************************************************)
RevocationIsFinal ==
  [][\A k \in AppKey, n \in Version :
       HasStatus(k, n, "REVOKED") => ~Accepted(k, n)']_vars
=============================================================================
