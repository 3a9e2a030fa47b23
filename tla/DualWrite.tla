----------------------------- MODULE DualWrite -----------------------------
(***************************************************************************)
(* DualWriteStorage over two back ends, with Migrate copying what is in    *)
(* the primary to the secondary meanwhile: the online migration that       *)
(* docs/STORAGE_MIGRATION_GRAYSCALE.md describes.  Both back ends are      *)
(* LocalStorage.  A client is one Put or one Delete of one key; every step *)
(* of either back end may fail.                                            *)
(***************************************************************************)
EXTENDS FiniteSets

CONSTANTS
  Client,     \* calls of DualWriteStorage.Put and Delete
  Migrator,   \* the call of Migrate
  Key,
  NoKey

ASSUME MigratorAssumption == Migrator \notin Client

ASSUME KeyAssumption == NoKey \notin Key      \* as LocalStorage assumes

VARIABLES
  mode,             \* DualWriteMode, fixed when the storage is built
  deleteAfterCopy,  \* the argument of Migrate
  pdir, phandle,    \* the primary
  sdir, shandle,    \* the secondary
  step, key,        \* what each client does next, and to which key
  reported,         \* keys of which onSecondaryFail was told
  legacy,           \* keys the primary held at the beginning
  migration         \* Migrate: its next step, the keys it still has to visit and
                    \* the one it is at, those that were written while it read
                    \* them, the failed ones, and whether ctx was cancelled

Primary == INSTANCE LocalStorage
             WITH dir <- pdir, handle <- phandle, Caller <- Client

Secondary == INSTANCE LocalStorage
               WITH dir <- sdir, handle <- shandle, Caller <- Client \cup {Migrator}

primary == <<pdir, phandle>>
secondary == <<sdir, shandle>>
fixed == <<mode, deleteAfterCopy, legacy>>
vars == <<fixed, primary, secondary, step, key, reported, migration>>

Mode == {"Primary", "Both", "ShadowOnly"}

Step == {"idle", "put", "copy", "putShadow", "copyShadow", "putAgain", "copyAgain",
         "delete", "deleteShadow", "stored", "deleted", "putFailed", "deleteFailed"}

MigrationStep == {"idle", "next", "exists", "get", "put", "copy", "delete", "done"}

Goes(c, from, to) == step[c] = from /\ step' = [step EXCEPT ![c] = to]

-----------------------------------------------------------------------------
Init ==
  /\ mode \in Mode
  /\ deleteAfterCopy \in BOOLEAN
  /\ legacy \in SUBSET Key
  /\ pdir = [k \in Key |-> IF k \in legacy THEN "whole" ELSE "absent"]
  /\ phandle = Primary!AllClosed
  /\ sdir = Secondary!EmptyDir
  /\ shandle = Secondary!AllClosed
  /\ step = [c \in Client |-> "idle"]
  /\ key = [c \in Client |-> NoKey]
  /\ reported = {}
  /\ migration = [step |-> "idle", todo |-> {}, key |-> NoKey, torn |-> {},
                  failed |-> {}, stopped |-> FALSE]

(* Put and Delete skip the primary in mode ShadowOnly.                     *)
Start(c) ==
  /\ \/ Goes(c, "idle", IF mode = "ShadowOnly" THEN "putShadow" ELSE "put")
     \/ Goes(c, "idle", IF mode = "ShadowOnly" THEN "deleteShadow" ELSE "delete")
  /\ \E k \in Key : key' = [key EXCEPT ![c] = k]
  /\ UNCHANGED <<fixed, primary, secondary, reported, migration>>

-----------------------------------------------------------------------------
(* Put on the primary; its failure ends the call.  Truncating a file tears *)
(* it for Migrate, if that is reading it.                                  *)
PutPrimary(c) ==
  /\ \/ /\ Goes(c, "put", "copy")
        /\ Primary!Create(c, key[c])
        /\ migration' = [migration EXCEPT !.torn = IF migration.step \in {"put", "copy"}
                                                  THEN @ \cup ({key[c]} \cap {migration.key}) ELSE @]
     \/ Goes(c, "put", "putFailed") /\ UNCHANGED <<primary, migration>>
  /\ UNCHANGED <<fixed, secondary, key, reported>>

NotShadowed(done, shadow) == done        \* mutant: the secondary is not written

AfterPrimary(done, shadow) == IF mode = "Primary" THEN done ELSE shadow

CopyPrimary(c) ==
  /\ \/ /\ Goes(c, "copy", AfterPrimary("stored", "putShadow"))
        /\ Primary!Finish(c, TRUE)
     \/ Goes(c, "copy", "putFailed") /\ \E removed \in BOOLEAN : Primary!CopyFails(c, removed)
  /\ UNCHANGED <<fixed, secondary, key, reported, migration>>

(* writeSecondary tells onSecondaryFail of an error and forgets it.        *)
Unreported(c) == reported                \* mutant: the error is only forgotten

Report(c) == reported \cup {key[c]}

(* In mode ShadowOnly, Put writes to the secondary a second time, for its  *)
(* result.                                                                 *)
AfterShadow == IF mode = "ShadowOnly" THEN "putAgain" ELSE "stored"

PutSecondary(c) ==
  /\ \/ /\ Goes(c, "putShadow", "copyShadow")
        /\ Secondary!Create(c, key[c])
        /\ UNCHANGED reported
     \/ Goes(c, "putShadow", AfterShadow) /\ reported' = Report(c) /\ UNCHANGED secondary
  /\ UNCHANGED <<fixed, primary, key, migration>>

CopySecondary(c) ==
  /\ \/ Goes(c, "copyShadow", AfterShadow) /\ Secondary!Finish(c, TRUE) /\ UNCHANGED reported
     \/ /\ Goes(c, "copyShadow", AfterShadow) /\ reported' = Report(c)
        /\ \E removed \in BOOLEAN : Secondary!CopyFails(c, removed)
  /\ UNCHANGED <<fixed, primary, key, migration>>

PutAgain(c) ==
  /\ \/ Goes(c, "putAgain", "copyAgain") /\ Secondary!Create(c, key[c])
     \/ Goes(c, "putAgain", "putFailed") /\ UNCHANGED secondary
  /\ UNCHANGED <<fixed, primary, key, reported, migration>>

CopyAgain(c) ==
  /\ \/ Goes(c, "copyAgain", "stored") /\ Secondary!Finish(c, TRUE)
     \/ /\ Goes(c, "copyAgain", "putFailed")
        /\ \E removed \in BOOLEAN : Secondary!CopyFails(c, removed)
  /\ UNCHANGED <<fixed, primary, key, reported, migration>>

DeletePrimary(c) ==
  /\ \/ Goes(c, "delete", AfterPrimary("deleted", "deleteShadow")) /\ Primary!Delete(key[c])
     \/ Goes(c, "delete", "deleteFailed") /\ UNCHANGED primary
  /\ UNCHANGED <<fixed, secondary, key, reported, migration>>

DeleteSecondary(c) ==
  /\ Goes(c, "deleteShadow", "deleted")
  /\ \/ Secondary!Delete(key[c]) /\ UNCHANGED reported
     \/ UNCHANGED secondary /\ reported' = Report(c)
  /\ UNCHANGED <<fixed, primary, key, migration>>

-----------------------------------------------------------------------------
(* Migrate(ctx, secondary, primary, prefix, deleteAfterCopy).  Only this   *)
(* one direction is modelled; the other is the same with the names changed.*)
MigrateOnly == UNCHANGED <<fixed, step, key, reported>>

(* A file that is still being written is listed like any other.            *)
List ==
  /\ migration.step = "idle"
  /\ migration' = [migration EXCEPT !.step = "next",
                                    !.todo = {k \in Key : Primary!Exists(k)}]
  /\ UNCHANGED <<primary, secondary>> /\ MigrateOnly

(* The head of the loop: the list is worked off, or ctx is cancelled.      *)
NextFile ==
  /\ migration.step = "next"
  /\ \/ \E k \in migration.todo :
          migration' = [migration EXCEPT !.step = "exists", !.key = k, !.todo = @ \ {k}]
     \/ migration' = [migration EXCEPT !.step = "done", !.stopped = (migration.todo # {})]
  /\ UNCHANGED <<primary, secondary>> /\ MigrateOnly

ToNext(m) == [m EXCEPT !.step = "next", !.key = NoKey]

Unrecorded(m) == ToNext(m)               \* mutant: the key is not added to FailedKeys

Failed(m) == [ToNext(m) EXCEPT !.failed = @ \cup {m.key}]

(* An error of dst.Exists counts as a file that is not there.              *)
CheckExists ==
  /\ migration.step = "exists"
  /\ \/ Secondary!Exists(migration.key) /\ migration' = ToNext(migration)
     \/ migration' = [migration EXCEPT !.step = "get"]
  /\ UNCHANGED <<primary, secondary>> /\ MigrateOnly

(* src.Get opens the file; what is torn by now may be copied as it is.     *)
GetFile ==
  /\ migration.step = "get"
  /\ \/ /\ Primary!Exists(migration.key)
        /\ migration' = [migration EXCEPT !.step = "put",
                                          !.torn = IF pdir[migration.key] = "whole" THEN @
                                                   ELSE @ \cup {migration.key}]
     \/ migration' = Failed(migration)
  /\ UNCHANGED <<primary, secondary>> /\ MigrateOnly

PutFile ==
  /\ migration.step = "put"
  /\ \/ /\ Secondary!Create(Migrator, migration.key)
        /\ migration' = [migration EXCEPT !.step = "copy"]
     \/ UNCHANGED secondary /\ migration' = Failed(migration)
  /\ UNCHANGED primary /\ MigrateOnly

DeletedAnyway(m) == [m EXCEPT !.step = "delete"]
                                         \* mutant: the error of dst.Put is not looked at

AfterCopyError(m) == Failed(m)

CopyFile ==
  /\ migration.step = "copy"
  /\ \/ /\ Secondary!Finish(Migrator, migration.key \notin migration.torn)
        /\ migration' = IF deleteAfterCopy THEN [migration EXCEPT !.step = "delete"]
                        ELSE ToNext(migration)
     \/ /\ \E removed \in BOOLEAN : Secondary!CopyFails(Migrator, removed)
        /\ migration' = AfterCopyError(migration)
  /\ UNCHANGED primary /\ MigrateOnly

(* The error of src.Delete is ignored.                                     *)
DeleteSource ==
  /\ migration.step = "delete"
  /\ Primary!Delete(migration.key) \/ UNCHANGED primary
  /\ migration' = ToNext(migration)
  /\ UNCHANGED secondary /\ MigrateOnly

Call(c) ==
  \/ Start(c)
  \/ PutPrimary(c) \/ CopyPrimary(c) \/ PutSecondary(c) \/ CopySecondary(c)
  \/ PutAgain(c) \/ CopyAgain(c)
  \/ DeletePrimary(c) \/ DeleteSecondary(c)

Migrate == List \/ NextFile \/ CheckExists \/ GetFile \/ PutFile \/ CopyFile \/ DeleteSource

Next == Migrate \/ \E c \in Client : Call(c)

Spec == Init /\ [][Next]_vars

-----------------------------------------------------------------------------
(* Types, and a client has a file open exactly while it is copying, on the *)
(* side it is copying to.                                                  *)
TypeOK ==
  /\ mode \in Mode /\ deleteAfterCopy \in BOOLEAN /\ legacy \in SUBSET Key
  /\ Primary!StorageTypeOK /\ Secondary!StorageTypeOK
  /\ step \in [Client -> Step]
  /\ key \in [Client -> Key \cup {NoKey}]
  /\ reported \in SUBSET Key
  /\ migration \in [step : MigrationStep, todo : SUBSET Key, key : Key \cup {NoKey},
                     torn : SUBSET Key, failed : SUBSET Key, stopped : BOOLEAN]
  /\ \A c \in Client : /\ (phandle[c] # Primary!Closed) <=> (step[c] = "copy")
                       /\ (shandle[c] # Secondary!Closed)
                            <=> (step[c] \in {"copyShadow", "copyAgain"})

Ended == {"idle", "stored", "deleted", "putFailed", "deleteFailed"}

AtRest == (\A c \in Client : step[c] \in Ended) /\ migration.step \in {"idle", "next", "done"}

Happened(k, end) == \E c \in Client : key[c] = k /\ step[c] = end

(* In mode Both, what a Put stored is whole on both sides, unless          *)
(* onSecondaryFail was told, a Delete of the same key ran (the two back    *)
(* ends may see it and the Put in different orders), another Put of the    *)
(* same content failed on the primary, or Migrate read the file while it   *)
(* was being written or failed on it.                                      *)
NewDataIsOnBothSides ==
  mode = "Both" /\ AtRest =>
    \A k \in Key :
      /\ Happened(k, "stored") /\ ~Happened(k, "deleted") /\ ~Happened(k, "putFailed")
      /\ k \notin reported \cup migration.torn \cup migration.failed
      => sdir[k] = "whole" /\ (pdir[k] = "whole" \/ deleteAfterCopy)

(* Whatever fails and whenever Migrate stops, a file that no client writes *)
(* or deletes stays whole on one of the two sides.                         *)
NothingIsLost ==
  \A k \in legacy :
    (\A c \in Client : key[c] # k) => pdir[k] = "whole" \/ sdir[k] = "whole"

(* Once a migration under dual write has gone through its list, everything *)
(* the primary holds is on the secondary too, but for the keys the         *)
(* operator was told of, as for those in NewDataIsOnBothSides.             *)
SecondaryCatchesUp ==
  mode = "Both" /\ AtRest /\ migration.step = "done" /\ ~migration.stopped =>
    \A k \in Key :
      pdir[k] = "whole" =>
        \/ sdir[k] = "whole"
        \/ k \in reported \cup migration.torn \cup migration.failed
        \/ Happened(k, "deleted")
=============================================================================
