-------------------------- MODULE DualWriteProofs --------------------------
(***************************************************************************)
(* For any number of clients and keys, in every mode: what is on the two   *)
(* sides of a DualWriteStorage while Migrate copies from one to the other. *)
(***************************************************************************)
EXTENDS DualWrite, TLAPS

PrimaryFacts == INSTANCE LocalStorageProofs
                  WITH dir <- pdir, handle <- phandle, Caller <- Client

SecondaryFacts == INSTANCE LocalStorageProofs
                    WITH dir <- sdir, handle <- shandle, Caller <- Client \cup {Migrator}

FileState == {"absent", "partial", "whole"}

Handle == [key : Key \cup {NoKey}, linked : BOOLEAN, cut : BOOLEAN]

Closed == [key |-> NoKey, linked |-> FALSE, cut |-> FALSE]

Intact(h) == h.linked = TRUE /\ h.cut = FALSE

Migration == [step : MigrationStep, todo : SUBSET Key, key : Key \cup {NoKey},
              torn : SUBSET Key, failed : SUBSET Key, stopped : BOOLEAN]

Types ==
  /\ mode \in Mode /\ deleteAfterCopy \in BOOLEAN /\ legacy \in SUBSET Key
  /\ pdir \in [Key -> FileState] /\ phandle \in [Client -> Handle]
  /\ sdir \in [Key -> FileState] /\ shandle \in [Client \cup {Migrator} -> Handle]
  /\ step \in [Client -> Step]
  /\ key \in [Client -> Key \cup {NoKey}]
  /\ reported \in SUBSET Key
  /\ migration \in Migration

-----------------------------------------------------------------------------
(* The invariant.                                                          *)

Shadowing == {"copyShadow", "copyAgain"}

AtFile == {"exists", "get", "put", "copy", "delete"}

(* Who copies has the file of its key open, and nobody else has one.       *)
ClientFits(c) ==
  /\ step[c] # "idle" => key[c] \in Key
  /\ step[c] = "idle" => key[c] = NoKey
  /\ step[c] = "copy" => phandle[c].key = key[c]
  /\ step[c] # "copy" => phandle[c] = Closed
  /\ step[c] \in Shadowing => shandle[c].key = key[c]
  /\ step[c] \notin Shadowing => shandle[c] = Closed

MigratorFits ==
  /\ migration.step \in AtFile => migration.key \in Key
  /\ migration.step = "copy" => shandle[Migrator].key = migration.key
  /\ migration.step # "copy" => shandle[Migrator] = Closed

Fits == (\A c \in Client : ClientFits(c)) /\ MigratorFits

(* Only ShadowOnly writes twice, only a Migrate that is asked to deletes,  *)
(* and one that is not stopped works its list off.                         *)
Phases ==
  /\ \A c \in Client : step[c] \in {"putAgain", "copyAgain"} => mode = "ShadowOnly"
  /\ migration.step = "delete" => deleteAfterCopy = TRUE
  /\ migration.step = "done" /\ migration.stopped = FALSE => migration.todo = {}

(* What nobody promises anything of any more: once excused, always so.     *)
Excused(k) ==
  \/ k \in reported \/ k \in migration.torn \/ k \in migration.failed
  \/ \E c \in Client : key[c] = k /\ step[c] \in {"deleteShadow", "deleted"}

PutFailed(k) == \E c \in Client : key[c] = k /\ step[c] = "putFailed"

(* A torn file has a writer that will make it whole, or one that failed    *)
(* and could not remove it ...                                             *)
PrimaryTorn(k) ==
  pdir[k] = "partial" =>
    \/ \E c \in Client : key[c] = k /\ step[c] = "copy" /\ Intact(phandle[c])
    \/ PutFailed(k)

(* ... or, on the secondary, was copied while the source was torn.         *)
ShadowWriter(k) ==
  \/ \E c \in Client : key[c] = k /\ step[c] \in Shadowing /\ Intact(shandle[c])
  \/ migration.step = "copy" /\ migration.key = k /\ Intact(shandle[Migrator])

Spoiled(k) == Excused(k) \/ (mode = "ShadowOnly" /\ PutFailed(k))

SecondaryTorn(k) == sdir[k] = "partial" => ShadowWriter(k) \/ Spoiled(k)

OnPrimary == {"copy", "putShadow", "copyShadow", "stored"}

OnSecondary == {"copyShadow", "stored"}

(* What a Put has created is not missing without a reason.                 *)
PrimaryKept(k) ==
  \A c \in Client :
    mode = "Both" /\ deleteAfterCopy = FALSE
      /\ pdir[k] = "absent" /\ key[c] = k /\ step[c] \in OnPrimary => Excused(k) \/ PutFailed(k)

SecondaryKept(k) ==
  \A c \in Client :
    mode = "Both" /\ sdir[k] = "absent" /\ key[c] = k /\ step[c] \in OnSecondary => Excused(k)

(* What is missing on the secondary only is still to be visited by Migrate *)
(* or written by a client.                                                 *)
Visits(k) ==
  \/ migration.step = "idle"
  \/ k \in migration.todo
  \/ migration.key = k /\ migration.step \in {"exists", "get", "put"}

Shadowed(k) == \E c \in Client : key[c] = k /\ step[c] = "putShadow"

CatchingUp(k) ==
  mode = "Both" /\ sdir[k] = "absent" /\ pdir[k] = "whole"
    => Excused(k) \/ Visits(k) \/ Shadowed(k)

(* A file that no client touches is whole on the primary until its copy    *)
(* is whole on the secondary.                                              *)
Safe(k) ==
  /\ k \notin migration.torn
  /\ pdir[k] \in {"absent", "whole"}
  /\ pdir[k] = "absent" => sdir[k] = "whole"
  /\ migration.key = k =>
       /\ migration.step \in {"put", "copy"} => pdir[k] = "whole"
       /\ migration.step = "copy" => Intact(shandle[Migrator])
       /\ migration.step = "delete" => sdir[k] = "whole"

LegacySafe(k) == k \in legacy /\ (\A c \in Client : key[c] # k) => Safe(k)

InOrder(k) ==
  /\ PrimaryTorn(k) /\ SecondaryTorn(k)
  /\ PrimaryKept(k) /\ SecondaryKept(k) /\ CatchingUp(k)
  /\ LegacySafe(k)

Inv == Types /\ Fits /\ Phases /\ \A k \in Key : InOrder(k)

-----------------------------------------------------------------------------
(* The two sides.  Whoever a is, what it does to the file of k leaves the  *)
(* other files, and the files the others have open, as they were.          *)
Caller == Client \cup {Migrator}

PrimaryStep(a, k) ==
  /\ pdir' \in [Key -> FileState] /\ phandle' \in [Client -> Handle]
  /\ \A j \in Key : j # k => pdir'[j] = pdir[j]
  /\ \A d \in Client : d # a =>
       /\ phandle'[d].key = phandle[d].key
       /\ phandle[d].key # k => phandle'[d] = phandle[d]

SecondaryStep(a, k) ==
  /\ sdir' \in [Key -> FileState] /\ shandle' \in [Caller -> Handle]
  /\ \A j \in Key : j # k => sdir'[j] = sdir[j]
  /\ \A d \in Caller : d # a =>
       /\ shandle'[d].key = shandle[d].key
       /\ shandle[d].key # k => shandle'[d] = shandle[d]

LEMMA ClosedFacts ==
  /\ Closed \in Handle
  /\ Closed.key \notin Key
  /\ \A h \in Handle : h.key \in Key => h # Closed
BY KeyAssumption DEF Closed, Handle

LEMMA PrimaryCreates ==
  ASSUME Types, NEW c \in Client, NEW k \in Key, Primary!Create(c, k)
  PROVE  /\ PrimaryStep(c, k)
         /\ pdir'[k] = "partial" /\ phandle'[c].key = k /\ Intact(phandle'[c])
<1>1. PrimaryFacts!StorageTypeOK
  BY DEF Types, PrimaryFacts!StorageTypeOK, PrimaryFacts!FileState, PrimaryFacts!Handle,
         FileState, Handle
<1>2. PrimaryFacts!Create(c, k)
  BY DEF Primary!Create, PrimaryFacts!Create
<1>3. /\ PrimaryFacts!StorageTypeOK'
      /\ pdir'[k] = "partial" /\ PrimaryFacts!OthersStay(k)
      /\ phandle'[c].key = k /\ phandle'[c].linked = TRUE /\ phandle'[c].cut = FALSE
      /\ \A d \in Client : d # c =>
              /\ phandle'[d].key = phandle[d].key
              /\ phandle[d].key # k => phandle'[d] = phandle[d]
  BY <1>1, <1>2, PrimaryFacts!CreateEffect, KeyAssumption
<1> QED
  BY <1>3 DEF PrimaryFacts!StorageTypeOK, PrimaryFacts!FileState, PrimaryFacts!Handle,
              PrimaryFacts!OthersStay, FileState, Handle, PrimaryStep, Intact

LEMMA PrimaryFinishes ==
  ASSUME Types, NEW c \in Client, NEW k \in Key, NEW intact \in BOOLEAN,
         phandle[c].key = k, Primary!Finish(c, intact)
  PROVE  /\ PrimaryStep(c, k)
         /\ pdir'[k] \in {pdir[k], "whole"}
         /\ intact = TRUE /\ Intact(phandle[c]) => pdir'[k] = "whole"
         /\ phandle'[c] = Closed
         /\ \A e \in Client : e # c => phandle'[e] = phandle[e]
<1>1. PrimaryFacts!StorageTypeOK
  BY DEF Types, PrimaryFacts!StorageTypeOK, PrimaryFacts!FileState, PrimaryFacts!Handle,
         FileState, Handle
<1>2. PrimaryFacts!Finish(c, intact)
  BY DEF Primary!Finish, Primary!Closed, Primary!Left,
         PrimaryFacts!Finish, PrimaryFacts!Closed, PrimaryFacts!Left
<1>3. /\ PrimaryFacts!StorageTypeOK'
      /\ pdir'[k] \in {pdir[k], "whole"} /\ PrimaryFacts!OthersStay(k)
      /\ intact = TRUE /\ phandle[c].linked = TRUE /\ phandle[c].cut = FALSE => pdir'[k] = "whole"
      /\ phandle'[c] = PrimaryFacts!Closed
      /\ \A e \in Client : e # c => phandle'[e] = phandle[e]
  BY <1>1, <1>2, PrimaryFacts!FinishEffect, KeyAssumption
<1> QED
  BY <1>3 DEF PrimaryFacts!StorageTypeOK, PrimaryFacts!FileState, PrimaryFacts!Handle,
              PrimaryFacts!OthersStay, PrimaryFacts!Closed, FileState, Handle, Closed, PrimaryStep, Intact

LEMMA PrimaryCopyFails ==
  ASSUME Types, NEW c \in Client, NEW k \in Key, phandle[c].key = k,
         NEW removed \in BOOLEAN, Primary!CopyFails(c, removed)
  PROVE  /\ PrimaryStep(c, k)
         /\ pdir'[k] \in {pdir[k], "absent"} /\ phandle'[c] = Closed
<1>1. PrimaryFacts!StorageTypeOK
  BY DEF Types, PrimaryFacts!StorageTypeOK, PrimaryFacts!FileState, PrimaryFacts!Handle,
         FileState, Handle
<1>2. PrimaryFacts!CopyFails(c, removed)
  <2>1. Primary!Closed = PrimaryFacts!Closed
    BY DEF Primary!Closed, PrimaryFacts!Closed
  <2>2. Primary!Unlinked(phandle[c].key) = PrimaryFacts!Unlinked(phandle[c].key)
    BY DEF Primary!Unlinked, PrimaryFacts!Unlinked
  <2> QED
    BY <2>1, <2>2 DEF Primary!CopyFails, PrimaryFacts!CopyFails
<1>3. /\ PrimaryFacts!StorageTypeOK'
      /\ pdir'[k] \in {pdir[k], "absent"} /\ PrimaryFacts!OthersStay(k)
      /\ phandle'[c] = PrimaryFacts!Closed
      /\ \A e \in Client : e # c =>
              /\ phandle'[e].key = phandle[e].key
              /\ phandle[e].key # k => phandle'[e] = phandle[e]
  BY <1>1, <1>2, PrimaryFacts!CopyFailsEffect, KeyAssumption
<1> QED
  BY <1>3 DEF PrimaryFacts!StorageTypeOK, PrimaryFacts!FileState, PrimaryFacts!Handle,
              PrimaryFacts!OthersStay, PrimaryFacts!Closed, FileState, Handle, Closed, PrimaryStep, Intact

LEMMA PrimaryDeletes ==
  ASSUME Types, NEW k \in Key, Primary!Delete(k), NEW a
  PROVE  /\ PrimaryStep(a, k)
         /\ pdir'[k] = "absent"
         /\ \A e \in Client : phandle[e] = Closed => phandle'[e] = Closed
<1>1. PrimaryFacts!StorageTypeOK
  BY DEF Types, PrimaryFacts!StorageTypeOK, PrimaryFacts!FileState, PrimaryFacts!Handle,
         FileState, Handle
<1>2. PrimaryFacts!Delete(k)
  BY DEF Primary!Delete, Primary!Unlinked, PrimaryFacts!Delete, PrimaryFacts!Unlinked, Caller
<1>3. /\ PrimaryFacts!StorageTypeOK'
      /\ pdir'[k] = "absent" /\ PrimaryFacts!OthersStay(k)
      /\ \A e \in Client :
           /\ phandle'[e].key = phandle[e].key
           /\ phandle[e].key # k => phandle'[e] = phandle[e]
  BY <1>1, <1>2, PrimaryFacts!DeleteEffect, KeyAssumption
<1>4. \A e \in Client : phandle[e] = Closed => phandle'[e] = Closed
  BY <1>3, ClosedFacts
<1> QED
  BY <1>3, <1>4 DEF PrimaryFacts!StorageTypeOK, PrimaryFacts!FileState, PrimaryFacts!Handle,
              PrimaryFacts!OthersStay, FileState, Handle, PrimaryStep, Intact

LEMMA SecondaryCreates ==
  ASSUME Types, NEW c \in Caller, NEW k \in Key, Secondary!Create(c, k)
  PROVE  /\ SecondaryStep(c, k)
         /\ sdir'[k] = "partial" /\ shandle'[c].key = k /\ Intact(shandle'[c])
<1>1. SecondaryFacts!StorageTypeOK
  BY DEF Types, SecondaryFacts!StorageTypeOK, SecondaryFacts!FileState, SecondaryFacts!Handle,
         FileState, Handle, Caller
<1>2. SecondaryFacts!Create(c, k)
  BY DEF Secondary!Create, SecondaryFacts!Create, Caller
<1>3. /\ SecondaryFacts!StorageTypeOK'
      /\ sdir'[k] = "partial" /\ SecondaryFacts!OthersStay(k)
      /\ shandle'[c].key = k /\ shandle'[c].linked = TRUE /\ shandle'[c].cut = FALSE
      /\ \A e \in Caller : e # c =>
              /\ shandle'[e].key = shandle[e].key
              /\ shandle[e].key # k => shandle'[e] = shandle[e]
  BY <1>1, <1>2, SecondaryFacts!CreateEffect, KeyAssumption DEF Caller
<1> QED
  BY <1>3 DEF SecondaryFacts!StorageTypeOK, SecondaryFacts!FileState, SecondaryFacts!Handle,
              SecondaryFacts!OthersStay, SecondaryFacts!Closed, FileState, Handle, Closed, SecondaryStep, Intact, Caller

LEMMA SecondaryFinishes ==
  ASSUME Types, NEW c \in Caller, NEW k \in Key, NEW intact \in BOOLEAN,
         shandle[c].key = k, Secondary!Finish(c, intact)
  PROVE  /\ SecondaryStep(c, k)
         /\ sdir'[k] \in {sdir[k], "whole"}
         /\ intact = TRUE /\ Intact(shandle[c]) => sdir'[k] = "whole"
         /\ shandle'[c] = Closed
         /\ \A e \in Caller : e # c => shandle'[e] = shandle[e]
<1>1. SecondaryFacts!StorageTypeOK
  BY DEF Types, SecondaryFacts!StorageTypeOK, SecondaryFacts!FileState, SecondaryFacts!Handle,
         FileState, Handle, Caller
<1>2. SecondaryFacts!Finish(c, intact)
  BY DEF Secondary!Finish, Secondary!Closed, Secondary!Left,
         SecondaryFacts!Finish, SecondaryFacts!Closed, SecondaryFacts!Left
<1>3. /\ SecondaryFacts!StorageTypeOK'
      /\ sdir'[k] \in {sdir[k], "whole"} /\ SecondaryFacts!OthersStay(k)
      /\ intact = TRUE /\ shandle[c].linked = TRUE /\ shandle[c].cut = FALSE => sdir'[k] = "whole"
      /\ shandle'[c] = SecondaryFacts!Closed
      /\ \A e \in Caller : e # c => shandle'[e] = shandle[e]
  BY <1>1, <1>2, SecondaryFacts!FinishEffect, KeyAssumption DEF Caller
<1> QED
  BY <1>3 DEF SecondaryFacts!StorageTypeOK, SecondaryFacts!FileState, SecondaryFacts!Handle,
              SecondaryFacts!OthersStay, SecondaryFacts!Closed, FileState, Handle, Closed, SecondaryStep, Intact, Caller

LEMMA SecondaryCopyFails ==
  ASSUME Types, NEW c \in Caller, NEW k \in Key, shandle[c].key = k,
         NEW removed \in BOOLEAN, Secondary!CopyFails(c, removed)
  PROVE  /\ SecondaryStep(c, k)
         /\ sdir'[k] \in {sdir[k], "absent"} /\ shandle'[c] = Closed
<1>1. SecondaryFacts!StorageTypeOK
  BY DEF Types, SecondaryFacts!StorageTypeOK, SecondaryFacts!FileState, SecondaryFacts!Handle,
         FileState, Handle, Caller
<1>2. SecondaryFacts!CopyFails(c, removed)
  <2>1. Secondary!Closed = SecondaryFacts!Closed
    BY DEF Secondary!Closed, SecondaryFacts!Closed
  <2>2. Secondary!Unlinked(shandle[c].key) = SecondaryFacts!Unlinked(shandle[c].key)
    BY DEF Secondary!Unlinked, SecondaryFacts!Unlinked
  <2> QED
    BY <2>1, <2>2 DEF Secondary!CopyFails, SecondaryFacts!CopyFails
<1>3. /\ SecondaryFacts!StorageTypeOK'
      /\ sdir'[k] \in {sdir[k], "absent"} /\ SecondaryFacts!OthersStay(k)
      /\ shandle'[c] = SecondaryFacts!Closed
      /\ \A e \in Caller : e # c =>
              /\ shandle'[e].key = shandle[e].key
              /\ shandle[e].key # k => shandle'[e] = shandle[e]
  BY <1>1, <1>2, SecondaryFacts!CopyFailsEffect, KeyAssumption DEF Caller
<1> QED
  BY <1>3 DEF SecondaryFacts!StorageTypeOK, SecondaryFacts!FileState, SecondaryFacts!Handle,
              SecondaryFacts!OthersStay, SecondaryFacts!Closed, FileState, Handle, Closed, SecondaryStep, Intact, Caller

LEMMA SecondaryDeletes ==
  ASSUME Types, NEW k \in Key, Secondary!Delete(k), NEW a
  PROVE  /\ SecondaryStep(a, k)
         /\ sdir'[k] = "absent"
         /\ \A e \in Caller : shandle[e] = Closed => shandle'[e] = Closed
<1>1. SecondaryFacts!StorageTypeOK
  BY DEF Types, SecondaryFacts!StorageTypeOK, SecondaryFacts!FileState, SecondaryFacts!Handle,
         FileState, Handle, Caller
<1>2. SecondaryFacts!Delete(k)
  BY DEF Secondary!Delete, Secondary!Unlinked, SecondaryFacts!Delete, SecondaryFacts!Unlinked, Caller
<1>3. /\ SecondaryFacts!StorageTypeOK'
      /\ sdir'[k] = "absent" /\ SecondaryFacts!OthersStay(k)
      /\ \A e \in Caller :
           /\ shandle'[e].key = shandle[e].key
           /\ shandle[e].key # k => shandle'[e] = shandle[e]
  BY <1>1, <1>2, SecondaryFacts!DeleteEffect, KeyAssumption DEF Caller
<1>4. \A e \in Caller : shandle[e] = Closed => shandle'[e] = Closed
  BY <1>3, ClosedFacts
<1> QED
  BY <1>3, <1>4 DEF SecondaryFacts!StorageTypeOK, SecondaryFacts!FileState, SecondaryFacts!Handle,
              SecondaryFacts!OthersStay, FileState, Handle, SecondaryStep, Intact, Caller

-----------------------------------------------------------------------------
(* A step of a, a client or Migrate, that is about the key k: what it may  *)
(* do to everything else.                                                  *)
ClientTurn(c, k) ==
  /\ key'[c] = k
  /\ key[c] = k \/ step[c] = "idle"
  /\ step[c] \notin {"putFailed", "deleted"}
  /\ step[c] = "deleteShadow" => step'[c] = "deleted"
  /\ migration'.step = migration.step /\ migration'.todo = migration.todo
  /\ migration'.key = migration.key /\ migration'.stopped = migration.stopped

MigratorTurn(k) ==
  /\ migration.step = "copy" => migration.key = k
  /\ migration'.step \in {"put", "copy", "delete"} => migration'.key = k
  /\ \A j \in Key : j # k /\ pdir[j] # "absent" /\ Visits(j) => Visits(j)'

Grows(k) ==
  /\ reported \subseteq reported'
  /\ migration.failed \subseteq migration'.failed
  /\ migration.torn \subseteq migration'.torn
  /\ migration'.torn \subseteq migration.torn \cup {k}

Turn(a, k) ==
  /\ Types'
  /\ UNCHANGED <<mode, deleteAfterCopy, legacy>>
  /\ PrimaryStep(a, k) /\ SecondaryStep(a, k)
  /\ Grows(k)
  /\ \A d \in Client : d # a => step'[d] = step[d] /\ key'[d] = key[d]
  /\ a \in Client => ClientTurn(a, k)
  /\ a = Migrator => MigratorTurn(k)

LEMMA UnchangedSides ==
  ASSUME Types, NEW a, NEW k
  PROVE  /\ UNCHANGED primary => PrimaryStep(a, k)
         /\ UNCHANGED secondary => SecondaryStep(a, k)
BY DEF Types, primary, secondary, PrimaryStep, SecondaryStep, Caller

(* The others still have the files open that they are copying.             *)
LEMMA OthersFit ==
  ASSUME Types, Fits, NEW a \in Caller, NEW k \in Key, Turn(a, k), NEW d \in Client, d # a
  PROVE  ClientFits(d)'
<1>1. ClientFits(d) /\ d \in Caller
  BY DEF Fits, Caller
<1>2. step'[d] = step[d] /\ key'[d] = key[d]
  BY DEF Turn
<1>3. phandle'[d].key = phandle[d].key /\ (phandle[d] = Closed => phandle'[d] = Closed)
  BY ClosedFacts DEF Turn, PrimaryStep
<1>4. shandle'[d].key = shandle[d].key /\ (shandle[d] = Closed => shandle'[d] = Closed)
  BY <1>1, ClosedFacts DEF Turn, SecondaryStep
<1> QED
  BY <1>1, <1>2, <1>3, <1>4 DEF ClientFits

LEMMA MigratorStaysFit ==
  ASSUME Types, Fits, NEW c \in Client, NEW k \in Key, Turn(c, k)
  PROVE  MigratorFits'
<1>1. MigratorFits /\ Migrator \in Caller /\ Migrator # c
  BY MigratorAssumption DEF Fits, Caller
<1>2. migration'.step = migration.step /\ migration'.key = migration.key
  BY DEF Turn, ClientTurn
<1>3. /\ shandle'[Migrator].key = shandle[Migrator].key
      /\ shandle[Migrator] = Closed => shandle'[Migrator] = Closed
  BY <1>1, ClosedFacts DEF Turn, SecondaryStep
<1> QED
  BY <1>1, <1>2, <1>3 DEF MigratorFits

(* Nothing excused is ever promised again, and a Put that failed stays     *)
(* failed.                                                                 *)
LEMMA ExcusedStays ==
  ASSUME Types, NEW a \in Caller, NEW k, Turn(a, k), NEW j \in Key, Excused(j)
  PROVE  Excused(j)'
<1>1. CASE j \in reported \/ j \in migration.torn \/ j \in migration.failed
  BY <1>1 DEF Turn, Grows, Excused
<1>2. CASE \E c \in Client : key[c] = j /\ step[c] \in {"deleteShadow", "deleted"}
  <2>1. PICK c \in Client : key[c] = j /\ step[c] \in {"deleteShadow", "deleted"}
    BY <1>2
  <2>2. key'[c] = j /\ step'[c] \in {"deleteShadow", "deleted"}
    BY <2>1 DEF Turn, ClientTurn
  <2> QED
    BY <2>2 DEF Excused
<1> QED
  BY <1>1, <1>2 DEF Excused

LEMMA PutFailedStays ==
  ASSUME Types, NEW a \in Caller, NEW k, Turn(a, k), NEW j \in Key, PutFailed(j)
  PROVE  PutFailed(j)'
BY DEF Turn, ClientTurn, PutFailed

LEMMA SpoiledStays ==
  ASSUME Types, NEW a \in Caller, NEW k, Turn(a, k), NEW j \in Key, Spoiled(j)
  PROVE  Spoiled(j)'
<1>1. mode' = mode
  BY DEF Turn
<1> QED
  BY <1>1, ExcusedStays, PutFailedStays DEF Spoiled

(* Who has to do with another key is not a, or is a before it starts.      *)
LEMMA NotTheOne ==
  ASSUME Types, Fits, NEW a \in Caller, NEW k, Turn(a, k), NEW j \in Key, j # k, NEW d \in Client
  PROVE  /\ key[d] = j => d # a
         /\ key'[d] = j => d # a
         /\ d # a => step'[d] = step[d] /\ key'[d] = key[d]
<1>1. d = a /\ step[d] = "idle" => key[d] = NoKey
  BY DEF Fits, ClientFits
<1> QED
  BY <1>1, KeyAssumption DEF Turn, ClientTurn

LEMMA OtherTorn ==
  ASSUME Types, Fits, NEW a \in Caller, NEW k, Turn(a, k), NEW j \in Key, j # k,
         PrimaryTorn(j), SecondaryTorn(j)
  PROVE  PrimaryTorn(j)' /\ SecondaryTorn(j)'
<1>1. pdir'[j] = pdir[j] /\ sdir'[j] = sdir[j]
  BY DEF Turn, PrimaryStep, SecondaryStep
<1>2. ASSUME NEW d \in Client, key[d] = j, step[d] = "copy", Intact(phandle[d])
      PROVE  key'[d] = j /\ step'[d] = "copy" /\ Intact(phandle[d])'
  <2>1. phandle[d].key = j /\ d # a
    BY <1>2, NotTheOne DEF Fits, ClientFits
  <2>2. phandle'[d] = phandle[d]
    BY <2>1 DEF Turn, PrimaryStep
  <2> QED
    BY <1>2, <2>1, <2>2, NotTheOne DEF Intact
<1>3. ASSUME NEW d \in Client, key[d] = j, step[d] \in Shadowing, Intact(shandle[d])
      PROVE  key'[d] = j /\ step'[d] \in Shadowing /\ Intact(shandle[d])'
  <2>1. shandle[d].key = j /\ d # a /\ d \in Caller
    BY <1>3, NotTheOne DEF Fits, ClientFits, Caller
  <2>2. shandle'[d] = shandle[d]
    BY <2>1 DEF Turn, SecondaryStep
  <2> QED
    BY <1>3, <2>1, <2>2, NotTheOne DEF Intact
<1>4. ASSUME migration.step = "copy", migration.key = j, Intact(shandle[Migrator]), a # Migrator
      PROVE  migration'.step = "copy" /\ migration'.key = j /\ Intact(shandle[Migrator])'
  <2>1. shandle[Migrator].key = j /\ Migrator \in Caller
    BY <1>4 DEF Fits, MigratorFits, Caller
  <2>2. shandle'[Migrator] = shandle[Migrator]
    BY <1>4, <2>1 DEF Turn, SecondaryStep
  <2>3. a \in Client
    BY <1>4 DEF Caller
  <2> QED
    BY <1>4, <2>2, <2>3 DEF Turn, ClientTurn, Intact
<1>5. a = Migrator => ~(migration.step = "copy" /\ migration.key = j)
  BY DEF Turn, MigratorTurn
<1>6. (PutFailed(j) => PutFailed(j)') /\ (Spoiled(j) => Spoiled(j)')
  BY PutFailedStays, SpoiledStays
<1>7. PrimaryTorn(j)'
  BY <1>1, <1>2, <1>6 DEF PrimaryTorn
<1>8. ShadowWriter(j) => ShadowWriter(j)'
  BY <1>3, <1>4, <1>5 DEF ShadowWriter
<1>9. SecondaryTorn(j)'
  BY <1>1, <1>6, <1>8 DEF SecondaryTorn
<1> QED
  BY <1>7, <1>9

LEMMA OtherKept ==
  ASSUME Types, Fits, NEW a \in Caller, NEW k, Turn(a, k), NEW j \in Key, j # k,
         PrimaryKept(j), SecondaryKept(j), CatchingUp(j)
  PROVE  PrimaryKept(j)' /\ SecondaryKept(j)' /\ CatchingUp(j)'
<1>1. pdir'[j] = pdir[j] /\ sdir'[j] = sdir[j]
  BY DEF Turn, PrimaryStep, SecondaryStep
<1>2. mode' = mode /\ deleteAfterCopy' = deleteAfterCopy
  BY DEF Turn
<1>3. Excused(j) => Excused(j)'
  BY ExcusedStays
<1>4. PutFailed(j) => PutFailed(j)'
  BY PutFailedStays
<1>5. \A d \in Client : key'[d] = j => key[d] = j /\ step'[d] = step[d]
  BY NotTheOne
<1>6. PrimaryKept(j)'
  BY <1>1, <1>2, <1>3, <1>4, <1>5 DEF PrimaryKept
<1>7. SecondaryKept(j)'
  BY <1>1, <1>2, <1>3, <1>5 DEF SecondaryKept
<1>8. Shadowed(j) => Shadowed(j)'
  <2>1. \A d \in Client : key[d] = j => key'[d] = j /\ step'[d] = step[d]
    BY NotTheOne
  <2> QED
    BY <2>1 DEF Shadowed
<1>9. pdir[j] # "absent" /\ Visits(j) => Visits(j)'
  <2>1. CASE a = Migrator
    BY <2>1 DEF Turn, MigratorTurn
  <2>2. CASE a \in Client
    BY <2>2 DEF Turn, ClientTurn, Visits
  <2> QED
    BY <2>1, <2>2 DEF Caller
<1>10. CatchingUp(j)'
  BY <1>1, <1>2, <1>3, <1>8, <1>9 DEF CatchingUp
<1> QED
  BY <1>6, <1>7, <1>10

LEMMA OtherSafe ==
  ASSUME Types, Fits, NEW a \in Caller, NEW k, Turn(a, k), NEW j \in Key, j # k, LegacySafe(j)
  PROVE  LegacySafe(j)'
<1> SUFFICES ASSUME j \in legacy, \A c \in Client : key'[c] # j
             PROVE  Safe(j)'
  BY DEF Turn, LegacySafe
<1>1. Safe(j)
  <2>1. \A c \in Client : key[c] # j
    BY NotTheOne
  <2> QED
    BY <2>1 DEF LegacySafe
<1>2. pdir'[j] = pdir[j] /\ sdir'[j] = sdir[j] /\ j \notin migration'.torn
  BY <1>1 DEF Turn, PrimaryStep, SecondaryStep, Grows, Safe
<1>3. CASE a = Migrator
  BY <1>1, <1>2, <1>3, KeyAssumption DEF Turn, MigratorTurn, Safe
<1>4. CASE a \in Client
  <2>1. migration'.step = migration.step /\ migration'.key = migration.key
    BY <1>4 DEF Turn, ClientTurn
  <2>2. ASSUME migration.step = "copy", migration.key = j
        PROVE  shandle'[Migrator] = shandle[Migrator]
    <3>1. shandle[Migrator].key = j /\ Migrator \in Caller /\ Migrator # a
      BY <1>4, <2>2, MigratorAssumption DEF Fits, MigratorFits, Caller
    <3> QED
      BY <3>1 DEF Turn, SecondaryStep
  <2> QED
    BY <1>1, <1>2, <2>1, <2>2 DEF Safe, Intact
<1> QED
  BY <1>3, <1>4 DEF Caller

(* So only k itself has to be looked at.                                   *)
LEMMA OtherKeys ==
  ASSUME Inv, NEW a \in Caller, NEW k, Turn(a, k), NEW j \in Key, j # k
  PROVE  InOrder(j)'
<1>1. Types /\ Fits /\ InOrder(j)
  BY DEF Inv
<1>2. PrimaryTorn(j)' /\ SecondaryTorn(j)'
  BY <1>1, OtherTorn DEF InOrder
<1>3. PrimaryKept(j)' /\ SecondaryKept(j)' /\ CatchingUp(j)'
  BY <1>1, OtherKept DEF InOrder
<1>4. LegacySafe(j)'
  BY <1>1, OtherSafe DEF InOrder
<1> QED
  BY <1>2, <1>3, <1>4 DEF InOrder

LEMMA ClientStep ==
  ASSUME Inv, NEW c \in Client, NEW k \in Key, Turn(c, k), ClientFits(c)',
         step'[c] \in {"putAgain", "copyAgain"} => mode = "ShadowOnly",
         PrimaryTorn(k)', SecondaryTorn(k)', PrimaryKept(k)', SecondaryKept(k)', CatchingUp(k)'
  PROVE  Inv'
<1>1. c \in Caller /\ Types /\ Fits /\ Phases
  BY DEF Caller, Inv
<1>2. \A d \in Client : ClientFits(d)'
  BY <1>1, OthersFit
<1>3. MigratorFits'
  BY <1>1, MigratorStaysFit
<1>4. Phases'
  BY <1>1 DEF Turn, ClientTurn, Phases
<1>5. LegacySafe(k)'
  BY DEF Turn, ClientTurn, LegacySafe
<1>6. \A j \in Key : InOrder(j)'
  BY <1>1, <1>5, OtherKeys DEF InOrder
<1> QED
  BY <1>2, <1>3, <1>4, <1>6 DEF Inv, Turn, Fits

LEMMA MigratorStep ==
  ASSUME Inv, NEW k \in Key, Turn(Migrator, k), MigratorFits', Phases', InOrder(k)'
  PROVE  Inv'
<1>1. Migrator \in Caller /\ Types /\ Fits
  BY DEF Caller, Inv
<1>2. \A d \in Client : ClientFits(d)'
  BY <1>1, OthersFit, MigratorAssumption
<1>3. \A j \in Key : InOrder(j)'
  BY <1>1, OtherKeys
<1> QED
  BY <1>2, <1>3 DEF Inv, Turn, Fits

-----------------------------------------------------------------------------
(* The steps of a client.                                                  *)
Tears(k) ==
  /\ migration' \in Migration
  /\ migration'.step = migration.step /\ migration'.todo = migration.todo
  /\ migration'.key = migration.key /\ migration'.stopped = migration.stopped
  /\ migration'.failed = migration.failed
  /\ migration.torn \subseteq migration'.torn
  /\ migration'.torn \subseteq migration.torn \cup {k}

Moves(c, k, to) ==
  /\ step[c] \notin {"putFailed", "deleted"}
  /\ step[c] = "deleteShadow" => to = "deleted"
  /\ step' = [step EXCEPT ![c] = to]
  /\ key[c] = k \/ step[c] = "idle"
  /\ key' \in [Client -> Key \cup {NoKey}] /\ key'[c] = k
  /\ \A d \in Client : d # c => key'[d] = key[d]
  /\ reported' = reported \/ reported' = reported \cup {k}
  /\ UNCHANGED fixed

LEMMA ClientTurns ==
  ASSUME Types, NEW c \in Client, NEW k \in Key, NEW to \in Step, Moves(c, k, to),
         PrimaryStep(c, k), SecondaryStep(c, k), Tears(k)
  PROVE  /\ Turn(c, k)
         /\ step'[c] = to /\ key'[c] = k
         /\ \A d \in Client : d # c => step'[d] = step[d] /\ key'[d] = key[d]
         /\ c \in Caller
<1>1. step' \in [Client -> Step] /\ step'[c] = to /\ \A d \in Client : d # c => step'[d] = step[d]
  BY DEF Types, Moves
<1>2. Types'
  BY <1>1 DEF Types, Moves, fixed, PrimaryStep, SecondaryStep, Tears, Caller
<1>3. Grows(k)
  BY DEF Moves, Tears, Grows
<1>4. c # Migrator
  BY MigratorAssumption
<1>5. ClientTurn(c, k)
  BY <1>1 DEF ClientTurn, Moves, Tears
<1> QED
  BY <1>1, <1>2, <1>3, <1>4, <1>5 DEF Turn, Moves, fixed, Caller

(* Nothing but the call itself moves: it starts, or something fails        *)
(* before it touches a file.                                               *)
QuietMove(from, to, told) ==
  \/ from = "idle" /\ to \in {"put", "delete", "deleteShadow"}
  \/ from = "idle" /\ to = "putShadow" /\ mode = "ShadowOnly"
  \/ from = "put" /\ to = "putFailed"
  \/ from = "putShadow" /\ to = "stored" /\ mode # "ShadowOnly" /\ told
  \/ from = "putShadow" /\ to = "putAgain" /\ mode = "ShadowOnly" /\ told
  \/ from = "putAgain" /\ to = "putFailed"
  \/ from = "delete" /\ to = "deleteFailed"
  \/ from = "deleteShadow" /\ to = "deleted"

LEMMA QuietStep ==
  ASSUME Inv, NEW c \in Client, NEW k \in Key, NEW to \in Step, Moves(c, k, to),
         QuietMove(step[c], to, k \in reported'),
         UNCHANGED <<primary, secondary, migration>>
  PROVE  Inv'
<1>1. Types /\ Fits /\ InOrder(k) /\ ClientFits(c)
  BY DEF Inv, Fits
<1>2. PrimaryStep(c, k) /\ SecondaryStep(c, k)
  BY <1>1, UnchangedSides
<1>3. Tears(k)
  BY <1>1 DEF Types, Tears
<1>4. /\ Turn(c, k)
      /\ step'[c] = to /\ key'[c] = k
      /\ \A d \in Client : d # c => step'[d] = step[d] /\ key'[d] = key[d]
      /\ c \in Caller
  BY <1>1, <1>2, <1>3, ClientTurns
<1>5. /\ pdir' = pdir /\ phandle' = phandle /\ sdir' = sdir /\ shandle' = shandle
      /\ migration' = migration /\ mode' = mode /\ deleteAfterCopy' = deleteAfterCopy
  BY DEF primary, secondary, Moves, fixed
<1>6. ClientFits(c)'
  BY <1>1, <1>4, <1>5 DEF ClientFits, QuietMove, Shadowing
<1>7. to \in {"putAgain", "copyAgain"} => mode = "ShadowOnly"
  BY DEF QuietMove
<1>8. step[c] # "copy" /\ step[c] \notin Shadowing
  BY DEF QuietMove, Shadowing
<1>9. Excused(k) => Excused(k)'
  BY <1>1, <1>4, ExcusedStays
<1>10. k \in reported' => Excused(k)'
  BY DEF Excused
<1>11. (PutFailed(k) => PutFailed(k)') /\ (Spoiled(k) => Spoiled(k)')
  BY <1>1, <1>4, PutFailedStays, SpoiledStays
<1>12. PrimaryTorn(k)'
  BY <1>1, <1>4, <1>5, <1>8, <1>11 DEF InOrder, PrimaryTorn, Intact
<1>13. SecondaryTorn(k)'
  BY <1>1, <1>4, <1>5, <1>8, <1>11 DEF InOrder, SecondaryTorn, ShadowWriter, Intact
<1>14. PrimaryKept(k)'
  <2>1. to \in OnPrimary /\ mode = "Both" => k \in reported'
    BY DEF OnPrimary, QuietMove
  <2> QED
    BY <1>1, <1>4, <1>5, <1>9, <1>10, <1>11, <2>1 DEF InOrder, PrimaryKept
<1>15. SecondaryKept(k)'
  <2>1. to \in OnSecondary /\ mode = "Both" => k \in reported'
    BY DEF OnSecondary, QuietMove
  <2> QED
    BY <1>1, <1>4, <1>5, <1>9, <1>10, <2>1 DEF InOrder, SecondaryKept
<1>16. CatchingUp(k)'
  <2>1. Visits(k) => Visits(k)'
    BY <1>5 DEF Visits
  <2>2. step[c] = "putShadow" => k \in reported'
    BY DEF QuietMove
  <2>3. Shadowed(k) => Shadowed(k)' \/ k \in reported'
    BY <1>4, <1>8, <2>2 DEF Shadowed
  <2> QED
    BY <1>1, <1>5, <1>9, <1>10, <2>1, <2>3 DEF InOrder, CatchingUp
<1> QED
  BY <1>4, <1>6, <1>7, <1>12, <1>13, <1>14, <1>15, <1>16, ClientStep

LEMMA ClientFacts ==
  ASSUME Inv, NEW c \in Client, NEW k \in Key, NEW to \in Step, Moves(c, k, to),
         PrimaryStep(c, k), SecondaryStep(c, k), Tears(k)
  PROVE  /\ Turn(c, k) /\ InOrder(k) /\ ClientFits(c)
         /\ (PutFailed(k) => PutFailed(k)') /\ (Spoiled(k) => Spoiled(k)')
         /\ step'[c] = to /\ key'[c] = k
         /\ \A d \in Client : d # c => step'[d] = step[d] /\ key'[d] = key[d]
         /\ Excused(k) => Excused(k)'
         /\ k \in reported' => Excused(k)'
         /\ Visits(k) => Visits(k)'
         /\ mode' = mode /\ deleteAfterCopy' = deleteAfterCopy
<1>1. Types /\ InOrder(k) /\ ClientFits(c)
  BY DEF Inv, Fits
<1>2. /\ Turn(c, k)
      /\ step'[c] = to /\ key'[c] = k
      /\ \A d \in Client : d # c => step'[d] = step[d] /\ key'[d] = key[d]
      /\ c \in Caller
  BY <1>1, ClientTurns
<1>3. Excused(k) => Excused(k)'
  BY <1>1, <1>2, ExcusedStays
<1>4. (PutFailed(k) => PutFailed(k)') /\ (Spoiled(k) => Spoiled(k)')
  BY <1>1, <1>2, PutFailedStays, SpoiledStays
<1>5. (Visits(k) => Visits(k)') /\ (k \in reported' => Excused(k)')
  BY DEF Tears, Visits, Excused
<1> QED
  BY <1>1, <1>2, <1>3, <1>4, <1>5 DEF Moves, fixed

(* Put has created its file on the primary.                                *)
LEMMA CreateStep ==
  ASSUME Inv, NEW c \in Client, NEW k \in Key, step[c] = "put", Moves(c, k, "copy"),
         Primary!Create(c, k), UNCHANGED secondary, Tears(k)
  PROVE  Inv'
<1>1. /\ PrimaryStep(c, k)
      /\ pdir'[k] = "partial" /\ phandle'[c].key = k /\ Intact(phandle'[c])
  BY PrimaryCreates DEF Inv
<1>2. SecondaryStep(c, k) /\ sdir' = sdir /\ shandle' = shandle
  BY UnchangedSides DEF Inv, secondary
<1>3. /\ Turn(c, k) /\ InOrder(k) /\ ClientFits(c)
      /\ (PutFailed(k) => PutFailed(k)') /\ (Spoiled(k) => Spoiled(k)')
      /\ step'[c] = "copy" /\ key'[c] = k
      /\ \A d \in Client : d # c => step'[d] = step[d] /\ key'[d] = key[d]
      /\ Excused(k) => Excused(k)'
      /\ mode' = mode
  BY <1>1, <1>2, ClientFacts DEF Step
<1>4. ClientFits(c)'
  BY <1>2, <1>3, <1>1 DEF ClientFits, Shadowing
<1>5. PrimaryTorn(k)'
  BY <1>1, <1>3 DEF PrimaryTorn, Intact
<1>6. SecondaryTorn(k)'
  BY <1>2, <1>3 DEF InOrder, SecondaryTorn, ShadowWriter, Intact, Tears, Shadowing
<1>7. PrimaryKept(k)'
  BY <1>1 DEF PrimaryKept
<1>8. SecondaryKept(k)'
  BY <1>2, <1>3 DEF InOrder, SecondaryKept, OnSecondary
<1>9. CatchingUp(k)'
  BY <1>1 DEF CatchingUp
<1> QED
  BY <1>3, <1>4, <1>5, <1>6, <1>7, <1>8, <1>9, ClientStep

(* Its copy to the primary has come to the end.                            *)
LEMMA FinishStep ==
  ASSUME Inv, NEW c \in Client, NEW k \in Key, step[c] = "copy", NEW to,
         to = AfterPrimary("stored", "putShadow"), Moves(c, k, to),
         Primary!Finish(c, TRUE), UNCHANGED <<secondary, migration>>
  PROVE  Inv'
<1>1. Types /\ phandle[c].key = k
  BY DEF Inv, Fits, ClientFits, Moves
<1>2. /\ PrimaryStep(c, k)
      /\ pdir'[k] \in {pdir[k], "whole"}
      /\ Intact(phandle[c]) => pdir'[k] = "whole"
      /\ phandle'[c] = Closed
      /\ \A d \in Client : d # c => phandle'[d] = phandle[d]
  BY <1>1, PrimaryFinishes
<1>3. SecondaryStep(c, k) /\ sdir' = sdir /\ shandle' = shandle /\ migration' = migration
  BY <1>1, UnchangedSides DEF secondary
<1>4. Tears(k)
  BY <1>1, <1>3 DEF Types, Tears
<1>5. to \in Step
  BY DEF AfterPrimary, Step
<1>6. /\ Turn(c, k) /\ InOrder(k) /\ ClientFits(c)
      /\ (PutFailed(k) => PutFailed(k)') /\ (Spoiled(k) => Spoiled(k)')
      /\ step'[c] = to /\ key'[c] = k
      /\ \A d \in Client : d # c => step'[d] = step[d] /\ key'[d] = key[d]
      /\ Excused(k) => Excused(k)'
      /\ mode' = mode /\ deleteAfterCopy' = deleteAfterCopy
  BY <1>2, <1>3, <1>4, <1>5, ClientFacts
<1>7. ClientFits(c)'
  BY <1>2, <1>3, <1>6 DEF ClientFits, Shadowing, AfterPrimary
<1>8. PrimaryTorn(k)'
  BY <1>2, <1>6 DEF InOrder, PrimaryTorn, Intact
<1>9. SecondaryTorn(k)'
  BY <1>3, <1>6 DEF InOrder, SecondaryTorn, ShadowWriter, Intact, Shadowing
<1>10. PrimaryKept(k)'
  <2>1. key[c] = k /\ step[c] \in OnPrimary
    BY DEF Moves, OnPrimary
  <2> QED
    BY <1>2, <1>6, <2>1 DEF InOrder, PrimaryKept
<1>11. SecondaryKept(k)'
  BY <1>3, <1>6 DEF InOrder, SecondaryKept, OnSecondary, AfterPrimary
<1>12. CatchingUp(k)'
  BY <1>6 DEF CatchingUp, Shadowed, AfterPrimary
<1>13. to \notin {"putAgain", "copyAgain"}
  BY DEF AfterPrimary
<1> QED
  BY <1>6, <1>7, <1>8, <1>9, <1>10, <1>11, <1>12, <1>13, ClientStep

(* It failed, and has removed its target, whoever else wrote it, or not    *)
(* even that.                                                              *)
LEMMA CopyFailsStep ==
  ASSUME Inv, NEW c \in Client, NEW k \in Key, step[c] = "copy", Moves(c, k, "putFailed"),
         NEW removed \in BOOLEAN, Primary!CopyFails(c, removed),
         UNCHANGED <<secondary, migration>>
  PROVE  Inv'
<1>1. Types /\ phandle[c].key = k
  BY DEF Inv, Fits, ClientFits, Moves
<1>2. PrimaryStep(c, k) /\ pdir'[k] \in {pdir[k], "absent"} /\ phandle'[c] = Closed
  BY <1>1, PrimaryCopyFails
<1>3. SecondaryStep(c, k) /\ sdir' = sdir /\ shandle' = shandle /\ migration' = migration
  BY <1>1, UnchangedSides DEF secondary
<1>4. Tears(k)
  BY <1>1, <1>3 DEF Types, Tears
<1>5. /\ Turn(c, k) /\ InOrder(k) /\ ClientFits(c)
      /\ (PutFailed(k) => PutFailed(k)') /\ (Spoiled(k) => Spoiled(k)')
      /\ step'[c] = "putFailed" /\ key'[c] = k
      /\ \A d \in Client : d # c => step'[d] = step[d] /\ key'[d] = key[d]
      /\ Excused(k) => Excused(k)'
      /\ mode' = mode
  BY <1>2, <1>3, <1>4, ClientFacts DEF Step
<1>6. ClientFits(c)'
  BY <1>2, <1>3, <1>5 DEF ClientFits, Shadowing
<1>7. PrimaryTorn(k)'
  BY <1>5 DEF PrimaryTorn, PutFailed
<1>8. SecondaryTorn(k)'
  BY <1>3, <1>5 DEF InOrder, SecondaryTorn, ShadowWriter, Intact, Shadowing
<1>9. PrimaryKept(k)'
  BY <1>5 DEF PrimaryKept, PutFailed
<1>10. SecondaryKept(k)'
  BY <1>3, <1>5 DEF InOrder, SecondaryKept, OnSecondary
<1>11. CatchingUp(k)'
  <2>1. (Visits(k) => Visits(k)') /\ (Shadowed(k) => Shadowed(k)')
    BY <1>3, <1>5 DEF Visits, Shadowed
  <2> QED
    BY <1>2, <1>3, <1>5, <2>1 DEF InOrder, CatchingUp
<1> QED
  BY <1>5, <1>6, <1>7, <1>8, <1>9, <1>10, <1>11, ClientStep

(* Delete has removed the file from the primary.                           *)
LEMMA DeleteStep ==
  ASSUME Inv, NEW c \in Client, NEW k \in Key, step[c] = "delete", NEW to,
         to = AfterPrimary("deleted", "deleteShadow"), Moves(c, k, to),
         Primary!Delete(k), UNCHANGED <<secondary, migration>>
  PROVE  Inv'
<1>1. Types /\ phandle[c] = Closed
  BY DEF Inv, Fits, ClientFits
<1>2. PrimaryStep(c, k) /\ pdir'[k] = "absent" /\ phandle'[c] = Closed
  BY <1>1, PrimaryDeletes
<1>3. SecondaryStep(c, k) /\ sdir' = sdir /\ shandle' = shandle /\ migration' = migration
  BY <1>1, UnchangedSides DEF secondary
<1>4. Tears(k) /\ to \in Step
  BY <1>1, <1>3 DEF Types, Tears, AfterPrimary, Step
<1>5. /\ Turn(c, k) /\ InOrder(k) /\ ClientFits(c)
      /\ (PutFailed(k) => PutFailed(k)') /\ (Spoiled(k) => Spoiled(k)')
      /\ step'[c] = to /\ key'[c] = k
      /\ \A d \in Client : d # c => step'[d] = step[d] /\ key'[d] = key[d]
      /\ Excused(k) => Excused(k)'
      /\ mode' = mode
  BY <1>2, <1>3, <1>4, ClientFacts
<1>6. ClientFits(c)' /\ to \in {"deleted", "deleteShadow"}
  BY <1>1, <1>2, <1>3, <1>5 DEF ClientFits, Shadowing, AfterPrimary
<1>7. PrimaryTorn(k)' /\ CatchingUp(k)'
  BY <1>2 DEF PrimaryTorn, CatchingUp
<1>8. SecondaryTorn(k)'
  BY <1>3, <1>5 DEF InOrder, SecondaryTorn, ShadowWriter, Intact, Shadowing
<1>9. PrimaryKept(k)'
  BY <1>5, <1>6 DEF PrimaryKept, Excused
<1>10. SecondaryKept(k)'
  BY <1>3, <1>5, <1>6 DEF InOrder, SecondaryKept, OnSecondary
<1> QED
  BY <1>5, <1>6, <1>7, <1>8, <1>9, <1>10, ClientStep

(* A put of the shadow, or the second one of mode ShadowOnly, has created  *)
(* its file on the secondary.                                              *)
ShadowMove(from, to) ==
  \/ from = "putShadow" /\ to = "copyShadow"
  \/ from = "putAgain" /\ to = "copyAgain"

LEMMA ShadowCreateStep ==
  ASSUME Inv, NEW c \in Client, NEW k \in Key, NEW to \in Step, ShadowMove(step[c], to),
         Moves(c, k, to), Secondary!Create(c, k), UNCHANGED <<primary, migration>>
  PROVE  Inv'
<1>1. Types /\ Phases /\ c \in Caller /\ c # Migrator
  BY MigratorAssumption DEF Inv, Caller
<1>2. /\ SecondaryStep(c, k)
      /\ sdir'[k] = "partial" /\ shandle'[c].key = k /\ Intact(shandle'[c])
  BY <1>1, SecondaryCreates
<1>3. PrimaryStep(c, k) /\ pdir' = pdir /\ phandle' = phandle /\ migration' = migration
  BY <1>1, UnchangedSides DEF primary
<1>4. Tears(k)
  BY <1>1, <1>3 DEF Types, Tears
<1>5. /\ Turn(c, k) /\ InOrder(k) /\ ClientFits(c)
      /\ (PutFailed(k) => PutFailed(k)') /\ (Spoiled(k) => Spoiled(k)')
      /\ step'[c] = to /\ key'[c] = k
      /\ \A d \in Client : d # c => step'[d] = step[d] /\ key'[d] = key[d]
      /\ Excused(k) => Excused(k)'
      /\ mode' = mode /\ deleteAfterCopy' = deleteAfterCopy
  BY <1>2, <1>3, <1>4, ClientFacts
<1>6. ClientFits(c)'
  BY <1>2, <1>3, <1>5 DEF ClientFits, Shadowing, ShadowMove
<1>7. PrimaryTorn(k)'
  BY <1>3, <1>5 DEF InOrder, PrimaryTorn, Intact, ShadowMove
<1>8. SecondaryTorn(k)'
  BY <1>2, <1>5 DEF SecondaryTorn, ShadowWriter, Shadowing, Intact, ShadowMove
<1>9. PrimaryKept(k)'
  <2>1. mode = "Both" => key[c] = k /\ step[c] \in OnPrimary
    BY <1>1 DEF Moves, OnPrimary, ShadowMove, Phases
  <2> QED
    BY <1>3, <1>5, <2>1 DEF InOrder, PrimaryKept
<1>10. SecondaryKept(k)' /\ CatchingUp(k)'
  BY <1>2 DEF SecondaryKept, CatchingUp
<1>11. to \in {"putAgain", "copyAgain"} => mode = "ShadowOnly"
  BY <1>1 DEF ShadowMove, Phases
<1> QED
  BY <1>5, <1>6, <1>7, <1>8, <1>9, <1>10, <1>11, ClientStep

(* Its copy to the secondary has come to the end.                          *)
ShadowDone(from, to) ==
  \/ from = "copyShadow" /\ to = AfterShadow
  \/ from = "copyAgain" /\ to = "stored"

LEMMA ShadowFinishStep ==
  ASSUME Inv, NEW c \in Client, NEW k \in Key, NEW to \in Step, ShadowDone(step[c], to),
         Moves(c, k, to), Secondary!Finish(c, TRUE), UNCHANGED <<primary, migration>>
  PROVE  Inv'
<1>1. /\ Types /\ Phases /\ c \in Caller /\ c # Migrator /\ Migrator \in Caller
      /\ Client \subseteq Caller /\ shandle[c].key = k
  BY MigratorAssumption DEF Inv, Fits, ClientFits, Moves, ShadowDone, Shadowing, Caller
<1>2. /\ SecondaryStep(c, k)
      /\ sdir'[k] \in {sdir[k], "whole"}
      /\ Intact(shandle[c]) => sdir'[k] = "whole"
      /\ shandle'[c] = Closed
      /\ \A d \in Caller : d # c => shandle'[d] = shandle[d]
  BY <1>1, SecondaryFinishes
<1>3. PrimaryStep(c, k) /\ pdir' = pdir /\ phandle' = phandle /\ migration' = migration
  BY <1>1, UnchangedSides DEF primary
<1>4. Tears(k)
  BY <1>1, <1>3 DEF Types, Tears
<1>5. /\ Turn(c, k) /\ InOrder(k) /\ ClientFits(c)
      /\ (PutFailed(k) => PutFailed(k)') /\ (Spoiled(k) => Spoiled(k)')
      /\ step'[c] = to /\ key'[c] = k
      /\ \A d \in Client : d # c => step'[d] = step[d] /\ key'[d] = key[d]
      /\ Excused(k) => Excused(k)'
      /\ Visits(k) => Visits(k)'
      /\ mode' = mode /\ deleteAfterCopy' = deleteAfterCopy
  BY <1>2, <1>3, <1>4, ClientFacts
<1>6. ClientFits(c)'
  BY <1>2, <1>3, <1>5 DEF ClientFits, Shadowing, ShadowDone, AfterShadow
<1>7. PrimaryTorn(k)'
  BY <1>3, <1>5 DEF InOrder, PrimaryTorn, Intact, ShadowDone
<1>8. SecondaryTorn(k)'
  <2>1. SUFFICES ASSUME sdir'[k] = "partial"
                 PROVE  ShadowWriter(k)' \/ Spoiled(k)'
    BY DEF SecondaryTorn
  <2>2. sdir[k] = "partial" /\ ~Intact(shandle[c])
    BY <1>2, <2>1
  <2>3. ShadowWriter(k) \/ Spoiled(k)
    BY <1>5, <2>2 DEF InOrder, SecondaryTorn
  <2>4. ShadowWriter(k) => ShadowWriter(k)'
    BY <1>1, <1>2, <1>3, <1>5, <2>2 DEF ShadowWriter, Intact
  <2> QED
    BY <1>5, <2>3, <2>4
<1>9. mode = "Both" => key[c] = k /\ step[c] = "copyShadow"
  BY <1>1 DEF Moves, ShadowDone, Phases
<1>10. PrimaryKept(k)'
  BY <1>3, <1>5, <1>9 DEF InOrder, PrimaryKept, OnPrimary
<1>11. SecondaryKept(k)'
  BY <1>2, <1>5, <1>9 DEF InOrder, SecondaryKept, OnSecondary
<1>12. CatchingUp(k)'
  <2>1. Shadowed(k) => Shadowed(k)'
    BY <1>5 DEF Shadowed, ShadowDone
  <2> QED
    BY <1>2, <1>3, <1>5, <2>1 DEF InOrder, CatchingUp
<1>13. to \in {"putAgain", "copyAgain"} => mode = "ShadowOnly"
  BY DEF ShadowDone, AfterShadow
<1> QED
  BY <1>5, <1>6, <1>7, <1>8, <1>10, <1>11, <1>12, <1>13, ClientStep

(* It failed: onSecondaryFail is told, or the call fails.                  *)
ShadowFailed(from, to, told) ==
  \/ from = "copyShadow" /\ to = AfterShadow /\ told
  \/ from = "copyAgain" /\ to = "putFailed"

LEMMA ShadowFailsStep ==
  ASSUME Inv, NEW c \in Client, NEW k \in Key, NEW to \in Step,
         ShadowFailed(step[c], to, k \in reported'),
         Moves(c, k, to), NEW removed \in BOOLEAN, Secondary!CopyFails(c, removed),
         UNCHANGED <<primary, migration>>
  PROVE  Inv'
<1>1. Types /\ Phases /\ c \in Caller /\ shandle[c].key = k
  BY DEF Inv, Fits, ClientFits, Moves, ShadowFailed, Shadowing, Caller
<1>2. SecondaryStep(c, k) /\ sdir'[k] \in {sdir[k], "absent"} /\ shandle'[c] = Closed
  BY <1>1, SecondaryCopyFails
<1>3. PrimaryStep(c, k) /\ pdir' = pdir /\ phandle' = phandle /\ migration' = migration
  BY <1>1, UnchangedSides DEF primary
<1>4. Tears(k)
  BY <1>1, <1>3 DEF Types, Tears
<1>5. /\ Turn(c, k) /\ InOrder(k) /\ ClientFits(c)
      /\ (PutFailed(k) => PutFailed(k)') /\ (Spoiled(k) => Spoiled(k)')
      /\ step'[c] = to /\ key'[c] = k
      /\ \A d \in Client : d # c => step'[d] = step[d] /\ key'[d] = key[d]
      /\ k \in reported' => Excused(k)'
      /\ mode' = mode
  BY <1>2, <1>3, <1>4, ClientFacts
<1>6. ClientFits(c)'
  BY <1>2, <1>3, <1>5 DEF ClientFits, Shadowing, ShadowFailed, AfterShadow
<1>7. PrimaryTorn(k)'
  BY <1>3, <1>5 DEF InOrder, PrimaryTorn, Intact, ShadowFailed
<1>8. Excused(k)' \/ (mode' = "ShadowOnly" /\ PutFailed(k)')
  <2>1. k \in reported' \/ (step[c] = "copyAgain" /\ to = "putFailed")
    BY DEF ShadowFailed
  <2> QED
    BY <1>1, <1>5, <2>1 DEF Phases, PutFailed
<1>9. SecondaryTorn(k)' /\ (mode' = "Both" => Excused(k)')
  BY <1>8 DEF SecondaryTorn, Spoiled
<1>10. PrimaryKept(k)' /\ SecondaryKept(k)' /\ CatchingUp(k)'
  BY <1>9 DEF PrimaryKept, SecondaryKept, CatchingUp
<1>11. to \in {"putAgain", "copyAgain"} => mode = "ShadowOnly"
  BY DEF ShadowFailed, AfterShadow
<1> QED
  BY <1>5, <1>6, <1>7, <1>9, <1>10, <1>11, ClientStep

(* Delete has removed the file from the secondary.                         *)
LEMMA ShadowDeleteStep ==
  ASSUME Inv, NEW c \in Client, NEW k \in Key, step[c] = "deleteShadow",
         Moves(c, k, "deleted"), Secondary!Delete(k), UNCHANGED <<primary, migration>>
  PROVE  Inv'
<1>1. Types /\ c \in Caller /\ shandle[c] = Closed
  BY DEF Inv, Fits, ClientFits, Shadowing, Caller
<1>2. SecondaryStep(c, k) /\ sdir'[k] = "absent" /\ shandle'[c] = Closed
  BY <1>1, SecondaryDeletes
<1>3. PrimaryStep(c, k) /\ pdir' = pdir /\ phandle' = phandle /\ migration' = migration
  BY <1>1, UnchangedSides DEF primary
<1>4. Tears(k)
  BY <1>1, <1>3 DEF Types, Tears
<1>5. /\ Turn(c, k) /\ InOrder(k) /\ ClientFits(c)
      /\ (PutFailed(k) => PutFailed(k)') /\ (Spoiled(k) => Spoiled(k)')
      /\ step'[c] = "deleted" /\ key'[c] = k
      /\ \A d \in Client : d # c => step'[d] = step[d] /\ key'[d] = key[d]
  BY <1>2, <1>3, <1>4, ClientFacts DEF Step
<1>6. ClientFits(c)'
  BY <1>2, <1>3, <1>5 DEF ClientFits, Shadowing
<1>7. PrimaryTorn(k)'
  BY <1>3, <1>5 DEF InOrder, PrimaryTorn, Intact
<1>8. SecondaryTorn(k)'
  BY <1>2 DEF SecondaryTorn
<1>9. Excused(k)'
  BY <1>5 DEF Excused
<1>10. PrimaryKept(k)' /\ SecondaryKept(k)' /\ CatchingUp(k)'
  BY <1>9 DEF PrimaryKept, SecondaryKept, CatchingUp
<1> QED
  BY <1>5, <1>6, <1>7, <1>8, <1>10, ClientStep

-----------------------------------------------------------------------------
(* The steps of Migrate.                                                   *)
LEMMA RecordFacts ==
  ASSUME NEW m \in Migration, NEW k \in Key
  PROVE  /\ \A s \in MigrationStep :
              LET n == [m EXCEPT !.step = s]
              IN  /\ n \in Migration /\ n.step = s /\ n.key = m.key /\ n.todo = m.todo
                  /\ n.torn = m.torn /\ n.failed = m.failed /\ n.stopped = m.stopped
         /\ LET n == [m EXCEPT !.step = "next", !.key = NoKey]
            IN  /\ n \in Migration /\ n.step = "next" /\ n.todo = m.todo
                /\ n.torn = m.torn /\ n.failed = m.failed /\ n.stopped = m.stopped
         /\ m.key = k =>
              LET n == [[m EXCEPT !.step = "next", !.key = NoKey] EXCEPT !.failed = @ \cup {m.key}]
              IN  /\ n \in Migration /\ n.step = "next" /\ n.todo = m.todo
                  /\ n.torn = m.torn /\ n.failed = m.failed \cup {k} /\ n.stopped = m.stopped
BY DEF Migration, MigrationStep

LEMMA MigratorTurns ==
  ASSUME Types, NEW k, MigrateOnly, migration' \in Migration, Grows(k), MigratorTurn(k),
         PrimaryStep(Migrator, k), SecondaryStep(Migrator, k)
  PROVE  Turn(Migrator, k)
<1>1. Types'
  BY DEF Types, MigrateOnly, fixed, PrimaryStep, SecondaryStep, Caller
<1>2. Migrator \notin Client
  BY MigratorAssumption
<1> QED
  BY <1>1, <1>2 DEF Turn, MigrateOnly, fixed

LEMMA MigratorFacts ==
  ASSUME Inv, NEW k \in Key, MigrateOnly, migration' \in Migration, Grows(k), MigratorTurn(k),
         PrimaryStep(Migrator, k), SecondaryStep(Migrator, k)
  PROVE  /\ Turn(Migrator, k) /\ InOrder(k)
         /\ (PutFailed(k) => PutFailed(k)') /\ (Spoiled(k) => Spoiled(k)')
         /\ Excused(k) => Excused(k)'
         /\ Shadowed(k) => Shadowed(k)'
         /\ step' = step /\ key' = key /\ mode' = mode /\ legacy' = legacy
         /\ deleteAfterCopy' = deleteAfterCopy
<1>1. Types /\ InOrder(k) /\ Migrator \in Caller
  BY DEF Inv, Caller
<1>2. Turn(Migrator, k)
  BY <1>1, MigratorTurns
<1>3. Excused(k) => Excused(k)'
  BY <1>1, <1>2, ExcusedStays
<1>4. (PutFailed(k) => PutFailed(k)') /\ (Spoiled(k) => Spoiled(k)')
  BY <1>1, <1>2, PutFailedStays, SpoiledStays
<1> QED
  BY <1>1, <1>2, <1>3, <1>4 DEF MigrateOnly, fixed, Shadowed

(* Between two files.                                                      *)
LEMMA ListStep ==
  ASSUME Inv, MigrateOnly, UNCHANGED <<primary, secondary>>, migration' \in Migration,
         migration.step \in {"idle", "next"}, migration'.step \in {"next", "done"},
         migration'.torn = migration.torn, migration'.failed = migration.failed,
         \A j \in Key : pdir[j] # "absent" /\ Visits(j) => Visits(j)',
         migration'.step = "done" /\ migration'.stopped = FALSE => migration'.todo = {}
  PROVE  Inv'
<1>1. Types /\ Fits /\ Phases /\ Migrator \in Caller
  BY DEF Inv, Caller
<1>2. MigratorTurn(NoKey) /\ Grows(NoKey)
  BY DEF MigratorTurn, Grows, MigrateOnly
<1>3. Turn(Migrator, NoKey)
  BY <1>1, <1>2, UnchangedSides, MigratorTurns
<1>4. \A j \in Key : InOrder(j)'
  BY <1>1, <1>3, OtherKeys, KeyAssumption
<1>5. Fits'
  <2>1. phandle' = phandle /\ shandle' = shandle /\ step' = step /\ key' = key
    BY DEF primary, secondary, MigrateOnly
  <2>2. \A c \in Client : ClientFits(c)'
    BY <1>1, <2>1 DEF Fits, ClientFits
  <2>3. MigratorFits'
    BY <1>1, <2>1 DEF Fits, MigratorFits, AtFile
  <2> QED
    BY <2>2, <2>3 DEF Fits
<1>6. Phases'
  BY <1>1 DEF Phases, MigrateOnly, fixed
<1> QED
  BY <1>3, <1>4, <1>5, <1>6 DEF Inv, Turn

(* At a file, before anything of it is copied or after it has failed.      *)
QuietVisit(k) ==
  /\ migration.step \notin {"idle", "copy"}
  /\ migration'.step \in {"next", "exists", "get", "put"}
  /\ migration'.step # "next" => migration'.key = k
  /\ migration'.step = "put" => pdir[k] # "absent"
  /\ migration'.torn # migration.torn => pdir[k] \notin {"absent", "whole"}
  /\ \A j \in Key : j # k /\ Visits(j) => Visits(j)'
  /\ Visits(k) => Visits(k)' \/ sdir[k] # "absent" \/ k \in migration'.failed

LEMMA VisitStep ==
  ASSUME Inv, NEW k \in Key, MigrateOnly, UNCHANGED <<primary, secondary>>,
         migration' \in Migration, Grows(k), QuietVisit(k)
  PROVE  Inv'
<1>1. Types /\ Fits /\ Phases
  BY DEF Inv
<1>2. MigratorTurn(k)
  BY DEF MigratorTurn, QuietVisit
<1>3. PrimaryStep(Migrator, k) /\ SecondaryStep(Migrator, k)
  BY <1>1, UnchangedSides
<1>4. /\ Turn(Migrator, k) /\ InOrder(k)
      /\ (PutFailed(k) => PutFailed(k)') /\ (Spoiled(k) => Spoiled(k)')
      /\ Excused(k) => Excused(k)'
      /\ Shadowed(k) => Shadowed(k)'
      /\ step' = step /\ key' = key /\ mode' = mode /\ legacy' = legacy
      /\ deleteAfterCopy' = deleteAfterCopy
  BY <1>2, <1>3, MigratorFacts
<1>5. pdir' = pdir /\ phandle' = phandle /\ sdir' = sdir /\ shandle' = shandle
  BY DEF primary, secondary
<1>6. MigratorFits'
  BY <1>1, <1>5 DEF Fits, MigratorFits, AtFile, QuietVisit
<1>7. Phases'
  BY <1>1, <1>4 DEF Phases, QuietVisit
<1>8. PrimaryTorn(k)'
  BY <1>4, <1>5 DEF InOrder, PrimaryTorn, Intact
<1>9. SecondaryTorn(k)'
  BY <1>4, <1>5 DEF InOrder, SecondaryTorn, ShadowWriter, Intact, QuietVisit, Grows
<1>10. PrimaryKept(k)' /\ SecondaryKept(k)'
  BY <1>4, <1>5 DEF InOrder, PrimaryKept, SecondaryKept
<1>11. CatchingUp(k)'
  BY <1>4, <1>5 DEF InOrder, CatchingUp, QuietVisit, Excused
<1>12. LegacySafe(k)'
  BY <1>4, <1>5 DEF InOrder, LegacySafe, Safe, QuietVisit
<1> QED
  BY <1>4, <1>6, <1>7, <1>8, <1>9, <1>10, <1>11, <1>12, MigratorStep DEF InOrder

(* dst.Put has created its file.                                           *)
LEMMA MigratorCreateStep ==
  ASSUME Inv, NEW k \in Key, MigrateOnly, UNCHANGED primary, Secondary!Create(Migrator, k),
         migration.step = "put", migration.key = k,
         migration' = [migration EXCEPT !.step = "copy"]
  PROVE  Inv'
<1>1. Types /\ Fits /\ Phases /\ Migrator \in Caller
  BY DEF Inv, Caller
<1>2. /\ SecondaryStep(Migrator, k)
      /\ sdir'[k] = "partial" /\ shandle'[Migrator].key = k /\ Intact(shandle'[Migrator])
  BY <1>1, SecondaryCreates
<1>3. PrimaryStep(Migrator, k) /\ pdir' = pdir /\ phandle' = phandle
  BY <1>1, UnchangedSides DEF primary
<1>4. /\ migration' \in Migration /\ migration'.step = "copy" /\ migration'.key = k
      /\ migration'.todo = migration.todo
      /\ migration'.torn = migration.torn /\ migration'.failed = migration.failed
  BY <1>1, RecordFacts DEF Types, MigrationStep
<1>5. MigratorTurn(k) /\ Grows(k)
  BY <1>4 DEF MigratorTurn, Grows, MigrateOnly, Visits
<1>6. /\ Turn(Migrator, k) /\ InOrder(k)
      /\ (PutFailed(k) => PutFailed(k)') /\ (Spoiled(k) => Spoiled(k)')
      /\ Excused(k) => Excused(k)'
      /\ step' = step /\ key' = key /\ mode' = mode /\ legacy' = legacy
      /\ deleteAfterCopy' = deleteAfterCopy
  BY <1>2, <1>3, <1>4, <1>5, MigratorFacts
<1>7. MigratorFits' /\ Phases'
  BY <1>1, <1>2, <1>4, <1>6 DEF MigratorFits, Phases
<1>8. PrimaryTorn(k)'
  BY <1>3, <1>6 DEF InOrder, PrimaryTorn, Intact
<1>9. SecondaryTorn(k)'
  BY <1>2, <1>4 DEF SecondaryTorn, ShadowWriter, Intact
<1>10. PrimaryKept(k)'
  BY <1>3, <1>6 DEF InOrder, PrimaryKept
<1>11. SecondaryKept(k)' /\ CatchingUp(k)'
  BY <1>2 DEF SecondaryKept, CatchingUp
<1>12. LegacySafe(k)'
  <2>1. Safe(k) => Safe(k)'
    BY <1>2, <1>3, <1>4 DEF Safe, Intact
  <2> QED
    BY <1>6, <2>1 DEF InOrder, LegacySafe
<1> QED
  BY <1>6, <1>7, <1>8, <1>9, <1>10, <1>11, <1>12, MigratorStep DEF InOrder

(* The copy has come to the end.                                           *)
LEMMA MigratorFinishStep ==
  ASSUME Inv, NEW k \in Key, MigrateOnly, UNCHANGED primary,
         migration.step = "copy", migration.key = k,
         Secondary!Finish(Migrator, k \notin migration.torn),
         migration' = IF deleteAfterCopy THEN [migration EXCEPT !.step = "delete"]
                      ELSE ToNext(migration)
  PROVE  Inv'
<1>1. /\ Types /\ Fits /\ Phases /\ Migrator \in Caller /\ Client \subseteq Caller
      /\ Migrator \notin Client /\ shandle[Migrator].key = k
  BY MigratorAssumption DEF Inv, Fits, MigratorFits, Caller
<1>2. /\ SecondaryStep(Migrator, k)
      /\ sdir'[k] \in {sdir[k], "whole"}
      /\ k \notin migration.torn /\ Intact(shandle[Migrator]) => sdir'[k] = "whole"
      /\ shandle'[Migrator] = Closed
      /\ \A d \in Caller : d # Migrator => shandle'[d] = shandle[d]
  <2>1. PICK intact \in BOOLEAN : intact = (k \notin migration.torn)
    OBVIOUS
  <2>2. Secondary!Finish(Migrator, intact)
    BY <2>1
  <2> QED
    BY <1>1, <2>1, <2>2, SecondaryFinishes
<1>3. PrimaryStep(Migrator, k) /\ pdir' = pdir /\ phandle' = phandle
  BY <1>1, UnchangedSides DEF primary
<1>4. /\ migration' \in Migration /\ migration'.step \in {"delete", "next"}
      /\ migration'.step = "delete" => migration'.key = k /\ deleteAfterCopy = TRUE
      /\ migration'.todo = migration.todo
      /\ migration'.torn = migration.torn /\ migration'.failed = migration.failed
  <2>1. migration \in Migration /\ deleteAfterCopy \in BOOLEAN
    BY <1>1 DEF Types
  <2>2. CASE deleteAfterCopy = TRUE
    BY <2>1, <2>2, RecordFacts DEF MigrationStep
  <2>3. CASE deleteAfterCopy = FALSE
    BY <2>1, <2>3, RecordFacts DEF ToNext
  <2> QED
    BY <2>1, <2>2, <2>3
<1>5. MigratorTurn(k) /\ Grows(k)
  BY <1>4 DEF MigratorTurn, Grows, MigrateOnly, Visits
<1>6. /\ Turn(Migrator, k) /\ InOrder(k)
      /\ (PutFailed(k) => PutFailed(k)') /\ (Spoiled(k) => Spoiled(k)')
      /\ Excused(k) => Excused(k)'
      /\ Shadowed(k) => Shadowed(k)'
      /\ step' = step /\ key' = key /\ mode' = mode /\ legacy' = legacy
      /\ deleteAfterCopy' = deleteAfterCopy
  BY <1>2, <1>3, <1>4, <1>5, MigratorFacts
<1>7. MigratorFits' /\ Phases'
  BY <1>1, <1>2, <1>4, <1>6 DEF MigratorFits, Phases, AtFile
<1>8. PrimaryTorn(k)'
  BY <1>3, <1>6 DEF InOrder, PrimaryTorn, Intact
<1>9. SecondaryTorn(k)'
  <2>1. SUFFICES ASSUME sdir'[k] = "partial", ~Spoiled(k)
                 PROVE  ShadowWriter(k)'
    BY <1>6 DEF SecondaryTorn
  <2>2. ShadowWriter(k) /\ ~Intact(shandle[Migrator])
    BY <1>2, <1>6, <2>1 DEF InOrder, SecondaryTorn, Spoiled, Excused
  <2> QED
    BY <1>1, <1>2, <1>6, <2>2 DEF ShadowWriter, Intact
<1>10. PrimaryKept(k)' /\ SecondaryKept(k)'
  BY <1>2, <1>3, <1>6 DEF InOrder, PrimaryKept, SecondaryKept
<1>11. CatchingUp(k)'
  <2>1. Visits(k) => Visits(k)'
    BY <1>4 DEF Visits
  <2> QED
    BY <1>2, <1>3, <1>6, <2>1 DEF InOrder, CatchingUp
<1>12. LegacySafe(k)'
  <2>1. Safe(k) => Safe(k)'
    BY <1>2, <1>3, <1>4 DEF Safe
  <2> QED
    BY <1>6, <2>1 DEF InOrder, LegacySafe
<1> QED
  BY <1>6, <1>7, <1>8, <1>9, <1>10, <1>11, <1>12, MigratorStep DEF InOrder

(* It failed, and has removed its target, or not even that.                *)
LEMMA MigratorFailsStep ==
  ASSUME Inv, NEW k \in Key, MigrateOnly, UNCHANGED primary,
         migration.step = "copy", migration.key = k,
         NEW removed \in BOOLEAN, Secondary!CopyFails(Migrator, removed),
         migration' = Failed(migration)
  PROVE  Inv'
<1>1. Types /\ Fits /\ Phases /\ Migrator \in Caller /\ shandle[Migrator].key = k
  BY DEF Inv, Fits, MigratorFits, Caller
<1>2. /\ SecondaryStep(Migrator, k)
      /\ sdir'[k] \in {sdir[k], "absent"} /\ shandle'[Migrator] = Closed
  BY <1>1, SecondaryCopyFails
<1>3. PrimaryStep(Migrator, k) /\ pdir' = pdir /\ phandle' = phandle
  BY <1>1, UnchangedSides DEF primary
<1>4. /\ migration' \in Migration /\ migration'.step = "next"
      /\ migration'.todo = migration.todo
      /\ migration'.torn = migration.torn /\ migration'.failed = migration.failed \cup {k}
  BY <1>1, RecordFacts DEF Types, Failed, ToNext
<1>5. MigratorTurn(k) /\ Grows(k)
  BY <1>4 DEF MigratorTurn, Grows, MigrateOnly, Visits
<1>6. /\ Turn(Migrator, k) /\ InOrder(k)
      /\ (PutFailed(k) => PutFailed(k)') /\ (Spoiled(k) => Spoiled(k)')
      /\ step' = step /\ key' = key /\ mode' = mode /\ legacy' = legacy
  BY <1>2, <1>3, <1>4, <1>5, MigratorFacts
<1>7. MigratorFits' /\ Phases'
  BY <1>1, <1>2, <1>4, <1>6 DEF MigratorFits, Phases, AtFile
<1>8. PrimaryTorn(k)'
  BY <1>3, <1>6 DEF InOrder, PrimaryTorn, Intact
<1>9. Excused(k)'
  BY <1>4 DEF Excused
<1>10. SecondaryTorn(k)'
  BY <1>9 DEF SecondaryTorn, Spoiled
<1>11. PrimaryKept(k)' /\ SecondaryKept(k)' /\ CatchingUp(k)'
  BY <1>9 DEF PrimaryKept, SecondaryKept, CatchingUp
<1>12. LegacySafe(k)'
  <2>1. Safe(k) => Safe(k)'
    BY <1>2, <1>3, <1>4 DEF Safe
  <2> QED
    BY <1>6, <2>1 DEF InOrder, LegacySafe
<1> QED
  BY <1>6, <1>7, <1>8, <1>10, <1>11, <1>12, MigratorStep DEF InOrder

(* src.Delete has removed the file that was copied.                        *)
LEMMA SourceDeletedStep ==
  ASSUME Inv, NEW k \in Key, MigrateOnly, UNCHANGED secondary,
         migration.step = "delete", migration.key = k,
         Primary!Delete(k), migration' = ToNext(migration)
  PROVE  Inv'
<1>1. Types /\ Fits /\ Phases /\ Migrator \in Caller /\ shandle[Migrator] = Closed
  BY DEF Inv, Fits, MigratorFits, Caller
<1>2. PrimaryStep(Migrator, k) /\ pdir'[k] = "absent"
  BY <1>1, PrimaryDeletes
<1>3. SecondaryStep(Migrator, k) /\ sdir' = sdir /\ shandle' = shandle
  BY <1>1, UnchangedSides DEF secondary
<1>4. /\ migration' \in Migration /\ migration'.step = "next"
      /\ migration'.todo = migration.todo
      /\ migration'.torn = migration.torn /\ migration'.failed = migration.failed
  BY <1>1, RecordFacts DEF Types, ToNext
<1>5. MigratorTurn(k) /\ Grows(k)
  BY <1>4 DEF MigratorTurn, Grows, MigrateOnly, Visits
<1>6. /\ Turn(Migrator, k) /\ InOrder(k)
      /\ (PutFailed(k) => PutFailed(k)') /\ (Spoiled(k) => Spoiled(k)')
      /\ Excused(k) => Excused(k)'
      /\ step' = step /\ key' = key /\ mode' = mode /\ legacy' = legacy
      /\ deleteAfterCopy' = deleteAfterCopy
  BY <1>2, <1>3, <1>4, <1>5, MigratorFacts
<1>7. MigratorFits' /\ Phases'
  BY <1>1, <1>3, <1>4, <1>6 DEF MigratorFits, Phases, AtFile
<1>8. PrimaryTorn(k)' /\ CatchingUp(k)'
  BY <1>2 DEF PrimaryTorn, CatchingUp
<1>9. SecondaryTorn(k)'
  BY <1>3, <1>4, <1>6 DEF InOrder, SecondaryTorn, ShadowWriter, Intact
<1>10. PrimaryKept(k)'
  BY <1>1, <1>6 DEF PrimaryKept, Phases
<1>11. SecondaryKept(k)'
  BY <1>3, <1>6 DEF InOrder, SecondaryKept
<1>12. LegacySafe(k)'
  <2>1. Safe(k) => Safe(k)'
    BY <1>2, <1>3, <1>4 DEF Safe
  <2> QED
    BY <1>6, <2>1 DEF InOrder, LegacySafe
<1> QED
  BY <1>6, <1>7, <1>8, <1>9, <1>10, <1>11, <1>12, MigratorStep DEF InOrder

-----------------------------------------------------------------------------
(* The invariant holds.                                                    *)
LEMMA InitInv == Init => Inv
<1> SUFFICES ASSUME Init PROVE Inv
  OBVIOUS
<1>1. /\ \A c \in Client : phandle[c] = Closed /\ shandle[c] = Closed
      /\ shandle[Migrator] = Closed
      /\ phandle \in [Client -> Handle] /\ shandle \in [Client \cup {Migrator} -> Handle]
  BY ClosedFacts DEF Init, Primary!AllClosed, Primary!Closed, Secondary!AllClosed,
                     Secondary!Closed, Closed
<1>2. /\ \A k \in Key : sdir[k] = "absent" /\ pdir[k] = IF k \in legacy THEN "whole" ELSE "absent"
      /\ pdir \in [Key -> FileState] /\ sdir \in [Key -> FileState]
  BY DEF Init, Secondary!EmptyDir, FileState
<1>3. migration \in Migration /\ migration.step = "idle" /\ migration.torn = {}
  BY DEF Init, Migration, MigrationStep
<1>4. \A c \in Client : step[c] = "idle" /\ key[c] = NoKey
  BY DEF Init
<1>5. Types
  BY <1>1, <1>2, <1>3 DEF Init, Types, Step
<1>6. Fits
  BY <1>1, <1>3, <1>4 DEF Fits, ClientFits, MigratorFits, Shadowing, AtFile
<1>7. Phases
  BY <1>3, <1>4 DEF Phases
<1>8. ASSUME NEW k \in Key PROVE InOrder(k)
  <2>1. PrimaryTorn(k) /\ SecondaryTorn(k)
    BY <1>2 DEF PrimaryTorn, SecondaryTorn
  <2>2. PrimaryKept(k) /\ SecondaryKept(k)
    BY <1>4 DEF PrimaryKept, SecondaryKept, OnPrimary, OnSecondary
  <2>3. CatchingUp(k)
    BY <1>3 DEF CatchingUp, Visits
  <2>4. LegacySafe(k)
    BY <1>2, <1>3 DEF LegacySafe, Safe
  <2> QED
    BY <2>1, <2>2, <2>3, <2>4 DEF InOrder
<1> QED
  BY <1>5, <1>6, <1>7, <1>8 DEF Inv

LEMMA CallInv ==
  ASSUME Inv, NEW c \in Client, Call(c)
  PROVE  Inv'
<1>1. Types /\ Phases /\ step[c] \in Step /\ (step[c] # "idle" => key[c] \in Key)
  BY DEF Inv, Types, Fits, ClientFits
<1>2. PICK k \in Key : step[c] # "idle" => k = key[c]
  <2>1. CASE step[c] # "idle"
    BY <1>1, <2>1
  <2>2. CASE step[c] = "idle"
    BY <2>2 DEF Call, Start, PutPrimary, CopyPrimary, PutSecondary, CopySecondary,
                PutAgain, CopyAgain, DeletePrimary, DeleteSecondary, Goes
  <2> QED
    BY <2>1, <2>2
<1>3. ASSUME NEW from, NEW to \in Step, Goes(c, from, to), from # "idle",
             from \notin {"putFailed", "deleted"}, from = "deleteShadow" => to = "deleted",
             UNCHANGED <<fixed, key>>, reported' = reported \/ reported' = Report(c)
      PROVE  Moves(c, k, to)
  BY <1>1, <1>2, <1>3 DEF Types, Moves, Goes, Report
<1>4. AfterShadow \in {"putAgain", "stored"} /\ AfterShadow \in Step
  BY DEF AfterShadow, Step
<1>5. AfterPrimary("stored", "putShadow") \in Step /\ AfterPrimary("deleted", "deleteShadow") \in Step
  BY DEF AfterPrimary, Step
<1>6. migration' = migration => Tears(k)
  BY <1>1 DEF Types, Tears
<1>7. CASE Start(c)
  <2>1. PICK j \in Key : key' = [key EXCEPT ![c] = j]
    BY <1>7 DEF Start
  <2>2. PICK to \in Step : /\ Goes(c, "idle", to)
                           /\ to = "put" \/ to = "delete" \/ to = "deleteShadow"
                              \/ (to = "putShadow" /\ mode = "ShadowOnly")
    BY <1>7 DEF Start, Step
  <2>3. Moves(c, j, to)
    BY <1>1, <1>7, <2>1, <2>2 DEF Types, Start, Moves, Goes
  <2>4. QuietMove(step[c], to, j \in reported')
    BY <2>2 DEF QuietMove, Goes
  <2> QED
    BY <1>7, <2>3, <2>4, QuietStep DEF Start
<1>8. CASE PutPrimary(c)
  <2>1. CASE Goes(c, "put", "putFailed") /\ UNCHANGED <<primary, migration>>
    <3>1. Moves(c, k, "putFailed")
      BY <1>3, <1>8, <2>1 DEF PutPrimary, Step
    <3>2. QuietMove(step[c], "putFailed", k \in reported')
      BY <2>1 DEF QuietMove, Goes
    <3> QED
      BY <1>8, <2>1, <3>1, <3>2, QuietStep DEF PutPrimary, Step
  <2>2. CASE /\ Goes(c, "put", "copy")
             /\ Primary!Create(c, key[c])
             /\ migration' = [migration EXCEPT !.torn =
                                IF migration.step \in {"put", "copy"}
                                THEN @ \cup ({key[c]} \cap {migration.key}) ELSE @]
    <3>1. Moves(c, k, "copy") /\ step[c] = "put" /\ key[c] = k
      BY <1>2, <1>3, <1>8, <2>2 DEF PutPrimary, Step, Goes
    <3>2. PICK torn \in SUBSET Key :
            /\ migration' = [migration EXCEPT !.torn = torn]
            /\ migration.torn \subseteq torn /\ torn \subseteq migration.torn \cup {k}
      <4>1. migration.torn \in SUBSET Key
        BY <1>1 DEF Types, Migration
      <4>2. PICK torn \in SUBSET Key :
              torn = IF migration.step \in {"put", "copy"}
                     THEN migration.torn \cup ({k} \cap {migration.key}) ELSE migration.torn
        BY <4>1
      <4>3. migration' = [migration EXCEPT !.torn = torn]
        BY <2>2, <3>1, <4>2
      <4> QED
        BY <4>2, <4>3
    <3>3. Tears(k)
      BY <1>1, <3>2 DEF Types, Migration, Tears
    <3>4. Primary!Create(c, k)
      BY <2>2, <3>1
    <3> QED
      BY <1>8, <3>1, <3>3, <3>4, CreateStep DEF PutPrimary
  <2> QED
    BY <1>8, <2>1, <2>2 DEF PutPrimary
<1>9. CASE CopyPrimary(c)
  <2>1. CASE Goes(c, "copy", AfterPrimary("stored", "putShadow")) /\ Primary!Finish(c, TRUE)
    <3>1. PICK to \in Step : to = AfterPrimary("stored", "putShadow")
      BY <1>5
    <3>2. Moves(c, k, to) /\ step[c] = "copy"
      BY <1>3, <1>9, <2>1, <3>1 DEF CopyPrimary, Goes
    <3> QED
      BY <1>9, <2>1, <3>1, <3>2, FinishStep DEF CopyPrimary
  <2>2. CASE Goes(c, "copy", "putFailed") /\ \E removed \in BOOLEAN : Primary!CopyFails(c, removed)
    <3>1. Moves(c, k, "putFailed") /\ step[c] = "copy"
      BY <1>3, <1>9, <2>2 DEF CopyPrimary, Goes, Step
    <3> QED
      BY <1>9, <2>2, <3>1, CopyFailsStep DEF CopyPrimary
  <2> QED
    BY <1>9, <2>1, <2>2 DEF CopyPrimary
<1>10. CASE PutSecondary(c)
  <2>1. CASE Goes(c, "putShadow", "copyShadow") /\ Secondary!Create(c, key[c]) /\ UNCHANGED reported
    <3>1. Moves(c, k, "copyShadow") /\ step[c] = "putShadow" /\ key[c] = k
      BY <1>2, <1>3, <1>10, <2>1 DEF PutSecondary, Goes, Step
    <3>2. ShadowMove(step[c], "copyShadow") /\ Secondary!Create(c, k)
      BY <2>1, <3>1 DEF ShadowMove
    <3> QED
      BY <1>10, <3>1, <3>2, ShadowCreateStep DEF PutSecondary, Step
  <2>2. CASE Goes(c, "putShadow", AfterShadow) /\ reported' = Report(c) /\ UNCHANGED secondary
    <3>1. PICK to \in Step : to = AfterShadow
      BY <1>4
    <3>2. Moves(c, k, to) /\ step[c] = "putShadow" /\ k \in reported'
      BY <1>2, <1>3, <1>10, <2>2, <3>1 DEF PutSecondary, Goes, Report
    <3>3. QuietMove(step[c], to, k \in reported')
      BY <3>1, <3>2 DEF QuietMove, AfterShadow
    <3> QED
      BY <1>10, <2>2, <3>2, <3>3, QuietStep DEF PutSecondary
  <2> QED
    BY <1>10, <2>1, <2>2 DEF PutSecondary
<1>11. CASE CopySecondary(c)
  <2>1. PICK to \in Step : to = AfterShadow
    BY <1>4
  <2>2. Moves(c, k, to) /\ step[c] = "copyShadow" /\ key[c] = k
    BY <1>2, <1>3, <1>11, <2>1 DEF CopySecondary, Goes
  <2>3. CASE Secondary!Finish(c, TRUE)
    <3>1. ShadowDone(step[c], to)
      BY <2>1, <2>2 DEF ShadowDone
    <3> QED
      BY <1>11, <2>2, <2>3, <3>1, ShadowFinishStep DEF CopySecondary
  <2>4. CASE reported' = Report(c) /\ \E removed \in BOOLEAN : Secondary!CopyFails(c, removed)
    <3>1. ShadowFailed(step[c], to, k \in reported')
      BY <2>1, <2>2, <2>4 DEF ShadowFailed, Report
    <3> QED
      BY <1>11, <2>2, <2>4, <3>1, ShadowFailsStep DEF CopySecondary
  <2> QED
    BY <1>11, <2>3, <2>4 DEF CopySecondary
<1>12. CASE PutAgain(c)
  <2>1. CASE Goes(c, "putAgain", "copyAgain") /\ Secondary!Create(c, key[c])
    <3>1. Moves(c, k, "copyAgain") /\ step[c] = "putAgain" /\ key[c] = k
      BY <1>2, <1>3, <1>12, <2>1 DEF PutAgain, Goes, Step
    <3>2. ShadowMove(step[c], "copyAgain") /\ Secondary!Create(c, k)
      BY <2>1, <3>1 DEF ShadowMove
    <3> QED
      BY <1>12, <3>1, <3>2, ShadowCreateStep DEF PutAgain, Step
  <2>2. CASE Goes(c, "putAgain", "putFailed") /\ UNCHANGED secondary
    <3>1. Moves(c, k, "putFailed")
      BY <1>3, <1>12, <2>2 DEF PutAgain, Step
    <3>2. QuietMove(step[c], "putFailed", k \in reported')
      BY <2>2 DEF QuietMove, Goes
    <3> QED
      BY <1>12, <2>2, <3>1, <3>2, QuietStep DEF PutAgain, Step
  <2> QED
    BY <1>12, <2>1, <2>2 DEF PutAgain
<1>13. CASE CopyAgain(c)
  <2>1. CASE Goes(c, "copyAgain", "stored") /\ Secondary!Finish(c, TRUE)
    <3>1. Moves(c, k, "stored") /\ ShadowDone(step[c], "stored")
      BY <1>3, <1>13, <2>1 DEF CopyAgain, Goes, Step, ShadowDone
    <3> QED
      BY <1>13, <2>1, <3>1, ShadowFinishStep DEF CopyAgain, Step
  <2>2. CASE /\ Goes(c, "copyAgain", "putFailed")
             /\ \E removed \in BOOLEAN : Secondary!CopyFails(c, removed)
    <3>1. Moves(c, k, "putFailed") /\ ShadowFailed(step[c], "putFailed", k \in reported')
      BY <1>3, <1>13, <2>2 DEF CopyAgain, Goes, Step, ShadowFailed
    <3> QED
      BY <1>13, <2>2, <3>1, ShadowFailsStep DEF CopyAgain, Step
  <2> QED
    BY <1>13, <2>1, <2>2 DEF CopyAgain
<1>14. CASE DeletePrimary(c)
  <2>1. CASE Goes(c, "delete", AfterPrimary("deleted", "deleteShadow")) /\ Primary!Delete(key[c])
    <3>1. PICK to \in Step : to = AfterPrimary("deleted", "deleteShadow")
      BY <1>5
    <3>2. Moves(c, k, to) /\ step[c] = "delete" /\ Primary!Delete(k)
      BY <1>2, <1>3, <1>14, <2>1, <3>1 DEF DeletePrimary, Goes
    <3> QED
      BY <1>14, <3>1, <3>2, DeleteStep DEF DeletePrimary
  <2>2. CASE Goes(c, "delete", "deleteFailed") /\ UNCHANGED primary
    <3>1. Moves(c, k, "deleteFailed")
      BY <1>3, <1>14, <2>2 DEF DeletePrimary, Step
    <3>2. QuietMove(step[c], "deleteFailed", k \in reported')
      BY <2>2 DEF QuietMove, Goes
    <3> QED
      BY <1>14, <2>2, <3>1, <3>2, QuietStep DEF DeletePrimary, Step
  <2> QED
    BY <1>14, <2>1, <2>2 DEF DeletePrimary
<1>15. CASE DeleteSecondary(c)
  <2>1. Moves(c, k, "deleted") /\ step[c] = "deleteShadow" /\ key[c] = k
    BY <1>2, <1>3, <1>15 DEF DeleteSecondary, Goes, Step
  <2>2. CASE Secondary!Delete(key[c])
    BY <1>15, <2>1, <2>2, ShadowDeleteStep DEF DeleteSecondary
  <2>3. CASE UNCHANGED secondary
    <3>1. QuietMove(step[c], "deleted", k \in reported')
      BY <2>1 DEF QuietMove
    <3> QED
      BY <1>15, <2>1, <2>3, <3>1, QuietStep DEF DeleteSecondary, Step
  <2> QED
    BY <1>15, <2>2, <2>3 DEF DeleteSecondary
<1> QED
  BY <1>7, <1>8, <1>9, <1>10, <1>11, <1>12, <1>13, <1>14, <1>15 DEF Call

LEMMA MigrateInv ==
  ASSUME Inv, Migrate
  PROVE  Inv'
<1>1. /\ Types /\ Fits /\ Phases /\ migration \in Migration /\ migration.todo \subseteq Key
      /\ migration.step \in AtFile => migration.key \in Key
  BY DEF Inv, Types, Fits, MigratorFits, Migration
<1>2. CASE List
  <2>1. PICK todo \in SUBSET Key : todo = {k \in Key : Primary!Exists(k)}
    OBVIOUS
  <2>2. migration' = [migration EXCEPT !.step = "next", !.todo = todo]
    BY <1>2, <2>1 DEF List
  <2>3. /\ migration' \in Migration /\ migration'.step = "next" /\ migration'.todo = todo
        /\ migration'.torn = migration.torn /\ migration'.failed = migration.failed
    BY <1>1, <2>2 DEF Migration, MigrationStep
  <2>4. \A j \in Key : pdir[j] # "absent" => Visits(j)'
    BY <2>1, <2>3 DEF Visits, Primary!Exists
  <2> QED
    BY <1>2, <2>3, <2>4, ListStep DEF List
<1>3. CASE NextFile
  <2>1. CASE \E k \in migration.todo :
               migration' = [migration EXCEPT !.step = "exists", !.key = k, !.todo = @ \ {k}]
    <3>1. PICK k \in migration.todo :
            migration' = [migration EXCEPT !.step = "exists", !.key = k, !.todo = @ \ {k}]
      BY <2>1
    <3>2. k \in Key
      BY <1>1
    <3>3. /\ migration' \in Migration /\ migration'.step = "exists" /\ migration'.key = k
          /\ migration'.todo = migration.todo \ {k}
          /\ migration'.torn = migration.torn /\ migration'.failed = migration.failed
      BY <1>1, <3>1, <3>2 DEF Migration, MigrationStep
    <3>4. Grows(k) /\ QuietVisit(k)
      BY <1>3, <3>3 DEF NextFile, MigrateOnly, Grows, QuietVisit, Visits
    <3> QED
      BY <1>3, <3>2, <3>3, <3>4, VisitStep DEF NextFile
  <2>2. CASE migration' = [migration EXCEPT !.step = "done", !.stopped = (migration.todo # {})]
    <3>1. PICK stopped \in BOOLEAN : stopped = (migration.todo # {})
      OBVIOUS
    <3>2. migration' = [migration EXCEPT !.step = "done", !.stopped = stopped]
      BY <2>2, <3>1
    <3>3. /\ migration' \in Migration /\ migration'.step = "done"
          /\ migration'.todo = migration.todo /\ migration'.stopped = stopped
          /\ migration'.torn = migration.torn /\ migration'.failed = migration.failed
      BY <1>1, <3>2 DEF Migration, MigrationStep
    <3>4. \A j \in Key : Visits(j) => Visits(j)'
      BY <1>3, <3>3 DEF NextFile, Visits
    <3>5. migration'.stopped = FALSE => migration'.todo = {}
      BY <3>1, <3>3
    <3> QED
      BY <1>3, <3>3, <3>4, <3>5, ListStep DEF NextFile
  <2> QED
    BY <1>3, <2>1, <2>2 DEF NextFile
<1>4. ASSUME migration.step \in AtFile
      PROVE  \E k \in Key : k = migration.key
  BY <1>1, <1>4
<1>5. ASSUME NEW k \in Key, k = migration.key, MigrateOnly, UNCHANGED <<primary, secondary>>,
             migration.step \in {"exists", "get", "put", "delete"},
             \/ migration' = Failed(migration)
             \/ migration' = ToNext(migration) /\ (migration.step = "delete" \/ sdir[k] # "absent")
      PROVE  Inv'
  <2>1. /\ migration' \in Migration /\ migration'.step = "next" /\ migration'.todo = migration.todo
        /\ migration'.torn = migration.torn /\ migration.failed \subseteq migration'.failed
    BY <1>1, <1>5, RecordFacts DEF Failed, ToNext
  <2>2. migration' = Failed(migration) => k \in migration'.failed
    BY <1>1, <1>5, RecordFacts DEF Failed, ToNext
  <2>3. Grows(k)
    BY <1>5, <2>1 DEF MigrateOnly, Grows
  <2>4. QuietVisit(k)
    BY <1>5, <2>1, <2>2 DEF QuietVisit, Visits
  <2> QED
    BY <1>5, <2>1, <2>3, <2>4, VisitStep
<1>6. CASE CheckExists
  <2>1. PICK k \in Key : k = migration.key
    BY <1>4, <1>6 DEF CheckExists, AtFile
  <2>2. CASE Secondary!Exists(migration.key) /\ migration' = ToNext(migration)
    BY <1>5, <1>6, <2>1, <2>2 DEF CheckExists, Secondary!Exists
  <2>3. CASE migration' = [migration EXCEPT !.step = "get"]
    <3>1. /\ migration' \in Migration /\ migration'.step = "get" /\ migration'.key = k
          /\ migration'.todo = migration.todo
          /\ migration'.torn = migration.torn /\ migration'.failed = migration.failed
      BY <1>1, <2>1, <2>3, RecordFacts DEF MigrationStep
    <3>2. Grows(k) /\ QuietVisit(k)
      BY <1>6, <2>1, <3>1 DEF CheckExists, MigrateOnly, Grows, QuietVisit, Visits
    <3> QED
      BY <1>6, <3>1, <3>2, VisitStep DEF CheckExists
  <2> QED
    BY <1>6, <2>2, <2>3 DEF CheckExists
<1>7. CASE GetFile
  <2>1. PICK k \in Key : k = migration.key
    BY <1>4, <1>7 DEF GetFile, AtFile
  <2>2. CASE migration' = Failed(migration)
    BY <1>5, <1>7, <2>1, <2>2 DEF GetFile
  <2>3. CASE /\ Primary!Exists(migration.key)
             /\ migration' = [migration EXCEPT !.step = "put",
                                               !.torn = IF pdir[migration.key] = "whole" THEN @
                                                        ELSE @ \cup {migration.key}]
    <3>1. PICK torn \in SUBSET Key :
            torn = IF pdir[k] = "whole" THEN migration.torn ELSE migration.torn \cup {k}
      BY <1>1 DEF Migration
    <3>2. migration' = [migration EXCEPT !.step = "put", !.torn = torn]
      BY <2>1, <2>3, <3>1
    <3>3. /\ migration' \in Migration /\ migration'.step = "put" /\ migration'.key = k
          /\ migration'.todo = migration.todo
          /\ migration'.torn = torn /\ migration'.failed = migration.failed
      BY <1>1, <2>1, <3>2 DEF Migration, MigrationStep
    <3>4. pdir[k] # "absent"
      BY <2>1, <2>3 DEF Primary!Exists
    <3>5. Grows(k)
      BY <1>7, <3>1, <3>3 DEF GetFile, MigrateOnly, Grows
    <3>6. QuietVisit(k)
      BY <1>7, <2>1, <3>1, <3>3, <3>4 DEF GetFile, QuietVisit, Visits
    <3> QED
      BY <1>7, <3>3, <3>5, <3>6, VisitStep DEF GetFile
  <2> QED
    BY <1>7, <2>2, <2>3 DEF GetFile
<1>8. CASE PutFile
  <2>1. PICK k \in Key : k = migration.key
    BY <1>4, <1>8 DEF PutFile, AtFile
  <2>2. CASE UNCHANGED secondary /\ migration' = Failed(migration)
    BY <1>5, <1>8, <2>1, <2>2 DEF PutFile
  <2>3. CASE /\ Secondary!Create(Migrator, migration.key)
             /\ migration' = [migration EXCEPT !.step = "copy"]
    <3>1. Secondary!Create(Migrator, k)
      BY <2>1, <2>3
    <3> QED
      BY <1>8, <2>1, <2>3, <3>1, MigratorCreateStep DEF PutFile
  <2> QED
    BY <1>8, <2>2, <2>3 DEF PutFile
<1>9. CASE CopyFile
  <2>1. PICK k \in Key : k = migration.key
    BY <1>4, <1>9 DEF CopyFile, AtFile
  <2>2. CASE /\ \E removed \in BOOLEAN : Secondary!CopyFails(Migrator, removed)
             /\ migration' = AfterCopyError(migration)
    <3>1. migration' = Failed(migration)
      BY <2>2 DEF AfterCopyError
    <3> QED
      BY <1>9, <2>1, <2>2, <3>1, MigratorFailsStep DEF CopyFile
  <2>3. CASE /\ Secondary!Finish(Migrator, migration.key \notin migration.torn)
             /\ migration' = IF deleteAfterCopy THEN [migration EXCEPT !.step = "delete"]
                             ELSE ToNext(migration)
    <3>1. Secondary!Finish(Migrator, k \notin migration.torn)
      BY <2>1, <2>3
    <3> QED
      BY <1>9, <2>1, <2>3, <3>1, MigratorFinishStep DEF CopyFile
  <2> QED
    BY <1>9, <2>2, <2>3 DEF CopyFile
<1>10. CASE DeleteSource
  <2>1. PICK k \in Key : k = migration.key
    BY <1>4, <1>10 DEF DeleteSource, AtFile
  <2>2. CASE Primary!Delete(migration.key)
    <3>1. Primary!Delete(k)
      BY <2>1, <2>2
    <3> QED
      BY <1>10, <2>1, <3>1, SourceDeletedStep DEF DeleteSource
  <2>3. CASE UNCHANGED primary
    BY <1>5, <1>10, <2>1, <2>3 DEF DeleteSource
  <2> QED
    BY <1>10, <2>2, <2>3 DEF DeleteSource
<1> QED
  BY <1>2, <1>3, <1>6, <1>7, <1>8, <1>9, <1>10 DEF Migrate

LEMMA StutterInv == Inv /\ UNCHANGED vars => Inv'
<1> SUFFICES ASSUME Inv, UNCHANGED vars PROVE Inv'
  OBVIOUS
<1>1. /\ UNCHANGED <<mode, deleteAfterCopy, legacy, pdir, phandle, sdir, shandle>>
      /\ UNCHANGED <<step, key, reported, migration>>
  BY DEF vars, fixed, primary, secondary
<1>2. Types' /\ Fits' /\ Phases'
  BY <1>1 DEF Inv, Types, Fits, ClientFits, MigratorFits, Phases
<1>3. ASSUME NEW k \in Key PROVE InOrder(k)'
  BY <1>1 DEF Inv, InOrder, PrimaryTorn, SecondaryTorn, ShadowWriter, PrimaryKept, SecondaryKept,
              CatchingUp, LegacySafe, Safe, Intact, Spoiled, Excused, PutFailed, Visits, Shadowed
<1> QED
  BY <1>2, <1>3 DEF Inv

LEMMA SpecInv == Spec => []Inv
<1>1. Inv /\ [Next]_vars => Inv'
  BY CallInv, MigrateInv, StutterInv DEF Next
<1> QED
  BY InitInv, <1>1, PTL DEF Spec

-----------------------------------------------------------------------------
(* Types, and that a client has a file open exactly while it is copying,   *)
(* on the side it is copying to.                                           *)
THEOREM DualWriteIsTyped == Spec => []TypeOK
<1>1. Inv => TypeOK
  <2> SUFFICES ASSUME Inv PROVE TypeOK
    OBVIOUS
  <2>1. Primary!StorageTypeOK /\ Secondary!StorageTypeOK
    BY DEF Inv, Types, FileState, Handle, Primary!StorageTypeOK, Primary!FileState, Primary!Handle,
           Secondary!StorageTypeOK, Secondary!FileState, Secondary!Handle
  <2>2. ASSUME NEW c \in Client
        PROVE  /\ phandle[c] # Primary!Closed <=> step[c] = "copy"
               /\ shandle[c] # Secondary!Closed <=> step[c] \in {"copyShadow", "copyAgain"}
    <3>1. ClientFits(c) /\ phandle[c] \in Handle /\ shandle[c] \in Handle
      BY DEF Inv, Fits, Types
    <3>2. Primary!Closed = Closed /\ Secondary!Closed = Closed
      BY DEF Primary!Closed, Secondary!Closed, Closed
    <3>3. step[c] # "idle" => key[c] \in Key
      BY <3>1 DEF ClientFits
    <3>4. phandle[c] # Closed <=> step[c] = "copy"
      BY <3>1, <3>3, ClosedFacts DEF ClientFits
    <3>5. shandle[c] # Closed <=> step[c] \in Shadowing
      BY <3>1, <3>3, ClosedFacts DEF ClientFits, Shadowing
    <3> QED
      BY <3>2, <3>4, <3>5 DEF Shadowing
  <2> QED
    BY <2>1, <2>2 DEF Inv, Types, TypeOK, Migration
<1> QED
  BY SpecInv, <1>1, PTL

LEMMA NobodyWrites ==
  ASSUME Inv, AtRest, NEW k \in Key
  PROVE  /\ pdir[k] = "partial" => PutFailed(k)
         /\ sdir[k] = "partial" => Spoiled(k)
         /\ Excused(k) => \/ k \in reported \cup migration.torn \cup migration.failed
                          \/ Happened(k, "deleted")
         /\ PutFailed(k) => Happened(k, "putFailed")
<1>1. \A c \in Client : /\ step[c] # "copy" /\ step[c] \notin Shadowing
                        /\ step[c] # "deleteShadow"
  BY DEF AtRest, Ended, Shadowing
<1>2. migration.step # "copy"
  BY DEF AtRest
<1>3. PrimaryTorn(k) /\ SecondaryTorn(k)
  BY DEF Inv, InOrder
<1>4. pdir[k] = "partial" => PutFailed(k)
  BY <1>1, <1>3 DEF PrimaryTorn
<1>5. sdir[k] = "partial" => Spoiled(k)
  BY <1>1, <1>2, <1>3 DEF SecondaryTorn, ShadowWriter
<1> QED
  BY <1>1, <1>4, <1>5 DEF Excused, PutFailed, Happened

(* In mode Both, what a Put of DualWriteStorage stored is whole in both    *)
(* back ends once everybody is at rest, but for the keys the operator was  *)
(* told of, those another call deleted or failed to store, and those       *)
(* Migrate read while they were being written.                             *)
THEOREM NewDataReachesBoth == Spec => []NewDataIsOnBothSides
<1>1. Inv => NewDataIsOnBothSides
  <2> SUFFICES ASSUME Inv, mode = "Both", AtRest, NEW k \in Key,
                      Happened(k, "stored"), ~Happened(k, "deleted"), ~Happened(k, "putFailed"),
                      k \notin reported \cup migration.torn \cup migration.failed
               PROVE  sdir[k] = "whole" /\ (pdir[k] = "whole" \/ deleteAfterCopy)
    BY DEF NewDataIsOnBothSides
  <2>1. ~Excused(k) /\ ~PutFailed(k) /\ pdir[k] # "partial" /\ sdir[k] # "partial"
    BY NobodyWrites DEF Spoiled
  <2>2. PICK c \in Client : key[c] = k /\ step[c] = "stored"
    BY DEF Happened
  <2>3. /\ pdir[k] \in FileState /\ sdir[k] \in FileState /\ deleteAfterCopy \in BOOLEAN
        /\ PrimaryKept(k) /\ SecondaryKept(k)
    BY DEF Inv, Types, InOrder
  <2>4. sdir[k] # "absent"
    BY <2>1, <2>2, <2>3 DEF SecondaryKept, OnSecondary
  <2>5. deleteAfterCopy = FALSE => pdir[k] # "absent"
    BY <2>1, <2>2, <2>3 DEF PrimaryKept, OnPrimary
  <2> QED
    BY <2>1, <2>3, <2>4, <2>5 DEF FileState
<1> QED
  BY SpecInv, <1>1, PTL

(* Whatever fails and whenever Migrate stops, with or without              *)
(* deleteAfterCopy: a file no client writes or deletes is whole in one of  *)
(* the two back ends.                                                      *)
THEOREM MigrationLosesNothing == Spec => []NothingIsLost
<1>1. Inv => NothingIsLost
  <2> SUFFICES ASSUME Inv, NEW k \in legacy, \A c \in Client : key[c] # k
               PROVE  pdir[k] = "whole" \/ sdir[k] = "whole"
    BY DEF NothingIsLost
  <2>1. k \in Key
    BY DEF Inv, Types
  <2>2. Safe(k)
    BY <2>1 DEF Inv, InOrder, LegacySafe
  <2> QED
    BY <2>2 DEF Safe
<1> QED
  BY SpecInv, <1>1, PTL

(* Once a Migrate that was not cancelled has gone through its list under   *)
(* dual write, what is in the primary is in the secondary, but for the     *)
(* keys of which the operator was told, and those of NewDataReachesBoth.   *)
THEOREM MigrationCatchesUp == Spec => []SecondaryCatchesUp
<1>1. Inv => SecondaryCatchesUp
  <2> SUFFICES ASSUME Inv, mode = "Both", AtRest, migration.step = "done", ~migration.stopped,
                      NEW k \in Key, pdir[k] = "whole"
               PROVE  \/ sdir[k] = "whole"
                      \/ k \in reported \cup migration.torn \cup migration.failed
                      \/ Happened(k, "deleted")
    BY DEF SecondaryCatchesUp
  <2>1. sdir[k] \in FileState /\ CatchingUp(k) /\ migration.stopped = FALSE /\ Phases
    BY DEF Inv, Types, Migration, InOrder
  <2>2. ~Visits(k) /\ ~Shadowed(k)
    BY <2>1 DEF Visits, Shadowed, AtRest, Ended, Phases
  <2>3. sdir[k] = "absent" => Excused(k)
    BY <2>1, <2>2 DEF CatchingUp
  <2> QED
    BY <2>1, <2>3, NobodyWrites DEF FileState, Spoiled
<1> QED
  BY SpecInv, <1>1, PTL
=============================================================================
