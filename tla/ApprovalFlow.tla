--------------------------- MODULE ApprovalFlow ---------------------------
(***************************************************************************)
(* The approval workflow of a vendor: ApprovalService, together with the   *)
(* two VendorService handlers that write the same rows (Submit, Update).   *)
(*                                                                         *)
(* The shared state is the database.  Approve, Reject, Transition,         *)
(* Withdraw and CreateNodeConfig run in one SQLite transaction that reads  *)
(* before it writes: it commits only if nothing else was committed since   *)
(* its first read, so each of them is ONE action or has no effect.         *)
(* AddSigner, Submit and Update use no transaction: each statement is a    *)
(* step of its own, and what a request has read so far is kept in job[p].  *)
(* The goroutine Withdraw starts is a step that happens later.             *)
(***************************************************************************)
EXTENDS Integers, FiniteSets, SignCondition

CONSTANTS
  Vendor,             \* vendors whose row and flow row exist (VendorService.Create)
  Approver,           \* users: they sign, operate, submit and are configured as signers
  Call,               \* calls of the handlers that use no transaction, each made at most once
  PresetStages,       \* nodes the administrator may have configured before the vendors came
  ConfigStages,       \* nodes CreateNodeConfig is called for while flows run
  TransitionTargets,  \* to_stage values of Transition requests
  WithdrawTargets,    \* to_stage values of Withdraw requests, "" when left out
  AddStages,          \* stage values of AddSigner requests, "" when left out
  MaxCopies,          \* bound: signer rows one approver may have at a node
  MaxVersion,         \* bound: a flow row of this version is not changed any more
  MaxResets,          \* bound: delayed resets outstanding per vendor
  ReadsMayFail,       \* TRUE: the reads of Approve whose errors it ignores may fail
  StatementsMayFail   \* TRUE: so may the other statements of transactional handlers

Unspecified == ""

(***************************************************************************)
(* StageOrderMap.  stage_order is written together with current_stage and  *)
(* with this value everywhere, so the flow row below does not repeat it.   *)
(***************************************************************************)
StageOrderMap ==
  [DATA_COLLECTION |-> 0, COMPLIANCE_CHECK |-> 1, LEVEL_1_APPROVAL |-> 2,
   LEVEL_2_APPROVAL |-> 3, FINANCE_APPROVAL |-> 4, LEGAL_APPROVAL |-> 5,
   PARALLEL_GROUP |-> 6, COMPLETED |-> 7, REJECTED |-> -1, WITHDRAWN |-> -2]

Stage == {"DATA_COLLECTION", "COMPLIANCE_CHECK", "LEVEL_1_APPROVAL",
          "LEVEL_2_APPROVAL", "FINANCE_APPROVAL", "LEGAL_APPROVAL",
          "PARALLEL_GROUP", "COMPLETED", "REJECTED", "WITHDRAWN"}

FlowStatus == {"PENDING", "APPROVED", "REJECTED", "PARTIAL", "WITHDRAWN"}

VendorStatus == {"DRAFT", "PENDING_REVIEW", "COMPLIANCE_CHECK",
                 "PENDING_APPROVAL", "APPROVED", "REJECTED"}

FlowRow == [stage : Stage, status : FlowStatus, approved : Nat, rejected : Nat,
            signers : Nat, version : Nat]

Record == [vendor : Vendor, stage : Stage, approver : Approver,
           status : {"APPROVED", "REJECTED"}]

(***************************************************************************)
(* approval_node_signers.  The rows of a node are pairs <<approver, k>>,   *)
(* the k-th row that names this approver: nothing keeps the code from      *)
(* listing an approver twice.                                              *)
(***************************************************************************)
SignerRow == Approver \X (1..MaxCopies)

(***************************************************************************)
(* What a signers array of a CreateNodeConfig request can list: at least   *)
(* one item, copies of an approver numbered from 1.                        *)
(***************************************************************************)
SignerList ==
  {rows \in SUBSET SignerRow :
     /\ rows # {}
     /\ \A row \in rows : row[2] > 1 => <<row[1], row[2] - 1>> \in rows}

(***************************************************************************)
(* The local state of a request that uses no transaction: the statement it *)
(* executes next and the rows it has read.                                 *)
(***************************************************************************)
Idle == [op |-> "idle"]

Done == [op |-> "done"]

Job ==
  {Idle, Done}
    \cup [op : {"addInsert", "addCount", "addSave"}, vendor : Vendor,
          who : Approver, stage : Stage, flow : FlowRow]
    \cup [op : {"submitSaveVendor", "submitReadFlow", "submitRecord"},
          vendor : Vendor, who : Approver]
    \cup [op : {"submitSaveFlow"}, vendor : Vendor, who : Approver, flow : FlowRow]
    \cup [op : {"updateRead"}, vendor : Vendor]
    \cup [op : {"updateSave"}, vendor : Vendor, status : VendorStatus]

ASSUME ApproverAssumption == IsFiniteSet(Approver)

ASSUME RequestsAssumption ==
  /\ PresetStages \subseteq Stage
  /\ ConfigStages \subseteq Stage
  /\ TransitionTargets \subseteq Stage
  /\ WithdrawTargets \subseteq Stage \cup {Unspecified}
  /\ AddStages \subseteq Stage \cup {Unspecified}

ASSUME BoundsAssumption ==
  MaxCopies \in Nat /\ MaxVersion \in Nat /\ MaxResets \in Nat

VARIABLES
  vendorStatus,  \* vendors.status
  flow,          \* the approval_flows row of each vendor
  records,       \* approval_records; rows are never updated or deleted
  nodeSigners,   \* approval_node_signers of each node
  signType,      \* approval_node_configs.sign_type, NoSignType: no row for the node
  job,           \* how far each call has come
  resets         \* sleeping goroutines of Withdraw, per vendor

(* History of ignored errors; no column, and no action looks at it.        *)
VARIABLE
  lost           \* vendors whose row missed the last status a handler meant for it

vars == <<vendorStatus, flow, records, nodeSigners, signType, job, resets, lost>>

nodes == <<nodeSigners, signType>>

-----------------------------------------------------------------------------
(* Helpers of the handlers.                                                *)

(***************************************************************************)
(* getNextStage: every stage outside the pipeline is followed by COMPLETED.*)
(***************************************************************************)
NextStage ==
  [s \in Stage |->
     CASE s = "DATA_COLLECTION"  -> "COMPLIANCE_CHECK"
       [] s = "COMPLIANCE_CHECK" -> "LEVEL_1_APPROVAL"
       [] s = "LEVEL_1_APPROVAL" -> "LEVEL_2_APPROVAL"
       [] s = "LEVEL_2_APPROVAL" -> "FINANCE_APPROVAL"
       [] s = "FINANCE_APPROVAL" -> "LEGAL_APPROVAL"
       [] OTHER                  -> "COMPLETED"]

(***************************************************************************)
(* The target of a Withdraw request without to_stage; not defined for      *)
(* DATA_COLLECTION, which the handler refuses.                             *)
(***************************************************************************)
PreviousStage ==
  [s \in Stage |->
     CASE s = "COMPLIANCE_CHECK" -> "DATA_COLLECTION"
       [] s = "LEVEL_1_APPROVAL" -> "COMPLIANCE_CHECK"
       [] s = "LEVEL_2_APPROVAL" -> "LEVEL_1_APPROVAL"
       [] s = "FINANCE_APPROVAL" -> "LEVEL_2_APPROVAL"
       [] s = "LEGAL_APPROVAL"   -> "FINANCE_APPROVAL"
       [] OTHER                  -> "LEVEL_1_APPROVAL"]

CountSigners(s) == Cardinality(nodeSigners[s])

(* How many of these signer rows name an approver.                         *)
Copies(rows, a) == Cardinality({k \in 1..MaxCopies : <<a, k>> \in rows})

(* validateSignerPermission: a node without signer rows is open to anyone. *)
MaySign(s, a) ==
  \/ nodeSigners[s] = {}
  \/ \E k \in 1..MaxCopies : <<a, k>> \in nodeSigners[s]

Signature(v, s, a, st) == [vendor |-> v, stage |-> s, approver |-> a, status |-> st]

(***************************************************************************)
(* The unique index (vendor_id, stage, approver_id): a Create that would   *)
(* duplicate a key fails, and the handler with it.                         *)
(***************************************************************************)
KeyTaken(v, s, a) ==
  \E r \in records : r.vendor = v /\ r.stage = s /\ r.approver = a

Count(recs, v, s, st) ==
  Cardinality({r \in recs : r.vendor = v /\ r.stage = s /\ r.status = st})

(* The statuses in which Approve and Reject return an error.               *)
Decided == {"APPROVED", "REJECTED"}

(* rejectFlow, on the copy of the flow row.                                *)
RejectFlow(f) ==
  [f EXCEPT !.stage = "REJECTED", !.status = "REJECTED", !.rejected = @ + 1]

(* advanceToNextStage, on the copy of the flow row.                        *)
AdvanceFlow(f) ==
  LET next == NextStage[f.stage]
  IN  [f EXCEPT !.stage = next,
                !.status = IF next = "COMPLETED" THEN "APPROVED" ELSE "PENDING",
                !.approved = 0,
                !.rejected = 0,
                !.signers = IF next = "COMPLETED" THEN 0 ELSE CountSigners(next)]

(***************************************************************************)
(* The vendor row, as the transactional handlers write it: First(&vendor), *)
(* whose error they ignore, a new status, Save(&vendor).  When First fails *)
(* the row that is saved is a new one with id 0: the vendor keeps its      *)
(* status, and the handler goes on.  (Transition ignores the error of Save *)
(* as well.  The row of vendor 0 is left out; where the index of the       *)
(* vendor codes refuses a second one, the handler rolls back.)             *)
(***************************************************************************)
SaveVendor(v, st) ==
  \/ /\ vendorStatus' = [vendorStatus EXCEPT ![v] = st]
     /\ lost' = lost \ {v}
  \/ /\ StatementsMayFail
     /\ lost' = lost \cup {v}
     /\ UNCHANGED vendorStatus

(* The row as it has to follow the flow to a stage; not for every stage.   *)
FollowFlow(v, to, statusAt) ==
  IF to \in DOMAIN statusAt
  THEN SaveVendor(v, statusAt[to])
  ELSE UNCHANGED <<vendorStatus, lost>>

ApprovedByDefault ==                     \* mutant: a default arm that approves
  [s \in Stage |-> IF s \in {"LEVEL_1_APPROVAL", "LEVEL_2_APPROVAL"}
                   THEN "PENDING_APPROVAL" ELSE "APPROVED"]

(* advanceToNextStage: the statuses of the vendor.                         *)
VendorAfterAdvance ==
  [COMPLETED |-> "APPROVED", COMPLIANCE_CHECK |-> "COMPLIANCE_CHECK",
   LEVEL_1_APPROVAL |-> "PENDING_APPROVAL", LEVEL_2_APPROVAL |-> "PENDING_APPROVAL"]

(***************************************************************************)
(* What Approve reads to decide.  It looks at none of the four errors: a   *)
(* read that fails leaves the zero value behind.  Other handlers ignore    *)
(* an error of countSigners too, but the count they store is read by none. *)
(***************************************************************************)
ReadOrZero(value, zero) == {value} \cup (IF ReadsMayFail THEN {zero} ELSE {})

StoredTally(recs, v, s) ==               \* mutant: the signer count kept in the flow row
  [approved : {Count(recs, v, s, "APPROVED")},
   rejected : {Count(recs, v, s, "REJECTED")},
   signers  : {flow[v].signers},
   type     : {signType[s]}]

Tally(recs, v, s) ==
  [approved : ReadOrZero(Count(recs, v, s, "APPROVED"), 0),
   rejected : ReadOrZero(Count(recs, v, s, "REJECTED"), 0),
   signers  : ReadOrZero(CountSigners(s), 0),
   type     : ReadOrZero(signType[s], NoSignType)]

StageComplete(f, type) ==
  EvaluateSignCondition(type, f.signers, f.approved, f.rejected)

-----------------------------------------------------------------------------
(* Handlers that run in one transaction.                                   *)

(***************************************************************************)
(* CreateNodeConfig: a node that is configured again loses its signer rows *)
(* first, those AddSigner has added among them.  Any error of the read of  *)
(* the existing configuration is taken for its absence: a second one is    *)
(* inserted with its signers beside the old ones, the first one's sign     *)
(* type stays in force, and from then on only the first one's signers are  *)
(* replaced.  (Which rows belong to a later configuration is not tracked:  *)
(* if reads may fail, any may stay.)                                       *)
(***************************************************************************)
Kept(s) == IF StatementsMayFail THEN SUBSET nodeSigners[s] ELSE {{}}

AddRows(s, kept, rows) ==
  /\ \A a \in Approver : Copies(kept, a) + Copies(rows, a) <= MaxCopies
  /\ nodeSigners' = [nodeSigners EXCEPT ![s] =
       {row \in SignerRow : row[2] <= Copies(kept, row[1]) + Copies(rows, row[1])}]

CreateNodeConfig(s, type, rows) ==
  /\ \/ /\ \E kept \in Kept(s) : AddRows(s, kept, rows)
        /\ signType' = [signType EXCEPT ![s] = type]
     \/ /\ StatementsMayFail
        /\ signType[s] # NoSignType
        /\ AddRows(s, nodeSigners[s], rows)
        /\ UNCHANGED signType
  /\ UNCHANGED <<vendorStatus, flow, records, job, resets, lost>>

(***************************************************************************)
(* The decision of Approve.  signed is the row once the counters are those *)
(* of the tally.  When a rejection is among them rejectFlow changes the    *)
(* copy, but this branch's Updates map leaves current_stage and            *)
(* stage_order out: the stored stage stays, and rejectFlow has counted one *)
(* rejection more than there are.                                          *)
(***************************************************************************)
RejectionOnRecord(f) == f.rejected > 0

Decide(v, tally) ==
  LET s      == flow[v].stage
      signed == [flow[v] EXCEPT !.approved = tally.approved,
                                !.rejected = tally.rejected,
                                !.signers = tally.signers,
                                !.version = @ + 1]
  IN
  \/ /\ RejectionOnRecord(signed)
     /\ flow' = [flow EXCEPT ![v] = [RejectFlow(signed) EXCEPT !.stage = s]]
     /\ SaveVendor(v, "REJECTED")
  \/ /\ ~RejectionOnRecord(signed)
     /\ StageComplete(signed, tally.type)
     /\ flow' = [flow EXCEPT ![v] = AdvanceFlow(signed)]
     /\ FollowFlow(v, NextStage[s], VendorAfterAdvance)
  \/ /\ ~RejectionOnRecord(signed)
     /\ ~StageComplete(signed, tally.type)
     /\ flow' = [flow EXCEPT ![v] =
                   [signed EXCEPT !.status =
                      IF tally.approved \in 1..(tally.signers - 1) THEN "PARTIAL" ELSE @]]
     /\ UNCHANGED <<vendorStatus, lost>>

(* Approve, single-database path.                                          *)
Approve(v, a) ==
  LET s    == flow[v].stage
      recs == records \cup {Signature(v, s, a, "APPROVED")}
  IN
  /\ flow[v].version < MaxVersion
  /\ flow[v].status \notin Decided
  /\ MaySign(s, a)
  /\ ~KeyTaken(v, s, a)
  /\ records' = recs
  /\ \E tally \in Tally(recs, v, s) : Decide(v, tally)
  /\ UNCHANGED <<nodes, job, resets>>

Reject(v, a) ==
  LET s == flow[v].stage IN
  /\ flow[v].version < MaxVersion
  /\ flow[v].status \notin Decided
  /\ MaySign(s, a)
  /\ ~KeyTaken(v, s, a)
  /\ records' = records \cup {Signature(v, s, a, "REJECTED")}
  /\ flow' = [flow EXCEPT ![v] = RejectFlow([flow[v] EXCEPT !.version = @ + 1])]
  /\ SaveVendor(v, "REJECTED")
  /\ UNCHANGED <<nodes, job, resets>>

(***************************************************************************)
(* Transition, the manual jump forward (or to REJECTED).  It does not look *)
(* at the status, it leaves an APPROVED record of the operator at the      *)
(* target stage, and other targets keep the status of the flow.            *)
(***************************************************************************)
TransitionForgetsVendor == [REJECTED |-> "REJECTED"]   \* mutant: not on completion

TransitionVendor == [COMPLETED |-> "APPROVED", REJECTED |-> "REJECTED"]

TransitionFlow(f, to) ==
  [f EXCEPT !.stage = to,
            !.status = CASE to = "COMPLETED" -> "APPROVED"
                         [] to = "REJECTED"  -> "REJECTED"
                         [] OTHER            -> f.status,
            !.approved = 0,
            !.rejected = 0,
            !.signers = CountSigners(to),
            !.version = @ + 1]

Transition(v, operator, to) ==
  /\ flow[v].version < MaxVersion
  /\ StageOrderMap[to] > StageOrderMap[flow[v].stage] \/ to = "REJECTED"
  /\ ~KeyTaken(v, to, operator)
  /\ records' = records \cup {Signature(v, to, operator, "APPROVED")}
  /\ flow' = [flow EXCEPT ![v] = TransitionFlow(flow[v], to)]
  /\ FollowFlow(v, to, TransitionVendor)
  /\ UNCHANGED <<nodes, job, resets>>

(***************************************************************************)
(* Withdraw.  The goroutine of a rollback is started before the commit, so *)
(* it also runs when the commit fails and nothing else has happened.  The  *)
(* withdrawal record, which no handler reads back, is left out.            *)
(***************************************************************************)
FlowStatusInVendor(to, rollback) == "WITHDRAWN"  \* mutant: the flow's status saved

WithdrawnVendor(to, rollback) ==
  IF ~rollback \/ to = "DATA_COLLECTION" THEN "DRAFT"
  ELSE IF to = "COMPLIANCE_CHECK" THEN "COMPLIANCE_CHECK"
  ELSE "PENDING_APPROVAL"

WithdrawnUnversioned(f, to) ==           \* mutant: the version is not incremented
  [f EXCEPT !.stage = to, !.status = "WITHDRAWN", !.approved = 0, !.rejected = 0,
            !.signers = 0]

WithdrawnFlow(f, to) ==
  [f EXCEPT !.stage = to, !.status = "WITHDRAWN", !.approved = 0, !.rejected = 0,
            !.signers = 0, !.version = @ + 1]

WithdrawTo(f, requested) ==
  IF requested = Unspecified THEN PreviousStage[f.stage] ELSE requested

Withdraw(v, requested, rollback) ==
  LET to == WithdrawTo(flow[v], requested) IN
  /\ flow[v].version < MaxVersion
  /\ flow[v].status # "APPROVED"
  /\ IF requested = Unspecified
     THEN flow[v].stage # "DATA_COLLECTION"
     ELSE StageOrderMap[requested] < StageOrderMap[flow[v].stage]
  /\ rollback => resets[v] < MaxResets
  /\ resets' = [resets EXCEPT ![v] = IF rollback THEN @ + 1 ELSE @]
  /\ \/ /\ flow' = [flow EXCEPT ![v] = WithdrawnFlow(flow[v], to)]
        /\ SaveVendor(v, WithdrawnVendor(to, rollback))
     \/ StatementsMayFail /\ UNCHANGED <<flow, vendorStatus, lost>>   \* Commit fails
  /\ UNCHANGED <<records, nodes, job>>

(* The goroutine of Withdraw, 100 ms later: it does not look at the row.   *)
DelayedReset(v) ==
  /\ resets[v] > 0
  /\ resets' = [resets EXCEPT ![v] = @ - 1]
  /\ flow' = [flow EXCEPT ![v].status = "PENDING"]
  /\ UNCHANGED <<vendorStatus, records, nodes, job, lost>>

(* The process stops: requests in flight and sleeping goroutines are lost. *)
Crash ==
  /\ job' = [p \in Call |-> IF job[p] = Idle THEN Idle ELSE Done]
  /\ resets' = [v \in Vendor |-> 0]
  /\ UNCHANGED <<vendorStatus, flow, records, nodes, lost>>

-----------------------------------------------------------------------------
(* AddSigner, one statement at a time.                                     *)

AddSignerRead(p, v, a, requested) ==
  /\ job[p] = Idle
  /\ flow[v].status \notin {"APPROVED", "REJECTED", "WITHDRAWN"}
  /\ job' = [job EXCEPT ![p] =
               [op |-> "addInsert", vendor |-> v, who |-> a, flow |-> flow[v],
                stage |-> IF requested = Unspecified THEN flow[v].stage ELSE requested]]
  /\ UNCHANGED <<vendorStatus, flow, records, nodes, resets, lost>>

(***************************************************************************)
(* The signer row is created only when the node is configured.  The row of *)
(* additional_signer_records that follows is only read to number rows, and *)
(* is left out; if its Create fails the request ends here (Abandon).       *)
(***************************************************************************)
AddSignerInsert(p) ==
  LET s    == job[p].stage
      copy == Copies(nodeSigners[s], job[p].who) + 1
  IN
  /\ job[p].op = "addInsert"
  /\ IF signType[s] = NoSignType
     THEN UNCHANGED nodeSigners
     ELSE /\ copy <= MaxCopies
          /\ nodeSigners' = [nodeSigners EXCEPT ![s] = @ \cup {<<job[p].who, copy>>}]
  /\ job' = [job EXCEPT ![p].op = "addCount"]
  /\ UNCHANGED <<vendorStatus, flow, records, signType, resets, lost>>

AddSignerCount(p) ==
  /\ job[p].op = "addCount"
  /\ job' = [job EXCEPT ![p] =
               IF @.stage = @.flow.stage
               THEN [@ EXCEPT !.op = "addSave", !.flow.signers = CountSigners(job[p].stage)]
               ELSE Done]
  /\ UNCHANGED <<vendorStatus, flow, records, nodes, resets, lost>>

(* db.Save(&flow): the whole row as it was read, whatever it is now.       *)
AddSignerSave(p) ==
  /\ job[p].op = "addSave"
  /\ flow' = [flow EXCEPT ![job[p].vendor] = job[p].flow]
  /\ job' = [job EXCEPT ![p] = Done]
  /\ UNCHANGED <<vendorStatus, records, nodes, resets, lost>>

-----------------------------------------------------------------------------
(***************************************************************************)
(* Submit.  The vendor's required fields and business licence are taken to *)
(* be present: they belong to other components.                            *)
(***************************************************************************)
Editable == {"DRAFT", "REJECTED"}

SubmitValidate(p, v, a) ==
  /\ job[p] = Idle
  /\ vendorStatus[v] \in Editable
  /\ job' = [job EXCEPT ![p] = [op |-> "submitSaveVendor", vendor |-> v, who |-> a]]
  /\ UNCHANGED <<vendorStatus, flow, records, nodes, resets, lost>>

(* The row is read again, but every status it may have is overwritten.     *)
SubmitSaveVendor(p) ==
  /\ job[p].op = "submitSaveVendor"
  /\ vendorStatus' = [vendorStatus EXCEPT ![job[p].vendor] = "PENDING_REVIEW"]
  /\ job' = [job EXCEPT ![p].op = "submitReadFlow"]
  /\ UNCHANGED <<flow, records, nodes, resets, lost>>

SubmitReadFlow(p) ==
  /\ job[p].op = "submitReadFlow"
  /\ job' = [job EXCEPT ![p] =
               [op |-> "submitSaveFlow", vendor |-> @.vendor, who |-> @.who,
                flow |-> [flow[@.vendor] EXCEPT !.stage = "COMPLIANCE_CHECK",
                                                !.approved = 0, !.rejected = 0]]]
  /\ UNCHANGED <<vendorStatus, flow, records, nodes, resets, lost>>

(* Status and version are saved as read; an error of Save is ignored.      *)
SubmitSaveFlow(p) ==
  /\ job[p].op = "submitSaveFlow"
  /\ \/ flow' = [flow EXCEPT ![job[p].vendor] = job[p].flow]
     \/ UNCHANGED flow
  /\ job' = [job EXCEPT ![p] =
               [op |-> "submitRecord", vendor |-> @.vendor, who |-> @.who]]
  /\ UNCHANGED <<vendorStatus, records, nodes, resets, lost>>

(* A submitter who has already submitted gets the unique index's error.    *)
SubmitRecord(p) ==
  LET v == job[p].vendor
      a == job[p].who
  IN
  /\ job[p].op = "submitRecord"
  /\ records' = IF KeyTaken(v, "DATA_COLLECTION", a) THEN records
                ELSE records \cup {Signature(v, "DATA_COLLECTION", a, "APPROVED")}
  /\ job' = [job EXCEPT ![p] = Done]
  /\ UNCHANGED <<vendorStatus, flow, nodes, resets, lost>>

-----------------------------------------------------------------------------
(* VendorService.Update: the edited fields are data, the status is not.    *)

UpdateValidate(p, v) ==
  /\ job[p] = Idle
  /\ vendorStatus[v] \in Editable
  /\ job' = [job EXCEPT ![p] = [op |-> "updateRead", vendor |-> v]]
  /\ UNCHANGED <<vendorStatus, flow, records, nodes, resets, lost>>

UpdateRead(p) ==
  /\ job[p].op = "updateRead"
  /\ job' = [job EXCEPT ![p] = [op |-> "updateSave", vendor |-> @.vendor,
                                status |-> vendorStatus[@.vendor]]]
  /\ UNCHANGED <<vendorStatus, flow, records, nodes, resets, lost>>

UpdateSave(p) ==
  /\ job[p].op = "updateSave"
  /\ vendorStatus' = [vendorStatus EXCEPT ![job[p].vendor] = job[p].status]
  /\ job' = [job EXCEPT ![p] = Done]
  /\ UNCHANGED <<flow, records, nodes, resets, lost>>

(* A statement fails (database locked, I/O) and the handler returns.       *)
Abandon(p) ==
  /\ job[p] \notin {Idle, Done}
  /\ job' = [job EXCEPT ![p] = Done]
  /\ UNCHANGED <<vendorStatus, flow, records, nodes, resets, lost>>

-----------------------------------------------------------------------------
(* Behaviours.                                                             *)

SeededSignType ==
  [s \in Stage |->
     CASE s = "DATA_COLLECTION"  -> "SINGLE"
       [] s = "COMPLIANCE_CHECK" -> "ANY"
       [] s = "LEVEL_1_APPROVAL" -> "ALL"
       [] s = "LEVEL_2_APPROVAL" -> "MAJORITY"
       [] s = "FINANCE_APPROVAL" -> "ANY"
       [] s = "LEGAL_APPROVAL"   -> "ANY"
       [] OTHER                  -> NoSignType]

NewFlow == [stage |-> "DATA_COLLECTION", status |-> "PENDING", approved |-> 0,
            rejected |-> 0, signers |-> 0, version |-> 1]

(***************************************************************************)
(* The state after seedDefaultApprovalNodes, any CreateNodeConfig requests *)
(* for the preset stages, and VendorService.Create of every vendor.        *)
(***************************************************************************)
Init ==
  /\ vendorStatus = [v \in Vendor |-> "DRAFT"]
  /\ flow = [v \in Vendor |-> NewFlow]
  /\ records = {}
  /\ \E rows \in [PresetStages -> SignerList \cup {{}}], types \in [PresetStages -> SignType] :
       /\ nodeSigners = [s \in Stage |-> IF s \in PresetStages THEN rows[s] ELSE {}]
       /\ signType = [s \in Stage |-> IF nodeSigners[s] # {} THEN types[s]
                                      ELSE SeededSignType[s]]
  /\ job = [p \in Call |-> Idle]
  /\ resets = [v \in Vendor |-> 0]
  /\ lost = {}

Reconfigure ==
  \E s \in ConfigStages, type \in SignType, rows \in SignerList :
    CreateNodeConfig(s, type, rows)

FlowHandler(v) ==
  \/ \E a \in Approver : Approve(v, a)
  \/ \E a \in Approver : Reject(v, a)
  \/ \E a \in Approver, to \in TransitionTargets : Transition(v, a, to)
  \/ \E to \in WithdrawTargets, rollback \in BOOLEAN : Withdraw(v, to, rollback)
  \/ DelayedReset(v)

Request(p) ==
  \/ \E v \in Vendor, a \in Approver, s \in AddStages : AddSignerRead(p, v, a, s)
  \/ AddSignerInsert(p)
  \/ AddSignerCount(p)
  \/ AddSignerSave(p)
  \/ \E v \in Vendor, a \in Approver : SubmitValidate(p, v, a)
  \/ SubmitSaveVendor(p)
  \/ SubmitReadFlow(p)
  \/ SubmitSaveFlow(p)
  \/ SubmitRecord(p)
  \/ \E v \in Vendor : UpdateValidate(p, v)
  \/ UpdateRead(p)
  \/ UpdateSave(p)
  \/ Abandon(p)

(* The transactional handlers alone, with their goroutines and crashes.    *)
TxNext == (\E v \in Vendor : FlowHandler(v)) \/ Reconfigure \/ Crash

Next == TxNext \/ \E p \in Call : Request(p)

TxSpec == Init /\ [][TxNext]_vars

Spec == Init /\ [][Next]_vars

(***************************************************************************)
(* Users who keep signing: as long as somebody may approve or reject a     *)
(* flow, somebody eventually does.  Nothing else happens.                  *)
(***************************************************************************)
Sign(v) == \E a \in Approver : Approve(v, a) \/ Reject(v, a)

SigningSpec ==
  /\ Init
  /\ [][\E v \in Vendor : Sign(v)]_vars
  /\ \A v \in Vendor : WF_vars(Sign(v))

-----------------------------------------------------------------------------
(* Properties.                                                             *)

TypeOK ==
  /\ vendorStatus \in [Vendor -> VendorStatus]
  /\ flow \in [Vendor -> FlowRow]
  /\ records \subseteq Record
  /\ nodeSigners \in [Stage -> SUBSET SignerRow]
  /\ signType \in [Stage -> SignType \cup {NoSignType}]
  /\ job \in [Call -> Job]
  /\ resets \in [Vendor -> Nat]
  /\ lost \subseteq Vendor

(* The stages from which getNextStage goes to COMPLETED.                   *)
SignedAtEnd(v) ==
  \E r \in records :
    r.vendor = v /\ r.status = "APPROVED" /\ NextStage[r.stage] = "COMPLETED"

Refused(v) ==
  \E r \in records : r.vendor = v /\ (r.status = "REJECTED" \/ r.stage = "REJECTED")

(***************************************************************************)
(* A decision is never made up.  However stale the rows that Submit,       *)
(* Update, AddSigner and the delayed reset write back, a vendor or a flow  *)
(* is APPROVED only if someone signed a stage that leads to COMPLETED, and *)
(* REJECTED only if there is a rejection (or a transition to REJECTED) on  *)
(* record.                                                                 *)
(***************************************************************************)
DecisionsAreSigned ==
  \A v \in Vendor :
    /\ "APPROVED" \in {vendorStatus[v], flow[v].status} => SignedAtEnd(v)
    /\ "REJECTED" \in {vendorStatus[v], flow[v].status} => Refused(v)

(* The stages between submission and completion, in pipeline order.        *)
SigningStage == {"COMPLIANCE_CHECK", "LEVEL_1_APPROVAL", "LEVEL_2_APPROVAL",
                 "FINANCE_APPROVAL", "LEGAL_APPROVAL"}

(***************************************************************************)
(* Between the transactional handlers the vendor row and the flow row move *)
(* together: an approved vendor has a completed flow, a flow APPROVED or   *)
(* REJECTED by its status has the vendor status that goes with it.  They   *)
(* stand apart only from the moment an ignored error kept the vendor row   *)
(* as it was until a handler writes that row again, whatever else happens. *)
(***************************************************************************)
VendorAgreesWithFlow ==
  \A v \in Vendor \ lost :
    /\ vendorStatus[v] = "APPROVED" => flow[v].stage = "COMPLETED"
    /\ flow[v].status = "APPROVED" => vendorStatus[v] = "APPROVED"
    /\ flow[v].status = "REJECTED" => vendorStatus[v] = "REJECTED"

(***************************************************************************)
(* The optimistic lock: the version of a flow row never goes back, and a   *)
(* step that moves the flow to another stage increments it, so a reader    *)
(* who finds the version unchanged knows that the stage is.                *)
(***************************************************************************)
StageChangesAreVersioned ==
  [][\A v \in Vendor :
       /\ flow'[v].version >= flow[v].version
       /\ flow'[v].stage # flow[v].stage => flow'[v].version = flow[v].version + 1]_vars

(***************************************************************************)
(* Without manual transitions, withdrawals and late signers, a flow is at  *)
(* a stage only when every stage before it, from the compliance check on,  *)
(* is closed by its records: no rejection, and the approvals its sign type *)
(* asks for.                                                               *)
(***************************************************************************)
Approvals(v, s) == Count(records, v, s, "APPROVED")

ClosedByApproval(v, s) ==
  LET total == CountSigners(s)
  IN  /\ Count(records, v, s, "REJECTED") = 0
      /\ CASE signType[s] = "ALL"      -> Approvals(v, s) >= total
           [] signType[s] = "MAJORITY" -> 2 * Approvals(v, s) > total
           [] OTHER                    -> Approvals(v, s) >= 1

PassedStagesWereSigned ==
  \A v \in Vendor, s \in SigningStage :
    StageOrderMap[s] < StageOrderMap[flow[v].stage] => ClosedByApproval(v, s)

(***************************************************************************)
(* A flow moves on from a node only when the records of that moment close  *)
(* it under the configuration of that moment: no rejection, old ones among *)
(* them, and the approvals its sign type asks for.  This is so however the *)
(* flow came there (by withdrawals, transitions, a late reset of a decided *)
(* flow) and however the node was configured when the counts in its row    *)
(* were stored.  A Transition, which leaves a record at the stage it goes  *)
(* to, is a manual move and not meant.  For reads that succeed.            *)
(***************************************************************************)
MovesOn(v, s) ==
  /\ flow[v].stage = s /\ s # NextStage[s]
  /\ flow'[v].stage = NextStage[s]
  /\ \A r \in records' \ records : r.vendor = v => r.stage = s

AdvancesAreEarned ==
  [][\A v \in Vendor, s \in Stage : MovesOn(v, s) => ClosedByApproval(v, s)']_vars

(***************************************************************************)
(* No node is a dead end: with signer rows that name each approver once,   *)
(* flows whose users keep signing are decided, and the vendor row agrees.  *)
(***************************************************************************)
EveryFlowIsDecided ==
  \A v \in Vendor :
    <>[](flow[v].status \in {"APPROVED", "REJECTED"} /\ vendorStatus[v] = flow[v].status)
=============================================================================
