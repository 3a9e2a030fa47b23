------------------------ MODULE ApprovalFlowProofs ------------------------
(***************************************************************************)
(* Theorems about ApprovalFlow, for every set of vendors, users, calls and *)
(* every bound: first its types, then its safety properties, each with     *)
(* what its proof needs to know of the steps.                              *)
(***************************************************************************)
EXTENDS ApprovalFlow, FiniteSetTheorems, TLAPS

(***************************************************************************)
(* Type correctness needs that the counters counted from the records are   *)
(* numbers: only finitely many records have been created.                  *)
(***************************************************************************)
TypeInv == TypeOK /\ IsFiniteSet(records)

-----------------------------------------------------------------------------
(* The helpers of the handlers.                                            *)

(* The count queries on approval_records and approval_node_signers.        *)
LEMMA CountType ==
  ASSUME NEW recs, IsFiniteSet(recs), NEW v, NEW s, NEW st
  PROVE  Count(recs, v, s, st) \in Nat
<1> DEFINE T == {r \in recs : r.vendor = v /\ r.stage = s /\ r.status = st}
<1>1. T \in SUBSET recs
  OBVIOUS
<1>2. IsFiniteSet(T)
  BY <1>1, FS_Subset
<1>3. Cardinality(T) \in Nat
  BY <1>2, FS_CardinalityType
<1> QED
  BY <1>3 DEF Count

LEMMA SignerRowFinite == IsFiniteSet(SignerRow)
<1>1. IsFiniteSet(1..MaxCopies)
  BY FS_Interval, BoundsAssumption
<1> QED
  BY <1>1, ApproverAssumption, FS_Product DEF SignerRow

LEMMA CountSignersType ==
  ASSUME TypeOK, NEW s \in Stage
  PROVE  CountSigners(s) \in Nat
<1>1. nodeSigners[s] \in SUBSET SignerRow
  BY DEF TypeOK
<1>2. IsFiniteSet(nodeSigners[s])
  BY <1>1, SignerRowFinite, FS_Subset
<1> QED
  BY <1>2, FS_CardinalityType DEF CountSigners

LEMMA CopiesType ==
  ASSUME NEW rows, NEW a
  PROVE  Copies(rows, a) \in Nat
<1> DEFINE K == {k \in 1..MaxCopies : <<a, k>> \in rows}
<1>1. IsFiniteSet(1..MaxCopies)
  BY FS_Interval, BoundsAssumption
<1>2. IsFiniteSet(K)
  BY <1>1, FS_Subset
<1>3. Cardinality(K) \in Nat
  BY <1>2, FS_CardinalityType
<1> QED
  BY <1>3 DEF Copies

LEMMA StageTablesType ==
  ASSUME NEW s \in Stage
  PROVE  NextStage[s] \in Stage /\ PreviousStage[s] \in Stage
BY DEF NextStage, PreviousStage, Stage

(* The vendor row: written, or lost; the other vendors' are left alone.    *)
OthersKeepTheirRow(v) ==
  \A w \in Vendor : w # v => /\ vendorStatus'[w] = vendorStatus[w]
                             /\ (w \in lost') = (w \in lost)

LEMMA SavedVendor ==
  ASSUME TypeOK, NEW v \in Vendor, NEW st \in VendorStatus, SaveVendor(v, st)
  PROVE  /\ vendorStatus' \in [Vendor -> VendorStatus] /\ lost' \subseteq Vendor
         /\ OthersKeepTheirRow(v)
         /\ vendorStatus'[v] \in {st, vendorStatus[v]}
         /\ v \notin lost' => vendorStatus'[v] = st
<1>1. vendorStatus \in [Vendor -> VendorStatus] /\ lost \subseteq Vendor
  BY DEF TypeOK
<1>2. CASE /\ vendorStatus' = [vendorStatus EXCEPT ![v] = st]
           /\ lost' = lost \ {v}
  BY <1>1, <1>2 DEF OthersKeepTheirRow
<1>3. CASE /\ lost' = lost \cup {v}
           /\ UNCHANGED vendorStatus
  BY <1>1, <1>3 DEF OthersKeepTheirRow
<1> QED
  BY <1>2, <1>3 DEF SaveVendor

LEMMA FollowedFlow ==
  ASSUME TypeOK, NEW v \in Vendor, NEW to, NEW statusAt,
         \A s \in DOMAIN statusAt : statusAt[s] \in VendorStatus,
         FollowFlow(v, to, statusAt)
  PROVE  /\ vendorStatus' \in [Vendor -> VendorStatus] /\ lost' \subseteq Vendor
         /\ OthersKeepTheirRow(v)
         /\ to \in DOMAIN statusAt =>
              /\ vendorStatus'[v] \in {statusAt[to], vendorStatus[v]}
              /\ v \notin lost' => vendorStatus'[v] = statusAt[to]
         /\ to \notin DOMAIN statusAt =>
              vendorStatus'[v] = vendorStatus[v] /\ (v \in lost') = (v \in lost)
<1>1. CASE to \in DOMAIN statusAt
  <2>1. PICK st \in VendorStatus : st = statusAt[to]
    BY <1>1
  <2>2. SaveVendor(v, st)
    BY <1>1, <2>1 DEF FollowFlow
  <2> QED
    BY <1>1, <2>1, <2>2, SavedVendor
<1>2. CASE to \notin DOMAIN statusAt
  <2>1. UNCHANGED <<vendorStatus, lost>>
    BY <1>2 DEF FollowFlow
  <2> QED
    BY <1>2, <2>1 DEF TypeOK, OthersKeepTheirRow
<1> QED
  BY <1>1, <1>2

(* The two tables FollowFlow is used with.                                 *)
LEMMA VendorTables ==
  /\ \A s \in DOMAIN VendorAfterAdvance : VendorAfterAdvance[s] \in VendorStatus
  /\ \A s \in DOMAIN VendorAfterAdvance :
       s # "COMPLETED" => VendorAfterAdvance[s] \notin {"APPROVED", "REJECTED"}
  /\ "COMPLETED" \in DOMAIN VendorAfterAdvance
  /\ VendorAfterAdvance["COMPLETED"] = "APPROVED"
  /\ \A s \in DOMAIN TransitionVendor : TransitionVendor[s] \in VendorStatus
  /\ DOMAIN TransitionVendor = {"COMPLETED", "REJECTED"}
  /\ TransitionVendor["COMPLETED"] = "APPROVED"
  /\ TransitionVendor["REJECTED"] = "REJECTED"
BY DEF VendorAfterAdvance, TransitionVendor, VendorStatus

LEMMA AdvanceFlowType ==
  ASSUME TypeOK, NEW f \in FlowRow
  PROVE  AdvanceFlow(f) \in FlowRow
<1>1. f.stage \in Stage /\ NextStage[f.stage] \in Stage
  BY StageTablesType DEF FlowRow
<1>2. CountSigners(NextStage[f.stage]) \in Nat
  BY <1>1, CountSignersType
<1> QED
  BY <1>1, <1>2 DEF AdvanceFlow, FlowRow, FlowStatus

LEMMA RejectFlowType ==
  ASSUME NEW f \in FlowRow
  PROVE  RejectFlow(f) \in FlowRow
<1>1. f.rejected + 1 \in Nat
  BY DEF FlowRow
<1> QED
  BY <1>1 DEF RejectFlow, FlowRow, FlowStatus, Stage

LEMMA TransitionFlowType ==
  ASSUME TypeOK, NEW f \in FlowRow, NEW to \in Stage
  PROVE  TransitionFlow(f, to) \in FlowRow
<1>1. CountSigners(to) \in Nat /\ f.version + 1 \in Nat
  BY CountSignersType DEF FlowRow
<1> QED
  BY <1>1 DEF TransitionFlow, FlowRow, FlowStatus

LEMMA AddRecord ==
  ASSUME TypeInv, NEW v \in Vendor, NEW s \in Stage, NEW a \in Approver,
         NEW st \in {"APPROVED", "REJECTED"}
  PROVE  LET recs == records \cup {Signature(v, s, a, st)}
         IN  IsFiniteSet(recs) /\ recs \subseteq Record
<1>1. Signature(v, s, a, st) \in Record
  BY DEF Signature, Record
<1>2. IsFiniteSet(records \cup {Signature(v, s, a, st)})
  BY FS_AddElement DEF TypeInv
<1> QED
  BY <1>1, <1>2 DEF TypeInv, TypeOK

(***************************************************************************)
(* A call's next statement tells which rows it holds.                      *)
(***************************************************************************)
LEMMA JobShape ==
  ASSUME TypeOK, NEW p \in Call
  PROVE  /\ job[p].op \in {"addInsert", "addCount", "addSave"} =>
              job[p] \in [op : {"addInsert", "addCount", "addSave"}, vendor : Vendor,
                          who : Approver, stage : Stage, flow : FlowRow]
         /\ job[p].op \in {"submitSaveVendor", "submitReadFlow", "submitRecord"} =>
              job[p] \in [op : {"submitSaveVendor", "submitReadFlow", "submitRecord"},
                          vendor : Vendor, who : Approver]
         /\ job[p].op = "submitSaveFlow" =>
              job[p] \in [op : {"submitSaveFlow"}, vendor : Vendor, who : Approver,
                          flow : FlowRow]
         /\ job[p].op = "updateRead" => job[p] \in [op : {"updateRead"}, vendor : Vendor]
         /\ job[p].op = "updateSave" =>
              job[p] \in [op : {"updateSave"}, vendor : Vendor, status : VendorStatus]
<1>1. job[p] \in Job
  BY DEF TypeOK
<1> QED
  BY <1>1 DEF Job, Idle, Done

LEMMA TallyType ==
  ASSUME TypeOK, NEW recs, IsFiniteSet(recs), NEW v \in Vendor, NEW s \in Stage,
         NEW tally \in Tally(recs, v, s)
  PROVE  tally.approved \in Nat /\ tally.rejected \in Nat /\ tally.signers \in Nat
<1>1. /\ Count(recs, v, s, "APPROVED") \in Nat
      /\ Count(recs, v, s, "REJECTED") \in Nat
      /\ CountSigners(s) \in Nat
  BY CountType, CountSignersType
<1> QED
  BY <1>1 DEF Tally, ReadOrZero

(* Whatever numbers the tally holds, the rows that Decide writes are typed. *)
LEMMA DecideType ==
  ASSUME TypeOK, NEW v \in Vendor, NEW tally,
         tally.approved \in Nat, tally.rejected \in Nat, tally.signers \in Nat,
         Decide(v, tally)
  PROVE  /\ flow' \in [Vendor -> FlowRow]
         /\ vendorStatus' \in [Vendor -> VendorStatus]
         /\ lost' \subseteq Vendor
<1> DEFINE s == flow[v].stage
           signed == [flow[v] EXCEPT !.approved = tally.approved,
                                     !.rejected = tally.rejected,
                                     !.signers = tally.signers,
                                     !.version = @ + 1]
<1>1. flow[v] \in FlowRow /\ s \in Stage
  BY DEF TypeOK, FlowRow
<1>2. flow[v].version + 1 \in Nat
  BY <1>1 DEF FlowRow
<1>3. signed \in FlowRow
  BY <1>1, <1>2 DEF FlowRow
<1> HIDE DEF signed
<1>4. [RejectFlow(signed) EXCEPT !.stage = s] \in FlowRow
  BY <1>1, <1>3, RejectFlowType DEF FlowRow
<1>5. AdvanceFlow(signed) \in FlowRow
  BY <1>3, AdvanceFlowType
<1>6. [signed EXCEPT !.status = IF tally.approved \in 1..(tally.signers - 1)
                                THEN "PARTIAL" ELSE @] \in FlowRow
  BY <1>3 DEF FlowRow, FlowStatus
<1>7. flow' \in [Vendor -> FlowRow]
  BY <1>4, <1>5, <1>6 DEF Decide, TypeOK, signed
<1>8. \/ SaveVendor(v, "REJECTED")
      \/ FollowFlow(v, NextStage[s], VendorAfterAdvance)
      \/ UNCHANGED <<vendorStatus, lost>>
  BY DEF Decide
<1>9. "REJECTED" \in VendorStatus
  BY DEF VendorStatus
<1>10. vendorStatus' \in [Vendor -> VendorStatus] /\ lost' \subseteq Vendor
  <2>1. CASE SaveVendor(v, "REJECTED")
    BY <1>9, <2>1, SavedVendor
  <2>2. CASE FollowFlow(v, NextStage[s], VendorAfterAdvance)
    BY <2>2, FollowedFlow, VendorTables
  <2>3. CASE UNCHANGED <<vendorStatus, lost>>
    BY <2>3 DEF TypeOK
  <2> QED
    BY <1>8, <2>1, <2>2, <2>3
<1> QED
  BY <1>7, <1>10

-----------------------------------------------------------------------------
(* Type correctness.                                                       *)

LEMMA InitTypeInv == Init => TypeInv
<1> SUFFICES ASSUME Init PROVE TypeInv
  OBVIOUS
<1>1. NewFlow \in FlowRow
  BY DEF NewFlow, FlowRow, FlowStatus, Stage
<1>2. IsFiniteSet(records)
  BY FS_EmptySet DEF Init
<1>3. PICK rows \in [PresetStages -> SignerList \cup {{}}],
           types \in [PresetStages -> SignType] :
        /\ nodeSigners = [s \in Stage |-> IF s \in PresetStages THEN rows[s] ELSE {}]
        /\ signType = [s \in Stage |-> IF nodeSigners[s] # {} THEN types[s]
                                       ELSE SeededSignType[s]]
  BY DEF Init
<1>4. nodeSigners \in [Stage -> SUBSET SignerRow]
  BY <1>3 DEF SignerList
<1>5. signType \in [Stage -> SignType \cup {NoSignType}]
  <2> SUFFICES ASSUME NEW s \in Stage
               PROVE  (IF nodeSigners[s] # {} THEN types[s] ELSE SeededSignType[s])
                        \in SignType \cup {NoSignType}
    BY <1>3
  <2>1. nodeSigners[s] # {} => s \in PresetStages
    BY <1>3
  <2>2. SeededSignType[s] \in SignType \cup {NoSignType}
    BY DEF SeededSignType, Stage, SignType, NoSignType
  <2> QED
    BY <2>1, <2>2
<1>6. job \in [Call -> Job]
  BY DEF Init, Job
<1> QED
  BY <1>1, <1>2, <1>4, <1>5, <1>6 DEF Init, TypeInv, TypeOK, VendorStatus

(* The transactional handlers of one vendor.                               *)
LEMMA HandlerTypeInv ==
  ASSUME TypeInv, NEW v \in Vendor, FlowHandler(v)
  PROVE  TypeInv'
<1> USE DEF TypeInv
<1>0. flow[v] \in FlowRow /\ flow[v].stage \in Stage
  BY DEF TypeOK, FlowRow
<1>1. ASSUME NEW a \in Approver, Approve(v, a)
      PROVE  TypeInv'
  <2> DEFINE s == flow[v].stage
             recs == records \cup {Signature(v, s, a, "APPROVED")}
  <2>1. IsFiniteSet(recs) /\ recs \subseteq Record
    BY <1>0, AddRecord
  <2>2. PICK tally \in Tally(recs, v, s) : Decide(v, tally)
    BY <1>1 DEF Approve
  <2>3. tally.approved \in Nat /\ tally.rejected \in Nat /\ tally.signers \in Nat
    BY <1>0, <2>1, TallyType
  <2>4. /\ flow' \in [Vendor -> FlowRow]
        /\ vendorStatus' \in [Vendor -> VendorStatus]
        /\ lost' \subseteq Vendor
    BY <2>2, <2>3, DecideType
  <2>5. records' = recs
    BY <1>1 DEF Approve
  <2> QED
    BY <1>1, <2>1, <2>4, <2>5 DEF Approve, TypeOK, nodes
<1>2. ASSUME NEW a \in Approver, Reject(v, a)
      PROVE  TypeInv'
  <2>1. [flow[v] EXCEPT !.version = @ + 1] \in FlowRow
    BY <1>0 DEF FlowRow
  <2>2. RejectFlow([flow[v] EXCEPT !.version = @ + 1]) \in FlowRow
    BY <2>1, RejectFlowType
  <2>3. IsFiniteSet(records') /\ records' \subseteq Record
    BY <1>0, <1>2, AddRecord DEF Reject
  <2>4. SaveVendor(v, "REJECTED") /\ "REJECTED" \in VendorStatus
    BY <1>2 DEF Reject, VendorStatus
  <2>5. vendorStatus' \in [Vendor -> VendorStatus] /\ lost' \subseteq Vendor
    BY <2>4, SavedVendor
  <2> QED
    BY <1>2, <2>2, <2>3, <2>5 DEF Reject, TypeOK, nodes
<1>3. ASSUME NEW a \in Approver, NEW to \in TransitionTargets, Transition(v, a, to)
      PROVE  TypeInv'
  <2>1. to \in Stage
    BY RequestsAssumption
  <2>2. IsFiniteSet(records') /\ records' \subseteq Record
    BY <1>3, <2>1, AddRecord DEF Transition
  <2>4. flow' \in [Vendor -> FlowRow]
    BY <1>0, <1>3, <2>1, TransitionFlowType DEF Transition, TypeOK
  <2>5. vendorStatus' \in [Vendor -> VendorStatus] /\ lost' \subseteq Vendor
    BY <1>3, FollowedFlow, VendorTables DEF Transition
  <2> QED
    BY <1>3, <2>2, <2>4, <2>5 DEF Transition, TypeOK, nodes
<1>4. ASSUME NEW to \in WithdrawTargets, NEW rollback \in BOOLEAN, Withdraw(v, to, rollback)
      PROVE  TypeInv'
  <2>1. WithdrawTo(flow[v], to) \in Stage
    BY <1>0, StageTablesType, RequestsAssumption DEF WithdrawTo
  <2>2. flow[v].version + 1 \in Nat
    BY <1>0 DEF FlowRow
  <2>3. WithdrawnFlow(flow[v], WithdrawTo(flow[v], to)) \in FlowRow
    BY <1>0, <2>1, <2>2 DEF WithdrawnFlow, FlowRow, FlowStatus
  <2>4. flow' \in [Vendor -> FlowRow]
    BY <1>4, <2>3 DEF Withdraw, TypeOK
  <2>5. vendorStatus' \in [Vendor -> VendorStatus] /\ lost' \subseteq Vendor
    <3>1. PICK st \in VendorStatus : st = WithdrawnVendor(WithdrawTo(flow[v], to), rollback)
      BY DEF WithdrawnVendor, VendorStatus
    <3>2. SaveVendor(v, st) \/ UNCHANGED <<vendorStatus, lost>>
      BY <1>4, <3>1 DEF Withdraw
    <3> QED
      BY <3>2, SavedVendor DEF TypeOK
  <2>6. resets' \in [Vendor -> Nat]
    BY <1>4 DEF Withdraw, TypeOK
  <2> QED
    BY <1>4, <2>4, <2>5, <2>6 DEF Withdraw, TypeOK, nodes
<1>5. ASSUME DelayedReset(v)
      PROVE  TypeInv'
  <2>1. flow' \in [Vendor -> FlowRow]
    BY <1>0, <1>5 DEF DelayedReset, TypeOK, FlowRow, FlowStatus
  <2>2. resets' \in [Vendor -> Nat]
    BY <1>5 DEF DelayedReset, TypeOK
  <2> QED
    BY <1>5, <2>1, <2>2 DEF DelayedReset, TypeOK, nodes
<1> QED
  BY <1>1, <1>2, <1>3, <1>4, <1>5 DEF FlowHandler

(* The statements of the calls that use no transaction.                    *)
LEMMA RequestTypeInv ==
  ASSUME TypeInv, NEW p \in Call, Request(p)
  PROVE  TypeInv'
<1> USE DEF TypeInv
<1>0. Done \in Job
  BY DEF Job
<1>1. ASSUME NEW v \in Vendor, NEW a \in Approver, NEW s \in AddStages,
             AddSignerRead(p, v, a, s)
      PROVE  TypeInv'
  <2>1. flow[v] \in FlowRow /\ flow[v].stage \in Stage
    BY DEF TypeOK, FlowRow
  <2>2. (IF s = Unspecified THEN flow[v].stage ELSE s) \in Stage
    BY <2>1, RequestsAssumption
  <2>3. job' \in [Call -> Job]
    BY <1>1, <2>1, <2>2 DEF AddSignerRead, TypeOK, Job
  <2> QED
    BY <1>1, <2>3 DEF AddSignerRead, TypeOK, nodes
<1>2. ASSUME AddSignerInsert(p)
      PROVE  TypeInv'
  <2>1. job[p] \in [op : {"addInsert", "addCount", "addSave"}, vendor : Vendor,
                    who : Approver, stage : Stage, flow : FlowRow]
    BY <1>2, JobShape DEF AddSignerInsert
  <2>2. job' \in [Call -> Job]
    BY <1>2, <2>1 DEF AddSignerInsert, TypeOK, Job
  <2>3. nodeSigners' \in [Stage -> SUBSET SignerRow]
    <3>1. CASE signType[job[p].stage] = NoSignType
      BY <1>2, <3>1 DEF AddSignerInsert, TypeOK
    <3>2. CASE signType[job[p].stage] # NoSignType
      <4> DEFINE copy == Copies(nodeSigners[job[p].stage], job[p].who) + 1
      <4>1. copy \in 1..MaxCopies
        <5>1. copy \in Nat \ {0} /\ MaxCopies \in Nat
          BY CopiesType, BoundsAssumption
        <5>2. copy <= MaxCopies
          BY <1>2, <3>2 DEF AddSignerInsert
        <5> QED
          BY <5>1, <5>2
      <4>2. <<job[p].who, copy>> \in SignerRow
        BY <2>1, <4>1 DEF SignerRow
      <4>3. nodeSigners' = [nodeSigners EXCEPT ![job[p].stage] = @ \cup {<<job[p].who, copy>>}]
        BY <1>2, <3>2 DEF AddSignerInsert
      <4> QED
        BY <2>1, <4>2, <4>3 DEF TypeOK
    <3> QED
      BY <3>1, <3>2
  <2> QED
    BY <1>2, <2>2, <2>3 DEF AddSignerInsert, TypeOK
<1>3. ASSUME AddSignerCount(p)
      PROVE  TypeInv'
  <2>1. job[p] \in [op : {"addInsert", "addCount", "addSave"}, vendor : Vendor,
                    who : Approver, stage : Stage, flow : FlowRow]
    BY <1>3, JobShape DEF AddSignerCount
  <2>2. CountSigners(job[p].stage) \in Nat
    BY <2>1, CountSignersType
  <2>3. [job[p] EXCEPT !.op = "addSave", !.flow.signers = CountSigners(job[p].stage)] \in Job
    BY <2>1, <2>2 DEF Job, FlowRow
  <2>4. job' \in [Call -> Job]
    BY <1>0, <1>3, <2>3 DEF AddSignerCount, TypeOK
  <2> QED
    BY <1>3, <2>4 DEF AddSignerCount, TypeOK, nodes
<1>4. ASSUME AddSignerSave(p)
      PROVE  TypeInv'
  <2>1. job[p].vendor \in Vendor /\ job[p].flow \in FlowRow
    BY <1>4, JobShape DEF AddSignerSave
  <2> QED
    BY <1>0, <1>4, <2>1 DEF AddSignerSave, TypeOK, nodes
<1>5. ASSUME NEW v \in Vendor, NEW a \in Approver, SubmitValidate(p, v, a)
      PROVE  TypeInv'
  <2>1. job' \in [Call -> Job]
    BY <1>5 DEF SubmitValidate, TypeOK, Job
  <2> QED
    BY <1>5, <2>1 DEF SubmitValidate, TypeOK, nodes
<1>6. ASSUME SubmitSaveVendor(p)
      PROVE  TypeInv'
  <2>1. job[p] \in [op : {"submitSaveVendor", "submitReadFlow", "submitRecord"},
                    vendor : Vendor, who : Approver]
    BY <1>6, JobShape DEF SubmitSaveVendor
  <2>2. job' \in [Call -> Job]
    BY <1>6, <2>1 DEF SubmitSaveVendor, TypeOK, Job
  <2>3. vendorStatus' \in [Vendor -> VendorStatus]
    BY <1>6, <2>1 DEF SubmitSaveVendor, TypeOK, VendorStatus
  <2> QED
    BY <1>6, <2>2, <2>3 DEF SubmitSaveVendor, TypeOK, nodes
<1>7. ASSUME SubmitReadFlow(p)
      PROVE  TypeInv'
  <2>1. job[p].vendor \in Vendor /\ job[p].who \in Approver
    BY <1>7, JobShape DEF SubmitReadFlow
  <2>2. [flow[job[p].vendor] EXCEPT !.stage = "COMPLIANCE_CHECK", !.approved = 0,
                                    !.rejected = 0] \in FlowRow
    <3>1. flow[job[p].vendor] \in FlowRow
      BY <2>1 DEF TypeOK
    <3> QED
      BY <3>1 DEF FlowRow, Stage
  <2>3. job' \in [Call -> Job]
    BY <1>7, <2>1, <2>2 DEF SubmitReadFlow, TypeOK, Job
  <2> QED
    BY <1>7, <2>3 DEF SubmitReadFlow, TypeOK, nodes
<1>8. ASSUME SubmitSaveFlow(p)
      PROVE  TypeInv'
  <2>1. job[p].vendor \in Vendor /\ job[p].who \in Approver /\ job[p].flow \in FlowRow
    BY <1>8, JobShape DEF SubmitSaveFlow
  <2>2. job' \in [Call -> Job]
    BY <1>8, <2>1 DEF SubmitSaveFlow, TypeOK, Job
  <2>3. flow' \in [Vendor -> FlowRow]
    BY <1>8, <2>1 DEF SubmitSaveFlow, TypeOK
  <2> QED
    BY <1>8, <2>2, <2>3 DEF SubmitSaveFlow, TypeOK, nodes
<1>9. ASSUME SubmitRecord(p)
      PROVE  TypeInv'
  <2>1. job[p].vendor \in Vendor /\ job[p].who \in Approver
    BY <1>9, JobShape DEF SubmitRecord
  <2>2. IsFiniteSet(records') /\ records' \subseteq Record
    <3>1. "DATA_COLLECTION" \in Stage
      BY DEF Stage
    <3> QED
      BY <1>9, <2>1, <3>1, AddRecord DEF SubmitRecord, TypeOK
  <2>3. job' \in [Call -> Job]
    BY <1>0, <1>9 DEF SubmitRecord, TypeOK
  <2> QED
    BY <1>9, <2>2, <2>3 DEF SubmitRecord, TypeOK, nodes
<1>10. ASSUME NEW v \in Vendor, UpdateValidate(p, v)
       PROVE  TypeInv'
  <2>1. job' \in [Call -> Job]
    BY <1>10 DEF UpdateValidate, TypeOK, Job
  <2> QED
    BY <1>10, <2>1 DEF UpdateValidate, TypeOK, nodes
<1>11. ASSUME UpdateRead(p)
       PROVE  TypeInv'
  <2>1. job[p].vendor \in Vendor
    BY <1>11, JobShape DEF UpdateRead
  <2>2. job' \in [Call -> Job]
    BY <1>11, <2>1 DEF UpdateRead, TypeOK, Job
  <2> QED
    BY <1>11, <2>2 DEF UpdateRead, TypeOK, nodes
<1>12. ASSUME UpdateSave(p)
       PROVE  TypeInv'
  <2>1. job[p].vendor \in Vendor /\ job[p].status \in VendorStatus
    BY <1>12, JobShape DEF UpdateSave
  <2> QED
    BY <1>0, <1>12, <2>1 DEF UpdateSave, TypeOK, nodes
<1>13. ASSUME Abandon(p)
       PROVE  TypeInv'
  BY <1>0, <1>13 DEF Abandon, TypeOK, nodes
<1> QED
  BY <1>1, <1>2, <1>3, <1>4, <1>5, <1>6, <1>7, <1>8, <1>9, <1>10, <1>11, <1>12, <1>13
     DEF Request

LEMMA NextTypeInv == TypeInv /\ [Next]_vars => TypeInv'
<1> SUFFICES ASSUME TypeInv, [Next]_vars PROVE TypeInv'
  OBVIOUS
<1> USE DEF TypeInv
<1>1. ASSUME NEW v \in Vendor, FlowHandler(v) PROVE TypeInv'
  BY <1>1, HandlerTypeInv
<1>2. ASSUME Reconfigure PROVE TypeInv'
  <2>1. PICK s \in ConfigStages, type \in SignType, rows \in SignerList :
          CreateNodeConfig(s, type, rows)
    BY <1>2 DEF Reconfigure
  <2>2. \E kept : AddRows(s, kept, rows)
    BY <2>1 DEF CreateNodeConfig
  <2>3. nodeSigners' \in [Stage -> SUBSET SignerRow]
    BY <2>2 DEF AddRows, TypeOK
  <2>4. signType' \in [Stage -> SignType \cup {NoSignType}]
    BY <2>1 DEF CreateNodeConfig, TypeOK
  <2> QED
    BY <2>1, <2>3, <2>4 DEF CreateNodeConfig, TypeOK
<1>3. ASSUME Crash PROVE TypeInv'
  BY <1>3 DEF Crash, TypeOK, Job, nodes
<1>4. ASSUME NEW p \in Call, Request(p) PROVE TypeInv'
  BY <1>4, RequestTypeInv
<1>5. ASSUME UNCHANGED vars PROVE TypeInv'
  BY <1>5 DEF vars, TypeOK
<1> QED
  BY <1>1, <1>2, <1>3, <1>4, <1>5 DEF Next, TxNext

LEMMA TypeInvariant == Spec => []TypeInv
<1> QED
  BY InitTypeInv, NextTypeInv, PTL DEF Spec

(***************************************************************************)
(* Whatever order the handlers' steps, the delayed resets, crashes and     *)
(* failing statements come in, every row keeps its type; in particular no  *)
(* status of one table is ever stored in the other.                        *)
(***************************************************************************)
THEOREM TypeCorrect == Spec => []TypeOK
<1>1. TypeInv => TypeOK
  BY DEF TypeInv
<1> QED
  BY <1>1, TypeInvariant, PTL

-----------------------------------------------------------------------------
(***************************************************************************)
(* Decisions are signed.  The invariant that is inductive also speaks of   *)
(* the rows calls have read and will write back: a status that the records *)
(* backed when it was read is still backed when it is saved, because       *)
(* records are never deleted.                                              *)
(***************************************************************************)
Backed(recs, status, v) ==
  /\ status = "APPROVED" =>
       \E r \in recs :
         r.vendor = v /\ r.status = "APPROVED" /\ NextStage[r.stage] = "COMPLETED"
  /\ status = "REJECTED" =>
       \E r \in recs : r.vendor = v /\ (r.status = "REJECTED" \/ r.stage = "REJECTED")

HoldsFlow(j) == j.op \in {"addInsert", "addCount", "addSave", "submitSaveFlow"}

JobBacked(recs, j) ==
  /\ HoldsFlow(j) => Backed(recs, j.flow.status, j.vendor)
  /\ j.op = "updateSave" => Backed(recs, j.status, j.vendor)

DecisionInv ==
  /\ \A v \in Vendor :
       Backed(records, vendorStatus[v], v) /\ Backed(records, flow[v].status, v)
  /\ \A p \in Call : JobBacked(records, job[p])

LEMMA BackedIsKept ==
  ASSUME NEW R, NEW S, R \subseteq S, NEW status, NEW v, Backed(R, status, v)
  PROVE  Backed(S, status, v)
BY DEF Backed

(* The signatures that back a decision.                                    *)
LEMMA SignatureBacks ==
  ASSUME NEW recs, NEW v, NEW s, NEW a, NEW st, Signature(v, s, a, st) \in recs
  PROVE  /\ st = "APPROVED" /\ NextStage[s] = "COMPLETED" => Backed(recs, "APPROVED", v)
         /\ st = "REJECTED" \/ s = "REJECTED" => Backed(recs, "REJECTED", v)
<1> DEFINE r == Signature(v, s, a, st)
<1>1. r.vendor = v /\ r.stage = s /\ r.status = st
  BY DEF Signature
<1> HIDE DEF r
<1>2. r \in recs
  BY DEF r
<1> QED
  BY <1>1, <1>2 DEF Backed

LEMMA JobBackedIsKept ==
  ASSUME NEW R, NEW S, R \subseteq S, NEW j, JobBacked(R, j)
  PROVE  JobBacked(S, j)
BY BackedIsKept DEF JobBacked

(* Only a vendor's own handlers change its rows, and not the calls.        *)
LEMMA OneVendor ==
  ASSUME DecisionInv, records \subseteq records', NEW v \in Vendor, UNCHANGED job,
         \A w \in Vendor : w # v => /\ vendorStatus'[w] = vendorStatus[w]
                                  /\ flow'[w] = flow[w],
         Backed(records', vendorStatus'[v], v), Backed(records', flow'[v].status, v)
  PROVE  DecisionInv'
<1>1. ASSUME NEW w \in Vendor
      PROVE  Backed(records', vendorStatus'[w], w) /\ Backed(records', flow'[w].status, w)
  <2>1. CASE w = v
    BY <2>1
  <2>2. CASE w # v
    BY <2>2, BackedIsKept DEF DecisionInv
  <2> QED
    BY <2>1, <2>2
<1>2. ASSUME NEW p \in Call PROVE JobBacked(records', job'[p])
  BY JobBackedIsKept DEF DecisionInv
<1> QED
  BY <1>1, <1>2 DEF DecisionInv

(* A call that adds no record: its own job and its vendor's rows change.   *)
LEMMA OneCall ==
  ASSUME TypeInv, DecisionInv, records \subseteq records', NEW p \in Call,
         \A q \in Call : q # p => job'[q] = job[q],
         JobBacked(records', job'[p]),
         \A w \in Vendor : /\ Backed(records', vendorStatus'[w], w)
                           /\ Backed(records', flow'[w].status, w)
  PROVE  DecisionInv'
<1>1. ASSUME NEW q \in Call PROVE JobBacked(records', job'[q])
  <2>1. CASE q = p
    BY <2>1
  <2>2. CASE q # p
    BY <2>2, JobBackedIsKept DEF DecisionInv
  <2> QED
    BY <2>1, <2>2
<1> QED
  BY <1>1 DEF DecisionInv

LEMMA CountPositive ==
  ASSUME NEW recs, NEW v, NEW s, NEW st, Count(recs, v, s, st) > 0
  PROVE  \E r \in recs : r.vendor = v /\ r.stage = s /\ r.status = st
<1> DEFINE T == {r \in recs : r.vendor = v /\ r.stage = s /\ r.status = st}
<1>1. T # {}
  <2> SUFFICES ASSUME T = {} PROVE FALSE
    OBVIOUS
  <2>1. Cardinality(T) = 0
    BY FS_EmptySet
  <2> QED
    BY <2>1 DEF Count
<1> QED
  BY <1>1

LEMMA ApproveBacked ==
  ASSUME TypeInv, DecisionInv, NEW v \in Vendor, NEW a \in Approver, Approve(v, a)
  PROVE  DecisionInv'
<1> DEFINE s == flow[v].stage
           recs == records \cup {Signature(v, s, a, "APPROVED")}
<1>0. PICK tally \in Tally(recs, v, s) : Decide(v, tally)
  BY DEF Approve
<1> DEFINE signed == [flow[v] EXCEPT !.approved = tally.approved,
                                     !.rejected = tally.rejected,
                                     !.signers = tally.signers,
                                     !.version = @ + 1]
<1>1. flow[v] \in FlowRow /\ s \in Stage /\ flow \in [Vendor -> FlowRow]
      /\ vendorStatus \in [Vendor -> VendorStatus]
  BY DEF TypeInv, TypeOK, FlowRow
<1>2. /\ signed.status = flow[v].status
      /\ signed.stage = s
      /\ signed.rejected = tally.rejected
      /\ DOMAIN signed = {"stage", "status", "approved", "rejected", "signers", "version"}
  BY <1>1 DEF FlowRow
<1>3. records' = recs /\ records \subseteq recs /\ UNCHANGED job
  BY DEF Approve
<1>4. NextStage[s] = "COMPLETED" => Backed(recs, "APPROVED", v)
  BY SignatureBacks
<1>5. flow[v].status \notin {"APPROVED", "REJECTED"}
  BY DEF Approve, Decided
<1>6. Backed(recs, vendorStatus[v], v)
  BY <1>3, BackedIsKept DEF DecisionInv
<1>7. \/ /\ RejectionOnRecord(signed)
         /\ flow' = [flow EXCEPT ![v] = [RejectFlow(signed) EXCEPT !.stage = s]]
         /\ SaveVendor(v, "REJECTED")
      \/ /\ flow' = [flow EXCEPT ![v] = AdvanceFlow(signed)]
         /\ FollowFlow(v, NextStage[s], VendorAfterAdvance)
      \/ /\ flow' = [flow EXCEPT ![v] =
                       [signed EXCEPT !.status =
                          IF tally.approved \in 1..(tally.signers - 1) THEN "PARTIAL" ELSE @]]
         /\ UNCHANGED <<vendorStatus, lost>>
  BY <1>0 DEF Decide
<1>a. TypeOK /\ "REJECTED" \in VendorStatus
  BY DEF TypeInv, VendorStatus
<1>8. tally.rejected \in {0, Count(recs, v, s, "REJECTED")}
  BY <1>0 DEF Tally, ReadOrZero
<1> HIDE DEF s, recs, signed
<1>9. Backed(recs, vendorStatus'[v], v) /\ Backed(recs, flow'[v].status, v)
  <2>1. CASE /\ RejectionOnRecord(signed)
             /\ flow' = [flow EXCEPT ![v] = [RejectFlow(signed) EXCEPT !.stage = s]]
             /\ SaveVendor(v, "REJECTED")
    <3>1. \E r \in recs : r.vendor = v /\ r.stage = s /\ r.status = "REJECTED"
      <4>1. Count(recs, v, s, "REJECTED") > 0
        BY <1>2, <1>8, <2>1 DEF RejectionOnRecord
      <4> QED
        BY <4>1, CountPositive
    <3>2. Backed(recs, "REJECTED", v)
      BY <3>1 DEF Backed
    <3>3. vendorStatus'[v] \in {"REJECTED", vendorStatus[v]}
      BY <1>a, <2>1, SavedVendor
    <3>4. flow'[v] = [RejectFlow(signed) EXCEPT !.stage = s]
      BY <1>1, <2>1
    <3>5. flow'[v].status = "REJECTED"
      BY <1>2, <3>4 DEF RejectFlow
    <3> QED
      BY <1>6, <3>2, <3>3, <3>5
  <2>2. CASE /\ flow' = [flow EXCEPT ![v] = AdvanceFlow(signed)]
             /\ FollowFlow(v, NextStage[s], VendorAfterAdvance)
    <3>1. flow'[v] = AdvanceFlow(signed)
      BY <1>1, <2>2
    <3>2. flow'[v].status = IF NextStage[s] = "COMPLETED" THEN "APPROVED" ELSE "PENDING"
      BY <1>2, <3>1 DEF AdvanceFlow
    <3>3. Backed(recs, flow'[v].status, v)
      BY <1>4, <3>2 DEF Backed
    <3>5. \/ vendorStatus'[v] = "APPROVED" /\ NextStage[s] = "COMPLETED"
          \/ vendorStatus'[v] \notin {"APPROVED", "REJECTED"}
          \/ vendorStatus'[v] = vendorStatus[v]
      <4>1. CASE NextStage[s] \in DOMAIN VendorAfterAdvance
        BY <1>a, <2>2, <4>1, FollowedFlow, VendorTables
      <4>2. CASE NextStage[s] \notin DOMAIN VendorAfterAdvance
        BY <1>a, <2>2, <4>2, FollowedFlow, VendorTables
      <4> QED
        BY <4>1, <4>2
    <3> QED
      BY <1>4, <1>6, <3>3, <3>5 DEF Backed
  <2>3. CASE /\ flow' = [flow EXCEPT ![v] =
                           [signed EXCEPT !.status =
                              IF tally.approved \in 1..(tally.signers - 1) THEN "PARTIAL" ELSE @]]
             /\ UNCHANGED <<vendorStatus, lost>>
    <3>1. flow'[v] = [signed EXCEPT !.status =
                        IF tally.approved \in 1..(tally.signers - 1) THEN "PARTIAL" ELSE @]
      BY <1>1, <2>3
    <3>2. flow'[v].status \in {"PARTIAL", flow[v].status}
      BY <1>2, <3>1
    <3> QED
      BY <1>5, <1>6, <2>3, <3>2 DEF Backed
  <2> QED
    BY <1>7, <2>1, <2>2, <2>3
<1>10. ASSUME NEW w \in Vendor, w # v
      PROVE  vendorStatus'[w] = vendorStatus[w] /\ flow'[w] = flow[w]
  <2>1. flow'[w] = flow[w]
    BY <1>1, <1>7, <1>10
  <2>2. OthersKeepTheirRow(v)
    BY <1>7, <1>a, SavedVendor, FollowedFlow, VendorTables DEF OthersKeepTheirRow
  <2> QED
    BY <1>10, <2>1, <2>2 DEF OthersKeepTheirRow
<1> QED
  BY <1>3, <1>9, <1>10, OneVendor

LEMMA HandlerBacked ==
  ASSUME TypeInv, DecisionInv, NEW v \in Vendor, FlowHandler(v)
  PROVE  DecisionInv'
<1> /\ flow[v] \in FlowRow /\ flow \in [Vendor -> FlowRow]
    /\ vendorStatus \in [Vendor -> VendorStatus] /\ TypeOK
  BY DEF TypeInv, TypeOK
<1>1. ASSUME NEW a \in Approver, Approve(v, a) PROVE DecisionInv'
  BY <1>1, ApproveBacked
<1>2. ASSUME NEW a \in Approver, Reject(v, a) PROVE DecisionInv'
  <2>1. /\ records' = records \cup {Signature(v, flow[v].stage, a, "REJECTED")}
        /\ records \subseteq records'
        /\ UNCHANGED job
    BY <1>2 DEF Reject
  <2>2. vendorStatus'[v] \in {"REJECTED", vendorStatus[v]} /\ OthersKeepTheirRow(v)
    BY <1>2, SavedVendor DEF Reject, VendorStatus
  <2>3. flow'[v] = RejectFlow([flow[v] EXCEPT !.version = @ + 1])
    BY <1>2 DEF Reject
  <2>4. flow'[v].status = "REJECTED"
    BY <2>3 DEF RejectFlow, FlowRow
  <2>a. Backed(records', vendorStatus[v], v)
    BY <2>1, BackedIsKept DEF DecisionInv
  <2>5. Backed(records', "REJECTED", v)
    BY <2>1, SignatureBacks
  <2>6. ASSUME NEW w \in Vendor, w # v
        PROVE  vendorStatus'[w] = vendorStatus[w] /\ flow'[w] = flow[w]
    BY <1>2, <2>2, <2>6 DEF Reject, OthersKeepTheirRow
  <2> QED
    BY <2>1, <2>2, <2>4, <2>5, <2>6, <2>a, OneVendor
<1>3. ASSUME NEW a \in Approver, NEW to \in TransitionTargets, Transition(v, a, to)
      PROVE  DecisionInv'
  <2>1. /\ records' = records \cup {Signature(v, to, a, "APPROVED")}
        /\ records \subseteq records'
        /\ UNCHANGED job
    BY <1>3 DEF Transition
  <2>2. /\ Backed(records', vendorStatus[v], v)
        /\ Backed(records', flow[v].status, v)
    BY <2>1, BackedIsKept DEF DecisionInv
  <2>3. /\ to = "COMPLETED" => Backed(records', "APPROVED", v)
        /\ to = "REJECTED" => Backed(records', "REJECTED", v)
    BY <2>1, SignatureBacks DEF NextStage, Stage
  <2>4. \/ vendorStatus'[v] = "APPROVED" /\ to = "COMPLETED"
        \/ vendorStatus'[v] = "REJECTED" /\ to = "REJECTED"
        \/ vendorStatus'[v] = vendorStatus[v]
    <3>1. FollowFlow(v, to, TransitionVendor)
      BY <1>3 DEF Transition
    <3> QED
      BY <3>1, FollowedFlow, VendorTables
  <2>a. OthersKeepTheirRow(v)
    BY <1>3, FollowedFlow, VendorTables DEF Transition
  <2>5. flow'[v] = TransitionFlow(flow[v], to)
    BY <1>3 DEF Transition
  <2>6. flow'[v].status = CASE to = "COMPLETED" -> "APPROVED"
                            [] to = "REJECTED"  -> "REJECTED"
                            [] OTHER            -> flow[v].status
    BY <2>5 DEF TransitionFlow, FlowRow
  <2>7. ASSUME NEW w \in Vendor, w # v
        PROVE  vendorStatus'[w] = vendorStatus[w] /\ flow'[w] = flow[w]
    BY <1>3, <2>7, <2>a DEF Transition, OthersKeepTheirRow
  <2>8. Backed(records', vendorStatus'[v], v) /\ Backed(records', flow'[v].status, v)
    BY <2>2, <2>3, <2>4, <2>6
  <2> QED
    BY <2>1, <2>7, <2>8, OneVendor
<1>4. ASSUME NEW to \in WithdrawTargets, NEW rollback \in BOOLEAN,
             Withdraw(v, to, rollback)
      PROVE  DecisionInv'
  <2>1. records' = records /\ UNCHANGED job
    BY <1>4 DEF Withdraw
  <2>2. CASE UNCHANGED <<flow, vendorStatus>>
    BY <2>1, <2>2 DEF DecisionInv
  <2>3. CASE ~ UNCHANGED <<flow, vendorStatus>>
    <3>0. PICK st \in VendorStatus : st = WithdrawnVendor(WithdrawTo(flow[v], to), rollback)
      BY DEF WithdrawnVendor, VendorStatus
    <3>1. /\ flow' = [flow EXCEPT ![v] = WithdrawnFlow(flow[v], WithdrawTo(flow[v], to))]
          /\ SaveVendor(v, st)
      BY <1>4, <2>3, <3>0 DEF Withdraw
    <3>a. vendorStatus'[v] \in {st, vendorStatus[v]} /\ OthersKeepTheirRow(v)
      BY <3>1, SavedVendor
    <3>2. st \notin {"APPROVED", "REJECTED"}
      BY <3>0 DEF WithdrawnVendor
    <3>3. flow'[v].status = "WITHDRAWN"
      BY <3>1 DEF WithdrawnFlow, FlowRow
    <3>4. Backed(records', vendorStatus'[v], v) /\ Backed(records', flow'[v].status, v)
      BY <2>1, <3>2, <3>3, <3>a DEF Backed, DecisionInv
    <3>5. ASSUME NEW w \in Vendor, w # v
          PROVE  vendorStatus'[w] = vendorStatus[w] /\ flow'[w] = flow[w]
      BY <3>1, <3>5, <3>a DEF OthersKeepTheirRow
    <3> QED
      BY <2>1, <3>4, <3>5, OneVendor
  <2> QED
    BY <2>2, <2>3
<1>5. ASSUME DelayedReset(v) PROVE DecisionInv'
  <2>1. /\ records' = records /\ UNCHANGED job /\ UNCHANGED vendorStatus
        /\ flow' = [flow EXCEPT ![v].status = "PENDING"]
    BY <1>5 DEF DelayedReset
  <2>2. flow'[v].status = "PENDING"
    BY <2>1 DEF FlowRow
  <2>3. ASSUME NEW w \in Vendor, w # v PROVE flow'[w] = flow[w]
    BY <2>1, <2>3
  <2>4. Backed(records', flow'[v].status, v) /\ Backed(records', vendorStatus'[v], v)
    BY <2>1, <2>2 DEF Backed, DecisionInv
  <2> QED
    BY <2>1, <2>3, <2>4, OneVendor
<1> QED
  BY <1>1, <1>2, <1>3, <1>4, <1>5 DEF FlowHandler

LEMMA RequestBacked ==
  ASSUME TypeInv, DecisionInv, NEW p \in Call, Request(p)
  PROVE  DecisionInv'
<1>1. /\ \A v \in Vendor : vendorStatus[v] \in VendorStatus /\ flow[v] \in FlowRow
      /\ job \in [Call -> Job]
      /\ flow \in [Vendor -> FlowRow]
      /\ vendorStatus \in [Vendor -> VendorStatus]
  BY DEF TypeInv, TypeOK
<1>2. \A v \in Vendor : /\ Backed(records, vendorStatus[v], v)
                        /\ Backed(records, flow[v].status, v)
  BY DEF DecisionInv
<1>3. JobBacked(records, job[p])
  BY DEF DecisionInv
<1>4. TypeOK
  BY DEF TypeInv
<1>5. JobBacked(records, Done) /\ JobBacked(records', Done)
  BY DEF JobBacked, HoldsFlow, Done
<1>6. ASSUME NEW v \in Vendor, NEW a \in Approver, NEW s \in AddStages,
             AddSignerRead(p, v, a, s)
      PROVE  DecisionInv'
  <2>1. job'[p].flow = flow[v] /\ job'[p].vendor = v /\ job'[p].op = "addInsert"
    BY <1>1, <1>6 DEF AddSignerRead
  <2>2. JobBacked(records, job'[p])
    BY <1>2, <2>1 DEF JobBacked
  <2> QED
    BY <1>1, <1>2, <1>6, <2>2, OneCall DEF AddSignerRead
<1>7. ASSUME AddSignerInsert(p) PROVE DecisionInv'
  <2>1. job[p] \in [op : {"addInsert", "addCount", "addSave"}, vendor : Vendor,
                    who : Approver, stage : Stage, flow : FlowRow]
    BY <1>4, <1>7, JobShape DEF AddSignerInsert
  <2>2. /\ job'[p].flow = job[p].flow
        /\ job'[p].vendor = job[p].vendor
        /\ job'[p].op = "addCount"
    BY <1>1, <1>7, <2>1 DEF AddSignerInsert
  <2>3. JobBacked(records, job'[p])
    BY <1>3, <1>7, <2>2 DEF JobBacked, HoldsFlow, AddSignerInsert
  <2> QED
    BY <1>1, <1>2, <1>7, <2>3, OneCall DEF AddSignerInsert
<1>8. ASSUME AddSignerCount(p) PROVE DecisionInv'
  <2>1. job[p] \in [op : {"addInsert", "addCount", "addSave"}, vendor : Vendor,
                    who : Approver, stage : Stage, flow : FlowRow]
    BY <1>4, <1>8, JobShape DEF AddSignerCount
  <2> DEFINE counted == [job[p] EXCEPT !.op = "addSave",
                                       !.flow.signers = CountSigners(job[p].stage)]
  <2>2. /\ counted.flow.status = job[p].flow.status
        /\ counted.vendor = job[p].vendor
        /\ counted.op = "addSave"
    BY <2>1 DEF FlowRow
  <2>3. job'[p] \in {counted, Done}
    BY <1>1, <1>8 DEF AddSignerCount
  <2> HIDE DEF counted
  <2>4. JobBacked(records, counted)
    BY <1>3, <1>8, <2>2 DEF JobBacked, HoldsFlow, AddSignerCount
  <2>5. JobBacked(records, job'[p])
    BY <1>5, <2>3, <2>4
  <2> QED
    BY <1>1, <1>2, <1>8, <2>5, OneCall DEF AddSignerCount
<1>9. ASSUME AddSignerSave(p) PROVE DecisionInv'
  <2>1. job[p].vendor \in Vendor
    BY <1>4, <1>9, JobShape DEF AddSignerSave
  <2>2. Backed(records, job[p].flow.status, job[p].vendor)
    BY <1>3, <1>9 DEF JobBacked, HoldsFlow, AddSignerSave
  <2>3. \A w \in Vendor : Backed(records, flow'[w].status, w)
    BY <1>1, <1>2, <1>9, <2>1, <2>2 DEF AddSignerSave
  <2> QED
    BY <1>1, <1>2, <1>5, <1>9, <2>3, OneCall DEF AddSignerSave
<1>10. ASSUME NEW v \in Vendor, NEW a \in Approver, SubmitValidate(p, v, a)
       PROVE  DecisionInv'
  <2>1. JobBacked(records, job'[p])
    BY <1>1, <1>10 DEF SubmitValidate, JobBacked, HoldsFlow
  <2> QED
    BY <1>1, <1>2, <1>10, <2>1, OneCall DEF SubmitValidate
<1>11. ASSUME SubmitSaveVendor(p) PROVE DecisionInv'
  <2>1. job[p] \in [op : {"submitSaveVendor", "submitReadFlow", "submitRecord"},
                    vendor : Vendor, who : Approver]
    BY <1>4, <1>11, JobShape DEF SubmitSaveVendor
  <2>2. job'[p].op = "submitReadFlow"
    BY <1>1, <1>11, <2>1 DEF SubmitSaveVendor
  <2>3. JobBacked(records, job'[p])
    BY <2>2 DEF JobBacked, HoldsFlow
  <2>4. Backed(records, "PENDING_REVIEW", job[p].vendor)
    BY DEF Backed
  <2>5. \A w \in Vendor : Backed(records, vendorStatus'[w], w)
    BY <1>1, <1>2, <1>11, <2>1, <2>4 DEF SubmitSaveVendor
  <2> QED
    BY <1>1, <1>2, <1>11, <2>3, <2>5, OneCall DEF SubmitSaveVendor
<1>12. ASSUME SubmitReadFlow(p) PROVE DecisionInv'
  <2>1. job[p].vendor \in Vendor
    BY <1>4, <1>12, JobShape DEF SubmitReadFlow
  <2>2. job'[p] = [op |-> "submitSaveFlow", vendor |-> job[p].vendor, who |-> job[p].who,
                   flow |-> [flow[job[p].vendor] EXCEPT !.stage = "COMPLIANCE_CHECK",
                                                        !.approved = 0, !.rejected = 0]]
    BY <1>1, <1>12 DEF SubmitReadFlow
  <2>3. /\ job'[p].flow.status = flow[job[p].vendor].status
        /\ job'[p].vendor = job[p].vendor
        /\ job'[p].op = "submitSaveFlow"
    <3> DEFINE row == flow[job[p].vendor]
               submitted == [row EXCEPT !.stage = "COMPLIANCE_CHECK", !.approved = 0,
                                        !.rejected = 0]
    <3>1. job'[p] = [op |-> "submitSaveFlow", vendor |-> job[p].vendor,
                     who |-> job[p].who, flow |-> submitted]
      BY <2>2
    <3>2. row \in FlowRow
      BY <1>1, <2>1
    <3> HIDE DEF row
    <3>3. submitted.status = row.status
      BY <3>2 DEF FlowRow
    <3> HIDE DEF submitted
    <3> QED
      BY <3>1, <3>3 DEF row
  <2>4. Backed(records, job'[p].flow.status, job'[p].vendor)
    BY <1>2, <2>1, <2>3
  <2>5. JobBacked(records, job'[p])
    BY <2>3, <2>4 DEF JobBacked
  <2> QED
    BY <1>1, <1>2, <1>12, <2>5, OneCall DEF SubmitReadFlow
<1>13. ASSUME SubmitSaveFlow(p) PROVE DecisionInv'
  <2>1. job[p].vendor \in Vendor
    BY <1>4, <1>13, JobShape DEF SubmitSaveFlow
  <2>2. Backed(records, job[p].flow.status, job[p].vendor)
    BY <1>3, <1>13 DEF JobBacked, HoldsFlow, SubmitSaveFlow
  <2>3. \A w \in Vendor : Backed(records, flow'[w].status, w)
    BY <1>1, <1>2, <1>13, <2>1, <2>2 DEF SubmitSaveFlow
  <2>4. job'[p].op = "submitRecord"
    BY <1>1, <1>13 DEF SubmitSaveFlow
  <2>5. JobBacked(records, job'[p])
    BY <2>4 DEF JobBacked, HoldsFlow
  <2> QED
    BY <1>1, <1>2, <1>13, <2>3, <2>5, OneCall DEF SubmitSaveFlow
<1>14. ASSUME SubmitRecord(p) PROVE DecisionInv'
  <2>1. records \subseteq records' /\ UNCHANGED <<vendorStatus, flow>>
    BY <1>14 DEF SubmitRecord
  <2>2. \A w \in Vendor : /\ Backed(records', vendorStatus'[w], w)
                          /\ Backed(records', flow'[w].status, w)
    BY <1>2, <2>1, BackedIsKept
  <2>3. job' = [job EXCEPT ![p] = Done]
    BY <1>14 DEF SubmitRecord
  <2> QED
    BY <1>1, <1>5, <2>1, <2>2, <2>3, OneCall
<1>15. ASSUME NEW v \in Vendor, UpdateValidate(p, v) PROVE DecisionInv'
  <2>1. JobBacked(records, job'[p])
    BY <1>1, <1>15 DEF UpdateValidate, JobBacked, HoldsFlow
  <2> QED
    BY <1>1, <1>2, <1>15, <2>1, OneCall DEF UpdateValidate
<1>16. ASSUME UpdateRead(p) PROVE DecisionInv'
  <2>1. job[p].vendor \in Vendor
    BY <1>4, <1>16, JobShape DEF UpdateRead
  <2>2. job'[p] = [op |-> "updateSave", vendor |-> job[p].vendor,
                   status |-> vendorStatus[job[p].vendor]]
    BY <1>1, <1>16 DEF UpdateRead
  <2>3. JobBacked(records, job'[p])
    BY <1>2, <2>1, <2>2 DEF JobBacked, HoldsFlow
  <2> QED
    BY <1>1, <1>2, <1>16, <2>3, OneCall DEF UpdateRead
<1>17. ASSUME UpdateSave(p) PROVE DecisionInv'
  <2>1. job[p].vendor \in Vendor
    BY <1>4, <1>17, JobShape DEF UpdateSave
  <2>2. Backed(records, job[p].status, job[p].vendor)
    BY <1>3, <1>17 DEF JobBacked, UpdateSave
  <2>3. \A w \in Vendor : Backed(records, vendorStatus'[w], w)
    BY <1>1, <1>2, <1>17, <2>1, <2>2 DEF UpdateSave
  <2> QED
    BY <1>1, <1>2, <1>5, <1>17, <2>3, OneCall DEF UpdateSave
<1>18. ASSUME Abandon(p) PROVE DecisionInv'
  BY <1>1, <1>2, <1>5, <1>18, OneCall DEF Abandon
<1> QED
  BY <1>6, <1>7, <1>8, <1>9, <1>10, <1>11, <1>12, <1>13, <1>14, <1>15, <1>16, <1>17,
     <1>18 DEF Request

(***************************************************************************)
(* However stale the rows that are written back, no vendor and no flow is  *)
(* approved or rejected without a signature that decided so.               *)
(***************************************************************************)
THEOREM DecisionsAreMade == Spec => []DecisionsAreSigned
<1>1. Init => DecisionInv
  BY DEF Init, DecisionInv, Backed, JobBacked, HoldsFlow, Idle, NewFlow
<1>2. TypeInv /\ DecisionInv /\ [Next]_vars => DecisionInv'
  <2> SUFFICES ASSUME TypeInv, DecisionInv, [Next]_vars
               PROVE  DecisionInv'
    OBVIOUS
  <2>1. ASSUME NEW v \in Vendor, FlowHandler(v) PROVE DecisionInv'
    BY <2>1, HandlerBacked
  <2>2. ASSUME NEW p \in Call, Request(p) PROVE DecisionInv'
    BY <2>2, RequestBacked
  <2>3. CASE Reconfigure \/ UNCHANGED vars
    BY <2>3 DEF Reconfigure, CreateNodeConfig, vars, DecisionInv
  <2>4. CASE Crash
    <3>1. \A p \in Call : JobBacked(records', job'[p])
      BY <2>4 DEF Crash, JobBacked, HoldsFlow, Idle, Done
    <3> QED
      BY <2>4, <3>1 DEF Crash, DecisionInv
  <2> QED
    BY <2>1, <2>2, <2>3, <2>4 DEF Next, TxNext
<1>3. DecisionInv => DecisionsAreSigned
  BY DEF DecisionInv, DecisionsAreSigned, Backed, SignedAtEnd, Refused
<1> QED
  BY <1>1, <1>2, <1>3, TypeInvariant, PTL DEF Spec
-----------------------------------------------------------------------------
(* The transactional handlers: what they do to the rows of a vendor.       *)

(* The vendor row and the flow row of v go together, or v's was lost.      *)
Agrees(v) ==
  v \notin lost =>
    /\ vendorStatus[v] = "APPROVED" => flow[v].stage = "COMPLETED"
    /\ flow[v].status = "APPROVED" => vendorStatus[v] = "APPROVED"
    /\ flow[v].status = "REJECTED" => vendorStatus[v] = "REJECTED"

Versioned(v) ==
  /\ flow'[v].version >= flow[v].version
  /\ flow'[v].stage # flow[v].stage => flow'[v].version = flow[v].version + 1

(* A handler of v: other vendors keep their rows, v's agree and are        *)
(* versioned.                                                              *)
Orderly(v) ==
  /\ \A w \in Vendor : w # v => flow'[w] = flow[w]
  /\ OthersKeepTheirRow(v)
  /\ Agrees(v)'
  /\ Versioned(v)

LEMMA ApproveIsOrderly ==
  ASSUME TypeInv, NEW v \in Vendor, Agrees(v), NEW a \in Approver, Approve(v, a)
  PROVE  Orderly(v)
<1> DEFINE s == flow[v].stage
           recs == records \cup {Signature(v, s, a, "APPROVED")}
<1>0. PICK tally \in Tally(recs, v, s) : Decide(v, tally)
  BY DEF Approve
<1> DEFINE signed == [flow[v] EXCEPT !.approved = tally.approved,
                                     !.rejected = tally.rejected,
                                     !.signers = tally.signers,
                                     !.version = @ + 1]
<1>1. /\ flow[v] \in FlowRow /\ s \in Stage /\ flow \in [Vendor -> FlowRow]
      /\ vendorStatus \in [Vendor -> VendorStatus]
  BY DEF TypeInv, TypeOK, FlowRow
<1>2. flow[v].status \notin {"APPROVED", "REJECTED"}
  BY DEF Approve, Decided
<1>3. IsFiniteSet(recs)
  BY <1>1, AddRecord
<1>4. tally.approved \in Nat /\ tally.rejected \in Nat /\ tally.signers \in Nat
  BY <1>0, <1>1, <1>3, TallyType DEF TypeInv
<1>5. flow[v].version \in Nat
  BY <1>1 DEF FlowRow
<1>6. /\ signed \in FlowRow
      /\ signed.status = flow[v].status
      /\ signed.stage = s
      /\ signed.version = flow[v].version + 1
  <2>1. flow[v].version + 1 \in Nat
    BY <1>5
  <2>2. signed \in FlowRow
    BY <1>1, <1>4, <2>1 DEF FlowRow
  <2> QED
    BY <1>1, <2>2 DEF FlowRow
<1>8. \/ /\ flow'[v] = [RejectFlow(signed) EXCEPT !.stage = s]
         /\ SaveVendor(v, "REJECTED")
      \/ /\ flow'[v] = AdvanceFlow(signed)
         /\ FollowFlow(v, NextStage[s], VendorAfterAdvance)
      \/ /\ flow'[v] = [signed EXCEPT !.status =
                          IF tally.approved \in 1..(tally.signers - 1) THEN "PARTIAL" ELSE @]
         /\ UNCHANGED <<vendorStatus, lost>>
  BY <1>0, <1>1 DEF Decide
<1>a. TypeOK /\ "REJECTED" \in VendorStatus
  BY DEF TypeInv, VendorStatus
<1>7. (\A w \in Vendor : w # v => flow'[w] = flow[w]) /\ OthersKeepTheirRow(v)
  <2>1. \A w \in Vendor : w # v => flow'[w] = flow[w]
    BY <1>0, <1>1 DEF Decide
  <2>2. OthersKeepTheirRow(v)
    BY <1>8, <1>a, SavedVendor, FollowedFlow, VendorTables DEF OthersKeepTheirRow
  <2> QED
    BY <2>1, <2>2
<1> HIDE DEF signed
<1>9. CASE /\ flow'[v] = [RejectFlow(signed) EXCEPT !.stage = s]
           /\ SaveVendor(v, "REJECTED")
  <2>0. v \notin lost' => vendorStatus'[v] = "REJECTED"
    BY <1>9, <1>a, SavedVendor
  <2>1. /\ flow'[v].stage = s
        /\ flow'[v].status = "REJECTED"
        /\ flow'[v].version = flow[v].version + 1
    BY <1>6, <1>9 DEF RejectFlow, FlowRow
  <2> QED
    BY <1>5, <1>7, <2>0, <2>1 DEF Orderly, Agrees, Versioned
<1>10. CASE /\ flow'[v] = AdvanceFlow(signed)
            /\ FollowFlow(v, NextStage[s], VendorAfterAdvance)
  <2>1. /\ flow'[v].stage = NextStage[s]
        /\ flow'[v].status = IF NextStage[s] = "COMPLETED" THEN "APPROVED" ELSE "PENDING"
        /\ flow'[v].version = flow[v].version + 1
    BY <1>6, <1>10 DEF AdvanceFlow, FlowRow
  <2>2. NextStage[s] # "COMPLETED" => s # "COMPLETED"
    BY <1>1 DEF NextStage, Stage
  <2>3. NextStage[s] = "COMPLETED" /\ v \notin lost' => vendorStatus'[v] = "APPROVED"
    BY <1>10, <1>a, FollowedFlow, VendorTables
  <2>4. NextStage[s] # "COMPLETED" /\ v \notin lost' => vendorStatus'[v] # "APPROVED"
    <3>1. CASE NextStage[s] \in DOMAIN VendorAfterAdvance
      BY <1>10, <1>a, <3>1, FollowedFlow, VendorTables
    <3>2. CASE NextStage[s] \notin DOMAIN VendorAfterAdvance
      <4>1. vendorStatus'[v] = vendorStatus[v] /\ (v \in lost') = (v \in lost)
        BY <1>10, <1>a, <3>2, FollowedFlow, VendorTables
      <4> QED
        BY <2>2, <4>1 DEF Agrees
    <3> QED
      BY <3>1, <3>2
  <2>5. Agrees(v)'
    BY <2>1, <2>3, <2>4 DEF Agrees
  <2>6. Versioned(v)
    BY <1>5, <2>1 DEF Versioned
  <2> QED
    BY <1>7, <2>5, <2>6 DEF Orderly
<1>11. CASE /\ flow'[v] = [signed EXCEPT !.status =
                             IF tally.approved \in 1..(tally.signers - 1) THEN "PARTIAL" ELSE @]
            /\ UNCHANGED <<vendorStatus, lost>>
  <2>1. /\ flow'[v].stage = s
        /\ flow'[v].status \in {"PARTIAL", flow[v].status}
        /\ flow'[v].version = flow[v].version + 1
    BY <1>6, <1>11 DEF FlowRow
  <2>2. Agrees(v)'
    BY <1>2, <1>11, <2>1 DEF Agrees
  <2>3. Versioned(v)
    BY <1>5, <2>1 DEF Versioned
  <2> QED
    BY <1>7, <2>2, <2>3 DEF Orderly
<1> QED
  BY <1>8, <1>9, <1>10, <1>11

LEMMA HandlerIsOrderly ==
  ASSUME TypeInv, NEW v \in Vendor, Agrees(v), FlowHandler(v)
  PROVE  Orderly(v)
<1> /\ flow[v] \in FlowRow /\ flow \in [Vendor -> FlowRow]
    /\ vendorStatus \in [Vendor -> VendorStatus] /\ TypeOK
  BY DEF TypeInv, TypeOK
<1> /\ flow[v].version \in Nat /\ flow[v].stage \in Stage
  BY DEF FlowRow
<1>1. ASSUME NEW a \in Approver, Approve(v, a) PROVE Orderly(v)
  BY <1>1, ApproveIsOrderly
<1>2. ASSUME NEW a \in Approver, Reject(v, a) PROVE Orderly(v)
  <2>1. /\ SaveVendor(v, "REJECTED") /\ "REJECTED" \in VendorStatus
        /\ flow' = [flow EXCEPT ![v] = RejectFlow([flow[v] EXCEPT !.version = @ + 1])]
    BY <1>2 DEF Reject, VendorStatus
  <2>a. OthersKeepTheirRow(v) /\ (v \notin lost' => vendorStatus'[v] = "REJECTED")
    BY <2>1, SavedVendor
  <2>2. /\ flow'[v].stage = "REJECTED"
        /\ flow'[v].status = "REJECTED"
        /\ flow'[v].version = flow[v].version + 1
    BY <2>1 DEF RejectFlow, FlowRow
  <2> QED
    BY <2>1, <2>2, <2>a DEF Orderly, Agrees, Versioned
<1>3. ASSUME NEW a \in Approver, NEW to \in TransitionTargets, Transition(v, a, to)
      PROVE  Orderly(v)
  <2>1. /\ FollowFlow(v, to, TransitionVendor)
        /\ flow' = [flow EXCEPT ![v] = TransitionFlow(flow[v], to)]
    BY <1>3 DEF Transition
  <2>a. OthersKeepTheirRow(v)
    BY <2>1, FollowedFlow, VendorTables
  <2>2. /\ to = "COMPLETED" /\ v \notin lost' => vendorStatus'[v] = "APPROVED"
        /\ to = "REJECTED" /\ v \notin lost' => vendorStatus'[v] = "REJECTED"
        /\ to \notin {"COMPLETED", "REJECTED"} =>
             vendorStatus'[v] = vendorStatus[v] /\ (v \in lost') = (v \in lost)
    BY <2>1, FollowedFlow, VendorTables
  <2>3. /\ flow'[v].stage = to
        /\ flow'[v].status = CASE to = "COMPLETED" -> "APPROVED"
                               [] to = "REJECTED"  -> "REJECTED"
                               [] OTHER            -> flow[v].status
        /\ flow'[v].version = flow[v].version + 1
    BY <2>1 DEF TransitionFlow, FlowRow
  <2>4. to \in Stage /\ to \notin {"COMPLETED", "REJECTED"} => flow[v].stage # "COMPLETED"
    BY <1>3 DEF Transition, StageOrderMap, Stage
  <2>5. to \in Stage
    BY RequestsAssumption
  <2>6. Agrees(v)'
    <3>1. CASE to = "COMPLETED"
      BY <2>2, <2>3, <3>1 DEF Agrees
    <3>2. CASE to = "REJECTED"
      BY <2>2, <2>3, <3>2 DEF Agrees
    <3>3. CASE to \notin {"COMPLETED", "REJECTED"}
      BY <2>2, <2>3, <2>4, <2>5, <3>3 DEF Agrees
    <3> QED
      BY <3>1, <3>2, <3>3
  <2> QED
    BY <2>1, <2>3, <2>6, <2>a DEF Orderly, Versioned
<1>4. ASSUME NEW to \in WithdrawTargets, NEW rollback \in BOOLEAN,
             Withdraw(v, to, rollback)
      PROVE  Orderly(v)
  <2>1. CASE UNCHANGED <<flow, vendorStatus, lost>>
    BY <2>1 DEF Orderly, Agrees, Versioned, OthersKeepTheirRow
  <2>2. CASE ~ UNCHANGED <<flow, vendorStatus, lost>>
    <3>0. PICK st \in VendorStatus : st = WithdrawnVendor(WithdrawTo(flow[v], to), rollback)
      BY DEF WithdrawnVendor, VendorStatus
    <3>1. /\ flow' = [flow EXCEPT ![v] = WithdrawnFlow(flow[v], WithdrawTo(flow[v], to))]
          /\ SaveVendor(v, st)
      BY <1>4, <2>2, <3>0 DEF Withdraw
    <3>a. OthersKeepTheirRow(v) /\ (v \notin lost' => vendorStatus'[v] = st)
      BY <3>1, SavedVendor
    <3>2. st # "APPROVED"
      BY <3>0 DEF WithdrawnVendor
    <3>3. flow'[v].status = "WITHDRAWN" /\ flow'[v].version = flow[v].version + 1
      BY <3>1 DEF WithdrawnFlow, FlowRow
    <3> QED
      BY <3>1, <3>2, <3>3, <3>a DEF Orderly, Agrees, Versioned
  <2> QED
    BY <2>1, <2>2
<1>5. ASSUME DelayedReset(v) PROVE Orderly(v)
  <2>1. UNCHANGED <<vendorStatus, lost>> /\ flow' = [flow EXCEPT ![v].status = "PENDING"]
    BY <1>5 DEF DelayedReset
  <2>2. /\ flow'[v].status = "PENDING"
        /\ flow'[v].stage = flow[v].stage
        /\ flow'[v].version = flow[v].version
    BY <2>1 DEF FlowRow
  <2> QED
    BY <2>1, <2>2 DEF Orderly, Agrees, Versioned, OthersKeepTheirRow
<1> QED
  BY <1>1, <1>2, <1>3, <1>4, <1>5 DEF FlowHandler

(* Every transactional step, for all vendors.                              *)
LEMMA TxStepIsOrderly ==
  ASSUME TypeInv, VendorAgreesWithFlow, [TxNext]_vars
  PROVE  VendorAgreesWithFlow' /\ \A w \in Vendor : Versioned(w)
<1>1. \A w \in Vendor : Agrees(w) /\ flow[w].version \in Nat
  BY DEF VendorAgreesWithFlow, Agrees, TypeInv, TypeOK, FlowRow
<1>2. ASSUME NEW v \in Vendor, FlowHandler(v)
      PROVE  \A w \in Vendor : Agrees(w)' /\ Versioned(w)
  <2>1. Orderly(v)
    BY <1>1, <1>2, HandlerIsOrderly
  <2>2. ASSUME NEW w \in Vendor PROVE Agrees(w)' /\ Versioned(w)
    <3>1. CASE w = v
      BY <2>1, <3>1 DEF Orderly
    <3>2. CASE w # v
      BY <1>1, <2>1, <3>2 DEF Orderly, Agrees, Versioned, OthersKeepTheirRow
    <3> QED
      BY <3>1, <3>2
  <2> QED
    BY <2>2
<1>3. ASSUME UNCHANGED <<vendorStatus, flow, lost>>
      PROVE  \A w \in Vendor : Agrees(w)' /\ Versioned(w)
  BY <1>1, <1>3 DEF Agrees, Versioned
<1>4. (\E v \in Vendor : FlowHandler(v)) \/ UNCHANGED <<vendorStatus, flow, lost>>
  BY DEF TxNext, Reconfigure, CreateNodeConfig, Crash, vars
<1> QED
  BY <1>2, <1>3, <1>4 DEF VendorAgreesWithFlow, Agrees

(* What is proved of all handlers holds of the transactional ones.         *)
LEMMA TxImplements == TxSpec => Spec
<1>1. [TxNext]_vars => [Next]_vars
  BY DEF Next
<1> QED
  BY <1>1, PTL DEF TxSpec, Spec

(***************************************************************************)
(* However approvals, rejections, transitions, withdrawals, their late     *)
(* resets, failing reads and crashes follow each other, the vendor row and *)
(* the flow row tell the same decision, except for a vendor whose row a    *)
(* handler failed to write, and only until a handler writes it again.      *)
(***************************************************************************)
THEOREM RowsAgree == TxSpec => []VendorAgreesWithFlow
<1>1. Init => VendorAgreesWithFlow
  BY DEF Init, NewFlow, VendorAgreesWithFlow
<1>2. TypeInv /\ VendorAgreesWithFlow /\ [TxNext]_vars => VendorAgreesWithFlow'
  BY TxStepIsOrderly
<1> QED
  BY <1>1, <1>2, TxImplements, TypeInvariant, PTL DEF TxSpec

(***************************************************************************)
(* No transactional handler takes the version back, and none moves a flow  *)
(* to another stage without counting it up by one.                         *)
(***************************************************************************)
THEOREM StagesAreVersioned == TxSpec => StageChangesAreVersioned
<1>1. TypeInv /\ VendorAgreesWithFlow /\ [TxNext]_vars =>
        [\A v \in Vendor :
           /\ flow'[v].version >= flow[v].version
           /\ flow'[v].stage # flow[v].stage => flow'[v].version = flow[v].version + 1]_vars
  BY TxStepIsOrderly DEF Versioned
<1> QED
  BY <1>1, RowsAgree, TxImplements, TypeInvariant, PTL DEF TxSpec, StageChangesAreVersioned

-----------------------------------------------------------------------------
(* A flow moves on only over a stage that is closed.                       *)

LEMMA CountOne ==
  ASSUME NEW recs, IsFiniteSet(recs), NEW v, NEW s, NEW a, NEW st, Signature(v, s, a, st) \in recs
  PROVE  Count(recs, v, s, st) \in Nat \ {0}
<1> DEFINE T == {r \in recs : r.vendor = v /\ r.stage = s /\ r.status = st}
<1>1. Signature(v, s, a, st) \in T
  BY DEF Signature
<1>2. IsFiniteSet(T)
  BY FS_Subset
<1>3. Cardinality(T) # 0
  BY <1>1, <1>2, FS_EmptySet
<1>4. Cardinality(T) \in Nat
  BY <1>2, FS_CardinalityType
<1> QED
  BY <1>3, <1>4 DEF Count

(* evaluateSignCondition closes a node only as its sign type says.         *)
LEMMA CompleteIsClosed ==
  ASSUME NEW type \in SignType \cup {NoSignType}, NEW total \in Nat, NEW approved \in Nat \ {0},
         EvaluateSignCondition(type, total, approved, 0)
  PROVE  /\ type = "ALL" => approved >= total
         /\ type = "MAJORITY" => 2 * approved > total
<1>1. type = "ALL" => approved >= total
  BY DEF EvaluateSignCondition, SignType
<1>2. ASSUME type = "MAJORITY" PROVE 2 * approved > total
  <2>1. total = 0 \/ approved >= Threshold(total) \/ 0 >= Threshold(total)
    BY <1>2 DEF EvaluateSignCondition, SignType
  <2>2. Threshold(total) \in Nat /\ 2 * Threshold(total) > total
    BY DEF Threshold
  <2> QED
    BY <2>1, <2>2
<1> QED
  BY <1>1, <1>2

LEMMA ClosedAsItsTypeSays ==
  ASSUME NEW v, NEW s, Count(records', v, s, "REJECTED") = 0, Approvals(v, s)' >= 1,
         signType'[s] = "ALL" => Approvals(v, s)' >= CountSigners(s)',
         signType'[s] = "MAJORITY" => 2 * Approvals(v, s)' > CountSigners(s)'
  PROVE  ClosedByApproval(v, s)'
<1>1. CASE signType'[s] = "ALL"
  BY <1>1 DEF ClosedByApproval
<1>2. CASE signType'[s] = "MAJORITY"
  BY <1>2 DEF ClosedByApproval
<1>3. CASE signType'[s] # "ALL" /\ signType'[s] # "MAJORITY"
  BY <1>3 DEF ClosedByApproval
<1> QED
  BY <1>1, <1>2, <1>3

(* Approve, with reads that succeed: the tally is that of the database.    *)
LEMMA ApproveEarns ==
  ASSUME ReadsMayFail = FALSE, TypeInv, NEW v \in Vendor, NEW a \in Approver,
         Approve(v, a), NEW s \in Stage, s = flow[v].stage,
         NextStage[s] # s, flow'[v].stage = NextStage[s]
  PROVE  ClosedByApproval(v, s)'
<1> DEFINE recs == records \cup {Signature(v, s, a, "APPROVED")}
<1>0. PICK tally \in Tally(recs, v, s) : Decide(v, tally)
  BY DEF Approve
<1> DEFINE signed == [flow[v] EXCEPT !.approved = tally.approved,
                                     !.rejected = tally.rejected,
                                     !.signers = tally.signers,
                                     !.version = @ + 1]
<1>1. flow[v] \in FlowRow /\ flow \in [Vendor -> FlowRow]
  BY DEF TypeInv, TypeOK
<1>2. /\ signed.stage = s
      /\ signed.approved = tally.approved /\ signed.rejected = tally.rejected
      /\ signed.signers = tally.signers
      /\ DOMAIN signed = {"stage", "status", "approved", "rejected", "signers", "version"}
  BY <1>1 DEF FlowRow
<1>3. records' = recs /\ nodeSigners' = nodeSigners /\ signType' = signType
  BY DEF Approve, nodes
<1>4. /\ tally.approved = Count(recs, v, s, "APPROVED")
      /\ tally.rejected = Count(recs, v, s, "REJECTED")
      /\ tally.signers = CountSigners(s)
      /\ tally.type = signType[s]
  BY <1>0 DEF Tally, ReadOrZero
<1>5. \/ flow'[v] = [RejectFlow(signed) EXCEPT !.stage = s]
      \/ ~RejectionOnRecord(signed) /\ StageComplete(signed, tally.type)
      \/ flow'[v] = [signed EXCEPT !.status =
                       IF tally.approved \in 1..(tally.signers - 1) THEN "PARTIAL" ELSE @]
  BY <1>0, <1>1 DEF Decide
<1>6. IsFiniteSet(recs)
  BY AddRecord
<1>7. /\ tally.approved \in Nat \ {0} /\ tally.rejected \in Nat /\ tally.signers \in Nat
      /\ tally.type \in SignType \cup {NoSignType}
  BY <1>4, <1>6, CountOne, CountType, CountSignersType DEF TypeInv, TypeOK
<1> HIDE DEF signed, recs
<1>8. ~RejectionOnRecord(signed) /\ StageComplete(signed, tally.type)
  <2>1. flow'[v] # [RejectFlow(signed) EXCEPT !.stage = s]
    BY <1>2 DEF RejectFlow
  <2>2. flow'[v] # [signed EXCEPT !.status =
                      IF tally.approved \in 1..(tally.signers - 1) THEN "PARTIAL" ELSE @]
    BY <1>2
  <2> QED
    BY <1>5, <2>1, <2>2
<1>9. tally.rejected = 0
  BY <1>2, <1>7, <1>8 DEF RejectionOnRecord
<1>10. EvaluateSignCondition(tally.type, tally.signers, tally.approved, 0)
  BY <1>2, <1>8, <1>9 DEF StageComplete
<1>11. /\ tally.type = "ALL" => tally.approved >= tally.signers
       /\ tally.type = "MAJORITY" => 2 * tally.approved > tally.signers
  BY <1>7, <1>10, CompleteIsClosed
<1>12. Approvals(v, s)' = tally.approved /\ Count(records', v, s, "REJECTED") = 0
  BY <1>3, <1>4, <1>9 DEF Approvals
<1>13. CountSigners(s)' = tally.signers /\ signType'[s] = tally.type
  BY <1>3, <1>4 DEF CountSigners
<1> QED
  BY <1>7, <1>11, <1>12, <1>13, ClosedAsItsTypeSays

(* No other handler takes a flow to the stage that follows its own.        *)
LEMMA OthersDoNotMoveOn ==
  ASSUME TypeInv, NEW v \in Vendor, NEW s \in Stage, MovesOn(v, s), [TxNext]_vars
  PROVE  \E a \in Approver : Approve(v, a)
<1>1. /\ flow \in [Vendor -> FlowRow] /\ flow[v] \in FlowRow
      /\ flow[v].stage = s /\ flow'[v].stage = NextStage[s] /\ NextStage[s] # s
      /\ \A r \in records' \ records : r.vendor = v => r.stage = s
  BY DEF TypeInv, TypeOK, MovesOn
<1>2. NextStage[s] \in {"COMPLIANCE_CHECK", "LEVEL_1_APPROVAL", "LEVEL_2_APPROVAL",
                        "FINANCE_APPROVAL", "LEGAL_APPROVAL", "COMPLETED"}
  BY DEF NextStage
<1>3. PICK w \in Vendor : FlowHandler(w)
  BY <1>1 DEF TxNext, Reconfigure, CreateNodeConfig, Crash, vars
<1>4. w = v
  <2> SUFFICES ASSUME w # v PROVE FALSE
    OBVIOUS
  <2>1. flow'[v] = flow[v]
    BY <1>1, <1>3 DEF FlowHandler, Approve, Decide, Reject, Transition, Withdraw, DelayedReset
  <2> QED
    BY <1>1, <2>1
<1>5. ~ \E a \in Approver : Reject(v, a)
  <2> SUFFICES ASSUME NEW a \in Approver, Reject(v, a) PROVE FALSE
    OBVIOUS
  <2>1. flow'[v] = RejectFlow([flow[v] EXCEPT !.version = @ + 1])
    BY <1>1 DEF Reject
  <2>2. flow'[v].stage = "REJECTED"
    BY <1>1, <2>1 DEF RejectFlow, FlowRow
  <2> QED
    BY <1>1, <1>2, <2>2
<1>6. ~ \E a \in Approver, to \in TransitionTargets : Transition(v, a, to)
  <2> SUFFICES ASSUME NEW a \in Approver, NEW to \in TransitionTargets, Transition(v, a, to)
               PROVE  FALSE
    OBVIOUS
  <2>1. flow'[v] = TransitionFlow(flow[v], to)
    BY <1>1 DEF Transition
  <2>2. flow'[v].stage = to
    BY <1>1, <2>1 DEF TransitionFlow, FlowRow
  <2>3. /\ Signature(v, to, a, "APPROVED") \in records'
        /\ ~KeyTaken(v, to, a)
    BY DEF Transition
  <2>4. /\ Signature(v, to, a, "APPROVED").vendor = v
        /\ Signature(v, to, a, "APPROVED").stage = to
        /\ Signature(v, to, a, "APPROVED").approver = a
    BY DEF Signature
  <2>5. Signature(v, to, a, "APPROVED") \notin records
    BY <2>3, <2>4 DEF KeyTaken
  <2> QED
    BY <1>1, <2>2, <2>3, <2>4, <2>5
<1>7. ~ \E to \in WithdrawTargets, rollback \in BOOLEAN : Withdraw(v, to, rollback)
  <2> SUFFICES ASSUME NEW to \in WithdrawTargets, NEW rollback \in BOOLEAN,
                      Withdraw(v, to, rollback)
               PROVE  FALSE
    OBVIOUS
  <2>1. flow' = [flow EXCEPT ![v] = WithdrawnFlow(flow[v], WithdrawTo(flow[v], to))]
    BY <1>1 DEF Withdraw
  <2>2. flow'[v].stage = WithdrawTo(flow[v], to)
    BY <1>1, <2>1 DEF WithdrawnFlow, FlowRow
  <2>3. CASE to = Unspecified
    <3>1. PreviousStage[s] = NextStage[s]
      BY <1>1, <2>2, <2>3 DEF WithdrawTo
    <3>2. s # "DATA_COLLECTION"
      BY <1>1, <2>3 DEF Withdraw
    <3> QED
      BY <3>1, <3>2 DEF PreviousStage, NextStage, Stage
  <2>4. CASE to # Unspecified
    <3>1. to = NextStage[s]
      BY <1>1, <2>2, <2>4 DEF WithdrawTo
    <3>2. StageOrderMap[NextStage[s]] < StageOrderMap[s]
      BY <1>1, <2>4, <3>1 DEF Withdraw
    <3>3. CASE s = "COMPLETED"
      BY <1>1, <3>3 DEF NextStage
    <3>4. CASE s # "COMPLETED"
      BY <3>2, <3>4 DEF StageOrderMap, NextStage, Stage
    <3> QED
      BY <3>3, <3>4
  <2> QED
    BY <2>3, <2>4
<1>8. ~DelayedReset(v)
  <2> SUFFICES ASSUME DelayedReset(v) PROVE FALSE
    OBVIOUS
  <2>1. flow'[v].stage = flow[v].stage
    BY <1>1 DEF DelayedReset, FlowRow
  <2> QED
    BY <1>1, <2>1
<1> QED
  BY <1>3, <1>4, <1>5, <1>6, <1>7, <1>8 DEF FlowHandler

(***************************************************************************)
(* With reads that succeed, a flow moves on from a node only when the node *)
(* is closed by the records and under the configuration of that moment,    *)
(* for any vendors, approvers and signer lists, and whatever transitions,  *)
(* withdrawals, late resets, reconfigurations and crashes came before.     *)
(***************************************************************************)
THEOREM AdvancesEarned ==
  ASSUME ReadsMayFail = FALSE
  PROVE  TxSpec => AdvancesAreEarned
<1>1. TypeInv /\ [TxNext]_vars =>
        [\A v \in Vendor, s \in Stage : MovesOn(v, s) => ClosedByApproval(v, s)']_vars
  <2> SUFFICES ASSUME TypeInv, [TxNext]_vars, NEW v \in Vendor, NEW s \in Stage, MovesOn(v, s)
               PROVE  ClosedByApproval(v, s)'
    OBVIOUS
  <2>1. PICK a \in Approver : Approve(v, a)
    BY OthersDoNotMoveOn
  <2> QED
    BY <2>1, ApproveEarns DEF MovesOn
<1> QED
  BY <1>1, TxImplements, TypeInvariant, PTL DEF TxSpec, AdvancesAreEarned

-----------------------------------------------------------------------------
(* The pipeline without manual transitions, withdrawals, late signers and  *)
(* reconfiguration, and with reads that succeed.                           *)
PlainRequests ==
  /\ ConfigStages = {} /\ TransitionTargets = {} /\ WithdrawTargets = {} /\ AddStages = {}
  /\ ReadsMayFail = FALSE

(* Where a flow can be, and that one at the end is decided.                *)
FlowInOrder(f) ==
  /\ f.stage \in SigningStage \cup {"DATA_COLLECTION", "COMPLETED", "REJECTED"}
  /\ f.stage = "COMPLETED" => f.status = "APPROVED"
  /\ f.stage = "REJECTED" => f.status = "REJECTED"

(* The only row that is read and written back later goes to the beginning. *)
JobInOrder(j) ==
  /\ j.op \notin {"addInsert", "addCount", "addSave"}
  /\ j.op = "submitSaveFlow" => j.flow.stage = "COMPLIANCE_CHECK"

Passed(v, stage) ==
  \A s \in SigningStage : StageOrderMap[s] < StageOrderMap[stage] => ClosedByApproval(v, s)

PipelineInv ==
  /\ \A v \in Vendor : resets[v] = 0 /\ FlowInOrder(flow[v]) /\ Passed(v, flow[v].stage)
  /\ \A p \in Call : JobInOrder(job[p])

LEMMA Orders ==
  /\ StageOrderMap["DATA_COLLECTION"] = 0 /\ StageOrderMap["COMPLIANCE_CHECK"] = 1
  /\ StageOrderMap["LEVEL_1_APPROVAL"] = 2 /\ StageOrderMap["LEVEL_2_APPROVAL"] = 3
  /\ StageOrderMap["FINANCE_APPROVAL"] = 4 /\ StageOrderMap["LEGAL_APPROVAL"] = 5
  /\ StageOrderMap["COMPLETED"] = 7 /\ StageOrderMap["REJECTED"] = -1
BY DEF StageOrderMap

(* Nothing has been passed before the compliance check, and a stage is     *)
(* passed when it is the next one's turn.                                  *)
LEMMA NothingBefore ==
  ASSUME NEW stage \in {"DATA_COLLECTION", "COMPLIANCE_CHECK", "REJECTED"}, NEW t \in SigningStage
  PROVE  ~(StageOrderMap[t] < StageOrderMap[stage])
BY Orders DEF SigningStage

LEMMA OneMorePassed ==
  ASSUME NEW s \in SigningStage \cup {"DATA_COLLECTION"}, NEW t \in SigningStage,
         StageOrderMap[t] < StageOrderMap[NextStage[s]]
  PROVE  t = s \/ StageOrderMap[t] < StageOrderMap[s]
<1>1. s \in Stage
  BY DEF SigningStage, Stage
<1>2. /\ s = "DATA_COLLECTION" => NextStage[s] = "COMPLIANCE_CHECK"
      /\ s = "COMPLIANCE_CHECK" => NextStage[s] = "LEVEL_1_APPROVAL"
      /\ s = "LEVEL_1_APPROVAL" => NextStage[s] = "LEVEL_2_APPROVAL"
      /\ s = "LEVEL_2_APPROVAL" => NextStage[s] = "FINANCE_APPROVAL"
      /\ s = "FINANCE_APPROVAL" => NextStage[s] = "LEGAL_APPROVAL"
      /\ s = "LEGAL_APPROVAL" => NextStage[s] = "COMPLETED"
  BY <1>1 DEF NextStage
<1> QED
  BY <1>2, Orders DEF SigningStage

(* A signature counts for its own stage and vendor only.                   *)
LEMMA OtherCounts ==
  ASSUME NEW v, NEW s, NEW a, NEW st, NEW w, NEW t, w # v \/ t # s,
         records' = records \/ records' = records \cup {Signature(v, s, a, st)},
         UNCHANGED nodes, ClosedByApproval(w, t)
  PROVE  ClosedByApproval(w, t)'
<1>1. Signature(v, s, a, st).vendor = v /\ Signature(v, s, a, st).stage = s
  BY DEF Signature
<1>2. \A y : {r \in records' : r.vendor = w /\ r.stage = t /\ r.status = y}
               = {r \in records : r.vendor = w /\ r.stage = t /\ r.status = y}
  BY <1>1
<1>3. \A y : Count(records', w, t, y) = Count(records, w, t, y)
  BY <1>2 DEF Count
<1>4. nodeSigners' = nodeSigners /\ signType' = signType
  BY DEF nodes
<1> QED
  BY <1>3, <1>4 DEF ClosedByApproval, Approvals, CountSigners

(* One vendor's handler, that signs at most the stage the flow is at, or   *)
(* the submission.                                                         *)
LEMMA VendorMoves ==
  ASSUME TypeInv, PipelineInv, NEW v \in Vendor, NEW s \in Stage, NEW a, NEW st,
         s = flow[v].stage \/ s = "DATA_COLLECTION",
         records' = records \/ records' = records \cup {Signature(v, s, a, st)},
         UNCHANGED nodes,
         \A w \in Vendor : resets'[w] = 0,
         \A w \in Vendor : w # v => flow'[w] = flow[w],
         \A p \in Call : JobInOrder(job'[p]),
         FlowInOrder(flow'[v]),
         flow'[v].stage = flow[v].stage \/ Passed(v, flow[v].stage)'
  PROVE  PipelineInv'
<1>1. \A w \in Vendor : FlowInOrder(flow[w]) /\ Passed(w, flow[w].stage)
  BY DEF PipelineInv
<1>2. ASSUME NEW w \in Vendor, w # v \/ flow'[v].stage = flow[v].stage
      PROVE  Passed(w, flow[w].stage)'
  <2> SUFFICES ASSUME NEW t \in SigningStage, StageOrderMap[t] < StageOrderMap[flow[w].stage]
               PROVE  ClosedByApproval(w, t)'
    BY <1>2 DEF Passed
  <2>1. ClosedByApproval(w, t)
    BY <1>1 DEF Passed
  <2>2. w # v \/ t # s
    <3>1. w = v /\ t = s => s = flow[w].stage
      BY DEF SigningStage
    <3>2. StageOrderMap[t] \in Int
      BY Orders DEF SigningStage
    <3> QED
      BY <3>1, <3>2
  <2>3. CASE records' = records
    BY <2>1, <2>2, <2>3, OtherCounts
  <2>4. CASE records' = records \cup {Signature(v, s, a, st)}
    BY <2>1, <2>2, <2>4, OtherCounts
  <2> QED
    BY <2>3, <2>4
<1>3. ASSUME NEW w \in Vendor
      PROVE  FlowInOrder(flow'[w]) /\ Passed(w, flow[w].stage)'
  <2>1. FlowInOrder(flow'[w])
    BY <1>1
  <2>2. Passed(w, flow[w].stage)'
    BY <1>2
  <2> QED
    BY <2>1, <2>2
<1> QED
  BY <1>3 DEF PipelineInv

(* Approve: the flow goes on only over a stage that is closed.             *)
LEMMA ApprovePasses ==
  ASSUME PlainRequests, TypeInv, PipelineInv, NEW v \in Vendor, NEW a \in Approver, Approve(v, a)
  PROVE  PipelineInv'
<1>a. PICK s \in Stage : s = flow[v].stage
  BY DEF TypeInv, TypeOK, FlowRow
<1> DEFINE recs == records \cup {Signature(v, s, a, "APPROVED")}
<1>0. PICK tally \in Tally(recs, v, s) : Decide(v, tally)
  BY <1>a DEF Approve
<1> DEFINE signed == [flow[v] EXCEPT !.approved = tally.approved,
                                     !.rejected = tally.rejected,
                                     !.signers = tally.signers,
                                     !.version = @ + 1]
<1>1. flow[v] \in FlowRow /\ s \in Stage /\ flow \in [Vendor -> FlowRow]
  BY DEF TypeInv, TypeOK
<1>2. /\ signed.status = flow[v].status
      /\ signed.stage = s
      /\ signed.approved = tally.approved /\ signed.rejected = tally.rejected
      /\ signed.signers = tally.signers
      /\ DOMAIN signed = {"stage", "status", "approved", "rejected", "signers", "version"}
  BY <1>1, <1>a DEF FlowRow
<1>3. records' = recs /\ UNCHANGED <<nodes, job, resets>> /\ s \in Stage
  BY <1>1, <1>a DEF Approve
<1>4. /\ tally.approved = Count(recs, v, s, "APPROVED")
      /\ tally.rejected = Count(recs, v, s, "REJECTED")
      /\ tally.signers = CountSigners(s)
      /\ tally.type = signType[s]
  BY <1>0 DEF Tally, ReadOrZero, PlainRequests
<1>5. \/ /\ RejectionOnRecord(signed)
         /\ flow' = [flow EXCEPT ![v] = [RejectFlow(signed) EXCEPT !.stage = s]]
      \/ /\ ~RejectionOnRecord(signed) /\ StageComplete(signed, tally.type)
         /\ flow' = [flow EXCEPT ![v] = AdvanceFlow(signed)]
      \/ /\ flow' = [flow EXCEPT ![v] =
                       [signed EXCEPT !.status =
                          IF tally.approved \in 1..(tally.signers - 1) THEN "PARTIAL" ELSE @]]
  BY <1>0, <1>a DEF Decide
<1>6. flow[v].status \notin {"APPROVED", "REJECTED"} /\ FlowInOrder(flow[v])
  BY DEF Approve, Decided, PipelineInv
<1>7. s \in SigningStage \cup {"DATA_COLLECTION"}
  BY <1>6, <1>a DEF FlowInOrder
<1>8. IsFiniteSet(recs)
  BY <1>1, AddRecord
<1>9. /\ tally.approved \in Nat \ {0} /\ tally.rejected \in Nat /\ tally.signers \in Nat
      /\ tally.type \in SignType \cup {NoSignType}
  BY <1>1, <1>4, <1>8, CountOne, CountType, CountSignersType DEF TypeInv, TypeOK
<1> HIDE DEF signed, recs
<1>10. CASE /\ RejectionOnRecord(signed)
            /\ flow' = [flow EXCEPT ![v] = [RejectFlow(signed) EXCEPT !.stage = s]]
  <2>1. flow'[v] = [RejectFlow(signed) EXCEPT !.stage = s]
    BY <1>1, <1>10
  <2>2. flow'[v].stage = s /\ flow'[v].status = "REJECTED"
    BY <1>2, <2>1 DEF RejectFlow
  <2>3. FlowInOrder(flow'[v])
    BY <1>7, <2>2 DEF FlowInOrder, SigningStage
  <2> QED
    BY <1>3, <1>10, <2>2, <2>3, <1>a, VendorMoves DEF recs, PipelineInv
<1>11. CASE flow' = [flow EXCEPT ![v] =
                       [signed EXCEPT !.status =
                          IF tally.approved \in 1..(tally.signers - 1) THEN "PARTIAL" ELSE @]]
  <2>1. flow'[v] = [signed EXCEPT !.status =
                      IF tally.approved \in 1..(tally.signers - 1) THEN "PARTIAL" ELSE @]
    BY <1>1, <1>11
  <2>2. flow'[v].stage = s
    BY <1>2, <2>1
  <2>3. FlowInOrder(flow'[v])
    BY <1>7, <2>2 DEF FlowInOrder, SigningStage
  <2> QED
    BY <1>3, <1>11, <2>2, <2>3, <1>a, VendorMoves DEF recs, PipelineInv
<1>12. CASE /\ ~RejectionOnRecord(signed) /\ StageComplete(signed, tally.type)
            /\ flow' = [flow EXCEPT ![v] = AdvanceFlow(signed)]
  <2>1. flow'[v] = AdvanceFlow(signed)
    BY <1>1, <1>12
  <2>2. flow'[v].stage = NextStage[s]
        /\ flow'[v].status = IF NextStage[s] = "COMPLETED" THEN "APPROVED" ELSE "PENDING"
    BY <1>2, <2>1 DEF AdvanceFlow
  <2>3. NextStage[s] \in SigningStage \cup {"COMPLETED"}
    BY <1>3, <1>7 DEF NextStage, SigningStage
  <2>4. FlowInOrder(flow'[v])
    BY <2>2, <2>3 DEF FlowInOrder, SigningStage
  <2>5. nodeSigners' = nodeSigners /\ signType' = signType
    BY <1>3 DEF nodes
  <2>6. ClosedByApproval(v, s)'
    <3>1. NextStage[s] # s
      BY <1>7 DEF NextStage, Stage, SigningStage
    <3> QED
      BY <1>a, <2>2, <3>1, ApproveEarns DEF PlainRequests
  <2>7. Passed(v, flow[v].stage)'
    <3> SUFFICES ASSUME NEW t \in SigningStage, StageOrderMap[t] < StageOrderMap[NextStage[s]]
                 PROVE  ClosedByApproval(v, t)'
      BY <2>2 DEF Passed
    <3>1. CASE t = s
      BY <2>6, <3>1
    <3>2. CASE t # s
      <4>1. StageOrderMap[t] < StageOrderMap[s]
        BY <1>7, <3>2, OneMorePassed
      <4>2. ClosedByApproval(v, t)
        BY <4>1, <1>a DEF PipelineInv, Passed
      <4> QED
        BY <1>3, <3>2, <4>2, OtherCounts DEF recs
    <3> QED
      BY <3>1, <3>2
  <2> QED
    BY <1>3, <1>12, <2>4, <2>7, <1>a, VendorMoves DEF recs, PipelineInv
<1> QED
  BY <1>5, <1>10, <1>11, <1>12

LEMMA RejectPasses ==
  ASSUME TypeInv, PipelineInv, NEW v \in Vendor, NEW a \in Approver, Reject(v, a)
  PROVE  PipelineInv'
<1>1. PICK s \in Stage : s = flow[v].stage
  BY DEF TypeInv, TypeOK, FlowRow
<1>2. flow \in [Vendor -> FlowRow] /\ flow[v] \in FlowRow
  BY DEF TypeInv, TypeOK
<1>3. flow' = [flow EXCEPT ![v] = RejectFlow([flow[v] EXCEPT !.version = @ + 1])]
  BY DEF Reject
<1>4. flow'[v] = RejectFlow([flow[v] EXCEPT !.version = @ + 1])
  BY <1>2, <1>3
<1>5. flow'[v].stage = "REJECTED" /\ flow'[v].status = "REJECTED"
  BY <1>2, <1>4 DEF RejectFlow, FlowRow
<1>6. \A w \in Vendor : w # v => flow'[w] = flow[w]
  BY <1>2, <1>3
<1>7. /\ records' = records \cup {Signature(v, s, a, "REJECTED")}
      /\ UNCHANGED <<nodes, job, resets>>
  BY <1>1 DEF Reject
<1>8. Passed(v, flow[v].stage)'
  BY <1>5, NothingBefore DEF Passed
<1>9. FlowInOrder(flow'[v])
  BY <1>5 DEF FlowInOrder
<1> QED
  BY <1>1, <1>6, <1>7, <1>8, <1>9, VendorMoves DEF PipelineInv

(* A step that leaves flows, signatures and nodes alone.                   *)
LEMMA OnlyJobsMove ==
  ASSUME PipelineInv, UNCHANGED <<flow, records, nodes>>, \A w \in Vendor : resets'[w] = 0,
         \A p \in Call : JobInOrder(job'[p])
  PROVE  PipelineInv'
BY DEF PipelineInv, Passed, ClosedByApproval, Approvals, CountSigners, nodes

LEMMA RequestPasses ==
  ASSUME PlainRequests, TypeInv, PipelineInv, NEW p \in Call, Request(p)
  PROVE  PipelineInv'
<1>1. /\ TypeOK /\ job \in [Call -> Job] /\ flow \in [Vendor -> FlowRow]
      /\ \A q \in Call : JobInOrder(job[q])
      /\ \A v \in Vendor : resets[v] = 0 /\ FlowInOrder(flow[v])
  BY DEF TypeInv, TypeOK, PipelineInv
<1>2. ASSUME UNCHANGED <<flow, records, nodes, resets>>, NEW j, job' = [job EXCEPT ![p] = j],
             JobInOrder(j)
      PROVE  PipelineInv'
  <2>1. \A q \in Call : JobInOrder(job'[q])
    BY <1>1, <1>2
  <2> QED
    BY <1>1, <1>2, <2>1, OnlyJobsMove
<1>3. ASSUME NEW v \in Vendor,
             UpdateValidate(p, v) \/ \E a \in Approver : SubmitValidate(p, v, a)
      PROVE  PipelineInv'
  <2>1. CASE UpdateValidate(p, v)
    <3>1. PICK j : j = [op |-> "updateRead", vendor |-> v]
      OBVIOUS
    <3>2. JobInOrder(j)
      BY <3>1 DEF JobInOrder
    <3> QED
      BY <1>2, <2>1, <3>1, <3>2 DEF UpdateValidate
  <2>2. ASSUME NEW a, SubmitValidate(p, v, a)
        PROVE  PipelineInv'
    <3>1. PICK j : j = [op |-> "submitSaveVendor", vendor |-> v, who |-> a]
      OBVIOUS
    <3>2. JobInOrder(j)
      BY <3>1 DEF JobInOrder
    <3> QED
      BY <1>2, <2>2, <3>1, <3>2 DEF SubmitValidate
  <2> QED
    BY <1>3, <2>1, <2>2
<1>4. CASE SubmitSaveVendor(p)
  <2>1. job[p] \in [op : {"submitSaveVendor", "submitReadFlow", "submitRecord"},
                    vendor : Vendor, who : Approver]
    BY <1>1, <1>4, JobShape DEF SubmitSaveVendor
  <2>2. PICK j : j = [job[p] EXCEPT !.op = "submitReadFlow"]
    OBVIOUS
  <2>3. j.op = "submitReadFlow"
    BY <2>1, <2>2
  <2>4. JobInOrder(j) /\ job' = [job EXCEPT ![p] = j]
    BY <1>4, <2>2, <2>3 DEF JobInOrder, SubmitSaveVendor
  <2> QED
    BY <1>2, <1>4, <2>4 DEF SubmitSaveVendor
<1>5. CASE SubmitReadFlow(p)
  <2>1. job[p] \in [op : {"submitSaveVendor", "submitReadFlow", "submitRecord"},
                    vendor : Vendor, who : Approver]
    BY <1>1, <1>5, JobShape DEF SubmitReadFlow
  <2>2. PICK f \in FlowRow : f = flow[job[p].vendor]
    BY <1>1, <2>1
  <2>3. PICK g : g = [f EXCEPT !.stage = "COMPLIANCE_CHECK", !.approved = 0, !.rejected = 0]
    OBVIOUS
  <2>4. g.stage = "COMPLIANCE_CHECK"
    BY <2>2, <2>3 DEF FlowRow
  <2>5. PICK j : j = [op |-> "submitSaveFlow", vendor |-> job[p].vendor, who |-> job[p].who,
                      flow |-> g]
    OBVIOUS
  <2>6. JobInOrder(j)
    BY <2>4, <2>5 DEF JobInOrder
  <2>7. job' = [job EXCEPT ![p] = j]
    BY <1>5, <2>2, <2>3, <2>5 DEF SubmitReadFlow
  <2> QED
    BY <1>2, <1>5, <2>6, <2>7 DEF SubmitReadFlow
<1>6. CASE SubmitSaveFlow(p)
  <2>1. job[p] \in [op : {"submitSaveFlow"}, vendor : Vendor, who : Approver, flow : FlowRow]
    BY <1>1, <1>6, JobShape DEF SubmitSaveFlow
  <2>a. PICK j : j = [op |-> "submitRecord", vendor |-> job[p].vendor, who |-> job[p].who]
    OBVIOUS
  <2>b. JobInOrder(j)
    BY <2>a DEF JobInOrder
  <2>2. job' = [job EXCEPT ![p] = j] /\ JobInOrder(j)
    BY <1>6, <2>a, <2>b DEF SubmitSaveFlow
  <2>3. CASE UNCHANGED flow
    BY <1>2, <1>6, <2>2, <2>3 DEF SubmitSaveFlow
  <2>4. CASE flow' = [flow EXCEPT ![job[p].vendor] = job[p].flow]
    <3>1. PICK v \in Vendor, f \in FlowRow : v = job[p].vendor /\ f = job[p].flow
      BY <2>1
    <3>2. f.stage = "COMPLIANCE_CHECK"
      BY <1>1, <1>6, <3>1 DEF JobInOrder, SubmitSaveFlow
    <3>3. flow'[v] = f /\ \A w \in Vendor : w # v => flow'[w] = flow[w]
      BY <1>1, <2>4, <3>1
    <3>4. FlowInOrder(flow'[v])
      BY <3>2, <3>3 DEF FlowInOrder, SigningStage
    <3>5. Passed(v, flow[v].stage)'
      BY <3>2, <3>3, NothingBefore DEF Passed
    <3>6. \A q \in Call : JobInOrder(job'[q])
      BY <1>1, <2>2
    <3>7. records' = records /\ UNCHANGED nodes /\ \A w \in Vendor : resets'[w] = 0
      BY <1>1, <1>6 DEF SubmitSaveFlow
    <3> QED
      BY <3>3, <3>4, <3>5, <3>6, <3>7, VendorMoves DEF Stage
  <2> QED
    BY <1>6, <2>3, <2>4 DEF SubmitSaveFlow
<1>7. CASE SubmitRecord(p)
  <2>1. job[p] \in [op : {"submitSaveVendor", "submitReadFlow", "submitRecord"},
                    vendor : Vendor, who : Approver]
    BY <1>1, <1>7, JobShape DEF SubmitRecord
  <2>2. PICK v \in Vendor, a \in Approver : v = job[p].vendor /\ a = job[p].who
    BY <2>1
  <2>3. \/ records' = records
        \/ records' = records \cup {Signature(v, "DATA_COLLECTION", a, "APPROVED")}
    BY <1>7, <2>2 DEF SubmitRecord
  <2>4. \A q \in Call : JobInOrder(job'[q])
    BY <1>1, <1>7 DEF SubmitRecord, JobInOrder, Done
  <2>5. flow' = flow /\ UNCHANGED nodes /\ \A w \in Vendor : resets'[w] = 0
    BY <1>1, <1>7 DEF SubmitRecord
  <2> QED
    BY <1>1, <2>3, <2>4, <2>5, VendorMoves DEF Stage
<1>8. CASE UpdateRead(p)
  <2>1. PICK j : j = [op |-> "updateSave", vendor |-> job[p].vendor,
                      status |-> vendorStatus[job[p].vendor]]
    OBVIOUS
  <2>2. JobInOrder(j)
    BY <2>1 DEF JobInOrder
  <2>3. job' = [job EXCEPT ![p] = j]
    BY <1>8, <2>1 DEF UpdateRead
  <2> QED
    BY <1>2, <1>8, <2>2, <2>3 DEF UpdateRead
<1>9. CASE UpdateSave(p) \/ Abandon(p)
  <2>1. JobInOrder(Done)
    BY DEF JobInOrder, Done
  <2> QED
    BY <1>2, <1>9, <2>1 DEF UpdateSave, Abandon
<1>10. ~(\E v \in Vendor, a \in Approver, s \in AddStages : AddSignerRead(p, v, a, s))
  BY DEF PlainRequests
<1>11. ~AddSignerInsert(p) /\ ~AddSignerCount(p) /\ ~AddSignerSave(p)
  BY <1>1 DEF JobInOrder, AddSignerInsert, AddSignerCount, AddSignerSave
<1> QED
  BY <1>3, <1>4, <1>5, <1>6, <1>7, <1>8, <1>9, <1>10, <1>11 DEF Request

LEMMA PipelineStep == PlainRequests /\ TypeInv /\ PipelineInv /\ [Next]_vars => PipelineInv'
<1> SUFFICES ASSUME PlainRequests, TypeInv, PipelineInv, [Next]_vars
             PROVE  PipelineInv'
  OBVIOUS
<1>1. ASSUME NEW v \in Vendor, FlowHandler(v) PROVE PipelineInv'
  <2>1. ~DelayedReset(v)
    BY DEF DelayedReset, PipelineInv
  <2>2. \E a \in Approver : Approve(v, a) \/ Reject(v, a)
    BY <1>1, <2>1 DEF FlowHandler, PlainRequests
  <2> QED
    BY <2>2, ApprovePasses, RejectPasses
<1>2. ASSUME NEW p \in Call, Request(p) PROVE PipelineInv'
  BY <1>2, RequestPasses
<1>3. ~Reconfigure
  BY DEF PlainRequests, Reconfigure
<1>4. CASE Crash
  <2>1. \A p \in Call : JobInOrder(job'[p])
    BY <1>4 DEF Crash, JobInOrder, Idle, Done
  <2>2. \A w \in Vendor : resets'[w] = 0
    BY <1>4 DEF Crash
  <2> QED
    BY <1>4, <2>1, <2>2, OnlyJobsMove DEF Crash
<1>5. CASE UNCHANGED vars
  BY <1>5, OnlyJobsMove DEF vars, nodes, PipelineInv
<1> QED
  BY <1>1, <1>2, <1>3, <1>4, <1>5 DEF Next, TxNext

(***************************************************************************)
(* As long as nobody moves a flow by hand and no read fails, a flow is     *)
(* behind a stage of the pipeline only if that stage has no rejection and  *)
(* the approvals its sign type asks for, however many vendors, approvers,  *)
(* submissions and crashes there are.                                      *)
(***************************************************************************)
THEOREM PassedStagesAreClosed == ASSUME PlainRequests PROVE Spec => []PassedStagesWereSigned
<1>1. Init => PipelineInv
  <2> SUFFICES ASSUME Init PROVE PipelineInv
    OBVIOUS
  <2>1. ASSUME NEW v \in Vendor
        PROVE  resets[v] = 0 /\ flow[v].stage = "DATA_COLLECTION"
    BY DEF Init, NewFlow
  <2>2. \A v \in Vendor : FlowInOrder(flow[v]) /\ Passed(v, flow[v].stage)
    BY <2>1, NothingBefore DEF FlowInOrder, Passed
  <2>3. \A p \in Call : JobInOrder(job[p])
    BY DEF Init, JobInOrder, Idle
  <2> QED
    BY <2>1, <2>2, <2>3 DEF PipelineInv
<1>2. TypeInv /\ PipelineInv /\ [Next]_vars => PipelineInv'
  BY PipelineStep
<1>3. PipelineInv => PassedStagesWereSigned
  BY DEF PipelineInv, Passed, PassedStagesWereSigned
<1> QED
  BY <1>1, <1>2, <1>3, TypeInvariant, PTL DEF Spec
=============================================================================
