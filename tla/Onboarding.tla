---------------------------- MODULE Onboarding ----------------------------
(***************************************************************************)
(* A vendor up to its submission: VendorService.Create, which inserts a    *)
(* vendor, then its flow, then saves the vendor again, and Update and      *)
(* Submit, which read and save the whole row.  No transaction is used:     *)
(* every statement is a step, any statement may fail, and the process may  *)
(* stop between any two.                                                   *)
(*                                                                         *)
(* What happens to a flow after its submission is the subject of           *)
(* ApprovalFlow.  A vendor is identified with the call that creates it.    *)
(***************************************************************************)
EXTENDS Compliance, FiniteSets

CONSTANTS
  Vendor,    \* calls of Create, and the rows they insert
  Code,      \* unified social credit codes
  Caller     \* calls of Update and Submit

VARIABLES
  vendor,    \* the vendors table
  flow,      \* current_stage of each vendor's row of approval_flows
  phantom,   \* the Submit that inserted a flow row of vendor 0, if there is one
  licensed,  \* the vendors with a business licence in the qualifications table
  creating,  \* each Create: its next step and the vendor it holds
  call       \* each Update or Submit: its next step, its vendor, the row it read

vars == <<vendor, flow, phantom, licensed, creating, call>>

(* The columns that matter; the required fields are always filled, for     *)
(* Create demands them and Update never clears one.                        *)
Row == [code : Code, status : {"DRAFT", "PENDING_REVIEW"},
        staged : BOOLEAN]                \* staged: current_stage_id is set

NoRow == [code |-> "none"]

Stored(v) == vendor[v] # NoRow

CodeTaken(code, self) == \E w \in Vendor \ {self} : Stored(w) /\ vendor[w].code = code

(* No other type, and no other column, is asked for before the submission. *)
PapersOf(v) == IF v \in licensed THEN {[type |-> "BUSINESS_LICENSE"]} ELSE {}

-----------------------------------------------------------------------------
Init ==
  /\ vendor = [v \in Vendor |-> NoRow]
  /\ flow = [v \in Vendor |-> "none"]
  /\ phantom = {}
  /\ licensed = {}
  /\ creating = [v \in Vendor |-> [step |-> "idle", row |-> NoRow]]
  /\ call = [c \in Caller |-> [step |-> "idle"]]

CreateRunning == {"check", "insertVendor", "insertFlow", "save"}

CreateGoes(v, from, to) ==
  creating[v].step = from /\ creating' = [creating EXCEPT ![v].step = to]

(* BindCreate validates the request, and Create does it again: the second  *)
(* validation, and the lookup after it, are CreateCheck.                   *)
CreateBind(v) ==
  /\ creating[v].step = "idle"
  /\ \E code \in Code :
       creating' = [creating EXCEPT ![v] =
         [step |-> IF CodeTaken(code, v) THEN "failed" ELSE "check",
          row |-> [code |-> code, status |-> "DRAFT", staged |-> FALSE]]]
  /\ UNCHANGED <<vendor, flow, phantom, licensed, call>>

CreateCheck(v) ==
  /\ CreateGoes(v, "check", IF CodeTaken(creating[v].row.code, v) THEN "failed"
                            ELSE "insertVendor")
  /\ UNCHANGED <<vendor, flow, phantom, licensed, call>>

(* The unique index of unified_social_credit_code.                         *)
IndexRefuses(code, self) == CodeTaken(code, self)

CreateVendor(v) ==
  /\ \/ /\ CreateGoes(v, "insertVendor", "insertFlow")
        /\ ~IndexRefuses(creating[v].row.code, v)
        /\ vendor' = [vendor EXCEPT ![v] = creating[v].row]
     \/ CreateGoes(v, "insertVendor", "failed") /\ UNCHANGED vendor
  /\ UNCHANGED <<flow, phantom, licensed, call>>

GoesOn == "save"                         \* mutant: the error of the second insert is ignored

AfterFlowError == "failed"

CreateFlow(v) ==
  /\ \/ /\ CreateGoes(v, "insertFlow", "save")
        /\ flow' = [flow EXCEPT ![v] = "DATA_COLLECTION"]
     \/ CreateGoes(v, "insertFlow", AfterFlowError) /\ UNCHANGED flow
  /\ UNCHANGED <<vendor, phantom, licensed, call>>

(* db.Save(vendor) writes every column, over whatever has been saved since *)
(* the insert; its error is ignored.                                       *)
CreateSave(v) ==
  /\ CreateGoes(v, "save", "created")
  /\ \/ /\ ~IndexRefuses(creating[v].row.code, v)
        /\ vendor' = [vendor EXCEPT ![v] = [creating[v].row EXCEPT !.staged = TRUE]]
     \/ UNCHANGED vendor
  /\ UNCHANGED <<flow, phantom, licensed, call>>

-----------------------------------------------------------------------------
(* Update and Submit.                                                      *)
CallRunning == {"updateRead", "updateSave", "submitRead", "submitSave",
                "submitReadFlow", "submitSaveFlow", "submitRecord"}

(* early: Create has not come to its end, or never did.  blind: an error   *)
(* of the flow's First or Save was ignored.                                *)
Begin(c, v, step, code) ==
  call' = [call EXCEPT ![c] = [step |-> step, vendor |-> v, code |-> code, row |-> NoRow,
                               early |-> creating[v].step # "created",
                               found |-> FALSE, blind |-> FALSE]]

CallGoes(c, from, to) == call[c].step = from /\ call' = [call EXCEPT ![c].step = to]

(* ValidateUpdate, as Update calls it.  (BindUpdate asked the same before.) *)
UpdateValidate(c, v) ==
  /\ call[c].step = "idle" /\ Stored(v)
  /\ vendor[v].status = "DRAFT"
  /\ \E code \in Code \cup {"unchanged"} :
       /\ ~CodeTaken(code, v)
       /\ Begin(c, v, "updateRead", code)
  /\ UNCHANGED <<vendor, flow, phantom, licensed, creating>>

EveryField(row, code) == [row EXCEPT !.code = code]
                                         \* mutant: an empty field is copied as well

Changed(row, code) == IF code = "unchanged" THEN row ELSE [row EXCEPT !.code = code]

UpdateRead(c) ==
  /\ call[c].step = "updateRead"
  /\ call' = [call EXCEPT ![c].step = "updateSave",
                          ![c].row = Changed(vendor[call[c].vendor], call[c].code)]
  /\ UNCHANGED <<vendor, flow, phantom, licensed, creating>>

(* db.Save of the whole row, or its error.                                 *)
SaveRow(c, from, to) ==
  \/ /\ CallGoes(c, from, to)
     /\ ~IndexRefuses(call[c].row.code, call[c].vendor)
     /\ vendor' = [vendor EXCEPT ![call[c].vendor] = call[c].row]
  \/ CallGoes(c, from, "failed") /\ UNCHANGED vendor

UpdateSave(c) ==
  /\ SaveRow(c, "updateSave", "updated")
  /\ UNCHANGED <<flow, phantom, licensed, creating>>

SubmitValidate(c, v) ==
  /\ call[c].step = "idle" /\ Stored(v)
  /\ vendor[v].status = "DRAFT" /\ MaySubmit(Required, PapersOf(v))
  /\ Begin(c, v, "submitRead", "unchanged")
  /\ UNCHANGED <<vendor, flow, phantom, licensed, creating>>

SubmitRead(c) ==
  /\ call[c].step = "submitRead"
  /\ call' = [call EXCEPT ![c].step = "submitSave",
                          ![c].row = [vendor[call[c].vendor] EXCEPT !.status = "PENDING_REVIEW"]]
  /\ UNCHANGED <<vendor, flow, phantom, licensed, creating>>

SubmitSave(c) ==
  /\ SaveRow(c, "submitSave", "submitReadFlow")
  /\ UNCHANGED <<flow, phantom, licensed, creating>>

(* The error of First is ignored: without a row, the flow is a new one.    *)
SubmitReadFlow(c) ==
  /\ call[c].step = "submitReadFlow"
  /\ \E failed \in BOOLEAN :
       call' = [call EXCEPT ![c].step = "submitSaveFlow", ![c].blind = failed,
                            ![c].found = ~failed /\ flow[call[c].vendor] # "none"]
  /\ UNCHANGED <<vendor, flow, phantom, licensed, creating>>

FlowKept(v) == flow                      \* mutant: the stage is not set

SubmittedFlow(v) == [flow EXCEPT ![v] = "COMPLIANCE_CHECK"]

(* db.Save(&flow): an UPDATE, or an INSERT for vendor 0, of which there    *)
(* can be one.  Its error is ignored.                                      *)
SubmitSaveFlow(c) ==
  /\ call[c].step = "submitSaveFlow"
  /\ \E failed \in BOOLEAN :
       /\ call' = [call EXCEPT ![c].step = "submitRecord", ![c].blind = @ \/ failed]
       /\ flow' = IF ~failed /\ call[c].found THEN SubmittedFlow(call[c].vendor) ELSE flow
       /\ phantom' = IF ~failed /\ ~call[c].found /\ phantom = {} THEN {c} ELSE phantom
  /\ UNCHANGED <<vendor, licensed, creating>>

(* The record of the submission; the error of this insert is returned.     *)
SubmitRecord(c) ==
  /\ CallGoes(c, "submitRecord", "submitted") \/ CallGoes(c, "submitRecord", "failed")
  /\ UNCHANGED <<vendor, flow, phantom, licensed, creating>>

(* One of the two reads fails.                                             *)
ReadFails(c) ==
  /\ CallGoes(c, "updateRead", "failed") \/ CallGoes(c, "submitRead", "failed")
  /\ UNCHANGED <<vendor, flow, phantom, licensed, creating>>

-----------------------------------------------------------------------------
(* QualificationService.Upload; what becomes of the row is the subject of  *)
(* Uploads.                                                                *)
UploadLicense(v) ==
  /\ Stored(v) /\ v \notin licensed
  /\ licensed' = licensed \cup {v}
  /\ UNCHANGED <<vendor, flow, phantom, creating, call>>

-----------------------------------------------------------------------------
(* The process stops: every call that runs is gone, the tables stay.       *)
Stopped(calls, running) ==
  [c \in DOMAIN calls |-> IF calls[c].step \in running
                          THEN [calls[c] EXCEPT !.step = "crashed"] ELSE calls[c]]

Crash ==
  /\ creating' = Stopped(creating, CreateRunning)
  /\ call' = Stopped(call, CallRunning)
  /\ <<creating, call>>' # <<creating, call>>
  /\ UNCHANGED <<vendor, flow, phantom, licensed>>

Create(v) == CreateBind(v) \/ CreateCheck(v) \/ CreateVendor(v) \/ CreateFlow(v) \/ CreateSave(v)

Update(c) == (\E v \in Vendor : UpdateValidate(c, v)) \/ UpdateRead(c) \/ UpdateSave(c)

Submit(c) ==
  \/ \E v \in Vendor : SubmitValidate(c, v)
  \/ SubmitRead(c) \/ SubmitSave(c) \/ SubmitReadFlow(c) \/ SubmitSaveFlow(c) \/ SubmitRecord(c)

Next ==
  \/ \E v \in Vendor : Create(v) \/ UploadLicense(v)
  \/ \E c \in Caller : Update(c) \/ Submit(c) \/ ReadFails(c)
  \/ Crash

Spec == Init /\ [][Next]_vars

-----------------------------------------------------------------------------
CreateStep == {"idle", "created", "failed", "crashed"} \cup CreateRunning

CallStep == {"updated", "submitted", "failed", "crashed"} \cup CallRunning

Call == [step : CallStep, vendor : Vendor, code : Code \cup {"unchanged"},
         row : Row \cup {NoRow}, early : BOOLEAN, found : BOOLEAN, blind : BOOLEAN]

(* Every row, stored or held by a call, has its type.                      *)
TypeOK ==
  /\ vendor \in [Vendor -> Row \cup {NoRow}]
  /\ flow \in [Vendor -> {"none", "DATA_COLLECTION", "COMPLIANCE_CHECK"}]
  /\ phantom \in SUBSET Caller
  /\ licensed \in SUBSET Vendor
  /\ creating \in [Vendor -> [step : CreateStep, row : Row \cup {NoRow}]]
  /\ call \in [Caller -> Call \cup {[step |-> "idle"]}]

(* A vendor without a flow belongs to a Create that is about to insert it, *)
(* failed to, or was stopped; current_stage_id is never set without it.    *)
FlowlessVendorsAreExplained ==
  \A v \in Vendor :
    Stored(v) /\ flow[v] = "none" =>
      ~vendor[v].staged /\ creating[v].step \in {"insertFlow", "failed", "crashed"}

(* A submission that succeeded has moved vendor and flow, unless Submit    *)
(* ran into Create, an error of the flow statements was ignored, or an     *)
(* Update that had read the draft saved it again.                          *)
SubmissionTakesEffect ==
  \A c \in Caller :
    call[c].step = "submitted" /\ ~call[c].early /\ ~call[c].blind =>
      /\ flow[call[c].vendor] = "COMPLIANCE_CHECK"
      /\ \/ vendor[call[c].vendor].status = "PENDING_REVIEW"
         \/ \E d \in Caller : /\ call[d].step = "updated"
                              /\ call[d].vendor = call[c].vendor
                              /\ call[d].row.status = "DRAFT"

(* The Submit that inserted a flow row of vendor 0 had validated before    *)
(* its vendor's Create came to its end, or its own First failed and it     *)
(* took the flow for missing.  (blind: here its Save did not fail.)        *)
PhantomFlowHasCause ==
  \A c \in phantom : ~call[c].found /\ (call[c].early \/ call[c].blind)
=============================================================================
