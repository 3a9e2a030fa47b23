------------------------- MODULE OnboardingProofs -------------------------
(***************************************************************************)
(* For any number of vendors, codes and calls: what Create, Update and     *)
(* Submit leave behind without a transaction, whatever statement fails and *)
(* whenever the process stops.                                             *)
(***************************************************************************)
EXTENDS Onboarding, TLAPS

Stages == {"none", "DATA_COLLECTION", "COMPLIANCE_CHECK"}

(***************************************************************************)
(* Create of v: a stored vendor has been inserted by it, a Create that has *)
(* inserted the flow finds one, and a vendor without one is not staged.    *)
(***************************************************************************)
CreateOK(v) ==
  /\ creating[v].step \in CreateRunning => creating[v].row \in Row
  /\ Stored(v) => creating[v].step \in {"insertFlow", "save", "created", "failed", "crashed"}
  /\ creating[v].step \in {"save", "created"} => flow[v] # "none"
  /\ creating[v].row # NoRow => creating[v].row.staged = FALSE
  /\ Stored(v) /\ flow[v] = "none" => vendor[v].staged = FALSE

(* The submission of v is stored, or an Update has put the draft back.     *)
Taken(v) ==
  \/ vendor[v].status = "PENDING_REVIEW"
  \/ \E d \in Caller : /\ call[d].step = "updated"
                       /\ call[d].vendor = v
                       /\ call[d].row.status = "DRAFT"

BeforeFlow == {"updateRead", "updateSave", "submitRead", "submitSave", "submitReadFlow"}

AfterSave == {"submitReadFlow", "submitSaveFlow", "submitRecord", "submitted"}

(* What an Update or a Submit knows of its vendor.                         *)
CallOK(c) ==
  LET v == call[c].vendor IN
  /\ Stored(v)
  /\ call[c].step \in {"updateSave", "submitSave"} => call[c].row \in Row
  /\ call[c].row # NoRow /\ flow[v] = "none" => call[c].row.staged = FALSE
  /\ call[c].step = "submitSave" => call[c].row.status = "PENDING_REVIEW"
  /\ call[c].step \in BeforeFlow => call[c].blind = FALSE
  /\ call[c].early = FALSE =>
       /\ creating[v].step = "created"
       /\ call[c].step \in AfterSave => Taken(v)
       /\ call[c].blind = FALSE =>
            /\ call[c].step = "submitSaveFlow" => call[c].found = TRUE
            /\ call[c].step \in {"submitRecord", "submitted"} => flow[v] = "COMPLIANCE_CHECK"

Begun(c) == call[c].step # "idle"

(* The Submit that inserted the flow row of vendor 0 keeps its cause.      *)
PastFlow == {"submitRecord", "submitted", "failed", "crashed"}

HasCause(c) ==
  /\ call[c].step \in PastFlow
  /\ call[c].found = FALSE
  /\ call[c].early = TRUE \/ call[c].blind = TRUE

PhantomOK == \A c \in phantom : HasCause(c)

Inv ==
  /\ TypeOK
  /\ \A v \in Vendor : CreateOK(v)
  /\ \A c \in Caller : Begun(c) => CallOK(c)
  /\ PhantomOK

-----------------------------------------------------------------------------
LEMMA RowIsNoGap == \A r \in Row : r # NoRow
BY DEF Row, NoRow

LEMMA CallShape ==
  ASSUME TypeOK, NEW c \in Caller, Begun(c)
  PROVE  call[c] \in Call
BY DEF TypeOK, Begun

LEMMA InitInv == Init => Inv
<1> SUFFICES ASSUME Init PROVE Inv
  OBVIOUS
<1>1. TypeOK
  BY DEF Init, TypeOK, CreateStep
<1>3. \A v \in Vendor : CreateOK(v)
  BY DEF Init, CreateOK, Stored, CreateRunning
<1>4. PhantomOK /\ \A c \in Caller : ~Begun(c)
  BY DEF Init, PhantomOK, Begun
<1> QED
  BY <1>1, <1>3, <1>4 DEF Inv

-----------------------------------------------------------------------------
(* Steps of Create.                                                        *)

(***************************************************************************)
(* A Create that has not come to its end changes its own vendor only; the  *)
(* calls on that vendor are early and ask for little.                      *)
(***************************************************************************)
LEMMA CreateKeepsCalls ==
  ASSUME Inv, NEW v \in Vendor, creating[v].step # "created",
         UNCHANGED <<call, phantom>>,
         \A w \in Vendor : w # v => /\ vendor'[w] = vendor[w]
                                    /\ flow'[w] = flow[w]
                                    /\ creating'[w] = creating[w],
         Stored(v) => Stored(v)', flow'[v] = "none" => flow[v] = "none"
  PROVE  (\A c \in Caller : Begun(c) => CallOK(c))' /\ PhantomOK'
<1>1. ASSUME NEW c \in Caller, Begun(c) PROVE CallOK(c)'
  <2>1. CallOK(c) /\ call[c] \in Call /\ call[c].vendor \in Vendor
    BY <1>1, CallShape DEF Inv, Call
  <2>2. CASE call[c].vendor = v
    <3>1. call[c].early # FALSE
      BY <2>1, <2>2 DEF CallOK
    <3> QED
      BY <2>1, <2>2, <3>1 DEF CallOK
  <2>3. CASE call[c].vendor # v
    BY <2>1, <2>3 DEF CallOK, Stored, Taken
  <2> QED
    BY <2>2, <2>3
<1>2. PhantomOK'
  BY DEF Inv, PhantomOK, HasCause
<1> QED
  BY <1>1, <1>2 DEF Begun

LEMMA CreateOthers ==
  ASSUME Inv, NEW v \in Vendor, CreateOK(v)',
         \A w \in Vendor : w # v => /\ vendor'[w] = vendor[w]
                                    /\ flow'[w] = flow[w]
                                    /\ creating'[w] = creating[w]
  PROVE  (\A w \in Vendor : CreateOK(w))'
<1>1. ASSUME NEW w \in Vendor, w # v PROVE CreateOK(w)'
  BY <1>1 DEF Inv, CreateOK, Stored
<1> QED
  BY <1>1

LEMMA CreateStepInv ==
  ASSUME Inv, NEW v \in Vendor, Create(v)
  PROVE  Inv'
<1>1. TypeOK /\ CreateOK(v)
  BY DEF Inv
<1>2. /\ vendor \in [Vendor -> Row \cup {NoRow}]
      /\ flow \in [Vendor -> Stages]
      /\ creating \in [Vendor -> [step : CreateStep, row : Row \cup {NoRow}]]
  BY <1>1 DEF TypeOK, Stages
<1>3. UNCHANGED <<phantom, licensed, call>>
  BY DEF Create, CreateBind, CreateCheck, CreateVendor, CreateFlow, CreateSave
<1>4. \A w \in Vendor : w # v => /\ vendor'[w] = vendor[w]
                                 /\ flow'[w] = flow[w]
                                 /\ creating'[w] = creating[w]
  BY <1>2 DEF Create, CreateBind, CreateCheck, CreateVendor, CreateFlow, CreateSave,
              CreateGoes
<1>5. creating[v].step # "created"
  BY DEF Create, CreateBind, CreateCheck, CreateVendor, CreateFlow, CreateSave, CreateGoes
<1>6. SUFFICES /\ TypeOK'
               /\ CreateOK(v)'
               /\ Stored(v) => Stored(v)'
               /\ flow'[v] = "none" => flow[v] = "none"
  <2>1. (\A c \in Caller : Begun(c) => CallOK(c))' /\ PhantomOK'
    BY <1>3, <1>4, <1>5, <1>6, CreateKeepsCalls
  <2>2. (\A w \in Vendor : CreateOK(w))'
    BY <1>4, <1>6, CreateOthers
  <2> QED
    BY <1>6, <2>1, <2>2 DEF Inv
<1>7. ASSUME creating' \in [Vendor -> [step : CreateStep, row : Row \cup {NoRow}]],
             vendor' \in [Vendor -> Row \cup {NoRow}], flow' \in [Vendor -> Stages]
      PROVE  TypeOK'
  BY <1>1, <1>3, <1>7 DEF TypeOK, Stages
<1>8. ASSUME NEW to \in CreateStep, creating' = [creating EXCEPT ![v].step = to]
      PROVE  /\ creating' \in [Vendor -> [step : CreateStep, row : Row \cup {NoRow}]]
             /\ creating'[v].step = to
             /\ creating'[v].row = creating[v].row
  BY <1>2, <1>8
<1>9. CASE CreateBind(v)
  <2>1. PICK code \in Code :
          creating' = [creating EXCEPT ![v] =
            [step |-> IF CodeTaken(code, v) THEN "failed" ELSE "check",
             row |-> [code |-> code, status |-> "DRAFT", staged |-> FALSE]]]
    BY <1>9 DEF CreateBind
  <2> DEFINE row == [code |-> code, status |-> "DRAFT", staged |-> FALSE]
  <2>2. row \in Row /\ row.staged = FALSE
    BY DEF Row
  <2> HIDE DEF row
  <2>3. /\ creating' \in [Vendor -> [step : CreateStep, row : Row \cup {NoRow}]]
        /\ creating'[v].step \in {"failed", "check"}
        /\ creating'[v].row = row
    BY <1>2, <2>1, <2>2 DEF CreateStep, CreateRunning, row
  <2>4. UNCHANGED <<vendor, flow>> /\ ~Stored(v)
    BY <1>1, <1>9 DEF CreateBind, CreateOK
  <2> QED
    BY <1>1, <1>2, <1>7, <2>2, <2>3, <2>4 DEF CreateOK, Stored
<1>10. CASE CreateCheck(v)
  <2>1. PICK to \in {"failed", "insertVendor"} :
          creating[v].step = "check" /\ creating' = [creating EXCEPT ![v].step = to]
    BY <1>10 DEF CreateCheck, CreateGoes
  <2>2. to \in CreateStep
    BY DEF CreateStep, CreateRunning
  <2>3. UNCHANGED <<vendor, flow>>
    BY <1>10 DEF CreateCheck
  <2>4. creating[v].row \in Row /\ ~Stored(v)
    BY <1>1, <2>1 DEF CreateOK, CreateRunning
  <2> QED
    BY <1>1, <1>2, <1>7, <1>8, <2>1, <2>2, <2>3, <2>4 DEF CreateOK, Stored
<1>11. CASE CreateVendor(v)
  <2>1. creating[v].step = "insertVendor" /\ flow' = flow
    BY <1>11 DEF CreateVendor, CreateGoes
  <2>2. creating[v].row \in Row /\ ~Stored(v) /\ creating[v].row # NoRow
    BY <1>1, <2>1, RowIsNoGap DEF CreateOK, CreateRunning
  <2>3. CASE /\ creating' = [creating EXCEPT ![v].step = "insertFlow"]
             /\ ~IndexRefuses(creating[v].row.code, v)
             /\ vendor' = [vendor EXCEPT ![v] = creating[v].row]
    <3>2. /\ vendor'[v] = creating[v].row
          /\ vendor' \in [Vendor -> Row \cup {NoRow}]
      BY <1>2, <2>2, <2>3
    <3>3. "insertFlow" \in CreateStep
      BY DEF CreateStep, CreateRunning
    <3>4. CreateOK(v)'
      BY <1>1, <1>8, <2>1, <2>2, <2>3, <3>2, <3>3 DEF CreateOK, Stored
    <3> QED
      BY <1>2, <1>7, <1>8, <2>1, <2>2, <2>3, <3>2, <3>3, <3>4
  <2>4. CASE creating' = [creating EXCEPT ![v].step = "failed"] /\ UNCHANGED vendor
    <3>1. "failed" \in CreateStep
      BY DEF CreateStep
    <3> QED
      BY <1>1, <1>2, <1>7, <1>8, <2>1, <2>2, <2>4, <3>1
         DEF CreateOK, Stored, CreateRunning
  <2> QED
    BY <1>11, <2>3, <2>4 DEF CreateVendor, CreateGoes
<1>12. CASE CreateFlow(v)
  <2>1. creating[v].step = "insertFlow" /\ vendor' = vendor
    BY <1>12 DEF CreateFlow, CreateGoes
  <2>2. creating[v].row \in Row
    BY <1>1, <2>1 DEF CreateOK, CreateRunning
  <2>3. CASE /\ creating' = [creating EXCEPT ![v].step = "save"]
             /\ flow' = [flow EXCEPT ![v] = "DATA_COLLECTION"]
    <3>1. flow'[v] = "DATA_COLLECTION" /\ flow' \in [Vendor -> Stages]
      BY <1>2, <2>3 DEF Stages
    <3>2. "save" \in CreateStep
      BY DEF CreateStep, CreateRunning
    <3> QED
      BY <1>1, <1>2, <1>7, <1>8, <2>1, <2>2, <2>3, <3>1, <3>2
         DEF CreateOK, Stored
  <2>4. CASE creating' = [creating EXCEPT ![v].step = "failed"] /\ UNCHANGED flow
    <3>1. "failed" \in CreateStep
      BY DEF CreateStep
    <3> QED
      BY <1>1, <1>2, <1>7, <1>8, <2>1, <2>2, <2>4, <3>1
         DEF CreateOK, Stored, CreateRunning
  <2> QED
    BY <1>12, <2>3, <2>4 DEF CreateFlow, CreateGoes, AfterFlowError
<1>13. CASE CreateSave(v)
  <2>1. /\ creating[v].step = "save" /\ flow' = flow
        /\ creating' = [creating EXCEPT ![v].step = "created"]
    BY <1>13 DEF CreateSave, CreateGoes
  <2>2. creating[v].row \in Row /\ flow[v] # "none"
    BY <1>1, <2>1 DEF CreateOK, CreateRunning
  <2>3. "created" \in CreateStep
    BY DEF CreateStep
  <2>4. CASE /\ ~IndexRefuses(creating[v].row.code, v)
             /\ vendor' = [vendor EXCEPT ![v] = [creating[v].row EXCEPT !.staged = TRUE]]
    <3> DEFINE row == [creating[v].row EXCEPT !.staged = TRUE]
    <3>1. row \in Row /\ row.code = creating[v].row.code
      BY <2>2 DEF Row
    <3> HIDE DEF row
    <3>2. vendor' = [vendor EXCEPT ![v] = row]
      BY <2>4 DEF row
    <3>4. vendor'[v] = row /\ vendor' \in [Vendor -> Row \cup {NoRow}] /\ row # NoRow
      BY <1>2, <3>1, <3>2, RowIsNoGap
    <3>5. CreateOK(v)'
      BY <1>1, <1>8, <2>1, <2>2, <2>3, <3>4 DEF CreateOK, Stored, CreateRunning
    <3> QED
      BY <1>2, <1>7, <1>8, <2>1, <2>3, <3>4, <3>5 DEF Stored
  <2>5. CASE UNCHANGED vendor
    BY <1>1, <1>2, <1>7, <1>8, <2>1, <2>2, <2>3, <2>5
       DEF CreateOK, Stored, CreateRunning
  <2> QED
    BY <1>13, <2>4, <2>5 DEF CreateSave
<1> QED
  BY <1>9, <1>10, <1>11, <1>12, <1>13 DEF Create

-----------------------------------------------------------------------------
(* Steps of Update and Submit.                                             *)

(***************************************************************************)
(* What a step of call c may do: a flow moves on, a stored row is replaced *)
(* by one that does not look like a draft, unless an Update says so.       *)
(***************************************************************************)
CallFrame(c) ==
  /\ UNCHANGED <<creating, licensed>>
  /\ \A d \in Caller : d # c => call'[d] = call[d]
  /\ call[c].step # "updated"
  /\ \A v \in Vendor : flow'[v] = flow[v] \/ flow'[v] = "COMPLIANCE_CHECK"
  /\ \A v \in Vendor :
       vendor'[v] = vendor[v]
         \/ /\ Stored(v) /\ vendor'[v] \in Row
            /\ flow[v] = "none" => vendor'[v].staged = FALSE
            /\ \/ vendor'[v].status = "PENDING_REVIEW"
               \/ /\ call'[c].step = "updated"
                  /\ call'[c].vendor = v
                  /\ call'[c].row.status = "DRAFT"

LEMMA TakenStays ==
  ASSUME NEW c \in Caller, CallFrame(c), NEW v \in Vendor, Taken(v)
  PROVE  Taken(v)'
<1>1. CASE vendor'[v] = vendor[v] /\ vendor[v].status = "PENDING_REVIEW"
  BY <1>1 DEF Taken
<1>2. ASSUME NEW d \in Caller, call[d].step = "updated", call[d].vendor = v,
             call[d].row.status = "DRAFT"
      PROVE  Taken(v)'
  <2>1. call'[d] = call[d]
    BY <1>2 DEF CallFrame
  <2> QED
    BY <1>2, <2>1 DEF Taken
<1>3. CASE vendor'[v] # vendor[v]
  BY <1>3 DEF CallFrame, Taken
<1> QED
  BY <1>1, <1>2, <1>3 DEF Taken

LEMMA StoredStays ==
  ASSUME NEW c \in Caller, CallFrame(c), NEW v \in Vendor, Stored(v)
  PROVE  Stored(v)'
BY RowIsNoGap DEF CallFrame, Stored

LEMMA CallFrameInv ==
  ASSUME Inv, NEW c \in Caller, CallFrame(c), TypeOK', PhantomOK',
         Begun(c)' => CallOK(c)'
  PROVE  Inv'
<1>1. ASSUME NEW v \in Vendor PROVE CreateOK(v)'
  <2>1. CreateOK(v)
    BY DEF Inv
  <2>2. flow'[v] = "none" => flow[v] = "none"
    BY DEF CallFrame
  <2>3. CASE vendor'[v] = vendor[v]
    BY <2>1, <2>2, <2>3 DEF CallFrame, CreateOK, Stored
  <2>4. CASE vendor'[v] # vendor[v]
    BY <2>1, <2>2, <2>4 DEF CallFrame, CreateOK, Stored
  <2> QED
    BY <2>3, <2>4
<1>2. ASSUME NEW d \in Caller, Begun(d)' PROVE CallOK(d)'
  <2>1. CASE d = c
    BY <1>2, <2>1
  <2>2. CASE d # c
    <3>1. call'[d] = call[d]
      BY <2>2 DEF CallFrame
    <3>2. Begun(d) /\ CallOK(d)
      BY <1>2, <3>1 DEF Inv, Begun
    <3>3. PICK v \in Vendor : v = call[d].vendor
      BY <3>2, CallShape DEF Inv, Call
    <3>4. Stored(v)'
      BY <3>2, <3>3, StoredStays DEF CallOK
    <3>5. Taken(v) => Taken(v)'
      BY TakenStays
    <3>6. /\ flow'[v] = "none" => flow[v] = "none"
          /\ flow[v] = "COMPLIANCE_CHECK" => flow'[v] = "COMPLIANCE_CHECK"
          /\ creating' = creating
      BY DEF CallFrame
    <3>7. call'[d].vendor = v
      BY <3>1, <3>3
    <3> QED
      BY <3>1, <3>2, <3>3, <3>4, <3>5, <3>6, <3>7 DEF CallOK
  <2> QED
    BY <2>1, <2>2
<1> QED
  BY <1>1, <1>2 DEF Inv, Begun

LEMMA PhantomStays ==
  ASSUME Inv, NEW c \in Caller, phantom' = phantom,
         \A d \in Caller : d # c => call'[d] = call[d],
         HasCause(c) => HasCause(c)'
  PROVE  PhantomOK'
<1>1. ASSUME NEW d \in phantom PROVE HasCause(d)'
  <2>1. HasCause(d) /\ d \in Caller
    BY DEF Inv, PhantomOK, TypeOK
  <2> QED
    BY <2>1 DEF HasCause
<1> QED
  BY <1>1 DEF PhantomOK

LEMMA CallChanges ==
  ASSUME TypeOK, NEW c \in Caller, NEW rec \in Call, call' = [call EXCEPT ![c] = rec]
  PROVE  /\ call' \in [Caller -> Call \cup {[step |-> "idle"]}]
         /\ call'[c] = rec
         /\ \A d \in Caller : d # c => call'[d] = call[d]
BY DEF TypeOK

(* Most steps change nothing but the call.                                 *)
LEMMA OnlyTheCall ==
  ASSUME Inv, NEW c \in Caller, NEW rec \in Call, call' = [call EXCEPT ![c] = rec],
         UNCHANGED <<vendor, flow, phantom, licensed, creating>>,
         call[c].step # "updated", rec.step # "idle",
         HasCause(c) => /\ rec.step \in PastFlow /\ rec.found = call[c].found
                        /\ rec.early = call[c].early /\ rec.blind = call[c].blind,
         CallOK(c)'
  PROVE  Inv'
<1>1. TypeOK
  BY DEF Inv
<1>2. /\ call' \in [Caller -> Call \cup {[step |-> "idle"]}]
      /\ call'[c] = rec
      /\ \A d \in Caller : d # c => call'[d] = call[d]
  BY <1>1, CallChanges
<1>3. TypeOK'
  BY <1>1, <1>2 DEF TypeOK
<1>4. CallFrame(c)
  BY <1>2 DEF CallFrame
<1>5. Begun(c)'
  BY <1>2 DEF Begun
<1>6. PhantomOK'
  BY <1>2, <1>5, PhantomStays DEF HasCause
<1> QED
  BY <1>3, <1>4, <1>6, CallFrameInv

LEMMA StepOnly ==
  ASSUME TypeOK, NEW c \in Caller, Begun(c), NEW to \in CallStep,
         call' = [call EXCEPT ![c].step = to]
  PROVE  \E rec \in Call :
           /\ call' = [call EXCEPT ![c] = rec]
           /\ rec.step = to
           /\ rec.vendor = call[c].vendor
           /\ rec.row = call[c].row
           /\ rec.early = call[c].early
           /\ rec.found = call[c].found
           /\ rec.blind = call[c].blind
<1>1. call[c] \in Call
  BY CallShape
<1> DEFINE rec == [call[c] EXCEPT !.step = to]
<1>2. rec \in Call
  BY <1>1 DEF Call
<1>3. call' = [call EXCEPT ![c] = rec]
  BY DEF TypeOK
<1> QED
  BY <1>1, <1>2, <1>3 DEF Call

(* A step ends with an error, or writes its record: it asks for no more    *)
(* than was known.                                                         *)
LEMMA GoesInv ==
  ASSUME Inv, NEW c \in Caller, NEW from, NEW to, CallGoes(c, from, to),
         UNCHANGED <<vendor, flow, phantom, licensed, creating>>,
         \/ from \in CallRunning /\ to = "failed"
         \/ from = "submitRecord" /\ to = "submitted"
  PROVE  Inv'
<1>1. TypeOK /\ call[c].step = from /\ call' = [call EXCEPT ![c].step = to]
  BY DEF Inv, CallGoes
<1>2. Begun(c) /\ from # "updated" /\ to \in CallStep
  BY <1>1 DEF Begun, CallRunning, CallStep
<1>3. CallOK(c)
  BY <1>2 DEF Inv
<1>4. PICK rec \in Call :
        /\ call' = [call EXCEPT ![c] = rec]
        /\ rec.step = to
        /\ rec.vendor = call[c].vendor
        /\ rec.row = call[c].row
        /\ rec.early = call[c].early
        /\ rec.found = call[c].found
        /\ rec.blind = call[c].blind
  BY <1>1, <1>2, StepOnly
<1>5. call'[c] = rec /\ \A d \in Caller : d # c => call'[d] = call[d]
  BY <1>1, <1>4, CallChanges
<1>6. CallFrame(c)
  BY <1>1, <1>2, <1>5 DEF CallFrame
<1>7. PICK v \in Vendor : v = call[c].vendor
  BY <1>1, <1>2, CallShape DEF Call
<1>8. Taken(v) => Taken(v)'
  BY <1>6, TakenStays
<1>9. call'[c].vendor = v
  BY <1>4, <1>5, <1>7
<1>10. CallOK(c)'
  BY <1>1, <1>3, <1>4, <1>5, <1>7, <1>8, <1>9
     DEF CallOK, Stored, AfterSave, BeforeFlow, CallRunning
<1> QED
  BY <1>1, <1>2, <1>4, <1>10, OnlyTheCall DEF HasCause, PastFlow, CallRunning

LEMMA BeginInv ==
  ASSUME Inv, NEW c \in Caller, NEW v \in Vendor, call[c].step = "idle", Stored(v),
         NEW step \in {"updateRead", "submitRead"}, NEW code \in Code \cup {"unchanged"},
         Begin(c, v, step, code),
         UNCHANGED <<vendor, flow, phantom, licensed, creating>>
  PROVE  Inv'
<1> DEFINE rec == [step |-> step, vendor |-> v, code |-> code, row |-> NoRow,
                   early |-> creating[v].step # "created",
                   found |-> FALSE, blind |-> FALSE]
<1>1. rec \in Call
  BY DEF Call, CallStep, CallRunning
<1>2. call' = [call EXCEPT ![c] = rec]
  BY DEF Begin
<1>3. /\ rec.step = step
      /\ rec.vendor = v
      /\ rec.row = NoRow
      /\ rec.blind = FALSE
      /\ rec.early = FALSE => creating[v].step = "created"
  OBVIOUS
<1> HIDE DEF rec
<1>4. call'[c] = rec
  BY <1>1, <1>2, CallChanges DEF Inv
<1>5. CallOK(c)'
  BY <1>3, <1>4 DEF CallOK, Stored, AfterSave
<1> QED
  BY <1>1, <1>2, <1>3, <1>5, OnlyTheCall DEF HasCause, PastFlow

(* A row is read: it is the stored one, with what the call changes.        *)
LEMMA ReadInv ==
  ASSUME Inv, NEW c \in Caller, NEW row \in Row, NEW step \in {"updateSave", "submitSave"},
         call[c].step \in {"updateRead", "submitRead"},
         row.staged = vendor[call[c].vendor].staged,
         step = "submitSave" => row.status = "PENDING_REVIEW",
         call' = [call EXCEPT ![c].step = step, ![c].row = row],
         UNCHANGED <<vendor, flow, phantom, licensed, creating>>
  PROVE  Inv'
<1>1. Begun(c) /\ TypeOK
  BY DEF Begun, Inv
<1>2. call[c] \in Call /\ CallOK(c)
  BY <1>1, CallShape DEF Inv
<1> DEFINE rec == [call[c] EXCEPT !.step = step, !.row = row]
<1>3. rec \in Call
  BY <1>2 DEF Call, CallStep, CallRunning
<1>4. call' = [call EXCEPT ![c] = rec]
  BY <1>1 DEF TypeOK
<1>5. /\ rec.step = step
      /\ rec.row = row
      /\ rec.vendor = call[c].vendor
      /\ rec.early = call[c].early
      /\ rec.blind = call[c].blind
  BY <1>2 DEF Call
<1> HIDE DEF rec
<1>6. call'[c] = rec
  BY <1>1, <1>3, <1>4, CallChanges
<1>7. PICK v \in Vendor : v = call[c].vendor
  BY <1>2 DEF Call
<1>8. CreateOK(v)
  BY DEF Inv
<1>9. CallOK(c)'
  BY <1>2, <1>5, <1>6, <1>7, <1>8 DEF CallOK, CreateOK, Stored, AfterSave, BeforeFlow
<1> QED
  BY <1>3, <1>4, <1>5, <1>9, OnlyTheCall DEF HasCause, PastFlow

LEMMA StoredRow ==
  ASSUME Inv, NEW c \in Caller, Begun(c)
  PROVE  vendor[call[c].vendor] \in Row
<1>1. call[c].vendor \in Vendor /\ Stored(call[c].vendor)
  BY CallShape DEF Inv, CallOK, Call
<1> QED
  BY <1>1 DEF Inv, TypeOK, Stored

LEMMA UpdateReadInv ==
  ASSUME Inv, NEW c \in Caller, UpdateRead(c)
  PROVE  Inv'
<1>1. call[c].step = "updateRead" /\ Begun(c)
  BY DEF UpdateRead, Begun
<1>2. vendor[call[c].vendor] \in Row /\ call[c] \in Call
  BY <1>1, StoredRow, CallShape DEF Inv
<1> DEFINE row == Changed(vendor[call[c].vendor], call[c].code)
<1>3. row \in Row /\ row.staged = vendor[call[c].vendor].staged
  BY <1>2 DEF Changed, Row, Call
<1>4. /\ call' = [call EXCEPT ![c].step = "updateSave", ![c].row = row]
      /\ UNCHANGED <<vendor, flow, phantom, licensed, creating>>
  BY DEF UpdateRead
<1> HIDE DEF row
<1> QED
  BY <1>1, <1>3, <1>4, ReadInv

LEMMA SubmitReadInv ==
  ASSUME Inv, NEW c \in Caller, SubmitRead(c)
  PROVE  Inv'
<1>1. call[c].step = "submitRead" /\ Begun(c)
  BY DEF SubmitRead, Begun
<1>2. vendor[call[c].vendor] \in Row
  BY <1>1, StoredRow
<1> DEFINE row == [vendor[call[c].vendor] EXCEPT !.status = "PENDING_REVIEW"]
<1>3. /\ row \in Row
      /\ row.staged = vendor[call[c].vendor].staged
      /\ row.status = "PENDING_REVIEW"
  BY <1>2 DEF Row
<1>4. /\ call' = [call EXCEPT ![c].step = "submitSave", ![c].row = row]
      /\ UNCHANGED <<vendor, flow, phantom, licensed, creating>>
  BY DEF SubmitRead
<1> HIDE DEF row
<1> QED
  BY <1>1, <1>3, <1>4, ReadInv

(* The row that was read is saved, however old it is.                      *)
LEMMA SaveInv ==
  ASSUME Inv, NEW c \in Caller, NEW from, NEW to, SaveRow(c, from, to),
         \/ from = "updateSave" /\ to = "updated"
         \/ from = "submitSave" /\ to = "submitReadFlow",
         UNCHANGED <<flow, phantom, licensed, creating>>
  PROVE  Inv'
<1>1. CASE CallGoes(c, from, "failed") /\ UNCHANGED vendor
  <2>1. from \in CallRunning
    BY DEF CallRunning
  <2> QED
    BY <1>1, <2>1, GoesInv
<1>2. CASE /\ CallGoes(c, from, to)
           /\ ~IndexRefuses(call[c].row.code, call[c].vendor)
           /\ vendor' = [vendor EXCEPT ![call[c].vendor] = call[c].row]
  <2>1. /\ call[c].step = from
        /\ call' = [call EXCEPT ![c].step = to]
        /\ TypeOK
    BY <1>2 DEF CallGoes, Inv
  <2>2. Begun(c) /\ from # "updated" /\ to \in CallStep
    BY <2>1 DEF Begun, CallStep, CallRunning
  <2>3. CallOK(c) /\ call[c] \in Call
    BY <2>1, <2>2, CallShape DEF Inv
  <2>4. PICK v \in Vendor : v = call[c].vendor
    BY <2>3 DEF Call
  <2>5. PICK row \in Row : row = call[c].row
    BY <2>1, <2>3 DEF CallOK
  <2>6. PICK rec \in Call :
          /\ call' = [call EXCEPT ![c] = rec]
          /\ rec.step = to
          /\ rec.vendor = call[c].vendor
          /\ rec.row = call[c].row
          /\ rec.early = call[c].early
          /\ rec.found = call[c].found
          /\ rec.blind = call[c].blind
    BY <2>1, <2>2, StepOnly
  <2>7. /\ call'[c] = rec
        /\ call' \in [Caller -> Call \cup {[step |-> "idle"]}]
        /\ \A d \in Caller : d # c => call'[d] = call[d]
    BY <2>1, <2>6, CallChanges
  <2>8. vendor' = [vendor EXCEPT ![v] = row] /\ ~IndexRefuses(row.code, v)
    BY <1>2, <2>4, <2>5
  <2>10. /\ vendor' \in [Vendor -> Row \cup {NoRow}]
         /\ vendor'[v] = row
         /\ \A w \in Vendor : w # v => vendor'[w] = vendor[w]
    BY <2>1, <2>8 DEF TypeOK
  <2>11. TypeOK'
    BY <2>1, <2>7, <2>10 DEF TypeOK
  <2>12. /\ Stored(v) /\ row # NoRow
         /\ flow[v] = "none" => row.staged = FALSE
         /\ to = "submitReadFlow" => row.status = "PENDING_REVIEW"
    BY <2>1, <2>3, <2>4, <2>5, RowIsNoGap DEF CallOK
  <2>13. row.status \in {"DRAFT", "PENDING_REVIEW"}
    BY DEF Row
  <2>14. CallFrame(c)
    BY <2>1, <2>2, <2>4, <2>5, <2>6, <2>7, <2>10, <2>12, <2>13 DEF CallFrame
  <2>15. PhantomOK'
    <3>1. ~HasCause(c)
      BY <2>1 DEF HasCause, PastFlow
    <3> QED
      BY <2>7, <3>1, PhantomStays
  <2>16. CallOK(c)'
    BY <2>1, <2>3, <2>4, <2>5, <2>6, <2>7, <2>10, <2>12
       DEF CallOK, Stored, AfterSave, BeforeFlow, Taken
  <2> QED
    BY <2>11, <2>14, <2>15, <2>16, CallFrameInv
<1> QED
  BY <1>1, <1>2 DEF SaveRow

LEMMA SubmitReadFlowInv ==
  ASSUME Inv, NEW c \in Caller, SubmitReadFlow(c)
  PROVE  Inv'
<1>1. call[c].step = "submitReadFlow" /\ Begun(c) /\ TypeOK
  BY DEF SubmitReadFlow, Begun, Inv
<1>2. call[c] \in Call /\ CallOK(c)
  BY <1>1, CallShape DEF Inv
<1>3. PICK v \in Vendor : v = call[c].vendor
  BY <1>2 DEF Call
<1>4. PICK failed \in BOOLEAN :
        call' = [call EXCEPT ![c].step = "submitSaveFlow", ![c].blind = failed,
                             ![c].found = ~failed /\ flow[v] # "none"]
  BY <1>3 DEF SubmitReadFlow
<1> DEFINE rec == [call[c] EXCEPT !.step = "submitSaveFlow", !.blind = failed,
                                  !.found = ~failed /\ flow[v] # "none"]
<1>5. rec \in Call
  BY <1>2 DEF Call, CallStep, CallRunning
<1>6. call' = [call EXCEPT ![c] = rec]
  BY <1>1, <1>4 DEF TypeOK
<1>7. /\ rec.step = "submitSaveFlow"
      /\ rec.row = call[c].row
      /\ rec.vendor = v
      /\ rec.early = call[c].early
      /\ rec.blind = failed
      /\ rec.blind = FALSE /\ flow[v] # "none" => rec.found = TRUE
  BY <1>2, <1>3 DEF Call
<1> HIDE DEF rec
<1>8. call'[c] = rec /\ \A d \in Caller : d # c => call'[d] = call[d]
  BY <1>1, <1>5, <1>6, CallChanges
<1>9. CallFrame(c)
  BY <1>1, <1>8 DEF CallFrame, SubmitReadFlow
<1>10. Taken(v) => Taken(v)'
  BY <1>9, TakenStays
<1>11. UNCHANGED <<vendor, flow, phantom, licensed, creating>>
  BY DEF SubmitReadFlow
<1>12. CreateOK(v)
  BY DEF Inv
<1>13. CallOK(c)'
  BY <1>1, <1>2, <1>3, <1>7, <1>8, <1>10, <1>11, <1>12
     DEF CallOK, CreateOK, Stored, AfterSave, BeforeFlow
<1>14. call[c].blind = FALSE
  BY <1>1, <1>2 DEF CallOK, BeforeFlow
<1> QED
  BY <1>1, <1>5, <1>6, <1>7, <1>11, <1>13, <1>14, OnlyTheCall DEF HasCause, PastFlow

(* The flow is updated, or inserted for vendor 0, or neither.              *)
LEMMA SubmitSaveFlowInv ==
  ASSUME Inv, NEW c \in Caller, SubmitSaveFlow(c)
  PROVE  Inv'
<1>1. call[c].step = "submitSaveFlow" /\ Begun(c) /\ TypeOK
  BY DEF SubmitSaveFlow, Begun, Inv
<1>2. call[c] \in Call /\ CallOK(c)
  BY <1>1, CallShape DEF Inv
<1>3. PICK v \in Vendor : v = call[c].vendor
  BY <1>2 DEF Call
<1>4. PICK failed \in BOOLEAN :
        /\ call' = [call EXCEPT ![c].step = "submitRecord", ![c].blind = @ \/ failed]
        /\ flow' = IF ~failed /\ call[c].found THEN SubmittedFlow(v) ELSE flow
        /\ phantom' = IF ~failed /\ ~call[c].found /\ phantom = {} THEN {c} ELSE phantom
  BY <1>3 DEF SubmitSaveFlow
<1> DEFINE rec == [call[c] EXCEPT !.step = "submitRecord", !.blind = call[c].blind \/ failed]
<1>5. rec \in Call
  BY <1>2 DEF Call, CallStep, CallRunning
<1>6. call' = [call EXCEPT ![c] = rec]
  BY <1>1, <1>4 DEF TypeOK
<1>7. /\ rec.step = "submitRecord"
      /\ rec.row = call[c].row
      /\ rec.vendor = v
      /\ rec.early = call[c].early
      /\ rec.found = call[c].found
      /\ call[c].blind = TRUE => rec.blind = TRUE
      /\ rec.blind = FALSE => failed = FALSE /\ call[c].blind = FALSE
  BY <1>2, <1>3 DEF Call
<1> HIDE DEF rec
<1>8. /\ call' \in [Caller -> Call \cup {[step |-> "idle"]}]
      /\ call'[c] = rec
      /\ \A d \in Caller : d # c => call'[d] = call[d]
  BY <1>1, <1>5, <1>6, CallChanges
<1>9. UNCHANGED <<vendor, licensed, creating>>
  BY DEF SubmitSaveFlow
<1>10. /\ flow' \in [Vendor -> Stages]
       /\ \A w \in Vendor : flow'[w] = flow[w] \/ flow'[w] = "COMPLIANCE_CHECK"
       /\ failed = FALSE /\ call[c].found = TRUE => flow'[v] = "COMPLIANCE_CHECK"
       /\ flow'[v] = "none" => flow[v] = "none"
  BY <1>1, <1>4 DEF TypeOK, Stages, SubmittedFlow
<1>11. phantom' \in SUBSET Caller
  BY <1>1, <1>4 DEF TypeOK
<1>12. TypeOK'
  BY <1>1, <1>8, <1>9, <1>10, <1>11 DEF TypeOK, Stages
<1>13. CallFrame(c)
  BY <1>1, <1>8, <1>9, <1>10 DEF CallFrame
<1>14. Taken(v) => Taken(v)'
  BY <1>13, TakenStays
<1>15. CallOK(c)'
  BY <1>1, <1>2, <1>3, <1>7, <1>8, <1>9, <1>10, <1>14
     DEF CallOK, Stored, AfterSave, BeforeFlow
<1>17. PhantomOK'
  <2>1. ASSUME NEW d \in phantom PROVE HasCause(d)'
    <3>1. HasCause(d) /\ d \in Caller
      BY <1>1 DEF Inv, PhantomOK, TypeOK
    <3>2. CASE d = c
      BY <1>7, <1>8, <3>1, <3>2 DEF HasCause, PastFlow
    <3>3. CASE d # c
      BY <1>8, <3>1, <3>3 DEF HasCause
    <3> QED
      BY <3>2, <3>3
  <2>2. ASSUME phantom' # phantom PROVE phantom' = {c} /\ HasCause(c)'
    <3>1. phantom' = {c} /\ call[c].found # TRUE
      BY <1>4, <2>2
    <3>2. call[c].found = FALSE /\ (call[c].early = TRUE \/ call[c].blind = TRUE)
      BY <1>1, <1>2, <3>1 DEF CallOK, Call
    <3> QED
      BY <1>7, <1>8, <3>1, <3>2 DEF HasCause, PastFlow
  <2> QED
    BY <2>1, <2>2 DEF PhantomOK
<1> QED
  BY <1>12, <1>13, <1>15, <1>17, CallFrameInv

-----------------------------------------------------------------------------
LEMMA UploadInv ==
  ASSUME Inv, NEW v \in Vendor, UploadLicense(v)
  PROVE  Inv'
<1>1. UNCHANGED <<vendor, flow, phantom, creating, call>> /\ licensed' \in SUBSET Vendor
  BY DEF UploadLicense, Inv, TypeOK
<1>2. TypeOK'
  BY <1>1 DEF Inv, TypeOK
<1> QED
  BY <1>1, <1>2
     DEF Inv, CreateOK, CallOK, PhantomOK, HasCause, Begun, Stored, Taken

LEMMA CrashInv ==
  ASSUME Inv, Crash
  PROVE  Inv'
<1>1. TypeOK /\ UNCHANGED <<vendor, flow, phantom, licensed>>
  BY DEF Inv, Crash
<1>2. ASSUME NEW v \in Vendor
      PROVE  /\ creating'[v].row = creating[v].row
             /\ creating'[v] \in [step : CreateStep, row : Row \cup {NoRow}]
             /\ \/ creating'[v].step = creating[v].step
                \/ /\ creating[v].step \in CreateRunning
                   /\ creating'[v].step = "crashed"
  <2>1. creating[v] \in [step : CreateStep, row : Row \cup {NoRow}]
    BY <1>1 DEF TypeOK
  <2>2. creating'[v] = IF creating[v].step \in CreateRunning
                       THEN [creating[v] EXCEPT !.step = "crashed"] ELSE creating[v]
    BY <1>1 DEF TypeOK, Crash, Stopped
  <2> QED
    BY <2>1, <2>2 DEF CreateStep
<1>3. ASSUME NEW c \in Caller
      PROVE  \/ call'[c] = call[c]
             \/ /\ Begun(c) /\ call[c] \in Call
                /\ call[c].step \in CallRunning
                /\ call'[c] \in Call
                /\ call'[c].step = "crashed"
                /\ call'[c].vendor = call[c].vendor
                /\ call'[c].row = call[c].row
                /\ call'[c].early = call[c].early
                /\ call'[c].found = call[c].found
                /\ call'[c].blind = call[c].blind
  <2>1. call'[c] = IF call[c].step \in CallRunning
                   THEN [call[c] EXCEPT !.step = "crashed"] ELSE call[c]
    BY <1>1 DEF TypeOK, Crash, Stopped
  <2>2. CASE call[c].step \in CallRunning
    <3>1. Begun(c)
      BY <2>2 DEF Begun, CallRunning
    <3>2. call[c] \in Call
      BY <1>1, <3>1, CallShape
    <3> QED
      BY <2>1, <2>2, <3>1, <3>2 DEF Call, CallStep
  <2> QED
    BY <2>1, <2>2
<1>4. TypeOK'
  <2>1. creating' \in [Vendor -> [step : CreateStep, row : Row \cup {NoRow}]]
    BY <1>1, <1>2 DEF Crash, Stopped, TypeOK
  <2>2. call' \in [Caller -> Call \cup {[step |-> "idle"]}]
    BY <1>1, <1>3 DEF Crash, Stopped, TypeOK
  <2> QED
    BY <1>1, <2>1, <2>2 DEF TypeOK
<1>6. ASSUME NEW v \in Vendor PROVE CreateOK(v)'
  BY <1>1, <1>2 DEF Inv, CreateOK, Stored, CreateRunning
<1>7. ASSUME NEW v \in Vendor, Taken(v) PROVE Taken(v)'
  <2>1. ASSUME NEW d \in Caller, call[d].step = "updated" PROVE call'[d] = call[d]
    BY <1>3, <2>1 DEF CallRunning
  <2> QED
    BY <1>1, <1>7, <2>1 DEF Taken
<1>8. ASSUME NEW c \in Caller, Begun(c)' PROVE CallOK(c)'
  <2>1. Begun(c) /\ CallOK(c) /\ call[c] \in Call
    BY <1>1, <1>3, <1>8, CallShape DEF Inv, Begun
  <2>2. PICK v \in Vendor : v = call[c].vendor
    BY <2>1 DEF Call
  <2>3. Taken(v) => Taken(v)'
    BY <1>7
  <2>4. creating[v].step = "created" => creating'[v].step = "created"
    BY <1>2 DEF CreateRunning
  <2>5. call'[c].vendor = v
    BY <1>3, <2>2
  <2>6. call'[c].step = call[c].step \/ call'[c].step = "crashed"
    BY <1>3
  <2>7. /\ call'[c].row = call[c].row
        /\ call'[c].early = call[c].early
        /\ call'[c].found = call[c].found
        /\ call'[c].blind = call[c].blind
    BY <1>3
  <2> QED
    BY <1>1, <2>1, <2>2, <2>3, <2>4, <2>5, <2>6, <2>7
       DEF CallOK, Stored, AfterSave, BeforeFlow
<1>9. PhantomOK'
  <2>1. ASSUME NEW d \in phantom PROVE HasCause(d)'
    <3>1. HasCause(d) /\ d \in Caller
      BY <1>1 DEF Inv, PhantomOK, TypeOK
    <3> QED
      BY <1>3, <3>1 DEF HasCause, PastFlow
  <2> QED
    BY <1>1, <2>1 DEF PhantomOK
<1> QED
  BY <1>4, <1>6, <1>8, <1>9 DEF Inv

LEMMA StepInv ==
  ASSUME Inv, [Next]_vars
  PROVE  Inv'
<1>1. ASSUME NEW v \in Vendor, Create(v) PROVE Inv'
  BY <1>1, CreateStepInv
<1>2. ASSUME NEW v \in Vendor, UploadLicense(v) PROVE Inv'
  BY <1>2, UploadInv
<1>3. ASSUME NEW c \in Caller, NEW v \in Vendor, UpdateValidate(c, v) PROVE Inv'
  BY <1>3, BeginInv DEF UpdateValidate
<1>4. ASSUME NEW c \in Caller, NEW v \in Vendor, SubmitValidate(c, v) PROVE Inv'
  BY <1>4, BeginInv DEF SubmitValidate
<1>5. ASSUME NEW c \in Caller, UpdateSave(c) PROVE Inv'
  BY <1>5, SaveInv DEF UpdateSave
<1>6. ASSUME NEW c \in Caller, SubmitSave(c) PROVE Inv'
  BY <1>6, SaveInv DEF SubmitSave
<1>7. ASSUME NEW c \in Caller, SubmitRecord(c) PROVE Inv'
  <2>1. "submitRecord" \in CallRunning
    BY DEF CallRunning
  <2> QED
    BY <1>7, <2>1, GoesInv DEF SubmitRecord
<1>8. ASSUME NEW c \in Caller, ReadFails(c) PROVE Inv'
  <2>1. "updateRead" \in CallRunning /\ "submitRead" \in CallRunning
    BY DEF CallRunning
  <2> QED
    BY <1>8, <2>1, GoesInv DEF ReadFails
<1>9. ASSUME NEW c \in Caller, Update(c) PROVE Inv'
  BY <1>3, <1>5, <1>9, UpdateReadInv DEF Update
<1>10. ASSUME NEW c \in Caller, Submit(c) PROVE Inv'
  BY <1>4, <1>6, <1>7, <1>10, SubmitReadInv, SubmitReadFlowInv, SubmitSaveFlowInv DEF Submit
<1>11. CASE UNCHANGED vars
  <2>1. TypeOK'
    BY <1>11 DEF vars, Inv, TypeOK
  <2> QED
    BY <1>11, <2>1
       DEF vars, Inv, CreateOK, CallOK, PhantomOK, HasCause, Begun, Stored, Taken
<1> QED
  BY <1>1, <1>2, <1>8, <1>9, <1>10, <1>11, CrashInv DEF Next

LEMMA InvAlways == Spec => []Inv
<1>1. Inv /\ [Next]_vars => Inv'
  BY StepInv
<1> QED
  BY <1>1, InitInv, PTL DEF Spec

-----------------------------------------------------------------------------
(* Every row, stored or held by a call, has its type.                      *)
THEOREM RowsAreTyped == Spec => []TypeOK
BY InvAlways, PTL DEF Inv

(* Create leaves a vendor without a flow only where its insert failed or   *)
(* the process stopped, and no save of a stale row marks it as staged.     *)
THEOREM FlowlessAreExplained == Spec => []FlowlessVendorsAreExplained
<1>1. Inv => FlowlessVendorsAreExplained
  <2> SUFFICES ASSUME Inv, NEW v \in Vendor, Stored(v), flow[v] = "none"
               PROVE  ~vendor[v].staged /\ creating[v].step \in {"insertFlow", "failed", "crashed"}
    BY DEF FlowlessVendorsAreExplained
  <2> QED
    BY DEF Inv, CreateOK
<1> QED
  BY <1>1, InvAlways, PTL

(* A Submit that returned no error, ran after its vendor's Create and lost *)
(* no error of its flow statements has moved the flow, and the vendor      *)
(* unless an Update put the draft back.                                    *)
THEOREM SubmissionsTakeEffect == Spec => []SubmissionTakesEffect
<1>1. Inv => SubmissionTakesEffect
  <2> SUFFICES ASSUME Inv, NEW c \in Caller, call[c].step = "submitted",
                      ~call[c].early, ~call[c].blind
               PROVE  flow[call[c].vendor] = "COMPLIANCE_CHECK" /\ Taken(call[c].vendor)
    BY DEF SubmissionTakesEffect, Taken
  <2>1. Begun(c)
    BY DEF Begun
  <2>2. call[c] \in Call /\ CallOK(c)
    BY <2>1, CallShape DEF Inv
  <2>3. call[c].early = FALSE /\ call[c].blind = FALSE
    BY <2>2 DEF Call
  <2> QED
    BY <2>2, <2>3 DEF CallOK, AfterSave
<1> QED
  BY <1>1, InvAlways, PTL

(* The Submit that inserted a flow row of vendor 0 met a Create that had   *)
(* not ended, or could not read the flow: one that came after Create and   *)
(* whose First did not fail finds the flow and inserts none.               *)
THEOREM PhantomsHaveCauses == Spec => []PhantomFlowHasCause
<1>1. Inv => PhantomFlowHasCause
  BY DEF Inv, PhantomOK, HasCause, PhantomFlowHasCause
<1> QED
  BY <1>1, InvAlways, PTL

-----------------------------------------------------------------------------
(* A draft that ComplianceService.Check passes is one ValidateSubmit lets  *)
(* pass, and one it passes without a remark has every field, both papers,  *)
(* neither of them expired or about to, and every qualification verified:  *)
(* also those that checkQualifications only counts, although its count     *)
(* makes no remark where none is verified.                                 *)
THEOREM CleanVendorsAreVerified ==
  ASSUME NEW filled \in SUBSET Field, NEW quals \in SUBSET Qualification,
         IsCompliant(filled, quals)
  PROVE  /\ MaySubmit(filled, quals)
         /\ IsClean(filled, quals) =>
              /\ filled = Field
              /\ HasType(quals, "BUSINESS_LICENSE") /\ HasType(quals, "BANK_ACCOUNT")
              /\ \A q \in quals : q.status = "VERIFIED"
              /\ \A q \in Checked(quals) : q.expiry \in {"none", "later"}
<1>1. /\ Required \subseteq filled
      /\ HasLicense(quals)
      /\ \A q \in Checked(quals) : ~Invalid(q)
  BY DEF IsCompliant, FailedItems
<1>2. MaySubmit(filled, quals)
  BY <1>1 DEF MaySubmit
<1>3. ASSUME IsClean(filled, quals)
      PROVE  /\ filled = Field
             /\ HasType(quals, "BUSINESS_LICENSE") /\ HasType(quals, "BANK_ACCOUNT")
             /\ \A q \in quals : q.status = "VERIFIED"
             /\ \A q \in Checked(quals) : q.expiry \in {"none", "later"}
  <2>1. /\ "legal_person" \in filled
        /\ HasType(quals, "BANK_ACCOUNT")
        /\ \A q \in Checked(quals) : ~Doubtful(q)
        /\ Unverified(quals) \in {{}, quals}
    BY <1>3 DEF IsClean, WarningItems
  <2>2. filled = Field
    BY <1>1, <2>1 DEF Field
  <2>3. \A q \in Checked(quals) : q.status = "VERIFIED" /\ q.expiry \in {"none", "later"}
    BY <1>1, <2>1 DEF Invalid, Doubtful, Checked, Qualification, QualificationStatus, Expiry
  <2>4. PICK q \in Checked(quals) : q.status = "VERIFIED"
    BY <1>1, <2>3 DEF HasLicense, HasType, Checked
  <2>5. Unverified(quals) # quals
    BY <2>4 DEF Unverified, Checked
  <2>6. \A r \in quals : r.status = "VERIFIED"
    BY <2>1, <2>5 DEF Unverified
  <2> QED
    BY <1>1, <2>1, <2>2, <2>3, <2>6 DEF HasLicense
<1> QED
  BY <1>2, <1>3
=============================================================================
