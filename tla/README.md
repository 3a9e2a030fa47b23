# Vendor onboarding API: TLA+ models and proofs

The repository is a Go service (gin, gorm, SQLite) that takes suppliers
("vendors") through data collection, submission, a pipeline of approval nodes,
and a decision. This directory holds TLA+ models of its stateful parts, the TLC
configurations that check them, and TLAPS proofs of what matters most.

    tlc -config ApprovalFlowTx.cfg MCApprovalFlow.tla     # any run of the table in section 3
    tlapm ApprovalFlowProofs.tla                          # any *Proofs module

Paths below are relative to `internal/` of the repository.

## 1. Inventory

| Component | State | Operations | What is hard |
|---|---|---|---|
| Approval workflow `services/approval_service.go` | `approval_flows` (stage, status, counts, version), `approval_records`, `approval_node_configs`, `approval_node_signers` | Approve, Reject, Transition, AddSigner, Withdraw, CreateNodeConfig | transactions and plain statements on the same rows; a goroutine that writes 100 ms after Withdraw; versions that only some writers check; ignored errors of reads and of the vendor row |
| Sign condition `evaluateSignCondition` | none | one pure function | thresholds at even, odd and zero signers |
| Vendor lifecycle `services/vendor_service.go`, `validators/` | `vendors` | Create, Update, Submit | read, validate, save the whole row, without a transaction; two rows per vendor |
| API keys `services/apikey_service.go` | `api_keys` (version, status, expiry) | Create, Rotate, Revoke, clean-up, lookup | rotation reads outside the transaction it writes in |
| Authentication `middleware/auth.go`, `pkg/utils/signature.go` | none of its own; reads `api_keys` | signature check | two statements, between which keys change |
| Virus scanner `scanner/scanner.go` | breaker, failures, queue counter, slots | Scan, Close | atomics and locks between which anything may happen |
| Qualification upload `services/file_service.go`, `file_service_v2.go` | stored files, `qualifications` | Upload | content-addressed keys shared by uploads; clean-up after a failed insert |
| Storage `storage/` | objects of two back ends | Put, Get, Delete, Migrate, dual write | partial failures, migration against live traffic |
| Qualifications `services/qualification_service.go` | `qualifications.status` | Upload, Verify, Delete | status checked before, written after |
| Compliance `services/compliance_service.go` | none | Check | the table of cases |
| Two-phase commit `database/twophase.go`, `multi_source.go` | one transaction pointer and status per database | Begin, Prepare, Commit, Rollback | participants shared by concurrent calls; partial commit |
| File processing `services/file_processing.go` | none | resize, sanitise | bytes |
| Database set-up `database/database.go` | the schema and the seeded nodes | Init | none |
| HTTP layer `handlers/`, `middleware/router.go`, `services/binder.go` | none | routing, binding | which handlers may overlap |

How they interact: the router starts a goroutine per request; all handlers
share one database connection pool. The approval workflow and the vendor
lifecycle write the same two rows of a vendor. Uploads call the scanner, then
the storage, then insert a qualification; Submit and the compliance check read
the qualifications. Authentication reads the API keys. Approve takes its
two-database path when a registry of databases exists; the server
(`cmd/server/main.go`) only calls `database.Init` and never `InitMultiSource`,
so the approval modules have the single-database path, and the manager is
modelled by itself.

What makes each of them correct:

* approval workflow: a decision only with the signatures that justify it; vendor
  row and flow row agree unless the vendor row could not be written; the
  optimistic lock guards stage changes; a flow moves on from a node only when the
  signatures of that moment close it; no stage is passed unsigned; no node is a
  dead end;
* API keys: at most one current version; a rotation that fails or overlaps takes
  no key away; a retired or revoked key does not come back;
* authentication: no signed request is let in or turned away without a reason,
  whatever happens to the keys during the check; retired clients are told;
* scanner: slots and queue places are returned; the breaker is open for a reason;
  it fails closed where it is told to; every scan returns;
* uploads and storage: a qualification's row has its file; what is torn, left
  over or missing on one side has a cause; nothing untouched is lost in a
  migration;
* vendor creation: a vendor without a flow and a flow without a vendor have a
  cause; a submission takes effect;
* two-phase commit: all databases or none, or the caller is told.

`PROJECT.json` lists the hazards line by line, with the properties that would
catch them.

## 2. Modules

| Module | Models | Built on | Proofs |
|---|---|---|---|
| `SignCondition` | `evaluateSignCondition` | | |
| `ApprovalFlow`, `MCApprovalFlow` | ApprovalService, and Submit and Update of VendorService | `SignCondition` | `ApprovalFlowProofs` |
| `ApprovalFlowDocs` | a sentence of the API document the handlers do not keep | `ApprovalFlow` | |
| `Compliance` | ComplianceService.Check, ValidateSubmit | | `OnboardingProofs` |
| `Onboarding`, `MCOnboarding` | VendorService.Create, Update, Submit before the approval begins | `Compliance` | `OnboardingProofs` |
| `ApiKeys`, `MCApiKeys` | APIKeyService | | `AuthProofs` |
| `Auth`, `MCAuth` | the signature check | `ApiKeys` | `AuthProofs` |
| `Scanner` | ClamAVScanner | | `ScannerProofs` |
| `LocalStorage` | one directory of files and its writers | | `LocalStorageProofs` |
| `Uploads`, `MCUploads` | FileServiceV2 and Verify | `LocalStorage` | `UploadsProofs` |
| `DualWrite`, `MCDualWrite` | DualWriteStorage and Migrate | two instances of `LocalStorage` | `DualWriteProofs` |
| `AtomicCommit` | the abstract specification of a commit over several databases | | |
| `TwoPhase` | TwoPhaseManager, shown to implement it | `AtomicCommit` | `TwoPhaseProofs` |

The `MC` modules define the symmetry sets and nothing else.

### ApprovalFlow

State: `vendorStatus` is `vendors.status`; `flow[v]` is the row of
`approval_flows` (`stage_order` follows from the stage and is not repeated);
`records` are the rows of `approval_records`; `nodeSigners` and `signType` are
the node configuration; `job[c]` is what a request outside any transaction has
read so far and the statement it executes next; `resets[v]` counts goroutines of
Withdraw that still sleep.

Atomicity. Approve, Reject, Transition, Withdraw and CreateNodeConfig run in one
SQLite transaction that reads before it writes. SQLite lets such a transaction
write only if no one else has committed since its first read (otherwise the
statement fails with a locked database and the handler returns the error), so a
handler takes effect as if at one moment, or not at all: one action each.
gorm's SQLite driver drops `FOR UPDATE`, and the version check of the `UPDATE`
can therefore not fail there. AddSigner, Submit and Update use no transaction:
every statement is an action of its own (`AddSignerRead`, `AddSignerInsert`,
`AddSignerCount`, `AddSignerSave`; `SubmitValidate` ... `SubmitRecord`;
`UpdateValidate`, `UpdateRead`, `UpdateSave`), and any statement may fail
(`Abandon`). `DelayedReset` is the goroutine of Withdraw; it is started before
the commit, so it also runs when the commit failed. `Crash` loses the requests
and goroutines in flight and keeps the database.

Ignored errors. The constant `ReadsMayFail` says whether the four of Approve
occur, `StatementsMayFail` whether the others do.

* Approve reads the node's sign type, the two record counts and the number of
  signers, and looks at none of the four errors; a read that fails leaves the zero
  value. `Tally` is the set of what it may have read, `Decide` the decision from
  one such tally.
* The handlers that decide, transfer or withdraw a flow read the vendor row
  without looking at the error (`approval_service.go` 528, 543, 557, 622, 628,
  874, 894), and Transition ignores that of saving it, too (624, 630). Saving a row
  that was not read inserts an empty vendor and leaves the real one as it was.
  `SaveVendor` therefore either writes the status or misses the row, with the flow
  committed all the same. `lost` is bookkeeping, no column: the vendors whose row
  missed the last status meant for it.
* CreateNodeConfig takes an error of looking for the configuration as its
  absence: it inserts a second one and the signer rows of the first stay. The
  handlers look signers up by stage, so both lists count (`Kept`, `AddRows`), and
  the first configuration's sign type stays in force.
* Withdraw ignores the error of its commit; the goroutine runs all the same.

With failing statements the properties say less, and say what: no decision is
invented (`DecisionsAreSigned`, checked and proved with both constants TRUE), but
`VendorAgreesWithFlow` is about the vendors that are not `lost`, and indeed an
APPROVED flow beside a vendor still PENDING_REVIEW is a state of the model. `PassedStagesWereSigned` and
`AdvancesAreEarned` do not survive failing reads (with zero signers read, the
first approval closes any node), so they, and the liveness property, are for
reads that succeed. `AdvancesAreEarned` does survive the other failures. The
other handlers ignore the error of `countSigners` as well, but the count they
store is read by nobody.

Data left out: names, remarks, times; audit log, withdrawal and
additional-signer records and parallel groups, which no handler reads back to
decide anything; the required fields of Submit, which are in `Onboarding`. The
two reads Approve makes through a second connection (signer permission, signer
count) are part of the action.

Two next-state relations: `TxNext` (transactional handlers, resets, crashes) and
`Next` (all handlers). Agreement of the vendor row with the flow row, the version
discipline and `AdvancesAreEarned` are promises of the transactional handlers
only (the others save whole rows they read earlier, and Submit moves the flow
without a signature); everything else is checked against `Next`.

The unique index on the signatures is a guard of every insertion (`KeyTaken`).
That one person signs a stage once is therefore how the model is built and no
property of it; the same holds of the credit codes in `Onboarding`. Signer rows of
one person differ by a copy number, because the table may hold several; it
matters where they are counted, in the run `pipeline`, which has two. No
property forbids a signature on a decided flow's stage: a second Transition to
REJECTED, or a Submit that was under way, does leave one.

### Compliance and Onboarding

`Compliance` is an operator from the fields filled in and the qualifications to
the failed and the warning items; `MaySubmit` is the validator Submit calls. It
is pure, and `Onboarding` uses it as the guard of a submission.

`Onboarding` follows a vendor from the first statement of Create to its
submission. `vendor` and `flow` are the two tables, `creating[v]` the step of the
Create that inserts vendor v and the row it holds, `call[c]` an Update or a
Submit. Create validates twice (`BindCreate`, then Create itself: `CreateBind`,
`CreateCheck`), inserts the vendor (`CreateVendor`; the unique index of the
credit code may refuse), then the flow (`CreateFlow`), and then saves the whole
vendor again (`CreateSave`, error ignored). Submit saves the vendor, reads the
flow ignoring the error, saves whatever it has: without a row gorm inserts a new
one, for vendor 0; `phantom` is the Submit that did. Every statement may fail, `Crash` may come
between any two. The fields `early`, `found` and `blind` of a call are
bookkeeping for the properties and no column (`found` apart: it is whether
the flow was read). After the submission the vendor belongs to `ApprovalFlow`,
and its statuses beyond PENDING_REVIEW do not occur here.

### ApiKeys and Auth

`keys` is the table indexed by its unique key `<<app_key, version>>`. Create is a
check and an insert; Rotate a read and a transaction whose first statement
already writes, so it is one step, but the row it saves was read before; Revoke
is one `UPDATE`. The transaction may roll back at any point; a commit whose
error Rotate ignores is the same to the table (only SQLite gets there, which
rolls back). `Expire` is time passing `expire_at`. The two clean-ups call
`Update` without a model, for which gorm returns an error before it executes
SQL; they change nothing, and the ticker that would call them is never started.
They are left out, and rows are therefore never deleted, which the proofs rely on.

`Auth` adds requests that are being checked. `validateSignatureMulti` reads the
accepted secrets (`ReadSecrets`), and in a second statement either what has run
out (`ReadExpiredInfo`) or whether a rotation is to be announced
(`ReadRotating`); `KeysChange` is any step of `ApiKeys` in between. A signature
is the version whose secret made it (or `Unknown`). `always`, `ever` and `late`
record whether that secret was accepted throughout, at some moment, and whether
it was retired when the request came; `blind` that a statement failed.
`ArriveUnsigned` is a request that is answered before the table is read: without
an app key, a signature and a timestamp it is let through unauthenticated
(`auth.go` 74-79, where the branch for `EnforceSignature` is empty), with some of
the headers, or a timestamp that is no number, it is refused. The properties of
answers are about requests that are checked against a key; of the others nothing
is claimed. How the signed string is put together is left out.

### Scanner

One phase per atomic operation or locked section of Scan: the breaker is read,
the queue counter is read, then incremented, a slot is acquired or the queue
timeout fires, the limiter, dialling, the conversation, `recordSuccess` in its
two locked sections with the read of the breaker in between, the deferred
releases in reverse order. `failures` is the number of failures on record
saturated at the threshold, because the code only asks whether there are none or
at least that many; `recordFailure` may drop any number of old ones, which is
what the time window does. `DegradeOnFail` is chosen in the initial state.
The reported totals, `failureCnt` and `lastFailing` influence nothing.

### LocalStorage and Uploads

A storage key is made from a hash of the content, so every writer of a key
writes the same bytes: a file is absent, partial or whole. `dir[k]` is what the
path names, `handle[c]` the file a caller is copying into, which is not the same
thing: `os.Create` truncates the file under another writer (`cut`), `os.Remove`
takes the path away from it (no longer `linked`). `Create`, `Finish`,
`CopyFails`, `Delete` are the halves of Put and Delete; S3Storage is an emulation
of the same in another directory. Put removes the file of a failed copy and
ignores the error of that (`local.go:69`): `CopyFails` has both outcomes.

`Uploads` is `UploadQualificationFile`: receive, scan, process, put, copy,
insert, and the clean-up after a failed insert, which deletes a file that an
earlier upload of the same content may share. Every step may fail, the process
may stop. `tornBehind` and `leftBehind` are the ends of an upload whose removal
failed, in Put and in the clean-up; `Put` returns the same error to the caller in
either case, the two ends differ for the properties only. Verify reads the row and saves it later. The first FileService has the same order of
steps and its upload is never called. Left out: an ignored error of
re-hashing and the truncated hash in the key, for which two contents would share
a key. Delete of a qualification is unreachable: `DELETE /qualifications/:qid`
has no `vendor_id`, which its binder demands, so every request is refused
(`docs/openapi.yaml` documents it under `/vendors/{id}/qualifications/{qid}`).

### DualWrite

Two instances of `LocalStorage`, a client per Put or Delete, one Migrate from
the primary to the secondary. Each mode of DualWriteStorage is a choice of the
initial state, as is `deleteAfterCopy`. `writeSecondary` and its callback are
`reported`; Migrate's own list of failures is `migration.failed`. Migrate reads
the primary while clients truncate and rewrite its files; `migration.torn` says
for which keys, since then it may copy an incomplete file. Get's shadow read
changes no file and is left out with the URLs and counters.

### TwoPhase and AtomicCommit

`current[p]` is `Participant.Tx`: one per database for all callers. The methods
hold the manager's mutex and are one action each; the callers (Approve, Execute)
hold nothing in between, so a Begin replaces the transactions of a running call.
`tx[c][p]` is what has become of the transaction of call c on p. `Commit` goes
on after a participant failed, `RollbackLocked` skips what is not pending and
leaves the status of one whose rollback failed, `Crash` may fall between two
commits. Prepare gives PREPARE TRANSACTION (postgres) and XA PREPARE (mysql) a
bound parameter, which is a syntax error for both: an active participant of
these dialects (`xa`) makes Prepare fail.

`AtomicCommit` is the promise: a call that runs alone returns without an error
when every participant has committed, with an error when none has, or it is torn
(a commit failed, or the process stopped, after another had succeeded); and this
is final. Calls that meet are `interfered` and are promised nothing. The
refinement maps `outcome[c]` to `Became(c)`, which knows two values that
AtomicCommit does not have: `wrong` (what was returned is not what happened) and
`leaked` (a transaction is open that nobody will end). The run shows that
they do not occur for a call that runs alone, whatever earlier calls that met
have left in the manager.

## 3. Runs

| Run | cfg | Bounds | States | Shows |
|---|---|---|---|---|
| tx | `ApprovalFlowTx` | 1 vendor, 2 approvers, version <= 5, one reset outstanding, reconfiguration of level 1, transitions and withdrawals to both ends, failing statements | 303,610 | types; vendor row and flow row agree unless the row was lost; stage changes are versioned; a flow moves on only when the signatures of that moment close the node |
| calls | `ApprovalFlowCalls` | 1 vendor, 2 approvers, 2 calls, version <= 3, crashes, resets, failing reads and statements | 2,517,706 | decisions are signed |
| pipeline | `ApprovalFlowPipeline` | 2 approvers, every list of up to two rows of each and every sign type at level 2, one submission | 289,115 | passed stages were signed |
| signing | `ApprovalFlowSigning` | 3 approvers, every signer list and sign type at levels 1 and 2 | 512,425 | every flow is decided (liveness) |
| onboarding | `Onboarding` | 2 vendors, 2 credit codes, 2 calls of Update or Submit, crashes | 686,999 | types; vendors without a flow and flows without a vendor have a cause; submissions take effect |
| keys | `ApiKeys` | 1 app key, 4 calls, 4 versions, 1 request | 59,092 | types; one ACTIVE version; rotation keeps a key; nothing is reactivated; answers to requests are true; rotation is announced |
| scanner | `Scanner` | 3 workers that loop, 2 slots, depth 2, threshold 2 | 32,201 | types; exact counters; cause of an open breaker; fails closed; every scan returns |
| uploads | `Uploads` | 4 uploads, 2 contents, 2 verifiers, failing copies, inserts and removals, a crash | 262,381 | rows have their file; torn and left-over files have a cause; two verdicts on a row overlapped |
| dualwrite | `DualWrite` | 2 clients, 2 keys, 1 Migrate, every mode | 393,018 | new data is on both sides; nothing untouched is lost; the secondary catches up |
| twophase | `TwoPhase` | 3 calls, 2 participants of any dialects | 35,305 | reported status is true; implements `AtomicCommit` |
| DocsTermination, DocsRevoked | same names | smallest instance that shows it | | a sentence of a document that the code does not keep |

Why the bounds are enough to be interesting.

* Approvals do not relate different vendors, so one vendor loses nothing but
  symmetric copies. Two approvers suffice for a mixed result. With up to two rows
  of each, `pipeline` has every list of one to four rows and nobody, one or both
  signing it, which is every side of every threshold: a majority of three that is
  not all, half of four that is no majority, lists that can never close. In
  `signing` three people sign. Two calls show every pair of stale writers; the
  proofs cover any number. `MaxVersion` bounds the number of handlers that commit:
  a flow begins at version 1 and each increments it, so a bound of n lets n - 1
  of them commit. Two in `calls`, one of them a transition to the end of the
  pipeline, so that a decision, the rows two calls read before it and what they
  write after it fit in; four in `tx`: a decision, a withdrawal, a
  signature after it and a transition or reconfiguration between them (a
  reconfiguration is no commit of the flow and does not count); six in
  `pipeline`, which take a flow with two signatures at level 2 to the end;
  fourteen in `signing`, which no behaviour exceeds, so that liveness is never
  cut off by the bound. `MaxCopies` bounds the signer rows of one approver at a
  node. `MaxResets` bounds the
  goroutines asleep at a time.
* Two Creates and two other calls make every pair of stale writers of one row,
  with a code given up by one vendor and taken by the other.
* App keys do not interact. Four calls are what the unique index is for: a
  Create, a rotation that has read, and two others that complete before it
  writes. One request suffices, since checks do not write; the proof covers any
  number.
* With three scan workers and two slots one scan always waits, and one more
  passes the breaker before it opens.
* Four uploads over two contents: three can share a file (one stored, one writing
  it again, one failing), and one is beside them.
* Two clients of a key and a migration make every order in which the two back
  ends can see a Put and a Delete; the second key shows that a key nobody
  touches is safe.
* Three calls of the manager: two that meet and one later, which runs alone on
  what they left.

Symmetry over approvers, calls, keys and clients is used only where no liveness
is checked. The runs `signing`, `keys`, `DocsRevoked`, `onboarding`, `uploads`,
`dualwrite` and `twophase` switch deadlock checking off: when all flows are
decided or all calls made, the system rests.

Each passing property is checked against a mutation of a modelled definition
(operators marked `mutant` in the modules: a forgotten vendor update, a count
taken from the stored row, an error that is not looked at, a slot that is not
released, ...), under which TLC finds it violated.

### What the code does against its documents

Shown by a run:

* `DocsTermination`: a signature, a withdrawal with rollback, a rejection before
  its goroutine has run, and then the goroutine makes the rejected flow PENDING.
* `DocsRevoked`: Rotate read the key before it was revoked; its Save makes the
  key ROTATING with a day of grace.

Met while modelling, and part of what the modules do, without a run of their own:

* AddSigner saves the flow row it read before another handler committed: the lock
  version goes back. A withdrawal without rollback makes the vendor a DRAFT but
  moves the flow back one stage only. A flow with an old rejection record of its
  stage is REJECTED when it is next approved, but its stage is not. Update may
  have read the vendor before completion and writes the old status over APPROVED.
* `docs/API_KEY_ROTATION_RUNBOOK.md:40` promises the status `expired` for a key
  past its grace period; the code looks for expired keys only when no version is
  accepted, so after a rotation such a client gets a signature mismatch.
* `docs/STORAGE_MIGRATION_GRAYSCALE.md:303`, dual write guarantees that new data
  agrees: not when a Put and a Delete of a key race, or when a secondary write
  failed (see `NewDataIsOnBothSides`). Line 41, ShadowOnly does not affect the
  main flow: its second write's error is returned to the caller. Line 227 calls
  Migrate with source and destination exchanged.
* The upload accepts `.gif`, `.bmp` and `.tiff`, and the image processing that
  follows refuses them.

### Fairness

`SigningSpec` assumes `WF_vars(Sign(v))`: as long as some user may sign a flow,
somebody eventually does. That is an assumption about people, not about the
code; the property says that the code never leaves them without a possible
signature, and no more happens in that specification. Signer lists name each
approver once (`MaxCopies = 1`): nothing in CreateNodeConfig keeps a list from
naming somebody twice, and an ALL node with such a list does stay open for good.
`FairSpec` of the scanner assumes that a goroutine that can run does, which the
Go scheduler gives, with timers and socket deadlines. A waiting scan is kept from
starving by its queue timeout, not by fairness among waiters: the mutant without
the timeout starves. The other specifications state safety only and assume no
fairness.

## 4. Proofs

Every safety invariant and every action property the passing runs check is a
theorem of its specification, and so is the refinement. They hold for any sets
and bounds allowed by the named assumptions:

| Assumption | Says |
|---|---|
| `ApproverAssumption`, `WorkerAssumption` | the approvers, the workers are finite, so that sets of them can be counted |
| `RequestsAssumption` | requests name stages the code knows |
| `BoundsAssumption`, `VersionAssumption` | the bounds are numbers |
| `ConfigAssumption` | positive values, as the scanner's constructor guarantees |
| `ParticipantAssumption` | at least one registered database |
| `NoneAssumption`, `NoKeyAssumption`, `KeyAssumption`, `MigratorAssumption` | the values that stand for "nobody", "no key" and the migrator are not a call, a key or a client |

Both values of `ReadsMayFail` and `StatementsMayFail` are covered, but for
`PassedStagesAreClosed` and `AdvancesEarned`, which assume that reads succeed.

* `ApprovalFlowProofs`:
  * `TypeCorrect`: `Spec => []TypeOK`. It is inductive by itself; lemmas give the
    type of each helper (RejectFlow, AdvanceFlow, what a tally is and what Decide
    does with it, ...).
  * `DecisionsAreMade`: decisions are signed. The invariant is not inductive:
    a decision may come back from a row that a call read earlier. It is
    strengthened to say the same of every row held in `job`: a copy that says
    APPROVED or REJECTED is also backed by records, which are never deleted; and
    a flow about to complete gets its signature in the same step.
  * `RowsAgree` (of `TxSpec`): inductive with the types, for the vendors that are
    not `lost`. An APPROVED vendor has its flow at COMPLETED; no transition leads
    higher, and the one handler that could lead away, Withdraw, refuses an APPROVED
    flow; every other status is written to both rows by one handler, or to the
    flow alone, which makes the vendor lost until a handler writes its row.
  * `AdvancesEarned` (of `TxSpec`): by handler. Reject, Withdraw, the reset and a
    reconfiguration never move a flow to the next stage of where it is, Transition
    does with a record of another stage, and in Approve the decision from exact
    counts is the arithmetic of `evaluateSignCondition`. No invariant but the types
    is needed, which is the point: nothing that happened before matters, because
    every decision counts anew.
  * `StagesAreVersioned` (of `TxSpec`): one lemma per handler, that a row it
    writes has the version it read plus one, or the same stage and version.
  * `PassedStagesAreClosed`: for any vendors, approvers, signer lists, sign types
    and submissions, under `PlainRequests`: no manual move, withdrawal, late
    signer or reconfiguration, and reads that succeed. These are the requests the
    run `pipeline` leaves out, and each of them does put a flow behind a stage
    that is not closed. The invariant adds where a flow can be, that a flow at
    the end is decided, and that the only row written back later is at the
    beginning of the pipeline; `CompleteIsClosed` is the arithmetic of
    `evaluateSignCondition`, `OtherCounts` that a signature counts for its own
    stage and vendor only.
* `OnboardingProofs`: the inductive invariant says what is known of a Create at
  each step and of the row it holds, and the same of each Update and Submit: a
  row read while the vendor had no flow is not staged, the row of a Submit about
  to save is submitted, a call that met its vendor's Create at its end has found
  the flow. The rest is the stability of the two facts a Submit leaves behind:
  a submitted row is only replaced by an Update that had read the draft
  (`TakenStays`), and a flow never goes back; and of the Submit that inserted a
  flow of vendor 0, that it had found none and why. From it:
  `FlowlessAreExplained`, `SubmissionsTakeEffect`, `PhantomsHaveCauses`, `RowsAreTyped`.
  `CleanVendorsAreVerified` is what the compliance check promises, of any fields and qualifications.
* `AuthProofs`, the keys: the inductive invariant says that versions are dense,
  that only the last one can be ACTIVE and does not run out, and that the row a
  rotation has read still exists. From it: `AtMostOneActive`,
  `RotationKeepsAKey`, `RetiredForGood`, `KeysAreTyped`.
* `AuthProofs`, the requests: `AuthImplementsKeys` says that a behaviour of
  `AuthSpec` is one of `Spec` of `ApiKeys`, so the theorems above hold under
  checks too. The inductive invariant says that a request being checked keeps its
  account: a secret that was accepted all the time is accepted now, one that is
  accepted now was at some moment, and a retired one that still is accepted is
  still ROTATING (this uses that nothing is reactivated); and that the secrets it
  has read agree with that account. From it: `EveryAnswerIsTrue`,
  `RetiredClientsAreTold`, `RequestsAreTyped`.
* `ScannerProofs`: a counting lemma (what one worker's step does to the size of a
  set of phases) and one lemma on what any worker's step has to show; from them
  `NothingLeaks`, `BreakerHasCause`, `ScannerFailsClosed`, `ScannerTypes`.
* `LocalStorageProofs`: one lemma per operation on a file, saying what it does to
  the path, to the caller's open file, and to those of the other callers, whom it
  cannot touch but by truncating or unlinking the same path. The next two modules
  cite these and never open an operation again.
* `UploadsProofs`: the invariant says that a torn file has a writer whom nobody
  has truncated or unlinked, or one that a crash stopped; that a file which was
  written and is not there was removed by an upload that failed or cleaned up;
  that a file that is there has an upload to account for it; and that a verdict
  once saved is not PENDING again. From it: `RowsKeepTheirFile`,
  `TornAreExplained`, `LeftoversHaveCauses`, `VerdictsAreFinal`, `UploadsAreTyped`.
* `DualWriteProofs` uses `LocalStorageProofs` twice, for the primary and for the
  secondary. The invariant is one conjunction per key: a torn file has its writer
  (or Migrate copied it from a torn source); what a Put has created is missing
  only for a reason; what is missing on the secondary alone is yet to be visited
  by Migrate or written by a client; and a file no client touches is whole on the
  primary until its copy is whole on the secondary. `OtherKeys` shows that a step
  disturbs its own key only, so each kind of step has one lemma, about one key.
  From it: `NewDataReachesBoth`, `MigrationLosesNothing`, `MigrationCatchesUp`,
  `DualWriteIsTyped`.
* `TwoPhaseProofs`: the invariant says that a running call that has met nobody is
  the only one running, that the manager holds its transactions and they are
  open, with every status active before Prepare and prepared after it; that a
  call that ended without meeting anyone has no open transaction and did what it
  returned; that a call not yet begun has none; and that a status that was set
  has an owner. With it every step of the manager is one of `AtomicCommit`, or
  changes nothing there: `AtomicWhenAlone` (the refinement), with `ReportsAreTrue`
  and `ManagerIsTyped`.

Only model-checked: the liveness properties `EveryFlowIsDecided` and
`EveryScanReturns` (liveness under fairness and `ENABLED` are outside what this
prover does), and the two sentences of documents that TLC refutes. Induction over
data (what a recursive definition computes for all inputs) is out of its reach as
well; the modules here need none.

## 5. Not modelled, and why

* `cmd/server`, response and error formatting, hashing, code generation, CORS,
  the body limit: no state, or pure input and output.
* The string an HMAC is computed over, image and PDF bytes: data a model checker
  cannot enumerate. (calculateResize truncates, so an image more than 1920 times
  as long as it is wide shrinks to a side of zero pixels.)
* Parallel groups: created, never read. The audit log is written in the
  transaction of Approve, its error is ignored and its table is never migrated;
  nothing reads it.
* Approve's two-database path: `TwoPhase` has the manager with any caller; the
  server never builds one.
* FileService, the first version: the protocol of `Uploads`, called by nobody. It
  names its temporary file by size and file name only, which V2 does not.
* DualWriteStorage.Get's shadow read: it changes no file. A Put or Delete between
  the two back ends counts as a mismatch, and the file it opens is never closed.
* The real S3 client: not implemented in the code.
* The clean-ups of API keys: they fail before any SQL (see above).

## 6. Plan

What is left is proof:

1. The safety half of the two liveness properties: that a flow which is not
   decided always has a stage somebody may sign (the deadlock half of
   `EveryFlowIsDecided`, without fairness), and that a phase of a scan only leads
   to a later one (`EveryScanReturns`).
2. `PassedStagesAreClosed` with withdrawals and late signers allowed, for the
   stages that were passed since the last of them.
3. That each upload by itself implements an abstract one, which ends with both a
   row and a whole file, or with neither, or with a named cause.
