# The finance hub in TLA+

This directory holds a TLA+ model of the finance hub: the Payment Register with its documents, bank
matches and imports; the capture of payments and the intake of supplier bills by FinanceOps, from the
gate in front of them to the person who verifies; claims and their vouchers; the bank reconciliation of phase 3A;
documents, recurring bills, the imports of suppliers and of students with the records beside them; and
the logins of the staff. It says what the code promises, checks it with TLC on small instances, and
proves most of it with TLAPS for instances of any size.

The source of every definition is the code under `src/`, not its documents. `PROJECT.json`
names the lines each definition stands for.

## 1. The system

The application is a Next.js front end and API over a Supabase (PostgreSQL) database. There are
no background workers: everything happens in a request of a browser, in an API route, or in a
trigger of the database. A browser talks to the database directly for most statements. The
authority is therefore the database: row-level security decides who may write a row, triggers
decide which change is legal, unique indexes decide races. The screens repeat those rules to
offer the right buttons, on rows they loaded earlier. An operation of several statements is not a transaction unless it is
one database function: it may stop after any of them, and others work in between.

| Component | State it keeps | Operations | What is hard about it |
|---|---|---|---|
| Payment Register (migration 0024, `finance-ops-*.tsx`, `payments/rules.ts`) | `finance_payment_register`: status, details, decisions, stamps; `finance_payment_documents`; `finance_payment_bank_matches` | record, import, edit, link a bill, attach and remove documents, decide on exceptions, suggest, confirm and unmatch, review, post, reconcile, reverse | three tables, each checked by its own trigger; flows of two statements; long sequences of moves forward and back |
| Hermes payment capture (`payments/persist.ts`, `handler.ts`) | the same tables, and a storage bucket | one delivery: insert the row, upload and insert each document, finalise | about ten calls with nothing that ties them together; redelivery; concurrent deliveries; people at the same row |
| Statement import and matching (`payments/services.ts`, `matching.ts`) | bank batches and rows, suggested matches | parse, mark duplicates, insert in chunks; score pairs, insert suggestions, mark payments | check-then-insert without a constraint; partial failure between chunks |
| Old register import (`register-import.ts`) | register rows | preview, choices of the page, insert open rows, closed rows for the Owner or a Finance Manager | the sheet is parsed again at the confirmation; a payment must be recognised in another spelling |
| FinanceOps request gate (`gate.ts`, `auth.ts`, `rate-limit.ts`, `session.ts`) | times of admitted requests, a database session | configuration, signature, rate limit, form and file, sign-in | what is checked before what; a window that forgets; a session that expires |
| FinanceOps bill intake (`lib/financeops/persist.ts`, migration 0023, `review.ts`, `finance-intake-workspace.tsx`) | `finance_intake_submissions`, `supplier_bills`, `documents`, `document_links`, storage | validate, propose a draft; staged: received, bill created, document attached, complete; resolve the entity or supersede, flag, reject, correct, verify | a staged saga resumed by retries, against a reviewer whose screen is old |
| Bill verification, supplier bills, vouchers | `supplier_bills`, `payment_vouchers`, `audit_logs` | verify and revert; generate, edit, issue, void, delete | compensation that may fail; look, then insert, then add the item |
| Claims (`api/claims/*`, `claims-workspace.tsx`) | `claims` with lines, advances and history | save, submit, check, approve, settle; import a card statement | check and update are two calls; a save is many |
| Bank reconciliation, phase 3A (`api/bank-imports`, `api/reconciliation`, 0009, 0022) | import batches, `bank_transactions`, allocations | parse, edit and confirm an import, discard; suggest, confirm, unmatch | two confirmations; amounts checked one allocation at a time |
| Documents (`api/documents/*`) | `documents`, `document_links`, storage, the evidence status of a bill | upload, link, archive, delete, compensate | two systems and a compensation that may fail |
| Recurring bills | obligations, bills, schedules | generate this month's bills, edit an obligation | two people at once; a request that outlives its month |
| Supplier and recurring import | batches, suppliers, obligations | parse, decide, confirm, discard, revert | discarded while its rows are still to come, or while it is being confirmed |
| Students, programmes, intakes, enrolments | their tables, import batches | save, merge, archive, enrol; import and revert | check before write; a revert of two statements beside work on the same students |
| Logins (`settings/users`, `api/admin/users/create`, 0022) | profiles, permissions, access to entities | create and take back, edit in four writes | no transaction around them |
| SQL package, Stripe, screens | an export, a subscription, nothing | see `PROJECT.json` | see section 8 |

How they interact: Hermes capture, the old register's import and the screens write the same register rows. A supplier bill
and its invoice document count towards the documents of a payment that links it, and deleting
the bill unlinks it. Matching reads payments and bank rows and writes matches and statuses. The gate hands a request on to the intake
or the capture. An approved claim and a verified bill each become a voucher. The
roles (`owner`, `finance_manager`, `finance_staff`, `data_entry`, `management`, the FinanceOps identity, which
is itself a `data_entry` user) are shared by all, and the logins decide who has them.

What makes each of them correct:

- *Register*: matches are one to one; the evidence a review rests on stays while it matters;
  what is posted is what was reviewed; the stamps tell the status; a role does only its own part.
- *Capture*: one intake is one payment, whatever is delivered how often; no evidence is claimed
  that is not stored; a failure anywhere is repaired by the retry; people's decisions are not
  undone by a delivery that started earlier.
- *Import and matching*: a line of a statement is stored as often as the statement has it, also after a failure between chunks; a
  rejected pair is not suggested again; no pair is called likely on account and date alone.
- *Old register*: a payment enters once, in whatever spelling.
- *Gate*: no window holds more requests of a key than allowed.
- *Bill intake*: the stage never says more than is stored; an intake is resolved or superseded, never both; a verdict is
  final; nothing exists for an entity the identity may not act for; a failure anywhere is repaired by the retry; what a
  machine guessed is verified only by a person who confirmed it.
- *Claims and vouchers*: nobody signs their own claim; no voucher without a signature, nor two for one claim; amounts stay what they were once submitted, and
  an issued voucher stays what it was.
- *Reconciliation*: what is allocated of a transaction never exceeds it, and its status says how much; a row of a statement becomes one transaction, which keeps it.
- *Documents*: what people see has its file. *Recurring bills*: a schedule moves on only with its bill.
- *Imports*: only valid lines, nothing from a discarded preview, nothing left of a reverted batch, and nothing removed that people were seen to work on.
- *Logins*: access to entities carries the role of the profile, unless a change stopped midway.

## 2. Modules

| Module | What it is |
|---|---|
| `BankTie` | the abstract promise about bank matches: ties are one to one, and are made and undone only while the payment is not held |
| `PaymentRegister` | the register, its documents and its matches, one action per SQL statement with the trigger that accepts it |
| `PaymentCapture` | one intake delivered by Hermes, one action per database or storage call, with failures, retries and people |
| `IntakeLedger` | the abstract promise of the intake table: stages one by one, resolved or superseded, verdicts final |
| `BillIntake` | intakes of supplier bills, one action per call of a delivery, the row rules of 0023, and the reviewers |
| `ReviewRace` | the two triggers at READ COMMITTED: a statement is a decision and a later commit |
| `Permissions` | what a signed-in person may do, as `current_user_can` decides it |
| `Claims` | one claim: the status route, the save route, the trigger and the policies |
| `Disbursement` | vouchers of an approved claim or a verified bill, with `Claims` |
| `StaffAccess` | logins: created and taken back, and edited in four writes |
| `BankImport`, `BankAllocation` | phase 3A: a statement becomes transactions; a transaction is allocated |
| `StatementImport`, `Matching` | the register's bank rows, and the suggestions made of them |
| `RegisterImport` | the one-time import of the old register |
| `RequestGate`, `IntakeReview` | before the intake, and after it: the gate; the validation, the proposed bill and the review screens |
| `ClaimImport`, `ClaimForm` | a card statement becomes a claim; the form a claim is saved from |
| `Documents`, `RecurringBills`, `SupplierImport` | as their names say |
| `StudentRecords`, `StudentImport` | students and what they join; their import and its revert, which includes the records |
| `MCPaymentRegister`, `MCPaymentCapture`, `MCBillIntake`, `MCDisbursement`, `MCOperations` | instances for TLC |
| `PaymentRegisterProofs`, `PaymentCaptureProofs`, `BillIntakeProofs`, `DisbursementProofs`, `BankImportProofs`, `DocumentsProofs`, `CountingProofs`, `OperationsProofs` | theorems with their proofs |

All modules keep to one convention. A request that makes several calls is a record with the step it has reached and what it has
read so far; each call is an action; and where a request can die, there is an action that ends it after any call.
What it read stays as it was read, which is what makes it stale.

### PaymentRegister

Each variable is a column, or a group of columns that change together, as a function of the
payment. `details` stands for the columns `detail_changed` compares, as a version;
`supplier_bill_id` is among those columns in the code and is the variable `bill` here, because a deleted bill changes it by a route
of its own (a nested update, which the trigger lets through even when details are locked). A
note and the stamp set with it are one value. `stamps` holds which of the four `*_at` columns
are set. `match[p][b]` is the status of the match row of the pair; `fbm` has one row per pair,
"none" is its absence. `reviewedDetails` and `basis` are history variables: what review last
opened on, and whether it was a match. They are read by no guard.

`Actor` covers every role. The FinanceOps session is one of them, so what it may do to its own
captures at any time is part of the same next-state relation.

An action is one statement. Its guard is the trigger's (and the index's), not the screen's: a screen
works on rows loaded earlier, so whatever it hides may have become legal and whatever it offers
may have become illegal. A filter the statement itself carries would be part of the guard; here
the filters (`.in("status", ...)`) are implied by the trigger. Flows of two statements, such as
confirm-then-move and unmatch-then-return, are two actions. No screen sends a
statement that edits the details and moves the status at once, so there is no such action.
The one statement that does both a move and a recording is posting, which carries the SQL
reference.

What a reader may miss in the code and finds in the model: `ReopenMatch` (the trigger allows it,
no screen offers it), `RemoveDocument` and `SetBankNA` at every status (the trigger does not look), and
`InsertConfirmed` (a manual match needs no earlier suggestion).

### BankTie

Two variables: the set of ties and the set of held payments. `PaymentRegister` maps its confirmed
matches to `ties` and its payments in finance review or beyond to `held`. The abstract module does
not know suggestions, roles, documents or statuses. What it adds to `OneToOne` is *when* a tie may
change, which no state invariant can say.

### PaymentCapture

`persistPaymentIntake` is a sequence of calls, and a delivery is a record of what it has learned so
far: the status it saw, the live documents it knows, the position in the declared documents.
`seen` is the point: the finalise decides on it, long after it was read. The actions are
`InsertPayment`, `ReadExisting`, `ListDocuments`, `UploadObject`, `InsertDocument`, `Finalise`;
`TurnToNext` advances over documents that an earlier delivery stored. `Fail` is any call that fails, a
function that dies, or an answer that is lost (it applies to a delivery that has answered too, where
Hermes cannot tell). `Redeliver` is external: Hermes sends a failed intake again. `People` is
everything a person can do to the payment meanwhile; all statuses from `bank_matched` on are one
value, "beyond", because the FinanceOps session treats them alike.

Left out: the identity and entity lookups before the insert, the duplicate search and the attention
flags, which read tables no action here changes; and the 403 and 422 answers, which are final
and change nothing.

### BillIntake and IntakeLedger

`persistBillIntake` stores the intake, then creates the draft bill, uploads the file, inserts the document, links it to the
bill and last to the intake; each call is an action, and `pc` of a delivery is the call it makes next. `row[i]` is the intake's row:
`entity_id`, `process_state`, `review_status`. Bill and document have ids derived from the intake's, so `bill[i]`, `objects`,
`documents` and `links` are indexed by intakes: that is the adoption of earlier work that makes a retry safe. Between its calls a delivery keeps no more than its place
and whether it is a replay, because the updates send only the columns they change; what it decided on earlier is in its place.
That staleness is the point: review status and entity are looked at once, in `Advance`.

`UpdateAllowed` is the trigger's answer to an update by FinanceOps; `Resolve` and `SetReview` carry the trigger's guards for
reviewers, narrowed to what the review screen offers. `SupersedeRefused` is the insert trigger, which runs before the unique
index: `InsertIntake` keeps that order. The release of a bill (`/api/bills/verify`) is `ReadGate`, `ReleaseBill` and `RevertRelease`; a
revert may come any time after the release, as the audit insert may take any time. `passed` holds
the releases between the two calls. `Redeliver` is external: a 5xx is sent again, and so is an intake whose status
endpoint says `resubmit_same_intake` (`Resubmit`).

`IntakeLedger` is the promise of the table alone: a stage and a verdict per intake, which `BillIntake` maps from `process_state`
and `review_status`. It says what no state invariant says: that stages are passed one by one, in whatever order
the deliveries that hold older rows write.

Left out: deliveries with another payload (refused, nothing changes; `PaymentCapture` models the same check); the identity's kill switch and the lookups
before the insert; flags and duplicate matches as data, soft duplicates; corrections of a draft (`IntakeReview`); deletion of documents (`Documents`). A bill cannot be deleted by a user since 0022 withdrew the privilege.

### ReviewRace

The register model makes a statement atomic. In PostgreSQL it is not quite: a BEFORE trigger at READ COMMITTED reads
other tables as last committed, and neither trigger locks what it reads. Here a statement is
`Decide*` (the row lock is taken, the trigger has read and accepted) and `Commit*`, and statements
on different rows overlap. It shows which claims of the atomic model need more than the code gives.

### Permissions, Claims, ClaimForm and ClaimImport

`Can(person, permission)` is `current_user_can`: the role, what is granted to the person alone, and whether the session passed
the second factor. Viewing and uploading documents go by the role alone (`ByRoleAlone`): a grant adds nothing there, and `management` may do neither.

`Claims` has one claim, its lines and its advance. A status request is a record in `moves`: it read the status, decided, and
updates by id alone. A save is a record in `saves` that writes the header, deletes what the form lost, writes line by line and then the
advances, and stops where the database refuses. Totals are kept by a trigger within the statement that changes a line, so
`Gross` and `Net` are operators of the state. The trigger and the policies look at the row as it is when the statement arrives;
that is what saves the properties from the stale requests.

`ClaimForm` is the other end: the form, the lists it was filled from and the request behind it. A line is known by its client
key, which no index makes unique, so a copy is a second line: a half-failed save that is sent again doubles lines
(section 5). `ClaimImport` is a month of card transactions: parsed into rows, mapped and corrected on the screen's copy, and
confirmed into one claim. Which rows pass the validation is the constant `ValidLine`. When the ids of the stored rows cannot be read, the route counts every row as failed and writes
none (`LookUpCardRows`).

### Disbursement

The vouchers of an approved claim (`PrepareClaimVoucher`, one database function) and of a verified bill (`generates`: look for a voucher, insert,
add the item, each a call), and what the form and the list do to them: edit, issue, void, delete. A voucher's items are the sum
of their amounts and whether one refers to the bill, which is all that the functions ask. `paidBy` is the voucher the claim names.

### StaffAccess

A login is known by its email. `creations` are the calls of the creating route with their compensation (deleting the login
deletes its profile, permissions and access), `pages` the settings page: profile, permissions, deletion of
access, insertion of access. An owner whose session has not passed the second factor changes no row by an update and is told that it worked;
such a save is in the model. `unsettled` is a history variable: the logins on which a change stopped midway or met another.

### BankImport and BankAllocation

`BankImport`: a file is parsed into a batch with a row per line of the preview, people edit and confirm it, and each row becomes
a transaction and is then marked. `booked` counts transactions per row, so that two confirmations show. A row is known by its content, which
is what the fingerprint is made of. `twiceRead` is history: the batches that a second confirmation read before the first had set them to "processing".

`BankAllocation`: one transaction, whose amounts are added up unit by unit, so that what is matched is the size of a set. Confirming a match is up to three calls: the manual exception, the allocation as a
suggestion, the function that confirms it. What is a step here follows from the locks. Every change of an allocation makes a trigger add up the allocations and then write the status of the transaction.

- The confirming function locks the transaction before it adds up, and waits for inserts under way, whose foreign key holds a share of that lock: one step, with no insert under way.
- The reversing function locks its allocation only. The trigger of its update runs the derivation twice (once for the old row, once for the new) and the function once more; the first may add up too early, but it
  writes the transaction, and what follows adds up again with that row locked. Only the last is left at the commit: one step.
- An insert derives once, and a reversal may commit between its sum and its write: `BeginInsert` and `FinishInsert`. `outdated` is history: the status was last written by an insert that a reversal crossed.

`IsReversal` is a column that no code writes; the run has it false, the theorems either.

### StatementImport and Matching

`StatementImport`: how the cells of a row become debit, credit or nothing, and the import: read the fingerprints, find or create the batch
of the file, read the highest row number, insert in chunks. A file is a sequence of rows; two of them may be equal, which
is why lines are counted. `overlapped` and `doubled` are history: two imports ran at once; a person asked for duplicates.

`Matching`: a pair is what the comparison of each of its fields says (`SignalOf`); `Score` adds the points as the code does and
`Confidence` cuts them. The run reads payments, rows and matches, ranks, inserts in chunks and marks payments;
people confirm, reject and unmatch meanwhile. A conflict fails its whole chunk.

### RegisterImport

How a row of the sheet is read (entity by name, account or choice; purpose; open or closed), the page with its choices, and the confirmation, which
parses again and inserts row by row. A Payment ID or reference is `<<key, spelling>>`: rows are the same when the keys are. `oldSeen` is history: no two
confirmations have overlapped, and none was sent by a person without access to the entity.

### RequestGate and IntakeReview

`RequestGate` is one server instance: a deployment's configuration and whether it is complete, the signature (the secret and whether it fits what arrives, current or
next key), the checks in their order, the limiter's window per key, and the database session that is refreshed before it expires. `Restart` loses the memory. `admitted` is the history of all
admissions of a key, and the limiter remembers positions in it, so that two admissions at one time stay two.

`IntakeReview`: which payloads are refused, what is flagged, the bill proposed, and the screens, each with
the rows it loaded last. A person may confirm a guess, correct the draft, resolve, flag, reject and verify. Texts are shapes, amounts are in tenths of a cent so
that rounding shows, dates are days.

### Documents

Files, rows and links are three sets, because storage and tables are two systems. An upload stores, inserts and links; a deletion removes
the file, the rows, and restores the file when the rows stay. What a reader may miss: the policies show a document only through a link, so the row that an upload inserts and reads back in one
statement is always refused, and the removal that compensates for it removes nothing. Documents come from the intake, which inserts without reading.

### RecurringBills and SupplierImport

`RecurringBills`: a schedule is the month from which an obligation is due; a request reads what is due, and for each inserts the bill of the
current month and moves the schedule. `month` moves on while requests are open.

`SupplierImport`: a row is the name of its supplier. The parse inserts the batch and, in another call, its rows, which look at nothing (`parses` holds what is still to come); the page asks about rows
that look like a supplier there is; confirming goes call by call, and inserts or updates a supplier and then an obligation. Discarding and reverting are one function each and lock the batch. `late` is the
history of a row that arrived in a batch already discarded.

### StudentRecords and StudentImport

Students with drafts, merges and documents; programmes, intakes and enrolments, whose routes check what they read and write later. A
record keeps its branch, and the branch decides the entity. `MergeStudents` is the function as 0022 replaced it.

The import hands each row to a database function that locks the batch. The revert locks the batch too, but not its students: `RevertLooks` is the statement that looks for activity and
marks, `RevertRemoves` the later one that deletes, and anything but work on the batch comes between them. Nobody sees the marks in the meantime (`reverting`). A student that is enrolled or part of a merge by then cannot be deleted, and that undoes
the revert (`RevertFails`). A merge moves legacy records and the reference of an import row to its student (`MoveImports`), and waits for a revert that has touched the same rows.
`StudentImport` extends `StudentRecords`, because what protects a student is what others did.

## 3. Runs

| Run | Question | Instance | Result |
|---|---|---|---|
| `lifecycle` | Do stamps, details and evidence agree with the status over any sequence of statements of every role? | 1 payment, 1 bank row, 1 bill, 2 versions of the details (one needs an invoice, one nothing), 1 note, 1 SQL reference | holds, 155,266 states |
| `matching` | Do competing matches stay one to one, and move only outside review? | 2 payments, 2 bank rows, all else trivial; symmetric | holds, 138,900 states |
| `capture` | Two deliveries at once, calls that fail, people at work: is nothing claimed that is not stored, and is a captured payment always finished? | 2 deliveries, 2 payload hashes (so same and different), 2 documents, 1 human document; 2 failures, 1 once a person has acted; fair | holds, 373,895 states |
| `capture_shared_file` | "never reported complete early" | one delivery, one file in two roles | violated, see section 6 |
| `capture_suggested` | "never touched again by FinanceOps" | one delivery, people | violated, see section 6 |
| `bill_intake` | Does the intake saga keep its promises under overlap, failure and review, and finish? | 2 deliveries, 2 intakes in three scenarios (an original and its successor, the same file twice, one intake sent twice), 2 entities of which 1 permitted, 1 failure; fair | holds, 191,635 states |
| `bill_intake_successor` | "the retry resumes" | the same | violated, see section 6 |
| `bill_intake_gate` | "needs a human Data Verified ... first" | the same | violated, see section 6 |
| `review_race` | "finance_review ... need a confirmed match" | 1 payment, 1 bank row, 2 sessions | violated, see section 6 |
| `disbursement` | Do stale requests, edits and compensations keep signatures, amounts, vouchers and logins straight? | 2 users (finance staff, manager), 1 line of at most 1, 2 vouchers (symmetric), 1 bill; 2 logins, 1 entity, 1 creation, 2 pages | holds, 199,516 states |
| `operations` | Do the smaller components keep their promises with requests at once and failures between calls? | see the table below | holds, 279,315 states |
| `student_revert` | "Students with later enrolments, documents or edits are protected" | the part `students_work` | violated, see section 6 |

The components of `operations` share no variable. A behaviour is of one *part*, in which one component moves and the others stay where they start; so their states add up
and do not multiply. `disbursement` has three parts: `claim` (two requests open at once, and the reimbursement), `all` (every operation, one request open at a time), `logins`.

| Part of `operations` | Instance |
|---|---|
| `bank` | 2 batches, 1 row, 2 requests, at most 2 transactions of the row |
| `allocation` | 2 allocations of one transaction of 2, a bill of 1 outstanding |
| `statement` | 2 files that share a row, one with two identical rows; chunks of 2, 2 requests, at most 3 imports |
| `matching`, `scoring` | 2 payments, 1 bank row, 2 runs at once, chunks of 1; every combination of comparisons |
| `documents` | 2 documents, 1 upload, 2 deletions |
| `recurring` | 1 obligation, 2 requests, 3 months |
| `supplier` | 1 batch of 1 row, 2 requests, at most 2 suppliers |
| `review` | 4 payloads (something missing, something left out, something wrong), 2 suppliers, 2 reviewers |
| `gate` | 2 requests, 2 configurations, times up to 4 |
| `card_screen`, `card_calls` | 2 card lines, one invalid, 2 files; one request and the whole screen, or two requests and one row |
| `form` | 1 claim, 1 line, at most 2 copies |
| `students_*` | 2 students and 2 import rows (symmetric), 2 import requests, 1 enrolment, 1 programme, 1 intake, 2 branches; six parts, one per kind of concurrency |
| `register` | 2 sheets, 2 confirmations, 1 entity, 1 account |

What the properties say:

- `ReviewedOnItsMatch`: a payment whose review opened on a confirmed match has a confirmed match for
  as long as it stays in review or later. Several guards hold it together: unmatching looks
  at the payment's status, re-opening review at the match, and the two tables change independently.
- `DetailsFrozen`: the details of a payment in review, posted or reconciled are those the reviewer
  saw, through returns, reversals and re-posts.
- `StampsTellTheStatus`: a posting or reconciliation stamp never outlives its status; a stage is
  never reached without the stamps of the stages before it (rows imported as closed excepted).
- `OneToOne` and `ImplementsBankTie`: see `BankTie`.
- `AcceptedPayloadIsTheRows`: two different payloads of one intake are never both accepted.
- `EvidenceIsStored`: no document row of a delivery lacks its object.
- `CompleteHasEvidence`: a delivery told "complete" can point to a row of every required role.
  It says "live or since removed" because a reviewer may remove a document between the insert and the answer.
- `MovedOnStays`: a delivery does not move a payment that people moved past the early statuses.
- `CaptureSettles`: a captured payment that no person touches ends up with all its documents, in the
  right status, and stays so.

- `AttachedIsStored`: an intake whose document is attached, or that is complete, has its file, document, link and bill.
- `OnlyPermittedEntities`: nothing is created for an entity outside the identity's limits, also when a reviewer chose it.
- `OneOfTwoPaths`: a superseded intake never gets an entity, a bill or a file.
- `LedgerHolds`: every step of the saga and of the reviewers is a step of `IntakeLedger` or a stutter.
- `NeverStranded`: no intake stays for ever in a state where only FinanceOps can bring it further. An intake that a reviewer holds or
  rejected, whose bill was released, or whose entity is not permitted waits for people instead; a successor whose original is rejected is excepted (section 6).

- `NobodySignsTheirOwnClaim`: a claimant is never the person who checked or approved, however stale requests and changes of the claimant reach the row.
- `VoucheredClaimIsSigned`, `ClaimHasOneVoucher`: while a voucher of the claim exists somebody else has approved the claim, also when a
  stale request moved it back; and deleting a voucher and preparing again never leaves two.
- `SubmittedAmountIsFinal`, `IssuedVoucherIsFinal`: what was submitted, or issued, is not changed by a save, or a generate request, that began before.
- `SettledAccessAgrees`: a login that nobody is changing has entity rows with the role and the activity of its profile, unless a change stopped midway or met another.
- `OneTransactionPerRow`: a batch is not discarded once it has made a transaction, so that every transaction keeps the preview row it came from; and a row becomes a second transaction only if two
  confirmations both read the batch before either set it to "processing". It is not claimed that a discarded batch makes none: rows inserted after the discard can still be confirmed by a request that
  read the batch before (section 5).
- `MatchedWithinAmount`: what counts as matched never exceeds the transaction, and its status says how much of it is, whatever inserts, confirmations and reversals overlap; except that an insert that added up
  before a confirmed allocation was reversed writes what it found, and the status stays wrong until the next change. It never says "exception" unless somebody recorded one.
- `EveryLineOnce`: an import that answers has stored every line as often as its file has it; nothing is stored twice, unless imports overlapped or a person asked for
  duplicates. The first half needs the row numbers and chunks of a resumed batch; the exception is real (section 5).
- `DecidedPairStays`: no run suggests a pair again that somebody decided, also a run that read the matches before.
- `LikelyHasGrounds`: the points cannot add up to "likely" from account and date, or past a wrong amount; nor to "strong" without the reference.
- `OldPaymentOnce`: a payment with an id or a reference enters once, unless confirmations overlapped, the caller could not see what was there, or a page of the register missed it (section 5; the model reads the register in one step).
- `VisibleDocumentHasItsFile`: a document that people see has its file, or a deletion is about to put it back, or was cut off before it could.
- `ScheduleFollowsBill`: once a schedule has moved, the bill of the month before it exists.
- `DiscardedMadeNothing`: the preview that was discarded yields no supplier and no obligation, also by a confirmation that read it before; what a discarded batch has is of rows that arrived after the discard (section 5).
- `GuessesAreConfirmed`: a due date, an amount or a supplier that FinanceOps did not state and the proposal filled in was ticked by the person who verified,
  whatever the screens showed when.
- `WithinBudget`: no window, wherever it starts, holds more admitted requests of a key than the limit.
- `OnlyValidLinesImported`: a row that fails the validation never becomes a claim line, by whatever way it got to the confirmation.
- `RevertedLeavesNothing`: a reverted batch leaves no imported row and no legacy record, even with a confirmation still at work.
- `RevertSparesWhatItSaw`: a student that a revert removes had no enrolment, document, edit or other record when the revert looked, and is neither enrolled nor part of a merge when it is removed. That it has no document and no edit
  by then is `RevertSparesActivity`, which fails (section 6).

### Bounds, and why they are enough

*Register.* No rule of a payment's own columns reads another payment, except the two indexes. So one payment shows
everything about the lifecycle. Two payments and two bank rows give each index
something to refuse in both directions; the theorems cover every other size. One bill and one
required role are enough, because the rules ask only whether the missing set is empty. The `matching`
instance has no notes and no SQL reference, so a payment reaches review only through a match and stops at
`ready_for_sql`; that is where matches are at stake. The theorems are about the same specification without any of these bounds.

*Capture.* Two deliveries are the least that race; two hashes make them equal or different. Two
documents are the least with a position between them. `MaxFailures` bounds failed calls: two, so that a retry can fail as well, of which only
one where people act (`MCNext`); the first delivery has one of the two payloads, because it does not matter which.
A third document or delivery adds only repetitions of the same steps. No other counter is bounded.

*Bill intake.* Intakes meet in two ways, supersession and the same file; each is a scenario of two intakes. Deliveries of
one intake meet in the third. Two entities tell permitted from not. `MaxFailures` bounds failed calls and failed audits together; with 2 instead
of 1 the run takes 540,197 states and holds as well.

*Disbursement.* Two people are the least of whom one may sign for the other; a request open beside another is the least that is stale, which the part `claim` has for the claim. Amounts
up to 1 tell paid from unpaid, more from less. Two vouchers are what `ClaimHasOneVoucher` forbids. In `all` there is no advance and no save begins
once there is a voucher; `claim` has both. In `logins` a second page opens only with the
second factor, on an active login, beside a creation that is through; the proof needs none of these restrictions.

*Operations.* Each part has the least that can race: two requests of a kind, on one or two of the things they work on. `bank` has one row because requests meet on a row; a
second transaction of one row is reached (`MaxBooked`). `allocation` has two allocations, so that one can be inserted while the other is reversed. `statement` needs a file with two equal rows (the lines are counted), a second file with one of them, and chunks smaller than a file;
`MaxImports` lets an import fail and be sent twice more. `recurring` needs three months, so that a request can outlive one. In `gate`, times up to 4 hold two windows of 2 and an expiry.
`review` has one payload for each way a draft is filled in or refused; one reviewer ticks and the other corrects and decides, which is how a screen becomes old. Students and card statements are
split into parts, because a full screen and two requests multiply without meeting elsewhere. `register` has one choice of the page before a confirmation and none after it, since
the confirmation carries its choices with it; a second confirmation follows where the account is chosen, which is where both rows of the first sheet enter. These restrictions are written in
`MCOperations`; each keeps what its part is about. The symmetry is of students, import rows and requests; no definition chooses among requests.

`CHECK_DEADLOCK FALSE` is set in every configuration. Nothing obliges a person to act, the instances have finitely many deliveries, batches and months, and several
requests end for good, so the system may come to rest. In `ReviewRace` and `PaymentRegister` no state is without a successor, and the setting changes nothing.

### Fairness

`PaymentCapture` and `BillIntake` assume the same fairness: weak fairness of each delivery's handler, because a function that
has been invoked runs on until it answers or dies (its death is `Fail`), and weak fairness of
`Redeliver`, because the integration contract demands it: a caller "must treat any 5xx as not
delivered and retry with the same `intake_id`" (`src/docs/FINANCEOPS_INTEGRATION.md`). The handler answers 503 with
a `Retry-After`. In `BillIntake` the caller also follows the status endpoint, whose `next_action` exists to tell it when to
re-send an intake. Failures are finite (`MaxFailures`): no retry helps a service that always fails. People owe
nothing and have no fairness.

The runs `disbursement` and `operations` state only safety properties and assume no fairness: nothing there retries by itself.

## 4. Proofs

56 theorems, in eight modules. Each holds for any values of the constants that satisfy the named assumptions of the module it is about: any number of payments, deliveries, logins, requests, rows, lines, months, failures. Every invariant
and every action property that a passing run checks is among them.

| Module | Theorems |
|---|---|
| `PaymentRegisterProofs` | `TypeCorrect`, `ReviewedOnItsMatchHolds`, `DetailsFrozenHolds`, `StampsTellTheStatusHolds`, `RegisterImplementsBankTie`, `OneToOneHolds` |
| `PaymentCaptureProofs` | `CaptureTypeCorrect`, `AcceptedPayloadIsTheRowsHolds`, `EvidenceIsStoredHolds`, `MovedOnStaysHolds`, `CompleteHasEvidenceHolds` |
| `BillIntakeProofs` | `IntakeTypeCorrect`, `AttachedIsStoredHolds`, `OnlyPermittedEntitiesHolds`, `OneOfTwoPathsHolds`, `ImplementsIntakeLedger` |
| `DisbursementProofs` | `DisbursementTypeCorrect`, `NobodySignsTheirOwnClaimHolds`, `ClaimHasOneVoucherHolds`, `VoucheredClaimIsSignedHolds`, `IssuedHasItemsHolds`, `SubmittedAmountIsFinalHolds`, `IssuedVoucherIsFinalHolds`, `StaffTypeCorrect`, `SettledAccessAgreesHolds`, `EveryTypeCorrect` |
| `BankImportProofs` | `BankImportTypeCorrect`, `OneTransactionPerRowHolds` |
| `DocumentsProofs` | `DocumentsTypeCorrect`, `VisibleDocumentHasItsFileHolds`, `RecurringTypeCorrect`, `ScheduleFollowsBillHolds` |
| `CountingProofs` | `GateTypeCorrect`, `WithinBudgetHolds`, `BankAllocationTypeCorrect`, `MatchedWithinAmountHolds`, `StatementTypeCorrect`, `EveryLineOnceHolds` |
| `OperationsProofs` | `LikelyHasGroundsHolds`, `DecidedPairStaysHolds`, `OnlyValidLinesImportedHolds`, `OldPaymentOnceHolds`, `DiscardedMadeNothingHolds`, `GuessesAreConfirmedHolds`, `RevertedLeavesNothingHolds`, `RevertSparesWhatItSawHolds`; `MatchingTypeCorrect`, `ClaimImportTypeCorrect`, `ClaimFormTypeCorrect`, `RegisterImportTypeCorrect`, `SupplierTypeCorrect`, `IntakeReviewTypeCorrect`, `StudentRecordsTypeCorrect`, `StudentImportTypeCorrect`; `PartsAreTheirComponents`, `OperationsTypeCorrect` |

A theorem named *X*`Holds` is `Spec => []`*X* of the module that defines *X* (or `Spec =>` *X*, where *X* is an action property); *X* itself is in section 3. `IssuedHasItems` says that no voucher is issued empty.

*Register.* The assumption is `DataAssumption`: the required documents of each version are a set of document roles, and `None` is none of the
values it stands in for. `TypeOK` is inductive and every other proof uses it. The next-state relation has some thirty actions, and
most touch one variable; frame lemmas say once what each family (capture, decisions, documents, bills,
matches) leaves alone, so that each invariant is proved with a step per family and a closer look only
at the actions that disturb it. With `TypeOK`, each of the three invariants about reviews is inductive:

- `DetailsFrozen`: details change only outside the locked statuses (`MayEdit`), and the only ways into them from
  outside, review and a closed import, record the details at that moment.
- `ReviewedOnItsMatch`: a confirmed match is lost only by `RejectMatch`, which asks for an early or
  `bank_matched` payment; and the status becomes locked from outside only with `basis` set anew.
- `StampsTellTheStatus`: each move adds the stamp it needs, and a move back clears those that no longer hold.

The refinement needs no strengthening beyond `TypeOK`: a step that changes a confirmed match leaves every status alone
and maps to `Tie` or `Untie`, a step that changes a status changes no match and maps to `Hold`, `Release` or a stutter.
A step of `Tie` needs the exclusion of every other tie, which is what `NoOtherConfirmed` gives.
`OneToOne` is then proved once, of `BankTie`, and carried over.

*Capture.* None of the properties is inductive, because they speak of a delivery that has answered. `IInv` says of each delivery what it must have seen to by the step it is at: past the insert the row is
there, past the comparison of payloads the row holds this delivery's payload, and before the insert of a document its object is stored. For evidence a second invariant, `EInv`, says that what a delivery counts as known has had a
row. That theorem has the premise `OneRolePerFile`, and needs it: section 6, 1.

*Bill intake.* `IInv` is `Typed`, three facts about rows (what is attached has its file; only permitted entities; a superseded row waits), and `Place(d)`, which relates the call a delivery makes next to what the row and the storage must hold by then: past `Advance` the entity is permitted, past the bill's link the bill is there, and so on. It must
be kept by every other delivery and by the reviewers; a lemma says that rows only grow, which keeps `Place` of all others. The refinement of `IntakeLedger` uses the same invariant: an update that a delivery sends from an older place is refused by the trigger or leaves stage and verdict as they are.

*Claims and vouchers.* A status update is by id alone and may move a claim backwards, so the invariant rests on what such a move keeps: an approver once recorded is never erased, whoever asks for a settlement read an
approved claim, and no request asks for `draft`. A claim approved or beyond, or with a voucher, has an approver on record, and the trigger kept that person apart from the claimant.
For logins, `Calm(u)` says of a login without a mark that who is at work on it is alone: a creation's login has no rows yet, a save has written the profile it shows, or, without the second factor, writes
nothing. A second request that comes to a login at work is what sets the mark.

*Phase 3A import.* A batch that has made a transaction is past confirmation and stays there, as the statuses of a batch only go forward once it is confirmed; a batch that may be discarded is unconfirmed and has therefore made nothing. Requests at work keep a batch they
read as confirmed. One live batch per file, the unique index, keeps a second parse away. For the second half of the property, `OneAtATime`: where no two have read a batch together, at most one confirmation is at
work on it, and no row it has still to do (`Due`) has a transaction.

*Documents, recurring bills.* Each invariant is the type of the requests, the property, and one link between them: links are of documents; what a request has generated, and not yet moved the schedule for, is in the table.

*Counting.* Three invariants compare numbers: of admissions with a limit, of matched units with an amount, of stored rows with the lines of a file. All three are cardinalities of finite sets
(positions in a history, units of allocations, positions in a file), so that a step adds one element or takes some away and the library's theorems on finite sets carry the proof, with no induction.

- `WithinBudget` needs to know that the limiter forgets only what has left the window (`RemembersRecent`), and that no admission is of a time to come. A window that a new
  admission falls into then holds only what the limiter still remembers, whichever time it starts at.
- `MatchedWithinAmount`: an allocation that is confirmed was checked against the sum of all others, and any other change of a row adds nothing. What an insert under way has found is right as long as no reversal crossed it
  (`FoundIsRight`). The set of allocations may be infinite; that finitely many were ever made is part of the invariant.
- `EveryLineOnce`: a line that a request need not insert, or has inserted, is stored (`RestIsStored`); a request that is alone has left only lines that are not (`LeftIsNotStored`); the fingerprints of two
  lines of a file differ (`FingerprintsDiffer`, as the later of two equal lines comes after one more); so there is an injection from the lines of a file into the stored rows.

*Types.* The type invariants say more than the sort of each variable: that an import makes closed payments only for an owner, that no stored intake ends before it begins, that a bill is proposed only from a payload that was accepted.
None is inductive, because what a request holds decides what it writes later. For each component an invariant named `...Types` describes the record of a request or a screen at each step it may be at, and what it
knows by then; start and step are proved of that, and it implies the type invariant. `RegisterImport` needs that `OldPage` and every `OldCallKnown` carry choices that fit the file they were made for; the records of students that a row is
written as it was checked (`IntakeFits`, `EnrolmentFits`); `ClaimImport` what the rows of a preview may be after any correction.

*The composition.* `PartsAreTheirComponents` says that a behaviour of `MCOperations` is one of every component's own specification: the part that moves takes one of its component's steps, those that rest stutter. What is proved
of a component therefore holds in the specification the run checks, whatever its parts leave out. `OperationsTypeCorrect` and (for claims, vouchers and logins) `EveryTypeCorrect` are the composed type invariants. A part with
enrolments begins with an open intake, which needs a programme and a day to open it on (`OpenIntakeAssumption`); it is no behaviour of a student import by itself, and for the types it is treated apart.

*Operations.* The safety properties, under the specifications of their components, each with an invariant of its own:
`LikelyHasGrounds` by bounds on the points of each comparison, with no reference to how a state was reached; `DecidedPairStays` by `PairsTyped`, as the index lets a run insert only where no row is;
`OnlyValidLinesImported` by what may be a line of a call (`RouteAllows`), since rows are checked after they left the screen; `DiscardedMadeNothing` by what a supplier or obligation is made of: its row is still there, and the
discard, which locks the batch, looks for both and deletes all rows there are, so that those that come later are late; `OldPaymentOnce` by three facts about a confirmation: its remaining rows are apart from each other, new to the register, and nobody else inserts.
`GuessesAreConfirmed` by `ReviewInv`: every row of a complete intake, the stored one and each that a screen shows, has the flags of all guesses, and a screen has a box for each flag it shows, so that an old
screen asks for no less than a new one. `RevertedLeavesNothing` is inductive beside the columns of the tables (`RevertInv`): a row comes to count, and a legacy record to be, only
while the batch is open, and only the revert itself makes a batch reverted. `RevertSparesWhatItSaw`: of all steps of `StudentImport` and `StudentRecords`, `RevertRemoves` alone
gives a student the status "removed"; and until then every row the revert has not marked refers to a student it saw idle, or to none, because the rows of a locked batch change only by a merge, and what a merge has
touched is not deleted (`RevertSaw`).

*The limits.* The theorems of the register are about atomic statements. `ReviewRace` shows that without a lock on the row
a trigger reads, `ReviewedOnItsMatch` can be broken by two overlapping statements. `DetailsFrozen`,
`StampsTellTheStatus` and `OneToOne` rest only on the row being updated, which PostgreSQL locks, and on unique
indexes.

*Assumptions.* Those of the constants are in the modules: sets that must not contain a null, bounds that are natural numbers, functions with the domains they are used on; `BankAllocationAssumption` says that the transaction is not of zero,
`StudentRecordsAssumption` that there is a branch (migration 0013 inserts the first ones). `OneRolePerFile` is a premise of one theorem only, because the code needs it too. No theorem rests on an assumption about an operator.

*Only model-checked.* `CaptureSettles` and `NeverStranded`, the liveness properties, hold under fairness, which is out of the prover's
reach. So is what `RowState`, `Reading` or `InferEntity` compute for given cells beyond their types. Violations are shown by TLC.

## 5. Hazards

`PROJECT.json` lists, line by line, what is hard to test in this code, and the properties about each. Seven have none:

- After an unmatch whose second statement fails, the payment is `bank_matched` without a match. The database lets a
  reviewer return it; the register screens work from what they loaded. Nothing says that the status tells whether there is a match.
- Documents can be removed, and a bank-match-not-applicable decision withdrawn, after `ready_for_sql` and even after
  posting. Nothing checks them again before posting or reconciling, and no document promises it.
- Two intakes with the same file, delivered at once, both pass the duplicate check and both create a bill. The code calls the check advisory.
- Allocations of several transactions to one bill are each checked against the bill's outstanding amount, which confirming does not reduce. The promise is per transaction only.
- Two imports of overlapping statements at once both store the lines they share. `EveryLineOnce` excepts them, because nothing in the code keeps the two apart.
- A release whose audit row fails is reverted, and if that fails too the answer says so. The revert is a step of `BillIntake`, so the other properties hold beside it; none is about the audit row.
- Stripe's events may arrive out of order; the last one written wins. Not modelled.

What else a maintainer may want to know. The models allow most of it, and nothing in the repository promises otherwise:

- *Permissions*: unticking a permission in the settings has no effect where the role grants it anyway. Ticks that mean nothing for a `data_entry` login become effective
  between the write of its new role and the write of its permissions.
- *Logins*: a save by an owner without the second factor changes nothing in the profile and is reported as saved.
- *Claims*: a stale status request can move a claim back; a save resets the status of the receipts; a save that failed half way and is sent again doubles its lines (`claims-workspace.tsx`: the form learns the ids of new lines only from a complete answer). A claim's voucher is made of the net
  amount (0022:2224), and as a draft it can be edited to any amount (`phase2-workspace.tsx:204`); nothing compares it with the claim again.
- *Statements of phase 3A*: two confirmations of a batch that both read it before either sets it to "processing" import it twice. A confirmation that dies leaves the batch in "processing", where it can only be archived. A discard may
  find the rows of its batch not yet inserted; they come later, and a confirmation that read the batch before the discard still books them.
- *Reconciliation*: a suggestion inserted while a confirmed allocation is reversed can leave the transaction "matched" with nothing allocated, until an allocation of it changes again.
- *Suppliers*: the same late rows. The batch keeps its status when it is discarded, and the confirmation looks at nothing else, so rows that arrive after the discard can be confirmed at any time.
- *Card statements*: two confirmations of one batch make two claims of it.
- *Old register*: the preview may be older than the default entity and the account map at the confirmation, which parses again with those it is given. Existing rows are read in pages without an order (`services.ts:283`), so a page may miss some; rows
  with neither id nor reference cannot be recognised.
- *Students*: after a merge, the import row of the source refers to the target, which the merge's own record keeps from being deleted: unless the target has activity that marks it blocked, the batch can no longer be reverted at all. A confirmation that is at work while its batch is reverted can set the batch to done again (`students/import/confirm/route.ts:91`), though nothing of it comes back.

## 6. Findings

1. `capture_shared_file`: `attachDocument` takes any unique conflict for "this document is attached". If an intake
   declares one PDF as both invoice and payment evidence (the schema accepts it), the second insert hits the index on
   live files and is not stored, but its role is counted. The answer says the documents are complete and the status
   becomes `ready_for_bank_match`, against the file's own header comment. The gate of finance review still counts rows, so the
   payment is stopped there.
2. `capture_suggested`: the finalise writes by id alone on a status read before the documents were attached, and the
   trigger lets the FinanceOps session take a payment out of `bank_match_suggested`. A mark of `runMatching` set in
   between is lost, against section 16 of the payment handover.
3. `review_race`: a move to finance review and an unmatch of the same payment that overlap can both
   commit. The payment is then in finance review with no bank evidence, against section 7 of the handover. With one session the property holds.
4. `bill_intake_successor`: the insert trigger checks supersession on every INSERT, a retry's included, ahead of the unique index. If a
   reviewer rejects the original after its successor was stored (a screen loaded before still offers it), each retry of the successor
   is answered 409 `supersede_rejected_intake`, and an unfinished successor can never be finished.
5. `bill_intake_gate`: the release gate finds the intake of a bill by the link that is written one call after the bill. A draft whose delivery is
   between the two calls, died there, or was refused the link because a reviewer rejected the intake, is released like a manual bill.

6. `student_revert`: the revert of a student import looks for later activity in one statement and deletes in a later one. Each sees what is committed when it starts, and only the batch is locked, so an edit saved or a
   document linked between them is not seen and the student is deleted; a document's link, which has no foreign key to students, is left behind. The page says that such students are protected. An enrolment or a merge
   in between does protect: the foreign key refuses the delete, and the whole revert is undone.

## 7. Plan

Done: `PaymentRegister` with `BankTie`, `PaymentCapture`, `BillIntake` with `IntakeLedger`, `ReviewRace`; then claims, vouchers and logins (`disbursement`) and the smaller components (`operations`);
and the theorems of section 4, which cover every safety property of the passing runs.

What is left, the most useful first:

1. An abstract specification of the reconciliation of phase 3A, as `BankTie` is of the register's, and its refinement.
2. Liveness of claims and imports, if a retry is ever added to them; today nothing obliges anybody to try again.
3. `ReviewRace` for the triggers of 0022, which read other tables in the same way.
4. The soft duplicates of the intake, payload conflicts and the kill switch in `BillIntake`.
5. A composition of `RequestGate` with `BillIntake` and `PaymentCapture`, so that a retry meets the limiter.

## 8. Not modelled, and why

- Presentation, demo data, the SQL package (an export of posted rows), exports and reports, downloads: no protocol state.
- Row-level security and MFA as such: they allow or refuse one statement. The roles appear as actors, and the checks of the finance functions are `Permissions`. In the register, an inactive user and an
  entity outside a user's access can do less than the model allows.
- Column checks that shape data (lengths, formats, amounts above zero).
- The parsing of files and the comparison of names and references: what they say is a constant or a choice. How the cells of a bank statement and of the old register are read is modelled.
- Numbers of claims, vouchers, students and enrolments, programme durations, categories, and the rows of audit and history that nothing reads.
- Entering a supplier bill by hand, which is one insert.
- `delete_duplicate_student`: the screens call it and no migration creates it.
- The kill switch, payload conflicts and soft duplicates of the bill intake; they refuse or flag and change nothing else.
- Stripe, and the starter template around it: calls to an external service with one row written per event.

## 9. Running

From this directory, with TLC and TLAPS installed and the community modules on the path:

    tlc -workers 2 -config MCRegisterLifecycle.cfg MCPaymentRegister.tla
    tlc -workers 2 -config MCRegisterMatching.cfg  MCPaymentRegister.tla
    tlc -workers 2 -config MCCapture.cfg           MCPaymentCapture.tla
    tlc -workers 2 -config MCIntake.cfg            MCBillIntake.tla
    tlc -workers 2 -config MCDisbursement.cfg      MCDisbursement.tla
    tlc -workers 2 -config MCOperations.cfg        MCOperations.tla

finish without an error, `MCCapture` and `MCOperations` in two to four minutes, and

    tlc -workers 2 -config MCCaptureSharedFile.cfg MCPaymentCapture.tla
    tlc -workers 2 -config MCCaptureSuggested.cfg  MCPaymentCapture.tla
    tlc -workers 2 -config MCReviewRace.cfg        ReviewRace.tla
    tlc -workers 2 -config MCIntakeSuccessor.cfg   MCBillIntake.tla
    tlc -workers 2 -config MCIntakeGate.cfg        MCBillIntake.tla
    tlc -workers 2 -config MCStudentRevert.cfg     MCOperations.tla

report the violations of section 6. To look at one component, leave only its parts in `Parts`. Every obligation of the proofs is proved by

    for m in PaymentRegister PaymentCapture BillIntake Disbursement BankImport Documents Counting Operations
    do tlapm ${m}Proofs.tla; done
