-------------------------- MODULE PaymentRegister --------------------------
(***************************************************************************)
(* The Finance Payment Register of migration 0024: the payments of one     *)
(* entity, their documents, and the matches that tie them to the debit     *)
(* rows of an imported bank statement, under the row rules the database    *)
(* triggers enforce (enforce_finance_payment_rules,                        *)
(* enforce_finance_payment_document_rules and                              *)
(* enforce_finance_bank_match_rules).                                      *)
(*                                                                         *)
(* An action is one SQL statement that a screen, an API route or the       *)
(* FinanceOps session issues, together with the BEFORE trigger that        *)
(* accepts it; a statement the trigger refuses changes nothing, so a       *)
(* refusal is an action that is not enabled.  A screen decides on the rows *)
(* it loaded earlier, so no guard below comes from a screen unless the     *)
(* statement itself carries it (an .eq or .in filter): the trigger is the  *)
(* authority.  A flow of two statements (confirm the match, then move the  *)
(* payment) is two actions, and anything may happen in between.            *)
(*                                                                         *)
(* A statement is atomic here.  What happens when the trigger's reads of   *)
(* other tables are not is the subject of module ReviewRace.               *)
(***************************************************************************)

CONSTANTS
  Payment,       \* rows of finance_payment_register, existing or to come
  BankRow,       \* debit rows of finance_bank_statement_transactions; a
                 \* credit row can take no match and is left out
  Bill,          \* supplier bills a payment may be linked to; the name of a
                 \* deleted bill may stand for a later one
  DocRole,       \* the document roles in play
  Detail,        \* versions of the columns detail_changed compares, the
                 \* bill link apart: type, beneficiary, amount, ...
  RequiredDocs,  \* required_documents of each version
  Note,          \* the reasons a reviewer may give
  SqlRef,        \* SQL reference and posting date, recorded together
  None           \* SQL NULL

ASSUME DataAssumption ==
  /\ RequiredDocs \in [Detail -> SUBSET DocRole]
  /\ None \notin Detail \cup Bill \cup Note \cup SqlRef

VARIABLES
  status,          \* the linear status, "none" before the row exists
  source_type,     \* who captured the row
  details,         \* the current version of the details
  bill,            \* supplier_bill_id
  invoiced,        \* bills whose invoice is on file
  notApplicable,   \* not_applicable_documents
  exception,       \* document_exception_note; its approval stamp is set
                   \* and cleared with it
  bankNA,          \* bank_match_na_note while bank_match_not_applicable
  sqlRef,          \* sql_reference with sql_posting_date
  stamps,          \* which of the *_at stamps are set
  liveDocs,        \* document roles with a row whose removed_at is null
  match,           \* status of the match row of a payment and a bank row
  reviewedDetails, \* history: the details finance review last opened on
  basis            \* history: why finance review last opened

register == <<status, source_type, details, bill, notApplicable, exception,
              bankNA, sqlRef, stamps>>
history  == <<reviewedDetails, basis>>
vars     == <<register, invoiced, liveDocs, match, history>>

-----------------------------------------------------------------------------
(* Vocabulary *)

FoEarly == {"captured", "documents_pending", "ready_for_bank_match"}
Early   == FoEarly \cup {"bank_match_suggested"}
Locked  == {"finance_review", "ready_for_sql", "posted_to_sql", "reconciled"}
Status  == Early \cup {"bank_matched"} \cup Locked

Source == {"manual", "financeops", "excel_import"}
Stamp  == {"reviewed", "ready_for_sql", "sql_posted", "reconciled"}
Basis  == {"match", "not_applicable", "import"}

MatchStatus == {"none", "suggested", "confirmed", "rejected"}

OwnerFM  == {"owner", "finance_manager"}
Reviewer == OwnerFM \cup {"finance_staff"}
Human    == Reviewer \cup {"data_entry"}
Actor    == Human \cup {"financeops"}

Exists(p) == status[p] # "none"

HasConfirmed(p) == \E b \in BankRow : match[p][b] = "confirmed"

MissingDocuments(p) ==
  {d \in RequiredDocs[details[p]] \ (notApplicable[p] \cup liveDocs[p]) :
      ~(d = "invoice" /\ bill[p] \in invoiced)}

DocumentsSatisfied(p) == MissingDocuments(p) = {} \/ exception[p] # None

BankEvidence(p) == HasConfirmed(p) \/ bankNA[p] # None

Init ==
  /\ status          = [p \in Payment |-> "none"]
  /\ source_type     = [p \in Payment |-> "none"]
  /\ details         = [p \in Payment |-> None]
  /\ bill            = [p \in Payment |-> None]
  /\ invoiced        = {}
  /\ notApplicable   = [p \in Payment |-> {}]
  /\ exception       = [p \in Payment |-> None]
  /\ bankNA          = [p \in Payment |-> None]
  /\ sqlRef          = [p \in Payment |-> None]
  /\ stamps          = [p \in Payment |-> {}]
  /\ liveDocs        = [p \in Payment |-> {}]
  /\ match           = [p \in Payment |-> [b \in BankRow |-> "none"]]
  /\ reviewedDetails = [p \in Payment |-> None]
  /\ basis           = [p \in Payment |-> None]

-----------------------------------------------------------------------------
(* A new row *)

Insert(p, src, d, s) ==
  /\ ~Exists(p)
  /\ status'      = [status EXCEPT ![p] = s]
  /\ source_type' = [source_type EXCEPT ![p] = src]
  /\ details'     = [details EXCEPT ![p] = d]
  /\ UNCHANGED <<bill, notApplicable, bankNA, sqlRef, stamps,
                 invoiced, liveDocs, match>>

\* "Record a payment" of the Payment Register screen.
CaptureManual(r, p, d) ==
  /\ r \in Human
  /\ Insert(p, "manual", d, "documents_pending")
  /\ UNCHANGED <<exception, history>>

\* The first statement of a Hermes capture, by the FinanceOps session.
CaptureFinanceOps(p, d) ==
  /\ Insert(p, "financeops", d, "captured")
  /\ UNCHANGED <<exception, history>>

\* A row of the old Excel register that is still open.
ImportOpen(r, p, d, s) ==
  /\ r \in Human
  /\ s \in {"captured", "documents_pending"}
  /\ Insert(p, "excel_import", d, s)
  /\ UNCHANGED <<exception, history>>

\* A row of the old register imported by the Owner or a Finance Manager, who
\* may bring a closed row in as closed and waive its documents.
ImportAsOwner(r, p, d, s, n) ==
  /\ r \in OwnerFM
  /\ s \in {"captured", "documents_pending", "posted_to_sql", "reconciled"}
  /\ Insert(p, "excel_import", d, s)
  /\ exception' = [exception EXCEPT ![p] = n]
  /\ IF s \in Locked
       THEN /\ basis' = [basis EXCEPT ![p] = "import"]
            /\ reviewedDetails' = [reviewedDetails EXCEPT ![p] = d]
       ELSE UNCHANGED history

-----------------------------------------------------------------------------
(* Columns a statement may change without moving the payment *)

\* Mutant of MayEdit: the lock on the details forgotten for reviewers.
MayEditAtAnyStatus(r, p) ==
  \/ r \in Reviewer /\ Exists(p)
  \/ r = "data_entry" /\ status[p] \in Early

MayEdit(r, p) ==
  \/ r \in Reviewer /\ status[p] \in Early \cup {"bank_matched"}
  \/ r = "data_entry" /\ status[p] \in Early

EditDetails(r, p, d) ==
  /\ MayEdit(r, p)
  /\ details' = [details EXCEPT ![p] = d]
  /\ UNCHANGED <<status, source_type, bill, notApplicable, exception, bankNA,
                 sqlRef, stamps, invoiced, liveDocs, match, history>>

LinkBill(r, p, b) ==
  /\ MayEdit(r, p)
  /\ bill' = [bill EXCEPT ![p] = b]
  /\ UNCHANGED <<status, source_type, details, notApplicable, exception,
                 bankNA, sqlRef, stamps, invoiced, liveDocs, match, history>>

\* The linked draft bill is deleted: ON DELETE SET NULL reaches the payment as
\* a nested update, which the trigger lets through at any status.
BillDeleted(b) ==
  /\ bill' = [p \in Payment |-> IF bill[p] = b THEN None ELSE bill[p]]
  /\ invoiced' = invoiced \ {b}
  /\ UNCHANGED <<status, source_type, details, notApplicable, exception,
                 bankNA, sqlRef, stamps, liveDocs, match, history>>

\* The bill side records or withdraws the invoice of a bill.
BillInvoice(b, on) ==
  /\ invoiced' = IF on THEN invoiced \cup {b} ELSE invoiced \ {b}
  /\ UNCHANGED <<register, liveDocs, match, history>>

SetNotApplicable(r, p, ds) ==
  /\ r \in Reviewer
  /\ Exists(p)
  /\ notApplicable' = [notApplicable EXCEPT ![p] = ds]
  /\ UNCHANGED <<status, source_type, details, bill, exception, bankNA,
                 sqlRef, stamps, invoiced, liveDocs, match, history>>

\* Approve an exception with a note, or withdraw it (n = None).
SetException(r, p, n) ==
  /\ r \in Reviewer
  /\ Exists(p)
  /\ exception' = [exception EXCEPT ![p] = n]
  /\ UNCHANGED <<status, source_type, details, bill, notApplicable, bankNA,
                 sqlRef, stamps, invoiced, liveDocs, match, history>>

\* Mark the bank match not applicable with a note, or withdraw the decision.
SetBankNA(r, p, n) ==
  /\ r \in Reviewer
  /\ Exists(p)
  /\ bankNA' = [bankNA EXCEPT ![p] = n]
  /\ UNCHANGED <<status, source_type, details, bill, notApplicable, exception,
                 sqlRef, stamps, invoiced, liveDocs, match, history>>

\* The SQL reference of a row that stays where it is; once the row is posted
\* only the Owner or a Finance Manager may change it.
CorrectSqlRecord(r, p, v) ==
  /\ r \in Reviewer
  /\ Exists(p)
  /\ status[p] \in {"posted_to_sql", "reconciled"} => r \in OwnerFM
  /\ sqlRef' = [sqlRef EXCEPT ![p] = v]
  /\ UNCHANGED <<status, source_type, details, bill, notApplicable, exception,
                 bankNA, stamps, invoiced, liveDocs, match, history>>

-----------------------------------------------------------------------------
(* Moves of the status *)

\* The columns every move writes: the status and the stamps it owns.
Move(p, s, st) ==
  /\ status' = [status EXCEPT ![p] = s]
  /\ stamps' = [stamps EXCEPT ![p] = st]
  /\ UNCHANGED <<source_type, details, bill, notApplicable, exception, bankNA,
                 invoiced, liveDocs, match>>

\* Housekeeping among the early statuses: the early moves offered on the
\* screen, syncEarlyStatus, the mark runMatching leaves, and the FinanceOps
\* session on its own captures.
EarlyMove(r, p, s) ==
  /\ status[p] \in Early
  /\ s \in Early \ {status[p]}
  /\ \/ r \in Reviewer
     \/ s \in FoEarly /\ r = "data_entry"
     \/ s \in FoEarly /\ r = "financeops" /\ source_type[p] = "financeops"
  /\ Move(p, s, stamps[p])
  /\ UNCHANGED <<sqlRef, history>>

MarkBankMatched(r, p) ==
  /\ r \in Reviewer
  /\ status[p] \in Early
  /\ HasConfirmed(p)
  /\ Move(p, "bank_matched", stamps[p])
  /\ UNCHANGED <<sqlRef, history>>

ReturnToBankMatch(r, p) ==
  /\ r \in Reviewer
  /\ status[p] \in {"bank_matched", "finance_review"}
  /\ ~HasConfirmed(p)
  /\ Move(p, "ready_for_bank_match", stamps[p])
  /\ UNCHANGED <<sqlRef, history>>

StartReview(r, p) ==
  /\ r \in Reviewer
  /\ \/ status[p] = "bank_matched" /\ BankEvidence(p)
     \/ status[p] \in Early /\ bankNA[p] # None
  /\ DocumentsSatisfied(p)
  /\ Move(p, "finance_review", stamps[p] \cup {"reviewed"})
  /\ reviewedDetails' = [reviewedDetails EXCEPT ![p] = details[p]]
  /\ basis' = [basis EXCEPT ![p] =
                 IF HasConfirmed(p) THEN "match" ELSE "not_applicable"]
  /\ UNCHANGED sqlRef

ReturnToBankMatched(r, p) ==
  /\ r \in Reviewer
  /\ status[p] = "finance_review"
  /\ HasConfirmed(p)
  /\ Move(p, "bank_matched", stamps[p])
  /\ UNCHANGED <<sqlRef, history>>

MarkReadyForSql(r, p) ==
  /\ r \in Reviewer
  /\ status[p] = "finance_review"
  /\ BankEvidence(p)
  /\ DocumentsSatisfied(p)
  /\ Move(p, "ready_for_sql", stamps[p] \cup {"ready_for_sql"})
  /\ UNCHANGED <<sqlRef, history>>

ReturnToReview(r, p) ==
  /\ r \in Reviewer
  /\ status[p] = "ready_for_sql"
  /\ Move(p, "finance_review", stamps[p])
  /\ UNCHANGED <<sqlRef, history>>

\* Mutant of Post: the stamp written under the name of the status.
PostStampsTheStatus(r, p, v) ==
  /\ r \in Reviewer
  /\ status[p] = "ready_for_sql"
  /\ Move(p, "posted_to_sql", stamps[p] \cup {"posted_to_sql"})
  /\ sqlRef' = [sqlRef EXCEPT ![p] = v]
  /\ UNCHANGED history

\* The screen sends the reference and the date with the move itself.
Post(r, p, v) ==
  /\ r \in Reviewer
  /\ status[p] = "ready_for_sql"
  /\ Move(p, "posted_to_sql", stamps[p] \cup {"sql_posted"})
  /\ sqlRef' = [sqlRef EXCEPT ![p] = v]
  /\ UNCHANGED history

\* reconciled_date comes with the move, so its presence is that of the stamp.
Reconcile(r, p) ==
  /\ r \in Reviewer
  /\ status[p] = "posted_to_sql"
  /\ Move(p, "reconciled", stamps[p] \cup {"reconciled"})
  /\ UNCHANGED <<sqlRef, history>>

\* Mutant of ReversePosting: the posting stamp is not cleared.
ReversePostingKeepsStamp(r, p) ==
  /\ r \in OwnerFM
  /\ status[p] = "posted_to_sql"
  /\ Move(p, "ready_for_sql", stamps[p])
  /\ UNCHANGED <<sqlRef, history>>

ReversePosting(r, p) ==
  /\ r \in OwnerFM
  /\ status[p] = "posted_to_sql"
  /\ Move(p, "ready_for_sql", stamps[p] \ {"sql_posted"})
  /\ UNCHANGED <<sqlRef, history>>

ReverseReconciliation(r, p) ==
  /\ r \in OwnerFM
  /\ status[p] = "reconciled"
  /\ Move(p, "posted_to_sql", stamps[p] \ {"reconciled"})
  /\ UNCHANGED <<sqlRef, history>>

-----------------------------------------------------------------------------
(* Documents *)

\* Insert a document row; the trigger looks at no status.  A second document
\* of a role changes nothing the rules look at.
AttachDocument(r, p, d) ==
  /\ Exists(p)
  /\ \/ r \in Human
     \/ r = "financeops" /\ source_type[p] = "financeops"
  /\ liveDocs' = [liveDocs EXCEPT ![p] = @ \cup {d}]
  /\ UNCHANGED <<register, invoiced, match, history>>

\* Soft removal of the last live document of a role, at any status.
RemoveDocument(r, p, d) ==
  /\ r \in Reviewer
  /\ d \in liveDocs[p]
  /\ liveDocs' = [liveDocs EXCEPT ![p] = @ \ {d}]
  /\ UNCHANGED <<register, invoiced, match, history>>

-----------------------------------------------------------------------------
(* Bank matches *)

SetMatch(p, b, m) ==
  /\ match' = [match EXCEPT ![p][b] = m]
  /\ UNCHANGED <<register, invoiced, liveDocs, history>>

\* Mutant of NoOtherConfirmed: the index on the bank row missing.
NoOtherConfirmedForPayment(p, b) ==
  \A c \in BankRow \ {b} : match[p][c] # "confirmed"

\* The two partial unique indexes on confirmed matches.
NoOtherConfirmed(p, b) ==
  /\ \A c \in BankRow \ {b} : match[p][c] # "confirmed"
  /\ \A q \in Payment \ {p} : match[q][b] # "confirmed"

\* A suggestion of runMatching.
SuggestMatch(r, p, b) ==
  /\ r \in Reviewer
  /\ match[p][b] = "none"
  /\ status[p] \in Early
  /\ SetMatch(p, b, "suggested")

\* A manual match is inserted already confirmed.
InsertConfirmed(r, p, b) ==
  /\ r \in Reviewer
  /\ match[p][b] = "none"
  /\ status[p] \in Early
  /\ NoOtherConfirmed(p, b)
  /\ SetMatch(p, b, "confirmed")

ConfirmMatch(r, p, b) ==
  /\ r \in Reviewer
  /\ match[p][b] = "suggested"
  /\ status[p] \in Early
  /\ NoOtherConfirmed(p, b)
  /\ SetMatch(p, b, "confirmed")

\* Mutant of RejectMatch: Unmatch does not look at the payment's status.
RejectMatchAtAnyStatus(r, p, b) ==
  /\ r \in Reviewer
  /\ match[p][b] \in {"suggested", "confirmed"}
  /\ SetMatch(p, b, "rejected")

\* "Not match" on a suggestion, "Unmatch" on a confirmed match.
RejectMatch(r, p, b) ==
  /\ r \in Reviewer
  /\ match[p][b] \in {"suggested", "confirmed"}
  /\ match[p][b] = "confirmed" => status[p] \in Early \cup {"bank_matched"}
  /\ SetMatch(p, b, "rejected")

\* Allowed by the trigger; no screen offers it.
ReopenMatch(r, p, b) ==
  /\ r \in Reviewer
  /\ match[p][b] = "rejected"
  /\ SetMatch(p, b, "suggested")

-----------------------------------------------------------------------------

Capture(r, p) ==
  \E d \in Detail :
     \/ CaptureManual(r, p, d)
     \/ r = "financeops" /\ CaptureFinanceOps(p, d)
     \/ \E s \in Status :
          \/ ImportOpen(r, p, d, s)
          \/ \E n \in Note \cup {None} : ImportAsOwner(r, p, d, s, n)

Decide(r, p) ==
  \/ \E d \in Detail : EditDetails(r, p, d)
  \/ \E b \in Bill \cup {None} : LinkBill(r, p, b)
  \/ \E ds \in SUBSET DocRole : SetNotApplicable(r, p, ds)
  \/ \E n \in Note \cup {None} : SetException(r, p, n) \/ SetBankNA(r, p, n)
  \/ \E v \in SqlRef \cup {None} : CorrectSqlRecord(r, p, v)

Advance(r, p) ==
  \/ \E s \in Early : EarlyMove(r, p, s)
  \/ MarkBankMatched(r, p) \/ ReturnToBankMatch(r, p)
  \/ StartReview(r, p) \/ ReturnToBankMatched(r, p)
  \/ MarkReadyForSql(r, p) \/ ReturnToReview(r, p)
  \/ \E v \in SqlRef : Post(r, p, v)
  \/ Reconcile(r, p) \/ ReversePosting(r, p) \/ ReverseReconciliation(r, p)

Documents(r, p) ==
  \E d \in DocRole : AttachDocument(r, p, d) \/ RemoveDocument(r, p, d)

Matching(r, p) ==
  \E b \in BankRow :
     \/ SuggestMatch(r, p, b) \/ InsertConfirmed(r, p, b)
     \/ ConfirmMatch(r, p, b) \/ RejectMatch(r, p, b) \/ ReopenMatch(r, p, b)

Bills ==
  \E b \in Bill : BillDeleted(b) \/ (\E on \in BOOLEAN : BillInvoice(b, on))

Next ==
  \/ \E r \in Actor, p \in Payment :
        Capture(r, p) \/ Decide(r, p) \/ Advance(r, p) \/ Documents(r, p)
        \/ Matching(r, p)
  \/ Bills

Spec == Init /\ [][Next]_vars

-----------------------------------------------------------------------------
(* Properties *)

TypeOK ==
  /\ status          \in [Payment -> Status \cup {"none"}]
  /\ source_type     \in [Payment -> Source \cup {"none"}]
  /\ details         \in [Payment -> Detail \cup {None}]
  /\ bill            \in [Payment -> Bill \cup {None}]
  /\ invoiced        \in SUBSET Bill
  /\ notApplicable   \in [Payment -> SUBSET DocRole]
  /\ exception       \in [Payment -> Note \cup {None}]
  /\ bankNA          \in [Payment -> Note \cup {None}]
  /\ sqlRef          \in [Payment -> SqlRef \cup {None}]
  /\ stamps          \in [Payment -> SUBSET Stamp]
  /\ liveDocs        \in [Payment -> SUBSET DocRole]
  /\ match           \in [Payment -> [BankRow -> MatchStatus]]
  /\ reviewedDetails \in [Payment -> Detail \cup {None}]
  /\ basis           \in [Payment -> Basis \cup {None}]

Ties == {x \in Payment \X BankRow : match[x[1]][x[2]] = "confirmed"}
Held == {p \in Payment : status[p] \in Locked}

Tie == INSTANCE BankTie WITH ties <- Ties, held <- Held

\* A payment has at most one confirmed bank row and a bank row at most one
\* payment, over manual inserts, confirmations, rejections and reopenings
\* (the two partial unique indexes of 0024).
OneToOne == Tie!OneToOne

\* The register implements BankTie: no step makes or undoes a confirmed match
\* of a payment that is in finance review or beyond.  The match trigger looks
\* at the payment's status, the payment trigger at the matches, and neither
\* sees the other's later steps.
ImplementsBankTie == Tie!TieSpec

\* A payment that finance review opened because a bank match was confirmed
\* still has that evidence at every later stage, up to reconciled, until it
\* leaves review.
ReviewedOnItsMatch ==
  \A p \in Payment :
     status[p] \in Locked /\ basis[p] = "match" => HasConfirmed(p)

\* What is posted and reconciled is what was reviewed: from the moment finance
\* review opens, through any number of returns to review and reversed
\* postings, the details are the ones the reviewer saw.
DetailsFrozen ==
  \A p \in Payment : status[p] \in Locked => details[p] = reviewedDetails[p]

StampsAgree(p) ==
  /\ "sql_posted" \in stamps[p] => status[p] \in {"posted_to_sql", "reconciled"}
  /\ "reconciled" \in stamps[p] => status[p] = "reconciled"
  /\ basis[p] # "import" =>
       /\ status[p] \in Locked => "reviewed" \in stamps[p]
       /\ status[p] \in Locked \ {"finance_review"} => "ready_for_sql" \in stamps[p]
       /\ status[p] \in {"posted_to_sql", "reconciled"} => "sql_posted" \in stamps[p]
       /\ status[p] = "reconciled" => "reconciled" \in stamps[p]

\* The stamps tell the same story as the status.  A posting or reconciliation
\* stamp never outlives its status, and a payment that was not imported as
\* closed carries the stamp of every stage it stands on.
StampsTellTheStatus == \A p \in Payment : StampsAgree(p)

=============================================================================
