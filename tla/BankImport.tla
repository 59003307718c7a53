------------------------------ MODULE BankImport ------------------------------
(***************************************************************************)
(* The import of bank statements of phase 3A: a file is parsed into a      *)
(* batch of preview rows, a person edits and confirms the preview, and     *)
(* every row becomes a bank transaction.  Parsing and confirming make      *)
(* several calls to the database, one statement each, and may end after    *)
(* any of them; discarding and archiving are one database function each.   *)
(*                                                                         *)
(* One bank account and one statement month.  A row is known by its        *)
(* content, which is what the duplicate fingerprint is made of, and a file *)
(* by its set of rows.  All persons may import and have AAL2.              *)
(***************************************************************************)
EXTENDS Integers, FiniteSets

CONSTANTS
  BankBatch,    \* ids of rows of bank_import_batches
  BankRow,      \* contents a row of a statement may have
  BankRequest,  \* requests that may be in progress at once
  MaxBooked     \* bound: transactions made of one preview row

ASSUME BankImportAssumption == MaxBooked \in Nat \ {0}

VARIABLES
  batches,   \* the rows of bank_import_batches
  preview,   \* bank_import_rows: what became of each row of each batch
  booked,    \* how many bank_transactions were made from each preview row
  requests,  \* where each parse or confirm request stands
  twiceRead  \* history: batches two confirmations of which read the preview
              \* before either had taken the batch out of it

bankImportVars == <<batches, preview, booked, requests, twiceRead>>

BatchStatus == {"none", "mapping", "processing", "completed",
                "completed_with_errors", "discarded", "archived"}
RowResult == {"none", "pending", "imported", "skipped", "failed"}
File == SUBSET BankRow \ {{}}

\* What the form says of a row: "invalid" is one to be imported that fails the
\* validation.
FormRow == {"import_as_new", "invalid", "skip", "pending"}

Idle == [step |-> "idle"]
BankRequestState ==
  {Idle}
    \cup [step : {"insert"}, file : File]
    \cup [step : {"rows"}, batch : BankBatch, file : File]
    \cup [step : {"read", "start"}, batch : BankBatch, form : [BankRow -> FormRow],
          known : SUBSET BankRow]
    \cup [step : {"insert_row", "mark_row"}, batch : BankBatch,
          form : [BankRow -> FormRow], known : SUBSET BankRow,
          left : SUBSET BankRow, row : BankRow, as : RowResult, failed : BOOLEAN]

\* Mutant of Unconfirmed: a confirmation that ended early may be sent again.
UnconfirmedOrBegun == {"mapping", "processing"}

Unconfirmed == {"mapping"}
LiveBatch(b) == batches[b].status \notin {"none", "discarded"}

\* The unique index over account, month and file of batches not discarded.
FileIsFree(f, b) ==
  ~\E c \in BankBatch \ {b} : LiveBatch(c) /\ batches[c].file = f

-----------------------------------------------------------------------------
(* Parsing a file *)

\* The same file is looked for among the batches that are not discarded.
ParseStatement(q, f) ==
  /\ requests[q] = Idle
  /\ ~\E b \in BankBatch : LiveBatch(b) /\ batches[b].file = f
  /\ requests' = [requests EXCEPT ![q] = [step |-> "insert", file |-> f]]
  /\ UNCHANGED <<batches, preview, booked>>

InsertBatch(q, b) ==
  /\ requests[q].step = "insert" /\ batches[b].status = "none"
  /\ LET f == requests[q].file IN
     IF FileIsFree(f, b)
     THEN /\ batches' = [batches EXCEPT ![b] = [status |-> "mapping", file |-> f]]
          /\ requests' = [requests EXCEPT ![q] =
                            [step |-> "rows", batch |-> b, file |-> f]]
     ELSE requests' = [requests EXCEPT ![q] = Idle] /\ UNCHANGED batches
  /\ UNCHANGED <<preview, booked>>

\* The preview rows are another call: without it the batch stays, empty.
InsertPreview(q) ==
  /\ requests[q].step = "rows"
  /\ LET b == requests[q].batch IN
     preview' = [preview EXCEPT ![b] =
       [r \in BankRow |-> IF r \in requests[q].file THEN "pending" ELSE @[r]]]
  /\ requests' = [requests EXCEPT ![q] = Idle]
  /\ UNCHANGED <<batches, booked>>

-----------------------------------------------------------------------------
(* Confirming a preview *)

\* A confirmation of the batch has read it and not yet written "processing".
AboutToStart(q, b) == requests[q].step \in {"read", "start"} /\ requests[q].batch = b

\* The status is read; a form with an undecided duplicate is refused.
ReadBatch(q, b, form) ==
  /\ requests[q] = Idle
  /\ batches[b].status \in Unconfirmed
  /\ \A r \in BankRow : form[r] # "pending"
  /\ requests' = [requests EXCEPT ![q] =
       [step |-> "read", batch |-> b, form |-> form, known |-> {}]]
  /\ twiceRead' = twiceRead \cup
       {c \in {b} : \E p \in BankRequest \ {q} : AboutToStart(p, b)}
  /\ UNCHANGED <<batches, preview, booked>>

ReadPreview(q) ==
  /\ requests[q].step = "read"
  /\ requests' = [requests EXCEPT
       ![q].step = "start",
       ![q].known = {r \in BankRow : preview[requests[q].batch][r] # "none"}]
  /\ UNCHANGED <<batches, preview, booked>>

\* A status written by id alone, where the unique index allows it; an error is
\* not looked at.
SetStatus(b, s) ==
  batches' = IF s = "discarded" \/ FileIsFree(batches[b].file, b)
             THEN [batches EXCEPT ![b].status = s] ELSE batches

\* The next row of the form, or the end.  A row of the form that is not in the
\* preview, or one that is not valid, counts as failed.
TurnToRow(rq, left, failed) ==
  {[step |-> IF rq.form[r] = "import_as_new" /\ r \in rq.known
             THEN "insert_row" ELSE "mark_row",
    batch |-> rq.batch, form |-> rq.form, known |-> rq.known,
    left |-> left \ {r}, row |-> r,
    as |-> CASE rq.form[r] = "import_as_new" -> "imported"
             [] rq.form[r] = "invalid"       -> "failed"
             [] OTHER                        -> "skipped",
    failed |-> failed \/ r \notin rq.known \/ rq.form[r] = "invalid"] : r \in left}

StartProcessing(q) ==
  /\ requests[q].step = "start"
  /\ SetStatus(requests[q].batch, "processing")
  /\ \E next \in TurnToRow(requests[q], BankRow, FALSE) :
        requests' = [requests EXCEPT ![q] = next]
  /\ UNCHANGED <<preview, booked>>

\* The transaction refers to its preview row by a foreign key.
RowAccepts(b, r) == preview[b][r] # "none" /\ booked[b][r] < MaxBooked

InsertTransaction(q) ==
  /\ requests[q].step = "insert_row"
  /\ LET b == requests[q].batch
         r == requests[q].row
     IN \/ /\ RowAccepts(b, r)
           /\ booked' = [booked EXCEPT ![b][r] = @ + 1]
           /\ requests' = [requests EXCEPT ![q].step = "mark_row"]
        \/ /\ preview[b][r] = "none"
           /\ requests' = [requests EXCEPT ![q].step = "mark_row",
                             ![q].as = "failed", ![q].failed = TRUE]
           /\ UNCHANGED booked
  /\ UNCHANGED <<batches, preview>>

\* The row is marked by its id, and the next one is taken up or the batch
\* closed; a row that is no longer there is left so.
MarkRow(q) ==
  /\ requests[q].step = "mark_row"
  /\ LET rq == requests[q]
         b  == rq.batch
     IN /\ preview' = [preview EXCEPT ![b][rq.row] =
             IF @ = "none" \/ rq.row \notin rq.known THEN @ ELSE rq.as]
        /\ IF rq.left = {}
           THEN /\ SetStatus(b, IF rq.failed THEN "completed_with_errors" ELSE "completed")
                /\ requests' = [requests EXCEPT ![q] = Idle]
           ELSE /\ \E next \in TurnToRow(rq, rq.left, rq.failed) :
                      requests' = [requests EXCEPT ![q] = next]
                /\ UNCHANGED batches
  /\ UNCHANGED booked

\* A request ends where it stands.
BankRequestDies(q) ==
  /\ requests[q] # Idle
  /\ requests' = [requests EXCEPT ![q] = Idle]
  /\ UNCHANGED <<batches, preview, booked>>

-----------------------------------------------------------------------------
(* Discarding and archiving *)

MayDiscard(b) ==
  /\ batches[b].status \in Unconfirmed
  /\ \A r \in BankRow : preview[b][r] # "imported"

\* The batch is locked: the preview rows go, the batch stays as discarded.
DiscardBatch(b) ==
  /\ batches[b].status # "none" /\ MayDiscard(b)
  /\ preview' = [preview EXCEPT ![b] = [r \in BankRow |-> "none"]]
  /\ SetStatus(b, "discarded")
  /\ UNCHANGED <<booked, requests>>

ArchiveBatch(b) ==
  /\ batches[b].status # "none"
  /\ FileIsFree(batches[b].file, b)
  /\ SetStatus(b, "archived")
  /\ UNCHANGED <<preview, booked, requests>>

-----------------------------------------------------------------------------
BankImportInit ==
  /\ batches = [b \in BankBatch |-> [status |-> "none", file |-> {}]]
  /\ preview = [b \in BankBatch |-> [r \in BankRow |-> "none"]]
  /\ booked = [b \in BankBatch |-> [r \in BankRow |-> 0]]
  /\ requests = [q \in BankRequest |-> Idle]
  /\ twiceRead = {}

BankImportStep ==
  \/ \E q \in BankRequest, f \in File : ParseStatement(q, f)
  \/ \E q \in BankRequest, b \in BankBatch : InsertBatch(q, b)
  \/ \E q \in BankRequest : InsertPreview(q)
  \/ \E q \in BankRequest : ReadPreview(q)
  \/ \E q \in BankRequest : StartProcessing(q)
  \/ \E q \in BankRequest : InsertTransaction(q)
  \/ \E q \in BankRequest : MarkRow(q)
  \/ \E q \in BankRequest : BankRequestDies(q)
  \/ \E b \in BankBatch : DiscardBatch(b)
  \/ \E b \in BankBatch : ArchiveBatch(b)

BankImportNext ==
  \/ \E q \in BankRequest, b \in BankBatch, form \in [BankRow -> FormRow] :
        ReadBatch(q, b, form)
  \/ BankImportStep /\ UNCHANGED twiceRead

BankImportSpec == BankImportInit /\ [][BankImportNext]_bankImportVars

BankImportTypeOK ==
  /\ batches \in [BankBatch -> [status : BatchStatus, file : SUBSET BankRow]]
  /\ preview \in [BankBatch -> [BankRow -> RowResult]]
  /\ booked \in [BankBatch -> [BankRow -> 0..MaxBooked]]
  /\ requests \in [BankRequest -> BankRequestState]
  /\ twiceRead \subseteq BankBatch

\* Every bank transaction keeps the preview row it was made from: a batch is
\* not discarded once it has yielded one, even between the transaction and the
\* mark on its row.  (The foreign key would only set the reference null.)  It
\* is not claimed that a discarded batch yields none: rows that arrive after
\* the discard can still be confirmed by a request that read the batch before.
TransactionKeepsItsRow ==
  \A b \in BankBatch, r \in BankRow : booked[b][r] > 0 => preview[b][r] # "none"

\* A row becomes one transaction, however often its batch is confirmed, unless
\* two confirmations both read the preview before either wrote "processing":
\* a confirmation that ended early cannot be repeated, and none finds the batch
\* in its preview again.
BookedOnce ==
  \A b \in BankBatch, r \in BankRow : booked[b][r] > 1 => b \in twiceRead

OneTransactionPerRow == TransactionKeepsItsRow /\ BookedOnce
=============================================================================
