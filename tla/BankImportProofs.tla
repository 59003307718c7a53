-------------------------- MODULE BankImportProofs --------------------------
(***************************************************************************)
(* Proofs about BankImport, for any batches, rows and requests, and any    *)
(* number of transactions made of a row.                                   *)
(***************************************************************************)
EXTENDS BankImport, TLAPS

\* Confirmed at some time: nothing leads back to the preview.
Confirmed(row) == row.status \notin {"none", "mapping"}

\* The unique index over the files of batches not discarded.
OneBatchPerFile ==
  \A b, c \in BankBatch :
     b # c /\ LiveBatch(b) /\ LiveBatch(c) => batches[b].file # batches[c].file

\* A request works on a batch there is; one that has begun with the rows has
\* taken the batch out of its preview, and knows what to make of its row.
RequestsHaveBatches ==
  \A q \in BankRequest :
     /\ requests[q].step \in {"rows", "read", "start"} =>
          batches[requests[q].batch].status # "none"
     /\ requests[q].step \in {"insert_row", "mark_row"} =>
          Confirmed(batches[requests[q].batch]) /\ requests[q].as # "none"

BookedIsConfirmed ==
  \A b \in BankBatch, r \in BankRow : booked[b][r] > 0 => Confirmed(batches[b])

BankImportInv ==
  /\ BankImportTypeOK
  /\ OneBatchPerFile
  /\ RequestsHaveBatches
  /\ BookedIsConfirmed
  /\ TransactionKeepsItsRow

-----------------------------------------------------------------------------
(* What a request is, by its step *)

Parsing == [step : {"insert"}, file : File]
Storing == [step : {"rows"}, batch : BankBatch, file : File]
AtTheRows == [step : {"read", "start"}, batch : BankBatch,
            form : [BankRow -> FormRow], known : SUBSET BankRow]
Working == [step : {"insert_row", "mark_row"}, batch : BankBatch,
            form : [BankRow -> FormRow], known : SUBSET BankRow,
            left : SUBSET BankRow, row : BankRow, as : RowResult, failed : BOOLEAN]

LEMMA RequestByStep ==
  ASSUME BankImportTypeOK, NEW q \in BankRequest
  PROVE  /\ requests[q].step = "insert" => requests[q] \in Parsing
         /\ requests[q].step = "rows" => requests[q] \in Storing
         /\ requests[q].step \in {"read", "start"} => requests[q] \in AtTheRows
         /\ requests[q].step \in {"insert_row", "mark_row"} => requests[q] \in Working
BY DEF BankImportTypeOK, BankRequestState, Idle, Parsing, Storing, AtTheRows, Working

LEMMA TurnToRowType ==
  ASSUME NEW rq \in AtTheRows \cup Working, NEW left \in SUBSET BankRow,
         NEW failed \in BOOLEAN, NEW next \in TurnToRow(rq, left, failed)
  PROVE  next \in Working /\ next.batch = rq.batch /\ next.as # "none"
<1>1. /\ rq.batch \in BankBatch /\ rq.form \in [BankRow -> FormRow]
      /\ rq.known \in SUBSET BankRow
  BY DEF AtTheRows, Working
<1>2. PICK r \in left :
        next = [step |-> IF rq.form[r] = "import_as_new" /\ r \in rq.known
                         THEN "insert_row" ELSE "mark_row",
                batch |-> rq.batch, form |-> rq.form, known |-> rq.known,
                left |-> left \ {r}, row |-> r,
                as |-> CASE rq.form[r] = "import_as_new" -> "imported"
                         [] rq.form[r] = "invalid"       -> "failed"
                         [] OTHER                        -> "skipped",
                failed |-> failed \/ r \notin rq.known \/ rq.form[r] = "invalid"]
  BY DEF TurnToRow
<1>3. (CASE rq.form[r] = "import_as_new" -> "imported"
         [] rq.form[r] = "invalid"       -> "failed"
         [] OTHER                        -> "skipped") \in RowResult \ {"none"}
  BY DEF RowResult
<1>4. (failed \/ r \notin rq.known \/ rq.form[r] = "invalid") \in BOOLEAN
  OBVIOUS
<1>5. QED
  BY <1>1, <1>2, <1>3, <1>4 DEF Working

-----------------------------------------------------------------------------
(* Batches: every step inserts one, or writes a status other than the      *)
(* first two where the index allows it.                                    *)

Moved(b, s) ==
  /\ s \in BatchStatus \ {"none", "mapping"}
  /\ s = "discarded" \/ FileIsFree(batches[b].file, b)
  /\ batches' = [batches EXCEPT ![b].status = s]

LEMMA SetStatusMoves ==
  ASSUME NEW b \in BankBatch, NEW s \in BatchStatus \ {"none", "mapping"},
         SetStatus(b, s)
  PROVE  Moved(b, s) \/ UNCHANGED batches
BY DEF SetStatus, Moved

\* What a written status leaves true.
LEMMA AfterMove ==
  ASSUME BankImportTypeOK, OneBatchPerFile, NEW b \in BankBatch,
         NEW s \in BatchStatus, Moved(b, s)
  PROVE  /\ batches' \in [BankBatch -> [status : BatchStatus, file : SUBSET BankRow]]
         /\ OneBatchPerFile'
         /\ Confirmed(batches'[b])
         /\ \A c \in BankBatch : Confirmed(batches[c]) => Confirmed(batches'[c])
         /\ \A c \in BankBatch : batches[c].status # "none" => batches'[c].status # "none"
<1>1. batches' \in [BankBatch -> [status : BatchStatus, file : SUBSET BankRow]]
  BY DEF Moved, BankImportTypeOK
<1>2. \A c \in BankBatch :
        /\ batches'[c].file = batches[c].file
        /\ batches'[c].status = IF c = b THEN s ELSE batches[c].status
  BY DEF Moved, BankImportTypeOK
<1>3. OneBatchPerFile'
  <2>1. ASSUME NEW c \in BankBatch, NEW d \in BankBatch,
               c # d, LiveBatch(c)', LiveBatch(d)'
        PROVE  batches'[c].file # batches'[d].file
    <3>1. CASE b \notin {c, d}
      BY <1>2, <2>1, <3>1 DEF LiveBatch, OneBatchPerFile
    <3>2. CASE b \in {c, d}
      <4>1. s # "discarded"
        BY <1>2, <2>1, <3>2 DEF LiveBatch
      <4>2. FileIsFree(batches[b].file, b)
        BY <4>1 DEF Moved
      <4>3. QED
        BY <1>2, <2>1, <3>2, <4>2 DEF LiveBatch, FileIsFree
    <3>3. QED
      BY <3>1, <3>2
  <2>2. QED
    BY <2>1 DEF OneBatchPerFile
<1>4. QED
  BY <1>1, <1>2, <1>3 DEF Confirmed, Moved

\* A confirmation always takes the batch out of its preview: while the batch
\* is live no other can have its file.
LEMMA StartConfirms ==
  ASSUME BankImportTypeOK, OneBatchPerFile, NEW b \in BankBatch,
         batches[b].status # "none", SetStatus(b, "processing")
  PROVE  Confirmed(batches'[b])
<1>1. CASE FileIsFree(batches[b].file, b)
  BY <1>1 DEF SetStatus, Confirmed, BankImportTypeOK
<1>2. CASE ~FileIsFree(batches[b].file, b)
  <2>1. ~LiveBatch(b)
    BY <1>2 DEF FileIsFree, OneBatchPerFile
  <2>2. UNCHANGED batches
    BY <1>2 DEF SetStatus
  <2>3. QED
    BY <2>1, <2>2 DEF LiveBatch, Confirmed
<1>3. QED
  BY <1>1, <1>2

-----------------------------------------------------------------------------
(* The invariant, a step per kind of action *)

\* What a step may do to the batches without harm to the other parts.
BatchesGrow ==
  /\ batches' \in [BankBatch -> [status : BatchStatus, file : SUBSET BankRow]]
  /\ OneBatchPerFile'
  /\ \A c \in BankBatch : Confirmed(batches[c]) => Confirmed(batches'[c])
  /\ \A c \in BankBatch : batches[c].status # "none" => batches'[c].status # "none"

\* One request changes its record, within its type and with its batch.
RequestMoves(q, next) ==
  /\ next \in BankRequestState
  /\ requests' = [requests EXCEPT ![q] = next]
  /\ next.step \in {"rows", "read", "start"} => batches'[next.batch].status # "none"
  /\ next.step \in {"insert_row", "mark_row"} =>
       Confirmed(batches'[next.batch]) /\ next.as # "none"

LEMMA UnchangedBatchesGrow == BankImportInv /\ UNCHANGED batches => BatchesGrow
BY DEF BankImportInv, BankImportTypeOK, BatchesGrow, OneBatchPerFile, LiveBatch, Confirmed

LEMMA MovedBatchesGrow ==
  ASSUME BankImportInv, NEW b \in BankBatch, NEW s \in BatchStatus \ {"none", "mapping"},
         SetStatus(b, s)
  PROVE  BatchesGrow
<1>1. CASE Moved(b, s)
  BY <1>1, AfterMove DEF BankImportInv, BatchesGrow
<1>2. CASE UNCHANGED batches
  BY <1>2, UnchangedBatchesGrow
<1>3. QED
  BY <1>1, <1>2, SetStatusMoves

LEMMA RequestStep ==
  ASSUME BankImportInv, NEW q \in BankRequest, NEW next, RequestMoves(q, next), BatchesGrow
  PROVE  /\ requests' \in [BankRequest -> BankRequestState]
         /\ RequestsHaveBatches'
<1>1. requests' \in [BankRequest -> BankRequestState]
  BY DEF RequestMoves, BankImportInv, BankImportTypeOK
<1>2. ASSUME NEW p \in BankRequest
      PROVE  /\ requests'[p].step \in {"rows", "read", "start"} =>
                  batches'[requests'[p].batch].status # "none"
             /\ requests'[p].step \in {"insert_row", "mark_row"} =>
                  Confirmed(batches'[requests'[p].batch]) /\ requests'[p].as # "none"
  <2>1. CASE p = q
    <3>1. requests'[p] = next
      BY <2>1 DEF RequestMoves, BankImportInv, BankImportTypeOK
    <3>2. QED
      BY <3>1 DEF RequestMoves, Confirmed
  <2>2. CASE p # q
    <3>1. requests'[p] = requests[p]
      BY <2>2 DEF RequestMoves, BankImportInv, BankImportTypeOK
    <3>2. /\ requests[p].step \in {"rows", "read", "start", "insert_row", "mark_row"}
               => requests[p].batch \in BankBatch
      BY RequestByStep DEF BankImportInv, Storing, AtTheRows, Working
    <3>3. QED
      BY <3>1, <3>2 DEF BankImportInv, RequestsHaveBatches, BatchesGrow, Confirmed
  <2>3. QED
    BY <2>1, <2>2
<1>3. QED
  BY <1>1, <1>2 DEF RequestsHaveBatches, Confirmed

LEMMA IdleRequest == Idle \in BankRequestState /\ Idle.step = "idle"
BY DEF Idle, BankRequestState

LEMMA WorkingRequest ==
  /\ Parsing \subseteq BankRequestState /\ Storing \subseteq BankRequestState
  /\ AtTheRows \subseteq BankRequestState /\ Working \subseteq BankRequestState
BY DEF BankRequestState, Parsing, Storing, AtTheRows, Working

\* Requests and batches move; rows only ever enter the preview or get another
\* result; transactions are made of rows that are there.
LEMMA RestOfInv ==
  ASSUME BankImportInv, BatchesGrow,
         requests' \in [BankRequest -> BankRequestState], RequestsHaveBatches',
         preview' \in [BankBatch -> [BankRow -> RowResult]],
         booked' \in [BankBatch -> [BankRow -> 0..MaxBooked]],
         twiceRead' \subseteq BankBatch,
         \A b \in BankBatch, r \in BankRow :
           booked'[b][r] > 0 =>
             /\ preview'[b][r] # "none"
             /\ Confirmed(batches'[b])
  PROVE  BankImportInv'
BY DEF BankImportInv, BankImportTypeOK, BatchesGrow, BookedIsConfirmed,
   TransactionKeepsItsRow, Confirmed

LEMMA BankImportNextInv == BankImportInv /\ [BankImportNext]_bankImportVars => BankImportInv'
<1> SUFFICES ASSUME BankImportInv, [BankImportNext]_bankImportVars
             PROVE  BankImportInv'
  OBVIOUS
<1> USE BankImportAssumption
<1>0. /\ BankImportTypeOK /\ OneBatchPerFile
      /\ \A b \in BankBatch, r \in BankRow :
           booked[b][r] > 0 => preview[b][r] # "none" /\ Confirmed(batches[b])
  BY DEF BankImportInv, BookedIsConfirmed, TransactionKeepsItsRow
<1>a. twiceRead' \subseteq BankBatch
  BY <1>0 DEF BankImportTypeOK, BankImportNext, ReadBatch, bankImportVars
\* A step that touches neither rows nor transactions.
<1>1. ASSUME NEW q \in BankRequest, NEW next, RequestMoves(q, next), BatchesGrow,
             UNCHANGED <<preview, booked>>
      PROVE  BankImportInv'
  <2>1. requests' \in [BankRequest -> BankRequestState] /\ RequestsHaveBatches'
    BY <1>1, RequestStep
  <2>2. \A b \in BankBatch, r \in BankRow :
          booked'[b][r] > 0 => preview'[b][r] # "none" /\ Confirmed(batches'[b])
    BY <1>0, <1>1 DEF BatchesGrow
  <2>3. QED
    BY <1>0, <1>1, <2>1, <2>2, <1>a, RestOfInv DEF BankImportTypeOK
<1>2. ASSUME NEW q \in BankRequest, NEW f \in File, ParseStatement(q, f)
      PROVE  BankImportInv'
  <2>1. RequestMoves(q, [step |-> "insert", file |-> f])
    BY <1>2, WorkingRequest DEF ParseStatement, RequestMoves, Parsing
  <2>2. UNCHANGED <<batches, preview, booked>>
    BY <1>2 DEF ParseStatement
  <2>3. QED
    BY <1>1, <2>1, <2>2, UnchangedBatchesGrow
<1>3. ASSUME NEW q \in BankRequest, NEW b \in BankBatch, InsertBatch(q, b)
      PROVE  BankImportInv'
  <2>1. requests[q] \in Parsing
    BY <1>0, <1>3, RequestByStep DEF InsertBatch
  <2> DEFINE f == requests[q].file
             row == [status |-> "mapping", file |-> f]
  <2>2. f \in SUBSET BankRow /\ f \in File
    BY <2>1 DEF Parsing, File
  <2>3. CASE FileIsFree(f, b)
    <3>1. batches' = [batches EXCEPT ![b] = row]
      BY <1>3, <2>3 DEF InsertBatch
    <3>2. batches' \in [BankBatch -> [status : BatchStatus, file : SUBSET BankRow]]
      BY <1>0, <2>2, <3>1 DEF BankImportTypeOK, BatchStatus
    <3>3. \A c \in BankBatch : batches'[c] = IF c = b THEN row ELSE batches[c]
      BY <1>0, <3>1 DEF BankImportTypeOK
    <3>4. batches[b].status = "none" /\ ~Confirmed(batches[b])
      BY <1>3 DEF InsertBatch, Confirmed
    <3>5. OneBatchPerFile'
      BY <1>0, <2>3, <3>3 DEF OneBatchPerFile, LiveBatch, FileIsFree
    <3>6. BatchesGrow
      BY <3>2, <3>3, <3>4, <3>5 DEF BatchesGrow, Confirmed
    <3>7. [step |-> "rows", batch |-> b, file |-> f] \in BankRequestState
      BY <2>2, WorkingRequest DEF Storing
    <3>8. RequestMoves(q, [step |-> "rows", batch |-> b, file |-> f])
      BY <1>3, <2>3, <3>3, <3>7 DEF InsertBatch, RequestMoves
    <3>9. QED
      BY <1>1, <1>3, <3>6, <3>8 DEF InsertBatch
  <2>4. CASE ~FileIsFree(f, b)
    BY <1>1, <1>3, <2>4, UnchangedBatchesGrow, IdleRequest DEF InsertBatch, RequestMoves
  <2>5. QED
    BY <2>3, <2>4
<1>4. ASSUME NEW q \in BankRequest, InsertPreview(q) PROVE BankImportInv'
  <2>1. requests[q] \in Storing
    BY <1>0, <1>4, RequestByStep DEF InsertPreview
  <2> DEFINE b == requests[q].batch
             new == [r \in BankRow |-> IF r \in requests[q].file THEN "pending"
                                       ELSE preview[b][r]]
  <2>2. b \in BankBatch
    BY <2>1 DEF Storing
  <2>3. preview' = [preview EXCEPT ![b] = new]
    BY <1>0, <1>4, <2>2 DEF InsertPreview, BankImportTypeOK
  <2>4. new \in [BankRow -> RowResult]
    BY <1>0, <2>2 DEF BankImportTypeOK, RowResult
  <2>5. preview' \in [BankBatch -> [BankRow -> RowResult]]
    BY <1>0, <2>2, <2>3, <2>4 DEF BankImportTypeOK
  <2>6. \A c \in BankBatch, r \in BankRow :
          preview[c][r] # "none" => preview'[c][r] # "none"
    BY <1>0, <2>2, <2>3 DEF BankImportTypeOK
  <2>7. RequestMoves(q, Idle) /\ UNCHANGED <<batches, booked>>
    BY <1>4, IdleRequest DEF InsertPreview, RequestMoves
  <2>8. BatchesGrow
    BY <2>7, UnchangedBatchesGrow
  <2>9. requests' \in [BankRequest -> BankRequestState] /\ RequestsHaveBatches'
    BY <2>7, <2>8, RequestStep
  <2> HIDE DEF b, new
  <2>10. \A c \in BankBatch, r \in BankRow :
           booked'[c][r] > 0 => preview'[c][r] # "none" /\ Confirmed(batches'[c])
    BY <1>0, <2>6, <2>7, <2>8 DEF BatchesGrow
  <2>11. booked' \in [BankBatch -> [BankRow -> 0..MaxBooked]]
    BY <1>0, <2>7 DEF BankImportTypeOK
  <2>12. QED
    BY <2>5, <2>8, <2>9, <2>10, <2>11, <1>a, RestOfInv
<1>5. ASSUME NEW q \in BankRequest, NEW b \in BankBatch, NEW form \in [BankRow -> FormRow],
             ReadBatch(q, b, form)
      PROVE  BankImportInv'
  <2>1. [step |-> "read", batch |-> b, form |-> form, known |-> {}] \in BankRequestState
    BY WorkingRequest DEF AtTheRows
  <2>2. batches[b].status # "none" /\ UNCHANGED <<batches, preview, booked>>
    BY <1>5 DEF ReadBatch, Unconfirmed
  <2>3. RequestMoves(q, [step |-> "read", batch |-> b, form |-> form, known |-> {}])
    BY <1>5, <2>1, <2>2 DEF ReadBatch, RequestMoves
  <2>4. QED
    BY <1>1, <2>2, <2>3, UnchangedBatchesGrow
<1>6. ASSUME NEW q \in BankRequest, ReadPreview(q) PROVE BankImportInv'
  <2>1. requests[q] \in AtTheRows
    BY <1>0, <1>6, RequestByStep DEF ReadPreview
  <2> DEFINE seen == {r \in BankRow : preview[requests[q].batch][r] # "none"}
             next == [requests[q] EXCEPT !.step = "start", !.known = seen]
  <2>2. /\ next \in AtTheRows /\ next.step = "start"
        /\ next.batch = requests[q].batch
    BY <2>1 DEF AtTheRows
  <2>3. requests' = [requests EXCEPT ![q] = next] /\ UNCHANGED <<batches, preview, booked>>
    BY <1>0, <1>6 DEF ReadPreview, BankImportTypeOK
  <2>4. batches[requests[q].batch].status # "none"
    BY <1>6 DEF ReadPreview, BankImportInv, RequestsHaveBatches
  <2> HIDE DEF next
  <2>5. RequestMoves(q, next)
    BY <2>2, <2>3, <2>4, WorkingRequest DEF RequestMoves
  <2>6. QED
    BY <1>1, <2>3, <2>5, UnchangedBatchesGrow
<1>7. ASSUME NEW q \in BankRequest, StartProcessing(q) PROVE BankImportInv'
  <2>1. requests[q] \in AtTheRows /\ requests[q].batch \in BankBatch
    BY <1>0, <1>7, RequestByStep DEF StartProcessing, AtTheRows
  <2>2. PICK next \in TurnToRow(requests[q], BankRow, FALSE) :
          requests' = [requests EXCEPT ![q] = next]
    BY <1>7 DEF StartProcessing
  <2>3. next \in Working /\ next.batch = requests[q].batch /\ next.as # "none"
    BY <2>1, TurnToRowType
  <2>4. SetStatus(requests[q].batch, "processing") /\ UNCHANGED <<preview, booked>>
    BY <1>7 DEF StartProcessing
  <2>5. batches[requests[q].batch].status # "none"
    BY <1>7 DEF StartProcessing, BankImportInv, RequestsHaveBatches
  <2>6. Confirmed(batches'[requests[q].batch])
    BY <1>0, <2>1, <2>4, <2>5, StartConfirms
  <2>7. BatchesGrow
    BY <2>1, <2>4, MovedBatchesGrow DEF BatchStatus
  <2>8. RequestMoves(q, next)
    BY <2>2, <2>3, <2>6, WorkingRequest DEF RequestMoves, Working, Confirmed
  <2>9. QED
    BY <1>1, <2>4, <2>7, <2>8
<1>8. ASSUME NEW q \in BankRequest, InsertTransaction(q) PROVE BankImportInv'
  <2>1. requests[q] \in Working
    BY <1>0, <1>8, RequestByStep DEF InsertTransaction
  <2> DEFINE b == requests[q].batch
             r == requests[q].row
  <2>2. b \in BankBatch /\ r \in BankRow
    BY <2>1 DEF Working
  <2>3. Confirmed(batches[b]) /\ requests[q].as # "none" /\ UNCHANGED <<batches, preview>>
    BY <1>8 DEF InsertTransaction, BankImportInv, RequestsHaveBatches
  <2>4. BatchesGrow
    BY <2>3, UnchangedBatchesGrow
  <2>5. CASE /\ RowAccepts(b, r)
             /\ booked' = [booked EXCEPT ![b][r] = @ + 1]
             /\ requests' = [requests EXCEPT ![q].step = "mark_row"]
    <3> DEFINE next == [requests[q] EXCEPT !.step = "mark_row"]
    <3>1. /\ next \in Working /\ next.batch = b /\ next.step = "mark_row"
          /\ next.as # "none"
      BY <2>1, <2>3 DEF Working
    <3>2. requests' = [requests EXCEPT ![q] = next]
      BY <1>0, <2>5 DEF BankImportTypeOK
    <3> HIDE DEF next
    <3>3. RequestMoves(q, next)
      BY <2>3, <3>1, <3>2, WorkingRequest DEF RequestMoves, Confirmed
    <3>4. requests' \in [BankRequest -> BankRequestState] /\ RequestsHaveBatches'
      BY <2>4, <3>3, RequestStep
    <3>5. booked[b][r] \in 0..MaxBooked /\ booked[b][r] < MaxBooked /\ preview[b][r] # "none"
      BY <1>0, <2>2, <2>5 DEF BankImportTypeOK, RowAccepts
    <3>6. booked' = [booked EXCEPT ![b] = [booked[b] EXCEPT ![r] = booked[b][r] + 1]]
      BY <1>0, <2>2, <2>5 DEF BankImportTypeOK
    <3>7. [booked[b] EXCEPT ![r] = booked[b][r] + 1] \in [BankRow -> 0..MaxBooked]
      BY <1>0, <2>2, <3>5 DEF BankImportTypeOK
    <3>8. booked' \in [BankBatch -> [BankRow -> 0..MaxBooked]]
      BY <1>0, <2>2, <3>6, <3>7 DEF BankImportTypeOK
    <3> HIDE DEF b, r
    <3>9. ASSUME NEW c \in BankBatch, NEW x \in BankRow, booked'[c][x] > 0
          PROVE  preview'[c][x] # "none" /\ Confirmed(batches'[c])
      <4>1. CASE c = b /\ x = r
        BY <2>3, <3>5, <4>1 DEF Confirmed
      <4>2. CASE ~(c = b /\ x = r)
        <5>1. booked'[c][x] = booked[c][x]
          BY <1>0, <2>2, <2>5, <4>2 DEF BankImportTypeOK
        <5>2. QED
          BY <1>0, <2>3, <3>9, <5>1 DEF Confirmed
      <4>3. QED
        BY <4>1, <4>2
    <3>10. preview' \in [BankBatch -> [BankRow -> RowResult]]
      BY <1>0, <2>3 DEF BankImportTypeOK
    <3>11. QED
      BY <2>4, <3>4, <3>8, <3>9, <3>10, <1>a, RestOfInv
  <2>6. CASE /\ requests' = [requests EXCEPT ![q].step = "mark_row",
                               ![q].as = "failed", ![q].failed = TRUE]
             /\ UNCHANGED booked
    <3> DEFINE next == [requests[q] EXCEPT !.step = "mark_row", !.as = "failed",
                                           !.failed = TRUE]
    <3>1. /\ next \in Working /\ next.batch = b /\ next.step = "mark_row"
          /\ next.as # "none"
      BY <2>1 DEF Working, RowResult
    <3>2. requests' = [requests EXCEPT ![q] = next]
      BY <1>0, <2>6 DEF BankImportTypeOK
    <3> HIDE DEF next
    <3>3. RequestMoves(q, next)
      BY <2>3, <3>1, <3>2, WorkingRequest DEF RequestMoves, Confirmed
    <3>4. QED
      BY <1>1, <2>3, <2>4, <2>6, <3>3
  <2>7. QED
    BY <1>8, <2>5, <2>6 DEF InsertTransaction
<1>9. ASSUME NEW q \in BankRequest, MarkRow(q) PROVE BankImportInv'
  <2>1. requests[q] \in Working
    BY <1>0, <1>9, RequestByStep DEF MarkRow
  <2> DEFINE rq == requests[q]
             b == rq.batch
             was == preview[b][rq.row]
             new == IF was = "none" \/ rq.row \notin rq.known THEN was ELSE rq.as
  <2>2. b \in BankBatch /\ rq.row \in BankRow /\ rq.left \in SUBSET BankRow
        /\ rq.failed \in BOOLEAN /\ rq.as \in RowResult
    BY <2>1 DEF Working
  <2>3. /\ preview' = [preview EXCEPT ![b] = [preview[b] EXCEPT ![rq.row] = new]]
        /\ UNCHANGED booked
    BY <1>0, <1>9, <2>2 DEF MarkRow, BankImportTypeOK
  <2>4. new \in RowResult
    BY <1>0, <2>2 DEF BankImportTypeOK
  <2>5. preview' \in [BankBatch -> [BankRow -> RowResult]]
    BY <1>0, <2>2, <2>3, <2>4 DEF BankImportTypeOK
  <2>6. Confirmed(batches[b])
    BY <1>9 DEF MarkRow, BankImportInv, RequestsHaveBatches
  <2>7. /\ BatchesGrow
        /\ \E next : RequestMoves(q, next)
    <3>1. CASE rq.left = {}
      <4>1. \E s \in {"completed_with_errors", "completed"} : SetStatus(b, s)
        BY <1>9, <3>1 DEF MarkRow
      <4>2. BatchesGrow
        BY <2>2, <4>1, MovedBatchesGrow DEF BatchStatus
      <4>3. RequestMoves(q, Idle)
        BY <1>9, <3>1, IdleRequest DEF MarkRow, RequestMoves
      <4>4. QED
        BY <4>2, <4>3
    <3>2. CASE rq.left # {}
      <4>1. PICK next \in TurnToRow(rq, rq.left, rq.failed) :
              requests' = [requests EXCEPT ![q] = next] /\ UNCHANGED batches
        BY <1>9, <3>2 DEF MarkRow
      <4>2. next \in Working /\ next.batch = b /\ next.as # "none"
        BY <2>1, <2>2, TurnToRowType
      <4>3. RequestMoves(q, next)
        BY <2>6, <4>1, <4>2, WorkingRequest DEF RequestMoves, Working, Confirmed
      <4>4. QED
        BY <4>1, <4>3, UnchangedBatchesGrow
    <3>3. QED
      BY <3>1, <3>2
  <2>8. requests' \in [BankRequest -> BankRequestState] /\ RequestsHaveBatches'
    BY <2>7, RequestStep
  <2>9. booked' \in [BankBatch -> [BankRow -> 0..MaxBooked]]
    BY <1>0, <2>3 DEF BankImportTypeOK
  <2>10. ASSUME NEW c \in BankBatch, NEW x \in BankRow, booked'[c][x] > 0
         PROVE  preview'[c][x] # "none" /\ Confirmed(batches'[c])
    <3>1. preview[c][x] # "none" /\ Confirmed(batches[c])
      BY <1>0, <2>3, <2>10
    <3>2. rq.as # "none"
      BY <1>9 DEF MarkRow, BankImportInv, RequestsHaveBatches
    <3>3. QED
      BY <1>0, <2>2, <2>3, <2>7, <3>1, <3>2 DEF BankImportTypeOK, BatchesGrow
  <2>11. QED
    BY <2>5, <2>7, <2>8, <2>9, <2>10, <1>a, RestOfInv
<1>10. ASSUME NEW q \in BankRequest, BankRequestDies(q) PROVE BankImportInv'
  BY <1>1, <1>10, UnchangedBatchesGrow, IdleRequest DEF BankRequestDies, RequestMoves
<1>11. ASSUME NEW b \in BankBatch, DiscardBatch(b) PROVE BankImportInv'
  <2>1. ~Confirmed(batches[b])
    BY <1>11 DEF DiscardBatch, MayDiscard, Unconfirmed, Confirmed
  <2>2. BatchesGrow
    BY <1>11, MovedBatchesGrow DEF DiscardBatch, BatchStatus
  <2>3. /\ preview' = [preview EXCEPT ![b] = [r \in BankRow |-> "none"]]
        /\ UNCHANGED <<booked, requests>>
    BY <1>11 DEF DiscardBatch
  <2>4. preview' \in [BankBatch -> [BankRow -> RowResult]]
    BY <1>0, <2>3 DEF BankImportTypeOK, RowResult
  <2>5. \A c \in BankBatch, r \in BankRow :
          booked'[c][r] > 0 => preview'[c][r] # "none" /\ Confirmed(batches'[c])
    BY <1>0, <2>1, <2>2, <2>3 DEF BankImportTypeOK, BatchesGrow
  <2>6. RequestsHaveBatches'
    <3>1. ASSUME NEW q \in BankRequest,
                 requests[q].step \in {"rows", "read", "start", "insert_row", "mark_row"}
          PROVE  requests[q].batch \in BankBatch
      BY <1>0, <3>1, RequestByStep DEF Storing, AtTheRows, Working
    <3>2. QED
      BY <2>2, <2>3, <3>1 DEF BankImportInv, RequestsHaveBatches, BatchesGrow, Confirmed
  <2>7. QED
    BY <1>0, <2>2, <2>3, <2>4, <2>5, <2>6, <1>a, RestOfInv DEF BankImportTypeOK
<1>12. ASSUME NEW b \in BankBatch, ArchiveBatch(b) PROVE BankImportInv'
  <2>1. BatchesGrow /\ UNCHANGED <<preview, booked, requests>>
    BY <1>12, MovedBatchesGrow DEF ArchiveBatch, BatchStatus
  <2>2. RequestsHaveBatches'
    <3>1. ASSUME NEW q \in BankRequest,
                 requests[q].step \in {"rows", "read", "start", "insert_row", "mark_row"}
          PROVE  requests[q].batch \in BankBatch
      BY <1>0, <3>1, RequestByStep DEF Storing, AtTheRows, Working
    <3>2. QED
      BY <2>1, <3>1 DEF BankImportInv, RequestsHaveBatches, BatchesGrow, Confirmed
  <2>3. \A c \in BankBatch, r \in BankRow :
          booked'[c][r] > 0 => preview'[c][r] # "none" /\ Confirmed(batches'[c])
    BY <1>0, <2>1 DEF BatchesGrow
  <2>4. QED
    BY <1>0, <2>1, <2>2, <2>3, <1>a, RestOfInv DEF BankImportTypeOK
<1>13. CASE UNCHANGED bankImportVars
  BY <1>13 DEF bankImportVars, BankImportInv, BankImportTypeOK, OneBatchPerFile,
     LiveBatch, RequestsHaveBatches, BookedIsConfirmed, TransactionKeepsItsRow, Confirmed
<1>14. QED
  BY <1>2, <1>3, <1>4, <1>5, <1>6, <1>7, <1>8, <1>9, <1>10, <1>11, <1>12, <1>13
     DEF BankImportNext, BankImportStep

LEMMA BankImportInitInv == BankImportInit => BankImportInv
BY BankImportAssumption DEF BankImportInit, BankImportInv, BankImportTypeOK,
   BatchStatus, RowResult, BankRequestState, Idle, OneBatchPerFile, LiveBatch,
   RequestsHaveBatches, BookedIsConfirmed, TransactionKeepsItsRow

-----------------------------------------------------------------------------
(* One transaction of a row *)

\* A confirmation is under way for a batch.
IsConfirming(q, b) ==
  /\ requests[q].step \in {"read", "start", "insert_row", "mark_row"}
  /\ requests[q].batch = b

\* The rows a confirmation may still make a transaction of.
Due(rq) ==
  CASE rq.step \in {"read", "start"} -> BankRow
    [] rq.step = "insert_row"        -> rq.left \cup {rq.row}
    [] rq.step = "mark_row"          -> rq.left
    [] OTHER                         -> {}

\* Where no two have read the batch together one confirmation has it at most,
\* and what that one has still to do has not been done.
OneAtATime ==
  /\ \A p, q \in BankRequest, b \in BankBatch \ twiceRead :
        IsConfirming(p, b) /\ IsConfirming(q, b) => p = q
  /\ \A q \in BankRequest, b \in BankBatch \ twiceRead :
        IsConfirming(q, b) => \A r \in Due(requests[q]) : booked[b][r] = 0
  /\ \A q \in BankRequest :
        requests[q].step = "insert_row" => requests[q].row \notin requests[q].left

\* Nothing is added to what a request has to do, and no transaction is made.
NoMoreDue(q, next) ==
  /\ requests' = [requests EXCEPT ![q] = next]
  /\ next.step \in {"read", "start", "insert_row", "mark_row"} =>
        IsConfirming(q, next.batch) /\ Due(next) \subseteq Due(requests[q])
  /\ next.step = "insert_row" => next.row \notin next.left

LEMMA NoMoreDueStep ==
  ASSUME BankImportTypeOK, OneAtATime, BookedOnce, NEW q \in BankRequest, NEW next,
         NoMoreDue(q, next), UNCHANGED <<booked, twiceRead>>
  PROVE  OneAtATime' /\ BookedOnce'
<1>1. \A p \in BankRequest : requests'[p] = IF p = q THEN next ELSE requests[p]
  BY DEF NoMoreDue, BankImportTypeOK
<1>2. \A p \in BankRequest, b \in BankBatch :
        IsConfirming(p, b)' => IsConfirming(p, b) /\ Due(requests'[p]) \subseteq Due(requests[p])
  BY <1>1 DEF IsConfirming, NoMoreDue
<1>3. \A p \in BankRequest :
        requests'[p].step = "insert_row" => requests'[p].row \notin requests'[p].left
  BY <1>1 DEF NoMoreDue, OneAtATime
<1>4. \A p \in BankRequest, b \in BankBatch \ twiceRead :
        IsConfirming(p, b)' => \A r \in Due(requests'[p]) : booked[b][r] = 0
  BY <1>2 DEF OneAtATime
<1>5. \A p, o \in BankRequest, b \in BankBatch \ twiceRead :
        IsConfirming(p, b)' /\ IsConfirming(o, b)' => p = o
  BY <1>2 DEF OneAtATime
<1>6. OneAtATime'
  BY <1>3, <1>4, <1>5 DEF OneAtATime, Due
<1>7. QED
  BY <1>6 DEF BookedOnce

LEMMA OneAtATimeNext ==
  ASSUME BankImportInv, OneAtATime, BookedOnce, [BankImportNext]_bankImportVars
  PROVE  OneAtATime' /\ BookedOnce'
<1>0. BankImportTypeOK /\ BookedIsConfirmed
  BY DEF BankImportInv
<1>1. ASSUME NEW q \in BankRequest, NEW b \in BankBatch, NEW form \in [BankRow -> FormRow],
             ReadBatch(q, b, form)
      PROVE  OneAtATime' /\ BookedOnce'
  <2>1. /\ requests[q] = Idle /\ requests[q].step = "idle"
        /\ batches[b].status = "mapping"
        /\ UNCHANGED <<batches, preview, booked>>
    BY <1>1, IdleRequest DEF ReadBatch, Unconfirmed
  <2>2. \A p \in BankRequest :
          requests'[p] = IF p = q THEN [step |-> "read", batch |-> b, form |-> form, known |-> {}]
                         ELSE requests[p]
    BY <1>0, <1>1 DEF ReadBatch, BankImportTypeOK
  <2>3. \A r \in BankRow : booked[b][r] = 0
    BY <1>0, <2>1 DEF BookedIsConfirmed, Confirmed, BankImportTypeOK
  <2>4. \A p \in BankRequest \ {q}, c \in BankBatch :
          (IsConfirming(p, c)' <=> IsConfirming(p, c)) /\ Due(requests'[p]) = Due(requests[p])
    BY <2>2 DEF IsConfirming
  <2>5. \A c \in BankBatch : IsConfirming(q, c)' => c = b
    BY <2>2 DEF IsConfirming
  \* One that is past its start has taken the batch out of the preview.
  <2>6. \A p \in BankRequest \ {q} : b \notin twiceRead' => ~IsConfirming(p, b)
    <3>1. \A p \in BankRequest : IsConfirming(p, b) => AboutToStart(p, b)
      BY <2>1 DEF IsConfirming, AboutToStart, BankImportInv, RequestsHaveBatches, Confirmed
    <3>2. QED
      BY <1>1, <3>1 DEF ReadBatch
  <2>7. twiceRead \subseteq twiceRead'
    BY <1>1 DEF ReadBatch
  <2>8. \A p, o \in BankRequest, c \in BankBatch \ twiceRead' :
          IsConfirming(p, c)' /\ IsConfirming(o, c)' => p = o
    BY <2>4, <2>5, <2>6, <2>7 DEF OneAtATime
  <2>9. \A p \in BankRequest, c \in BankBatch \ twiceRead' :
          IsConfirming(p, c)' => \A r \in Due(requests'[p]) : booked'[c][r] = 0
    <3>1. Due(requests'[q]) = BankRow
      BY <2>2 DEF Due
    <3>2. \A c \in BankBatch : IsConfirming(q, c)' => \A r \in BankRow : booked'[c][r] = 0
      BY <2>1, <2>3, <2>5
    <3>3. \A p \in BankRequest \ {q}, c \in BankBatch \ twiceRead' :
            IsConfirming(p, c)' => \A r \in Due(requests'[p]) : booked'[c][r] = 0
      BY <2>1, <2>4, <2>7 DEF OneAtATime
    <3>4. QED
      BY <3>1, <3>2, <3>3
  <2>10. \A p \in BankRequest :
           requests'[p].step = "insert_row" => requests'[p].row \notin requests'[p].left
    BY <2>2 DEF OneAtATime
  <2>11. QED
    BY <2>1, <2>7, <2>8, <2>9, <2>10 DEF OneAtATime, BookedOnce
\* The next row of a form is one of those left.
<1>2. ASSUME NEW rq \in AtTheRows \cup Working, NEW left \in SUBSET BankRow,
             NEW failed, NEW next \in TurnToRow(rq, left, failed)
      PROVE  /\ next.step \in {"insert_row", "mark_row"} /\ next.batch = rq.batch
             /\ Due(next) \subseteq left /\ next.row \notin next.left
  <2>1. PICK r \in left :
          /\ next.step \in {"insert_row", "mark_row"} /\ next.batch = rq.batch
          /\ next.left = left \ {r} /\ next.row = r
    BY <1>2 DEF TurnToRow
  <2>2. QED
    BY <2>1 DEF Due
<1>3. ASSUME NEW q \in BankRequest, InsertTransaction(q), UNCHANGED twiceRead
      PROVE  OneAtATime' /\ BookedOnce'
  <2>1. requests[q] \in Working /\ requests[q].step = "insert_row"
    BY <1>0, <1>3, RequestByStep DEF InsertTransaction
  <2> DEFINE b == requests[q].batch
             r == requests[q].row
  <2>2. b \in BankBatch /\ r \in BankRow /\ IsConfirming(q, b)
    BY <2>1 DEF Working, IsConfirming
  <2>3. /\ r \notin requests[q].left
        /\ Due(requests[q]) = requests[q].left \cup {r}
    BY <2>1 DEF OneAtATime, Due
  <2>4. \E next : /\ next.step = "mark_row" /\ next.batch = b /\ next.left = requests[q].left
                 /\ requests' = [requests EXCEPT ![q] = next]
    <3>1. CASE requests' = [requests EXCEPT ![q].step = "mark_row"]
      <4>1. WITNESS [requests[q] EXCEPT !.step = "mark_row"]
      <4>2. QED
        BY <1>0, <2>1, <3>1 DEF BankImportTypeOK, Working
    <3>2. CASE requests' = [requests EXCEPT ![q].step = "mark_row",
                              ![q].as = "failed", ![q].failed = TRUE]
      <4>1. WITNESS [requests[q] EXCEPT !.step = "mark_row", !.as = "failed", !.failed = TRUE]
      <4>2. QED
        BY <1>0, <2>1, <3>2 DEF BankImportTypeOK, Working
    <3>3. QED
      BY <1>3, <3>1, <3>2 DEF InsertTransaction
  <2>5. PICK next : /\ next.step = "mark_row" /\ next.batch = b
                    /\ next.left = requests[q].left
                    /\ requests' = [requests EXCEPT ![q] = next]
    BY <2>4
  <2>6. Due(next) = requests[q].left
    BY <2>5 DEF Due
  <2>7. CASE UNCHANGED booked
    <3>1. NoMoreDue(q, next)
      BY <2>2, <2>3, <2>5, <2>6 DEF NoMoreDue
    <3>2. QED
      BY <1>0, <1>3, <2>7, <3>1, NoMoreDueStep
  <2>8. CASE booked' = [booked EXCEPT ![b][r] = @ + 1]
    <3>1. \A c \in BankBatch, x \in BankRow :
            booked'[c][x] = IF c = b /\ x = r THEN booked[c][x] + 1 ELSE booked[c][x]
      BY <1>0, <2>2, <2>8 DEF BankImportTypeOK
    <3>2. \A p \in BankRequest : requests'[p] = IF p = q THEN next ELSE requests[p]
      BY <1>0, <2>5 DEF BankImportTypeOK
    <3>3. \A p \in BankRequest, c \in BankBatch : IsConfirming(p, c)' <=> IsConfirming(p, c)
      BY <2>2, <2>5, <3>2 DEF IsConfirming
    <3>4. b \notin twiceRead => booked[b][r] = 0
      BY <2>2, <2>3 DEF OneAtATime
    <3>5. BookedOnce'
      BY <1>3, <3>1, <3>4 DEF BookedOnce
    <3>6. \A p \in BankRequest, c \in BankBatch \ twiceRead :
            IsConfirming(p, c)' => \A x \in Due(requests'[p]) : booked'[c][x] = 0
      <4>1. ASSUME NEW p \in BankRequest, NEW c \in BankBatch \ twiceRead, IsConfirming(p, c)'
            PROVE  \A x \in Due(requests'[p]) : booked'[c][x] = 0
        <5>1. IsConfirming(p, c) /\ Due(requests'[p]) \subseteq Due(requests[p])
          BY <2>3, <2>6, <3>2, <3>3, <4>1
        <5>2. CASE c # b
          <6>1. \A x \in Due(requests[p]) : x \in BankRow
            <7>1. requests[p] \in AtTheRows \cup Working
              BY <1>0, <5>1, RequestByStep DEF IsConfirming
            <7>2. QED
              BY <7>1 DEF Due, AtTheRows, Working
          <6>2. QED
            BY <3>1, <5>1, <5>2, <6>1 DEF OneAtATime
        <5>3. CASE c = b
          <6>1. p = q
            BY <2>2, <5>1, <5>3 DEF OneAtATime
          <6>2. Due(requests'[p]) = requests[q].left /\ requests[q].left \subseteq BankRow
            BY <2>1, <2>6, <3>2, <6>1 DEF Working
          <6>3. \A x \in requests[q].left : booked[b][x] = 0
            BY <2>2, <2>3, <4>1, <5>3 DEF OneAtATime
          <6>4. QED
            BY <2>3, <3>1, <5>3, <6>2, <6>3
        <5>4. QED
          BY <5>2, <5>3
      <4>2. QED
        BY <4>1
    <3>7. \A p, o \in BankRequest, c \in BankBatch \ twiceRead :
            IsConfirming(p, c)' /\ IsConfirming(o, c)' => p = o
      BY <3>3 DEF OneAtATime
    <3>8. \A p \in BankRequest :
            requests'[p].step = "insert_row" => requests'[p].row \notin requests'[p].left
      BY <2>5, <3>2 DEF OneAtATime
    <3>9. QED
      BY <1>3, <3>5, <3>6, <3>7, <3>8 DEF OneAtATime
  <2>9. QED
    BY <1>3, <2>7, <2>8 DEF InsertTransaction
\* A request that moves on without a transaction.
<1>4. ASSUME NEW q \in BankRequest, NEW next, NoMoreDue(q, next),
             UNCHANGED <<booked, twiceRead>>
      PROVE  OneAtATime' /\ BookedOnce'
  BY <1>0, <1>4, NoMoreDueStep
<1>5. ASSUME NEW q \in BankRequest, UNCHANGED twiceRead,
             \/ \E f \in File : ParseStatement(q, f)
             \/ \E b \in BankBatch : InsertBatch(q, b)
             \/ InsertPreview(q)
             \/ BankRequestDies(q)
      PROVE  OneAtATime' /\ BookedOnce'
  <2>1. \E next : /\ requests' = [requests EXCEPT ![q] = next]
                 /\ next.step \in {"idle", "insert", "rows"}
    BY <1>5, IdleRequest DEF ParseStatement, InsertBatch, InsertPreview, BankRequestDies
  <2>2. UNCHANGED booked
    BY <1>5 DEF ParseStatement, InsertBatch, InsertPreview, BankRequestDies
  <2>3. QED
    BY <1>4, <1>5, <2>1, <2>2 DEF NoMoreDue
<1>6. ASSUME NEW q \in BankRequest, ReadPreview(q), UNCHANGED twiceRead
      PROVE  OneAtATime' /\ BookedOnce'
  <2>1. requests[q] \in AtTheRows /\ requests[q].step = "read"
    BY <1>0, <1>6, RequestByStep DEF ReadPreview
  <2>2. PICK seen : requests' = [requests EXCEPT ![q] = [requests[q] EXCEPT
                                   !.step = "start", !.known = seen]]
    BY <1>0, <1>6 DEF ReadPreview, BankImportTypeOK
  <2>3. NoMoreDue(q, [requests[q] EXCEPT !.step = "start", !.known = seen])
    BY <2>1, <2>2 DEF NoMoreDue, IsConfirming, Due, AtTheRows
  <2>4. QED
    BY <1>4, <1>6, <2>3 DEF ReadPreview
<1>7. ASSUME NEW q \in BankRequest, StartProcessing(q), UNCHANGED twiceRead
      PROVE  OneAtATime' /\ BookedOnce'
  <2>1. requests[q] \in AtTheRows /\ requests[q].step = "start"
    BY <1>0, <1>7, RequestByStep DEF StartProcessing
  <2>2. PICK next \in TurnToRow(requests[q], BankRow, FALSE) :
          requests' = [requests EXCEPT ![q] = next]
    BY <1>7 DEF StartProcessing
  <2>3. NoMoreDue(q, next)
    <3>1. Due(requests[q]) = BankRow /\ IsConfirming(q, requests[q].batch)
      BY <2>1 DEF Due, IsConfirming
    <3>2. /\ next.step \in {"insert_row", "mark_row"} /\ next.batch = requests[q].batch
          /\ Due(next) \subseteq BankRow /\ next.row \notin next.left
      BY <1>2, <2>1
    <3>3. QED
      BY <2>2, <3>1, <3>2 DEF NoMoreDue
  <2>4. QED
    BY <1>4, <1>7, <2>3 DEF StartProcessing
<1>8. ASSUME NEW q \in BankRequest, MarkRow(q), UNCHANGED twiceRead
      PROVE  OneAtATime' /\ BookedOnce'
  <2>1. requests[q] \in Working /\ requests[q].step = "mark_row"
    BY <1>0, <1>8, RequestByStep DEF MarkRow
  <2>2. CASE requests' = [requests EXCEPT ![q] = Idle]
    BY <1>4, <1>8, <2>2, IdleRequest DEF NoMoreDue, MarkRow
  <2>3. CASE \E next \in TurnToRow(requests[q], requests[q].left, requests[q].failed) :
               requests' = [requests EXCEPT ![q] = next]
    <3>1. PICK next \in TurnToRow(requests[q], requests[q].left, requests[q].failed) :
            requests' = [requests EXCEPT ![q] = next]
      BY <2>3
    <3>2. Due(requests[q]) = requests[q].left /\ IsConfirming(q, requests[q].batch)
      BY <2>1 DEF Due, IsConfirming
    <3>3. requests[q].left \in SUBSET BankRow
      BY <2>1 DEF Working
    <3>4. NoMoreDue(q, next)
      BY <1>2, <2>1, <3>1, <3>2, <3>3 DEF NoMoreDue
    <3>5. QED
      BY <1>4, <1>8, <3>4 DEF MarkRow
  <2>4. QED
    BY <1>8, <2>2, <2>3 DEF MarkRow
<1>9. CASE UNCHANGED <<requests, booked, twiceRead>>
  BY <1>9 DEF OneAtATime, IsConfirming, Due, BookedOnce
<1>10. QED
  BY <1>1, <1>3, <1>5, <1>6, <1>7, <1>8, <1>9 DEF BankImportNext, BankImportStep,
     DiscardBatch, ArchiveBatch, bankImportVars

LEMMA OneAtATimeInit == BankImportInit => OneAtATime /\ BookedOnce
BY DEF BankImportInit, OneAtATime, IsConfirming, Due, BookedOnce, Idle

-----------------------------------------------------------------------------
\* Batches, preview, transactions and requests keep their types.
THEOREM BankImportTypeCorrect == BankImportSpec => []BankImportTypeOK
<1>1. BankImportInv => BankImportTypeOK
  BY DEF BankImportInv
<1>2. QED
  BY <1>1, BankImportInitInv, BankImportNextInv, PTL DEF BankImportSpec

\* However parse and confirm requests overlap with each other and with a
\* discard, every bank transaction keeps the preview row it was made from, and
\* only two confirmations that read the preview together make two of one row
\* (discard_bank_import_batch of 0022, POST of bank-imports/confirm).
THEOREM OneTransactionPerRowHolds == BankImportSpec => []OneTransactionPerRow
<1>1. BankImportInit => BankImportInv /\ OneAtATime /\ BookedOnce
  BY BankImportInitInv, OneAtATimeInit
<1>2. BankImportInv /\ OneAtATime /\ BookedOnce /\ [BankImportNext]_bankImportVars
        => (BankImportInv /\ OneAtATime /\ BookedOnce)'
  BY BankImportNextInv, OneAtATimeNext
<1>3. BankImportInv /\ BookedOnce => OneTransactionPerRow
  BY DEF BankImportInv, OneTransactionPerRow
<1>4. QED
  BY <1>1, <1>2, <1>3, PTL DEF BankImportSpec
=============================================================================
