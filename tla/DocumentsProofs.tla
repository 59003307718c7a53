--------------------------- MODULE DocumentsProofs ---------------------------
(***************************************************************************)
(* Proofs about Documents, for any documents and any number of uploads and *)
(* deletions at once, and about RecurringBills, for any obligations, any   *)
(* number of requests at once and any number of months.                    *)
(***************************************************************************)
EXTENDS Documents, RecurringBills, TLAPS

\* A link has its row, an upload works on a document nobody has linked, and
\* before the bill there are no links.
LinksAreOfDocuments ==
  /\ \A d \in links : Exists(d)
  /\ \A q \in Upload : uploads[q] # NoCall => uploads[q].doc \notin links
  /\ bill = "none" => links = {}

DocumentsInv == DocumentsTypeOK /\ LinksAreOfDocuments /\ VisibleDocumentHasItsFile

-----------------------------------------------------------------------------
(* Types *)

\* A request at work names a document.
LEMMA UploadRecord ==
  ASSUME DocumentsTypeOK, NEW q \in Upload, uploads[q] # NoCall
  PROVE  uploads[q] \in [step : {"file", "row", "remove"}, doc : Doc]
BY DEF DocumentsTypeOK, UploadState

LEMMA DeletionRecord ==
  ASSUME DocumentsTypeOK, NEW q \in Deletion, deletions[q] # NoCall
  PROVE  deletions[q] \in
           [step : {"download", "remove", "metadata", "restore"}, doc : Doc]
BY DEF DocumentsTypeOK, DeletionState

LEMMA DocumentsNextTypeOK ==
  DocumentsTypeOK /\ [DocumentsNext]_documentVars => DocumentsTypeOK'
<1> SUFFICES ASSUME DocumentsTypeOK, [DocumentsNext]_documentVars
             PROVE  DocumentsTypeOK'
  OBVIOUS
<1> DEFINE NewUpload(d) == [step |-> "file", doc |-> d]
<1>1. \A d \in Doc : NewUpload(d) \in UploadState
  BY DEF UploadState
<1>2. NoCall \in UploadState /\ NoCall \in DeletionState
  BY DEF UploadState, DeletionState
<1>3. ASSUME NEW q \in Upload, NEW chosen \in SUBSET Doc, SaveBill(q, chosen)
      PROVE  DocumentsTypeOK'
  <2>1. uploads' \in [Upload -> UploadState]
    <3>1. CASE chosen = {}
      BY <1>3, <3>1 DEF SaveBill, DocumentsTypeOK
    <3>2. CASE chosen # {}
      <4>1. (CHOOSE d \in chosen : TRUE) \in Doc
        BY <3>2
      <4>2. QED
        BY <1>1, <1>3, <3>2, <4>1 DEF SaveBill, DocumentsTypeOK
    <3>3. QED
      BY <3>1, <3>2
  <2>2. QED
    BY <1>3, <2>1 DEF SaveBill, DocumentsTypeOK
<1>4. ASSUME NEW q \in Upload, NEW d \in Doc, UploadToBill(q, d)
      PROVE  DocumentsTypeOK'
  BY <1>1, <1>4 DEF UploadToBill, DocumentsTypeOK
<1>5. ASSUME NEW q \in Upload,
             \/ StoreFile(q) \/ InsertDocument(q) \/ RemoveUploaded(q) \/ UploadDies(q)
      PROVE  DocumentsTypeOK'
  <2>1. uploads[q] # NoCall
    BY <1>5 DEF StoreFile, InsertDocument, RemoveUploaded, UploadDies, NoCall
  <2>2. uploads[q] \in [step : {"file", "row", "remove"}, doc : Doc]
    BY <2>1, UploadRecord
  <2>3. \A s \in {"row", "remove"} : [uploads[q] EXCEPT !.step = s] \in UploadState
    BY <2>2 DEF UploadState
  <2>4. CASE StoreFile(q)
    BY <2>2, <2>3, <2>4 DEF StoreFile, DocumentsTypeOK
  <2>5. CASE InsertDocument(q)
    BY <1>2, <2>2, <2>3, <2>5 DEF InsertDocument, DocumentsTypeOK
  <2>6. CASE RemoveUploaded(q)
    BY <1>2, <2>2, <2>6 DEF RemoveUploaded, WithoutFile, DocumentsTypeOK
  <2>7. CASE UploadDies(q)
    BY <1>2, <2>7 DEF UploadDies, DocumentsTypeOK
  <2>8. QED
    BY <1>5, <2>4, <2>5, <2>6, <2>7
<1>6. ASSUME NEW d \in Doc, IntakeAttaches(d) \/ Archive(d) \/ Restore(d)
      PROVE  DocumentsTypeOK'
  BY <1>6 DEF IntakeAttaches, Archive, Restore, Evidence, DocumentsTypeOK
<1>7. ASSUME NEW q \in Deletion, NEW d \in Doc, ReadDocument(q, d)
      PROVE  DocumentsTypeOK'
  <2>1. [step |-> "download", doc |-> d] \in DeletionState
    BY DEF DeletionState
  <2>2. QED
    BY <1>7, <2>1 DEF ReadDocument, DocumentsTypeOK
<1>8. ASSUME NEW q \in Deletion,
             \/ Download(q) \/ RemoveFile(q) \/ DeleteMetadata(q)
             \/ RestoreFile(q) \/ DeletionDies(q)
      PROVE  DocumentsTypeOK'
  <2>1. deletions[q] # NoCall
    BY <1>8 DEF Download, RemoveFile, DeleteMetadata, RestoreFile, DeletionDies, NoCall
  <2>2. deletions[q] \in
          [step : {"download", "remove", "metadata", "restore"}, doc : Doc]
    BY <2>1, DeletionRecord
  <2>3. \A s \in {"remove", "metadata", "restore"} :
          [deletions[q] EXCEPT !.step = s] \in DeletionState
    BY <2>2 DEF DeletionState
  <2>4. CASE Download(q)
    BY <1>2, <2>3, <2>4 DEF Download, DocumentsTypeOK
  <2>5. CASE RemoveFile(q)
    BY <2>2, <2>3, <2>5 DEF RemoveFile, WithoutFile, DocumentsTypeOK
  <2>6. CASE DeleteMetadata(q)
    BY <1>2, <2>2, <2>3, <2>6 DEF DeleteMetadata, Evidence, DocumentsTypeOK
  <2>7. CASE RestoreFile(q)
    BY <1>2, <2>2, <2>7 DEF RestoreFile, Restored, DocumentsTypeOK
  <2>8. CASE DeletionDies(q)
    BY <1>2, <2>2, <2>8 DEF DeletionDies, DocumentsTypeOK
  <2>9. QED
    BY <1>8, <2>4, <2>5, <2>6, <2>7, <2>8
<1>9. CASE UNCHANGED documentVars
  BY <1>9 DEF documentVars, DocumentsTypeOK
<1>10. QED
  BY <1>3, <1>4, <1>5, <1>6, <1>7, <1>8, <1>9 DEF DocumentsNext

-----------------------------------------------------------------------------
(* Links *)

\* A link is made for a fresh document only, so an upload never meets one.
LEMMA NextLinks ==
  DocumentsInv /\ [DocumentsNext]_documentVars => LinksAreOfDocuments'
<1> SUFFICES ASSUME DocumentsInv, [DocumentsNext]_documentVars
             PROVE  LinksAreOfDocuments'
  OBVIOUS
<1> USE DEF DocumentsInv
<1>1. ASSUME NEW q \in Upload, NEW chosen \in SUBSET Doc, SaveBill(q, chosen)
      PROVE  LinksAreOfDocuments'
  BY <1>1 DEF SaveBill, LinksAreOfDocuments, Exists
<1>2. ASSUME NEW q \in Upload, NEW d \in Doc, UploadToBill(q, d)
      PROVE  LinksAreOfDocuments'
  <2>1. d \notin links
    BY <1>2 DEF UploadToBill, IsFresh, LinksAreOfDocuments
  <2>2. QED
    BY <1>2, <2>1 DEF UploadToBill, LinksAreOfDocuments, DocumentsTypeOK, Exists
<1>3. ASSUME NEW q \in Upload,
             \/ StoreFile(q) \/ InsertDocument(q) \/ RemoveUploaded(q) \/ UploadDies(q)
      PROVE  LinksAreOfDocuments'
  <2>1. uploads[q] # NoCall /\ uploads[q].doc \notin links
    BY <1>3 DEF StoreFile, InsertDocument, RemoveUploaded, UploadDies, NoCall,
       LinksAreOfDocuments
  <2>2. UNCHANGED <<documents, links, bill>>
    BY <1>3, <2>1 DEF StoreFile, InsertDocument, RemoveUploaded, UploadDies
  <2>3. uploads[q] \in [step : {"file", "row", "remove"}, doc : Doc]
    BY <2>1, UploadRecord
  <2>4. \/ uploads' = [uploads EXCEPT ![q] = NoCall]
        \/ \E s \in {"row", "remove"} : uploads' = [uploads EXCEPT ![q].step = s]
    BY <1>3, <2>1 DEF StoreFile, InsertDocument, RemoveUploaded, UploadDies
  <2>5. ASSUME NEW p \in Upload, uploads'[p] # NoCall
        PROVE  uploads'[p].doc \notin links
    <3>1. CASE p = q
      BY <2>1, <2>3, <2>4, <2>5, <3>1 DEF DocumentsTypeOK
    <3>2. CASE p # q
      BY <2>4, <2>5, <3>2 DEF DocumentsTypeOK, LinksAreOfDocuments
    <3>3. QED
      BY <3>1, <3>2
  <2>6. QED
    BY <2>2, <2>5 DEF LinksAreOfDocuments, Exists
<1>4. ASSUME NEW d \in Doc, IntakeAttaches(d) PROVE LinksAreOfDocuments'
  <2>1. \A q \in Upload : uploads[q] # NoCall => uploads[q].doc # d
    BY <1>4 DEF IntakeAttaches, IsFresh, InUse, Subject
  <2>2. QED
    BY <1>4, <2>1 DEF IntakeAttaches, LinksAreOfDocuments, Exists, Evidence,
       DocumentsTypeOK
<1>5. ASSUME NEW d \in Doc, Archive(d) \/ Restore(d) PROVE LinksAreOfDocuments'
  BY <1>5 DEF Archive, Restore, LinksAreOfDocuments, Exists, DocumentsTypeOK
<1>6. ASSUME NEW q \in Deletion, DeleteMetadata(q) PROVE LinksAreOfDocuments'
  BY <1>6 DEF DeleteMetadata, LinksAreOfDocuments, Exists, Evidence, DocumentsTypeOK
<1>7. ASSUME NEW q \in Deletion,
             \/ \E d \in Doc : ReadDocument(q, d)
             \/ Download(q) \/ RemoveFile(q) \/ RestoreFile(q) \/ DeletionDies(q)
      PROVE  LinksAreOfDocuments'
  BY <1>7 DEF ReadDocument, Download, RemoveFile, RestoreFile, DeletionDies,
     LinksAreOfDocuments, Exists
<1>8. CASE UNCHANGED documentVars
  BY <1>8 DEF documentVars, LinksAreOfDocuments, Exists
<1>9. QED
  BY <1>1, <1>2, <1>3, <1>4, <1>5, <1>6, <1>7, <1>8 DEF DocumentsNext

-----------------------------------------------------------------------------
(* Files *)

\* A deletion between the removal of the file and its return.
Holds(q, d) ==
  d \in Subject(deletions[q]) /\ deletions[q].step \in {"metadata", "restore"}

\* A visible document with neither its file nor a deletion that holds it.
LEMMA NextFiles ==
  DocumentsInv /\ [DocumentsNext]_documentVars => VisibleDocumentHasItsFile'
<1> SUFFICES ASSUME DocumentsInv, [DocumentsNext]_documentVars,
                    NEW d \in Doc, IsVisible(d)',
                    d \notin files' \cup lost'
             PROVE  \E q \in Deletion : Holds(q, d)'
  BY DEF VisibleDocumentHasItsFile, Holds
<1> USE DEF DocumentsInv
\* What has to be shown when the step leaves the document as it was.
<1>1. ASSUME IsVisible(d), d \notin files \cup lost
      PROVE  \E q \in Deletion : Holds(q, d)
  BY <1>1 DEF VisibleDocumentHasItsFile, Holds
<1>2. ASSUME NEW q \in Upload, NEW chosen \in SUBSET Doc, SaveBill(q, chosen)
      PROVE  \E p \in Deletion : Holds(p, d)'
  BY <1>1, <1>2 DEF SaveBill, Holds, IsVisible, Exists
<1>3. ASSUME NEW q \in Upload, NEW e \in Doc, UploadToBill(q, e)
      PROVE  \E p \in Deletion : Holds(p, d)'
  BY <1>1, <1>3 DEF UploadToBill, Holds, IsVisible, Exists
<1>4. ASSUME NEW q \in Upload,
             \/ StoreFile(q) \/ InsertDocument(q) \/ RemoveUploaded(q) \/ UploadDies(q)
      PROVE  \E p \in Deletion : Holds(p, d)'
  <2>1. uploads[q] # NoCall /\ uploads[q].doc \notin links
    BY <1>4 DEF StoreFile, InsertDocument, RemoveUploaded, UploadDies, NoCall,
       LinksAreOfDocuments
  <2>2. /\ files \subseteq files'
        /\ UNCHANGED <<documents, links, deletions, lost>>
    BY <1>4, <2>1 DEF StoreFile, InsertDocument, RemoveUploaded, UploadDies,
       WithoutFile, IsVisible
  <2>3. QED
    BY <1>1, <2>2 DEF Holds, IsVisible, Exists
<1>5. ASSUME NEW e \in Doc, IntakeAttaches(e) PROVE \E p \in Deletion : Holds(p, d)'
  <2>1. d # e /\ d \notin files
    BY <1>5 DEF IntakeAttaches
  <2>2. IsVisible(d) /\ d \notin lost
    BY <1>5, <2>1 DEF IntakeAttaches, IsVisible, Exists, DocumentsTypeOK
  <2>3. QED
    BY <1>1, <1>5, <2>1, <2>2 DEF IntakeAttaches, Holds
<1>6. ASSUME NEW e \in Doc, Archive(e) \/ Restore(e)
      PROVE  \E p \in Deletion : Holds(p, d)'
  <2>1. IsVisible(d)
    BY <1>6 DEF Archive, Restore, IsVisible, Exists, DocumentsTypeOK
  <2>2. QED
    BY <1>1, <1>6, <2>1 DEF Archive, Restore, Holds
<1>7. ASSUME NEW q \in Deletion, NEW e \in Doc, ReadDocument(q, e)
      PROVE  \E p \in Deletion : Holds(p, d)'
  <2>1. PICK p \in Deletion : Holds(p, d)
    BY <1>1, <1>7 DEF ReadDocument, IsVisible, Exists
  <2>2. p # q
    BY <1>7, <2>1 DEF ReadDocument, Holds, Subject
  <2>3. deletions'[p] = deletions[p]
    BY <1>7, <2>2 DEF ReadDocument, DocumentsTypeOK
  <2>4. QED
    BY <2>1, <2>3 DEF Holds
<1>8. ASSUME NEW q \in Deletion,
             \/ Download(q) \/ RemoveFile(q) \/ DeleteMetadata(q)
             \/ RestoreFile(q) \/ DeletionDies(q)
      PROVE  \E p \in Deletion : Holds(p, d)'
  <2>1. deletions[q] # NoCall
    BY <1>8 DEF Download, RemoveFile, DeleteMetadata, RestoreFile, DeletionDies, NoCall
  <2>2. deletions[q] \in
          [step : {"download", "remove", "metadata", "restore"}, doc : Doc]
    BY <2>1, DeletionRecord
  <2> DEFINE e == deletions[q].doc
  <2>3. IsVisible(d)
    BY <1>8, <2>2 DEF Download, RemoveFile, DeleteMetadata, RestoreFile, DeletionDies,
       IsVisible, Exists, DocumentsTypeOK
  <2>4. ASSUME NEW p \in Deletion, p # q PROVE deletions'[p] = deletions[p]
    BY <1>8, <2>4 DEF Download, RemoveFile, DeleteMetadata, RestoreFile, DeletionDies,
       DocumentsTypeOK
  <2>5. CASE Download(q)
    <3>1. PICK p \in Deletion : Holds(p, d)
      BY <1>1, <2>3, <2>5 DEF Download
    <3>2. p # q
      BY <2>5, <3>1 DEF Download, Holds
    <3>3. QED
      BY <2>4, <3>1, <3>2 DEF Holds
  <2>6. CASE RemoveFile(q)
    <3>1. CASE d = e
      <4>1. deletions'[q] = [deletions[q] EXCEPT !.step = "metadata"]
        BY <2>6 DEF RemoveFile, DocumentsTypeOK
      <4>2. deletions'[q].step = "metadata" /\ deletions'[q].doc = d /\ deletions'[q] # NoCall
        BY <2>2, <3>1, <4>1 DEF NoCall
      <4>3. Holds(q, d)'
        BY <4>2 DEF Holds, Subject
      <4>4. QED
        BY <4>3
    <3>2. CASE d # e
      <4>1. d \notin files \cup lost
        BY <2>6, <3>2 DEF RemoveFile, WithoutFile
      <4>2. PICK p \in Deletion : Holds(p, d)
        BY <1>1, <2>3, <4>1
      <4>3. p # q
        BY <2>1, <3>2, <4>2 DEF Holds, Subject
      <4>4. QED
        BY <2>4, <4>2, <4>3 DEF Holds
    <3>3. QED
      BY <3>1, <3>2
  <2>7. CASE DeleteMetadata(q)
    <3>1. PICK p \in Deletion : Holds(p, d)
      BY <1>1, <2>3, <2>7 DEF DeleteMetadata
    <3>2. CASE p # q
      BY <2>4, <3>1, <3>2 DEF Holds
    <3>3. CASE p = q
      <4>1. d = e
        BY <2>1, <3>1, <3>3 DEF Holds, Subject
      <4>2. deletions'[q] = [deletions[q] EXCEPT !.step = "restore"]
        BY <2>7, <4>1 DEF DeleteMetadata, DocumentsTypeOK, IsVisible, Exists
      <4>3. deletions'[q].step = "restore" /\ deletions'[q].doc = d /\ deletions'[q] # NoCall
        BY <2>2, <4>1, <4>2 DEF NoCall
      <4>4. Holds(q, d)'
        BY <4>3 DEF Holds, Subject
      <4>5. QED
        BY <4>4
    <3>4. QED
      BY <3>2, <3>3
  <2>8. CASE RestoreFile(q) \/ DeletionDies(q)
    <3>1. d # e /\ d \notin files \cup lost
      BY <2>8 DEF RestoreFile, Restored, DeletionDies
    <3>2. PICK p \in Deletion : Holds(p, d)
      BY <1>1, <2>3, <3>1
    <3>3. p # q
      BY <2>1, <3>1, <3>2 DEF Holds, Subject
    <3>4. QED
      BY <2>4, <3>2, <3>3 DEF Holds
  <2>9. QED
    BY <1>8, <2>5, <2>6, <2>7, <2>8
<1>9. CASE UNCHANGED documentVars
  BY <1>1, <1>9 DEF documentVars, Holds, IsVisible, Exists
<1>10. QED
  BY <1>2, <1>3, <1>4, <1>5, <1>6, <1>7, <1>8, <1>9 DEF DocumentsNext

-----------------------------------------------------------------------------
LEMMA DocumentsInitInv == DocumentsInit => DocumentsInv
BY DEF DocumentsInit, DocumentsInv, DocumentsTypeOK, LinksAreOfDocuments,
   VisibleDocumentHasItsFile, IsVisible, UploadState, DeletionState

LEMMA DocumentsNextInv == DocumentsInv /\ [DocumentsNext]_documentVars => DocumentsInv'
BY DocumentsNextTypeOK, NextLinks, NextFiles DEF DocumentsInv

\* Rows, links and requests keep their types.
THEOREM DocumentsTypeCorrect == DocumentsSpec => []DocumentsTypeOK
BY DocumentsInitInv, DocumentsNextInv, PTL DEF DocumentsSpec, DocumentsInv

\* However uploads and deletions overlap and fail, a document people see has
\* its file, or is in the hands of a deletion, or was reported lost.
THEOREM VisibleDocumentHasItsFileHolds ==
  DocumentsSpec => []VisibleDocumentHasItsFile
BY DocumentsInitInv, DocumentsNextInv, PTL DEF DocumentsSpec, DocumentsInv

-----------------------------------------------------------------------------
(* Recurring bills *)

\* What a request knows: the month it began in, the obligations it has still
\* to take up, and the one whose schedule it is about to move.
CallState ==
  {IdleCall} \cup
  [step : {"bill", "schedule"}, month : Month, left : SUBSET Obligation,
   at : SUBSET Obligation]

RecurringInv ==
  /\ RecurringTypeOK
  /\ calls \in [GenerateCall -> CallState]
  /\ ScheduleFollowsBill

-----------------------------------------------------------------------------
LEMMA RecurringInitInv == RecurringInit => RecurringInv
BY RecurringAssumption DEF RecurringInit, RecurringInv, RecurringTypeOK, CallState,
   ScheduleFollowsBill, Month, NoMonth, Unsaved

\* A request at work has a record with all its fields.
LEMMA AtWorkRecord ==
  ASSUME NEW q \in GenerateCall, RecurringInv,
         calls[q].step \in {"bill", "schedule"}
  PROVE  /\ calls[q] # IdleCall
         /\ calls[q] \in [step : {"bill", "schedule"}, month : Month,
                          left : SUBSET Obligation, at : SUBSET Obligation]
         /\ calls[q].month \in 1..month
         /\ \A o \in calls[q].at : <<o, calls[q].month>> \in generated
<1>1. calls[q] # IdleCall
  BY DEF IdleCall
<1>2. QED
  BY <1>1 DEF RecurringInv, RecurringTypeOK, CallState

\* A change of one request's record that keeps what the invariant says of it.
LEMMA CallChange ==
  ASSUME NEW q \in GenerateCall, NEW c \in CallState, RecurringInv,
         calls' = [calls EXCEPT ![q] = c],
         UNCHANGED <<month, schedule, since>>,
         generated \subseteq generated', generated' \subseteq Obligation \X Month,
         c # IdleCall =>
           /\ c.month \in 1..month
           /\ \A o \in c.at : <<o, c.month>> \in generated'
  PROVE  RecurringInv'
<1>1. calls' \in [GenerateCall -> CallState]
  BY DEF RecurringInv
<1>2. ASSUME NEW p \in GenerateCall, calls'[p] # IdleCall
      PROVE  /\ calls'[p].step \in {"bill", "schedule"}
             /\ calls'[p].month \in 1..month'
             /\ calls'[p].left \subseteq Obligation /\ calls'[p].at \subseteq Obligation
             /\ \A o \in calls'[p].at : <<o, calls'[p].month>> \in generated'
  <2>1. CASE p = q
    <3>1. calls'[p] = c
      BY <2>1 DEF RecurringInv
    <3>2. QED
      BY <1>2, <3>1 DEF CallState
  <2>2. CASE p # q
    <3>1. calls'[p] = calls[p]
      BY <2>2 DEF RecurringInv
    <3>2. QED
      BY <1>2, <3>1 DEF RecurringInv, RecurringTypeOK
  <2>3. QED
    BY <2>1, <2>2
<1>3. RecurringTypeOK'
  BY <1>2 DEF RecurringInv, RecurringTypeOK
<1>4. ScheduleFollowsBill'
  BY DEF RecurringInv, ScheduleFollowsBill
<1>5. QED
  BY <1>1, <1>3, <1>4 DEF RecurringInv

-----------------------------------------------------------------------------
\* One step per action.  Only AdvanceSchedule moves a schedule past a month,
\* and a request is there only when it has put the month's bill in the table.
LEMMA RecurringNextInv == RecurringInv /\ [RecurringNext]_recurringVars => RecurringInv'
<1> SUFFICES ASSUME RecurringInv, [RecurringNext]_recurringVars
             PROVE  RecurringInv'
  OBVIOUS
<1> USE RecurringAssumption
<1>1. ASSUME NEW o \in Obligation, SaveRecurring(o) \/ ImportRecurring(o)
      PROVE  RecurringInv'
  <2>1. /\ schedule' \in [Obligation -> 0..Unsaved]
        /\ since' \in [Obligation -> 0..LastMonth]
    BY <1>1 DEF SaveRecurring, ImportRecurring, RecurringInv, RecurringTypeOK,
       Month, NoMonth, Unsaved
  <2>2. ASSUME NEW p \in Obligation,
               schedule'[p] \in Month \cup {LastMonth + 1}, schedule'[p] > since'[p]
        PROVE  <<p, schedule'[p] - 1>> \in generated
    BY <1>1, <2>2 DEF SaveRecurring, ImportRecurring, RecurringInv, RecurringTypeOK,
       ScheduleFollowsBill, Month, NoMonth
  <2>3. UNCHANGED <<month, generated, calls>>
    BY <1>1 DEF SaveRecurring, ImportRecurring
  <2>4. QED
    BY <2>1, <2>2, <2>3 DEF RecurringInv, RecurringTypeOK, ScheduleFollowsBill
<1>2. ASSUME NEW q \in GenerateCall, ReadObligations(q) PROVE RecurringInv'
  <2> DEFINE c == [step |-> "bill", month |-> month, left |-> DueNow(month), at |-> {}]
  <2>1. c \in CallState /\ c.month \in 1..month /\ c.at = {}
    BY DEF CallState, DueNow, RecurringInv, RecurringTypeOK, Month
  <2>2. generated \subseteq Obligation \X Month
    BY DEF RecurringInv, RecurringTypeOK
  <2> HIDE DEF c
  <2>3. calls' = [calls EXCEPT ![q] = c] /\ UNCHANGED <<month, schedule, since, generated>>
    BY <1>2 DEF ReadObligations, c
  <2>4. QED
    BY <2>1, <2>2, <2>3, CallChange
<1>3. ASSUME NEW q \in GenerateCall, NEW o \in Obligation, InsertBill(q, o)
      PROVE  RecurringInv'
  <2>1. /\ calls[q] \in [step : {"bill", "schedule"}, month : Month,
                         left : SUBSET Obligation, at : SUBSET Obligation]
        /\ calls[q].month \in 1..month
        /\ \A x \in calls[q].at : <<x, calls[q].month>> \in generated
    BY <1>3, AtWorkRecord DEF InsertBill
  <2>2. generated \subseteq Obligation \X Month
    BY DEF RecurringInv, RecurringTypeOK
  <2>3. CASE /\ generated' = generated \cup {<<o, calls[q].month>>}
             /\ calls' = [calls EXCEPT ![q].step = "schedule", ![q].at = {o},
                                       ![q].left = @ \ {o}]
    <3> DEFINE c == [calls[q] EXCEPT !.step = "schedule", !.at = {o},
                                     !.left = calls[q].left \ {o}]
    <3>1. c \in CallState /\ c.month = calls[q].month /\ c.at = {o}
      BY <2>1 DEF CallState
    <3>2. calls' = [calls EXCEPT ![q] = c]
      BY <2>3 DEF RecurringInv
    <3>3. generated \subseteq generated' /\ generated' \subseteq Obligation \X Month
      BY <2>1, <2>2, <2>3
    <3>4. \A x \in c.at : <<x, c.month>> \in generated'
      BY <2>3, <3>1
    <3>5. UNCHANGED <<month, schedule, since>>
      BY <1>3 DEF InsertBill
    <3> HIDE DEF c
    <3>6. QED
      BY <2>1, <3>1, <3>2, <3>3, <3>4, <3>5, CallChange
  <2>4. CASE calls' = [calls EXCEPT ![q].left = @ \ {o}] /\ UNCHANGED generated
    <3> DEFINE c == [calls[q] EXCEPT !.left = calls[q].left \ {o}]
    <3>1. c \in CallState /\ c.month = calls[q].month /\ c.at = calls[q].at
      BY <2>1 DEF CallState
    <3>2. calls' = [calls EXCEPT ![q] = c]
      BY <2>4 DEF RecurringInv
    <3>3. UNCHANGED <<month, schedule, since>>
      BY <1>3 DEF InsertBill
    <3> HIDE DEF c
    <3>4. QED
      BY <2>1, <2>2, <2>4, <3>1, <3>2, <3>3, CallChange
  <2>5. QED
    BY <1>3, <2>3, <2>4 DEF InsertBill
<1>4. ASSUME NEW q \in GenerateCall, NEW o \in Obligation, AdvanceSchedule(q, o)
      PROVE  RecurringInv'
  <2>1. /\ calls[q] \in [step : {"bill", "schedule"}, month : Month,
                         left : SUBSET Obligation, at : SUBSET Obligation]
        /\ calls[q].month \in 1..month
        /\ <<o, calls[q].month>> \in generated
    BY <1>4, AtWorkRecord DEF AdvanceSchedule
  <2> DEFINE c == [calls[q] EXCEPT !.step = "bill", !.at = {}]
  <2>2. c \in CallState /\ c.month = calls[q].month /\ c.at = {}
    BY <2>1 DEF CallState
  <2>3. calls' = [calls EXCEPT ![q] = c] /\ UNCHANGED <<month, since, generated>>
    BY <1>4 DEF AdvanceSchedule, RecurringInv
  <2>4. schedule' = [schedule EXCEPT ![o] = calls[q].month + 1] \/ UNCHANGED schedule
    BY <1>4 DEF AdvanceSchedule, NextMonth
  <2> HIDE DEF c
  <2>5. ASSUME NEW p \in GenerateCall, calls'[p] # IdleCall
        PROVE  /\ calls'[p].step \in {"bill", "schedule"}
               /\ calls'[p].month \in 1..month
               /\ calls'[p].left \subseteq Obligation /\ calls'[p].at \subseteq Obligation
               /\ \A x \in calls'[p].at : <<x, calls'[p].month>> \in generated
    <3>1. CASE p = q
      <4>1. calls'[p] = c
        BY <2>3, <3>1 DEF RecurringInv
      <4>2. QED
        BY <2>1, <2>2, <2>5, <4>1 DEF CallState
    <3>2. CASE p # q
      <4>1. calls'[p] = calls[p]
        BY <2>3, <3>2 DEF RecurringInv
      <4>2. QED
        BY <2>5, <4>1 DEF RecurringInv, RecurringTypeOK
    <3>3. QED
      BY <3>1, <3>2
  <2>6. schedule' \in [Obligation -> 0..Unsaved]
    BY <2>1, <2>4 DEF RecurringInv, RecurringTypeOK, Month, Unsaved
  <2>7. RecurringTypeOK'
    BY <2>3, <2>5, <2>6 DEF RecurringInv, RecurringTypeOK
  <2>8. ScheduleFollowsBill'
    <3>1. ASSUME NEW p \in Obligation,
                 schedule'[p] \in Month \cup {LastMonth + 1}, schedule'[p] > since[p]
          PROVE  <<p, schedule'[p] - 1>> \in generated
      <4>1. CASE p = o /\ schedule'[p] = calls[q].month + 1
        <5>1. schedule'[p] - 1 = calls[q].month
          BY <2>1, <4>1 DEF Month
        <5>2. QED
          BY <2>1, <4>1, <5>1
      <4>2. CASE schedule'[p] = schedule[p]
        BY <3>1, <4>2 DEF RecurringInv, ScheduleFollowsBill
      <4>3. QED
        BY <2>4, <4>1, <4>2 DEF RecurringInv, RecurringTypeOK
    <3>2. QED
      BY <2>3, <3>1 DEF ScheduleFollowsBill
  <2>9. calls' \in [GenerateCall -> CallState]
    BY <2>2, <2>3 DEF RecurringInv
  <2>10. QED
    BY <2>7, <2>8, <2>9 DEF RecurringInv
<1>5. ASSUME NEW q \in GenerateCall, AnswerGenerate(q) \/ GenerateDies(q)
      PROVE  RecurringInv'
  <2>1. /\ calls' = [calls EXCEPT ![q] = IdleCall]
        /\ UNCHANGED <<month, schedule, since, generated>>
    BY <1>5 DEF AnswerGenerate, GenerateDies
  <2>2. IdleCall \in CallState /\ generated \subseteq Obligation \X Month
    BY DEF CallState, RecurringInv, RecurringTypeOK
  <2>3. QED
    BY <2>1, <2>2, CallChange
<1>6. CASE MonthPasses
  BY <1>6 DEF MonthPasses, RecurringInv, RecurringTypeOK, ScheduleFollowsBill, Month
<1>7. CASE UNCHANGED recurringVars
  BY <1>7 DEF recurringVars, RecurringInv, RecurringTypeOK, ScheduleFollowsBill
<1>8. QED
  BY <1>1, <1>2, <1>3, <1>4, <1>5, <1>6, <1>7 DEF RecurringNext

\* Requests, obligations and months keep their types.
THEOREM RecurringTypeCorrect == RecurringSpec => []RecurringTypeOK
<1>1. RecurringInv => RecurringTypeOK
  BY DEF RecurringInv
<1>2. QED
  BY <1>1, RecurringInitInv, RecurringNextInv, PTL DEF RecurringSpec

\* However many requests overlap, fail or outlive the month they began in, a
\* schedule that has moved on has the bill of the month before it (POST of
\* recurring/generate).
THEOREM ScheduleFollowsBillHolds == RecurringSpec => []ScheduleFollowsBill
<1>1. RecurringInv => ScheduleFollowsBill
  BY DEF RecurringInv
<1>2. QED
  BY <1>1, RecurringInitInv, RecurringNextInv, PTL DEF RecurringSpec
=============================================================================
