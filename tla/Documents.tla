------------------------------ MODULE Documents ------------------------------
(***************************************************************************)
(* The evidence of one supplier bill: files in the private bucket, rows of *)
(* documents, links, and the evidence status of the bill that the trigger  *)
(* on the links recalculates.                                              *)
(*                                                                         *)
(* Every call of the upload and the delete route is a step.  Storage and   *)
(* tables are two systems, so both routes compensate by hand: an upload    *)
(* removes its file when a row is refused, a deletion uploads the file     *)
(* again when the metadata stay.  The policies show a document, and its    *)
(* file, only through a link, which is why the row an upload inserts and   *)
(* reads back in one statement is always refused and why the removal of    *)
(* the file that follows has no effect; documents come from the FinanceOps *)
(* intake, which inserts without reading.                                  *)
(*                                                                         *)
(* Abstracted: one bill and one document type, the invoice; hashes, names  *)
(* and the audit rows; all persons may delete documents and have AAL2.     *)
(***************************************************************************)
EXTENDS FiniteSets, Naturals

CONSTANTS
  Doc,      \* ids of documents; each has a storage path of its own
  Upload,   \* upload requests that may be in progress at once
  Deletion  \* delete requests that may be in progress at once

ASSUME DocumentsAssumption == IsFiniteSet(Doc)

VARIABLES
  files,      \* the documents whose file is in the bucket
  documents,  \* the rows of documents, by status
  links,      \* the documents linked to the bill
  bill,       \* supporting_document_status of the bill, "none" before it exists
  uploads,    \* where each upload stands: the document, and its next call
  deletions,  \* where each deletion stands
  lost        \* files that a deletion removed before it died or failed twice

documentVars == <<files, documents, links, bill, uploads, deletions, lost>>

NoCall == [step |-> "idle"]
UploadState == {NoCall} \cup [step : {"file", "row", "remove"}, doc : Doc]
DeletionState ==
  {NoCall} \cup [step : {"download", "remove", "metadata", "restore"}, doc : Doc]

\* The document a request works on.
Subject(call) == IF call = NoCall THEN {} ELSE {call.doc}
InUse == UNION {Subject(uploads[q]) : q \in Upload}
           \cup UNION {Subject(deletions[q]) : q \in Deletion}

Exists(d) == documents[d] # "none"
IsFresh(d) == ~Exists(d) /\ d \notin files \cup lost \cup InUse

\* The select policies of documents and of the bucket.
IsVisible(d) == Exists(d) /\ d \in links

\* recalculate_supporting_document_status, for links and rows as they will be.
Evidence(rows, linked) ==
  IF \E d \in linked : rows[d] = "active" THEN "invoice_uploaded" ELSE "no_document"

-----------------------------------------------------------------------------
\* The bill is inserted with the evidence its form announces, and the files
\* are uploaded after it.
SaveBill(q, chosen) ==
  /\ bill = "none" /\ Cardinality(chosen) <= 1
  /\ bill' = IF chosen = {} THEN "no_document" ELSE "invoice_uploaded"
  /\ uploads' = IF chosen = {} THEN uploads
                ELSE [uploads EXCEPT ![q] =
                        [step |-> "file", doc |-> CHOOSE d \in chosen : TRUE]]
  /\ UNCHANGED <<files, documents, links, deletions, lost>>

\* A file uploaded from the document library to the bill.
UploadToBill(q, d) ==
  /\ bill # "none" /\ uploads[q] = NoCall /\ IsFresh(d)
  /\ uploads' = [uploads EXCEPT ![q] = [step |-> "file", doc |-> d]]
  /\ UNCHANGED <<files, documents, links, bill, deletions, lost>>

StoreFile(q) ==
  /\ uploads[q].step = "file"
  /\ files' = files \cup {uploads[q].doc}
  /\ uploads' = [uploads EXCEPT ![q].step = "row"]
  /\ UNCHANGED <<documents, links, bill, deletions, lost>>

\* The row is inserted and read back: refused, as nothing links it yet.
InsertDocument(q) ==
  /\ uploads[q].step = "row"
  /\ LET d == uploads[q].doc
         accepted == d \in links
     IN /\ documents' = IF accepted THEN [documents EXCEPT ![d] = "active"] ELSE documents
        /\ uploads' = [uploads EXCEPT ![q] =
             IF accepted THEN NoCall ELSE [@ EXCEPT !.step = "remove"]]
  /\ UNCHANGED <<files, links, bill, deletions, lost>>

\* What a removal from the bucket leaves; a file the policy hides is left
\* alone without an error.
WithoutFile(d) == IF IsVisible(d) THEN files \ {d} ELSE files

RemoveUploaded(q) ==
  /\ uploads[q].step = "remove"
  /\ files' = WithoutFile(uploads[q].doc)
  /\ uploads' = [uploads EXCEPT ![q] = NoCall]
  /\ UNCHANGED <<documents, links, bill, deletions, lost>>

\* The FinanceOps intake, call by call in BillIntake: file, row, link.
IntakeAttaches(d) ==
  /\ bill # "none" /\ IsFresh(d)
  /\ files' = files \cup {d}
  /\ documents' = [documents EXCEPT ![d] = "active"]
  /\ links' = links \cup {d}
  /\ bill' = Evidence(documents', links')
  /\ UNCHANGED <<uploads, deletions, lost>>

\* Archiving and restoring write the row by id alone, and not the bill.
Archive(d) ==
  /\ IsVisible(d)
  /\ documents' = [documents EXCEPT ![d] = "archived"]
  /\ UNCHANGED <<files, links, bill, uploads, deletions, lost>>

Restore(d) ==
  /\ IsVisible(d)
  /\ documents' = [documents EXCEPT ![d] = "active"]
  /\ UNCHANGED <<files, links, bill, uploads, deletions, lost>>

-----------------------------------------------------------------------------
(* Deleting a file that was uploaded by mistake *)

ReadDocument(q, d) ==
  /\ deletions[q] = NoCall /\ IsVisible(d)
  /\ deletions' = [deletions EXCEPT ![q] = [step |-> "download", doc |-> d]]
  /\ UNCHANGED <<files, documents, links, bill, uploads, lost>>

\* Without the file nothing is deleted.
Download(q) ==
  /\ deletions[q].step = "download"
  /\ deletions' = [deletions EXCEPT ![q] =
       IF deletions[q].doc \in files /\ IsVisible(deletions[q].doc)
       THEN [@ EXCEPT !.step = "remove"] ELSE NoCall]
  /\ UNCHANGED <<files, documents, links, bill, uploads, lost>>

RemoveFile(q) ==
  /\ deletions[q].step = "remove"
  /\ files' = WithoutFile(deletions[q].doc)
  /\ deletions' = [deletions EXCEPT ![q].step = "metadata"]
  /\ UNCHANGED <<documents, links, bill, uploads, lost>>

\* delete_document_metadata deletes the row, and with it the link, or fails.
DeleteMetadata(q) ==
  /\ deletions[q].step = "metadata"
  /\ LET d == deletions[q].doc IN
     \/ /\ IsVisible(d)
        /\ documents' = [documents EXCEPT ![d] = "none"]
        /\ links' = links \ {d}
        /\ bill' = Evidence(documents', links')
        /\ deletions' = [deletions EXCEPT ![q] = NoCall]
     \/ /\ deletions' = [deletions EXCEPT ![q].step = "restore"]
        /\ UNCHANGED <<documents, links, bill>>
  /\ UNCHANGED <<files, uploads, lost>>

\* Mutant of Restored: the file is not uploaded again.
RestoredNot(d) == files

Restored(d) == files \cup {d}

\* The file goes back, which may fail as well: the answer then asks for an
\* operator.
RestoreFile(q) ==
  /\ deletions[q].step = "restore"
  /\ LET d == deletions[q].doc IN
     \/ files' = Restored(d) /\ UNCHANGED lost
     \/ lost' = lost \cup ({d} \ files) /\ UNCHANGED files
  /\ deletions' = [deletions EXCEPT ![q] = NoCall]
  /\ UNCHANGED <<documents, links, bill, uploads>>

\* A request ends where it stands.
UploadDies(q) ==
  /\ uploads[q] # NoCall
  /\ uploads' = [uploads EXCEPT ![q] = NoCall]
  /\ UNCHANGED <<files, documents, links, bill, deletions, lost>>

DeletionDies(q) ==
  /\ deletions[q] # NoCall
  /\ lost' = lost \cup ({deletions[q].doc} \ files)
  /\ deletions' = [deletions EXCEPT ![q] = NoCall]
  /\ UNCHANGED <<files, documents, links, bill, uploads>>

-----------------------------------------------------------------------------
DocumentsInit ==
  /\ files = {} /\ links = {} /\ lost = {}
  /\ documents = [d \in Doc |-> "none"]
  /\ bill = "none"
  /\ uploads = [q \in Upload |-> NoCall]
  /\ deletions = [q \in Deletion |-> NoCall]

DocumentsNext ==
  \/ \E q \in Upload, chosen \in SUBSET Doc : SaveBill(q, chosen)
  \/ \E q \in Upload, d \in Doc : UploadToBill(q, d)
  \/ \E q \in Upload : StoreFile(q)
  \/ \E q \in Upload : InsertDocument(q)
  \/ \E q \in Upload : RemoveUploaded(q)
  \/ \E q \in Upload : UploadDies(q)
  \/ \E d \in Doc : IntakeAttaches(d)
  \/ \E d \in Doc : Archive(d)
  \/ \E d \in Doc : Restore(d)
  \/ \E q \in Deletion, d \in Doc : ReadDocument(q, d)
  \/ \E q \in Deletion : Download(q)
  \/ \E q \in Deletion : RemoveFile(q)
  \/ \E q \in Deletion : DeleteMetadata(q)
  \/ \E q \in Deletion : RestoreFile(q)
  \/ \E q \in Deletion : DeletionDies(q)

DocumentsSpec == DocumentsInit /\ [][DocumentsNext]_documentVars

DocumentsTypeOK ==
  /\ files \subseteq Doc /\ links \subseteq Doc /\ lost \subseteq Doc
  /\ documents \in [Doc -> {"none", "active", "archived"}]
  /\ bill \in {"none", "no_document", "invoice_uploaded"}
  /\ uploads \in [Upload -> UploadState]
  /\ deletions \in [Deletion -> DeletionState]

\* A document people see has its file: deletions that fail half way, two of
\* them of one document included, put it back, unless the restore fails too or
\* the request dies before it.
VisibleDocumentHasItsFile ==
  \A d \in Doc : IsVisible(d) =>
     \/ d \in files \cup lost
     \/ \E q \in Deletion : /\ d \in Subject(deletions[q])
                            /\ deletions[q].step \in {"metadata", "restore"}
=============================================================================
