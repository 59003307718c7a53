----------------------------- MODULE StudentImport ----------------------------
(***************************************************************************)
(* The import of students from a file and its revert, beside the work on   *)
(* the records that StudentRecords describes.  A file is parsed into a     *)
(* batch of rows, again when its mapping changes; the screen keeps a copy  *)
(* of the rows; the confirmation hands each row to a database function;    *)
(* the revert removes what the batch created and nobody has worked on.     *)
(* The requests are series of database calls and may end after any.  The   *)
(* revert is one transaction and two steps of it count: the statement that *)
(* looks at what was done with the students, and the one that removes them *)
(* and sees all that was committed in between.  What it has locked waits.  *)
(*                                                                         *)
(* Of a row's content only its validity is kept.  Which students look like *)
(* duplicates of it is a choice among the students there are.              *)
(***************************************************************************)
EXTENDS StudentRecords, Sequences

CONSTANTS
  StudentFile,     \* files: sequences of BOOLEAN, whether each row is valid
  ImportMode,      \* a subset of {"standard", "legacy"}
  ImportBatch,     \* ids of rows of student_import_batches
  ImportRow,       \* ids of rows of student_import_rows
  ImportCall       \* parse and confirm requests in progress at once

ASSUME StudentImportAssumption ==
  /\ StudentFile \subseteq Seq(BOOLEAN)
  /\ ImportMode \subseteq {"standard", "legacy"}

VARIABLES
  importBatches, importRows,
  legacyRecords,   \* the rows of student_legacy_records: batch and student
  importScreen,    \* the preview that is open
  importCalls,     \* where each request stands
  reverting        \* the reverts under way, by batch: the rows each has marked
                   \* blocked, and (a history) the students of the batch that
                   \* nobody had worked on when it looked

importVars == <<importBatches, importRows, legacyRecords, importScreen, importCalls,
                reverting>>
studentVars == <<students, documentLinks, mergeEvents, studyVars>>
studentImportVars == <<importVars, studentVars>>

StudentBatchStatus == {"none", "mapping", "processing", "completed",
                "completed_with_errors", "failed", "reverted"}
RowStatus == {"none", "pending", "imported", "linked", "skipped", "failed",
              "reverted", "revert_blocked", "deleted"}
StudentDecision == {"pending", "import_as_new", "link_existing", "skip"}
NoImportBatch == [status |-> "none", mode |-> "standard"]
NoImportRow == [batch |-> "none", status |-> "none", created |-> NoStudent]
DeletedRow == [NoImportRow EXCEPT !.status = "deleted"]
NoImportScreen == [batch |-> "none", rows |-> << >>]
NoImportCall == [step |-> "idle"]

RowsOfBatch(b) == {r \in ImportRow : importRows[r].batch = b}
UnderRevert(b) == b \in DOMAIN reverting
Blocked == UNION {reverting[b].blocked : b \in DOMAIN reverting}
MayReplace(b) == importBatches[b].status \in {"mapping", "failed"}

\* Duplicates are looked for only for a row that is valid.
PreviewOf(valid, similar) ==
  LET warned == IF valid THEN similar ELSE {} IN
  [valid |-> valid, errors |-> ~valid, warned |-> warned, excluded |-> FALSE,
   decision |-> IF warned # {} THEN "pending" ELSE "import_as_new",
   match |-> IF Cardinality(warned) = 1 THEN CHOOSE s \in warned : TRUE ELSE NoStudent]

-----------------------------------------------------------------------------
(* Parsing *)

ParseNew(q, f, mode, similar) ==
  /\ importCalls[q] = NoImportCall /\ importScreen.batch = "none"
  /\ \E b \in ImportBatch :
       /\ importBatches[b] = NoImportBatch
       /\ importBatches' = [importBatches EXCEPT ![b] = [status |-> "mapping", mode |-> mode]]
       /\ importCalls' = [importCalls EXCEPT ![q] =
            [step |-> "insert", batch |-> b,
             rows |-> [n \in DOMAIN f |-> PreviewOf(f[n], similar)]]]
  /\ UNCHANGED <<importRows, legacyRecords, importScreen, reverting, studentVars>>

\* "Apply Mapping and Revalidate": the batch is read, its rows are deleted, and
\* it is set to mapping whatever it has become.
ParseAgain(q, f, similar) ==
  /\ importCalls[q] = NoImportCall /\ importScreen.batch \in ImportBatch
  /\ MayReplace(importScreen.batch)
  /\ importCalls' = [importCalls EXCEPT ![q] =
       [step |-> "clear", batch |-> importScreen.batch,
        rows |-> [n \in DOMAIN f |-> PreviewOf(f[n], similar)]]]
  /\ UNCHANGED <<importBatches, importRows, legacyRecords, importScreen, reverting, studentVars>>

ClearRows(q) ==
  /\ importCalls[q].step = "clear"
  /\ RowsOfBatch(importCalls[q].batch) \cap Blocked = {}
  /\ importRows' = [r \in ImportRow |-> IF r \in RowsOfBatch(importCalls[q].batch)
                                        THEN DeletedRow ELSE importRows[r]]
  /\ importCalls' = [importCalls EXCEPT ![q].step = "replace"]
  /\ UNCHANGED <<importBatches, legacyRecords, importScreen, reverting, studentVars>>

ReplaceBatch(q) ==
  /\ importCalls[q].step = "replace" /\ ~UnderRevert(importCalls[q].batch)
  /\ importBatches' = [importBatches EXCEPT ![importCalls[q].batch].status = "mapping"]
  /\ importCalls' = [importCalls EXCEPT ![q].step = "insert"]
  /\ UNCHANGED <<importRows, legacyRecords, importScreen, reverting, studentVars>>

InsertImportRows(q) ==
  /\ importCalls[q].step = "insert" /\ ~UnderRevert(importCalls[q].batch)
  /\ LET c == importCalls[q] IN
     \E id \in [DOMAIN c.rows -> {r \in ImportRow : importRows[r] = NoImportRow}] :
       /\ \A m, n \in DOMAIN c.rows : id[m] = id[n] => m = n
       /\ importRows' = [r \in ImportRow |->
            IF \E n \in DOMAIN id : id[n] = r
            THEN [batch |-> c.batch, status |-> "pending", created |-> NoStudent]
            ELSE importRows[r]]
       /\ importScreen' = [batch |-> c.batch,
            rows |-> [r \in {id[n] : n \in DOMAIN id} |->
                        c.rows[CHOOSE n \in DOMAIN id : id[n] = r]]]
  /\ importCalls' = [importCalls EXCEPT ![q] = NoImportCall]
  /\ UNCHANGED <<importBatches, legacyRecords, reverting, studentVars>>

-----------------------------------------------------------------------------
(* The preview *)

ChangeRow(r, row) ==
  /\ importScreen' = [importScreen EXCEPT !.rows[r] = row]
  /\ UNCHANGED <<importBatches, importRows, legacyRecords, importCalls, reverting, studentVars>>

\* A correction changes the content and not the errors that are shown.
CorrectImportRow(r) == ChangeRow(r, [importScreen.rows[r] EXCEPT !.valid = ~@])

UseRow(r) ==
  LET row == importScreen.rows[r] IN
  ChangeRow(r, [row EXCEPT !.excluded = ~@,
                           !.decision = IF row.excluded THEN @ ELSE "skip"])

DecideRow(r, decision) ==
  LET row == importScreen.rows[r] IN
  /\ row.warned # {}
  /\ ChangeRow(r, [row EXCEPT !.decision = decision,
                              !.match = IF decision = "link_existing" THEN @ ELSE NoStudent])

ChooseMatch(r, s) ==
  /\ importScreen.rows[r].decision = "link_existing"
  /\ s \in importScreen.rows[r].warned
  /\ ChangeRow(r, [importScreen.rows[r] EXCEPT !.match = s])

CancelPreview ==
  /\ importScreen.batch # "none"
  /\ importScreen' = NoImportScreen
  /\ UNCHANGED <<importBatches, importRows, legacyRecords, importCalls, reverting, studentVars>>

-----------------------------------------------------------------------------
(* The confirmation *)

ScreenAllows ==
  \A r \in DOMAIN importScreen.rows :
    LET row == importScreen.rows[r] IN
    \/ row.excluded
    \/ /\ ~row.errors
       /\ row.warned = {} \/
          (row.decision # "pending" /\
           (row.decision = "link_existing" => row.match # NoStudent))

DecisionOf(row) == IF row.excluded THEN "skip" ELSE row.decision
RowErrors(row) ==
  \/ DecisionOf(row) # "skip" /\ ~row.valid
  \/ DecisionOf(row) = "pending"
  \/ DecisionOf(row) = "link_existing" /\ row.match = NoStudent

\* The errors the route finds are shown beside those there were.
ConfirmImport(q) ==
  /\ importCalls[q] = NoImportCall
  /\ importScreen.batch \in ImportBatch /\ ScreenAllows
  /\ MayReplace(importScreen.batch)
  /\ LET bad == {r \in DOMAIN importScreen.rows : RowErrors(importScreen.rows[r])} IN
     \/ /\ bad # {}
        /\ importScreen' = [importScreen EXCEPT !.rows =
             [r \in DOMAIN importScreen.rows |->
                [importScreen.rows[r] EXCEPT !.errors = @ \/ r \in bad]]]
        /\ UNCHANGED importCalls
     \/ /\ bad = {}
        /\ importCalls' = [importCalls EXCEPT ![q] =
             [step |-> "start", batch |-> importScreen.batch, rows |-> importScreen.rows,
              todo |-> DOMAIN importScreen.rows, done |-> 0, failed |-> 0]]
        /\ UNCHANGED importScreen
  /\ UNCHANGED <<importBatches, importRows, legacyRecords, reverting, studentVars>>

StartImport(q) ==
  /\ importCalls[q].step = "start" /\ ~UnderRevert(importCalls[q].batch)
  /\ importBatches' = [importBatches EXCEPT ![importCalls[q].batch].status = "processing"]
  /\ importCalls' = [importCalls EXCEPT ![q].step = "row"]
  /\ UNCHANGED <<importRows, legacyRecords, importScreen, reverting, studentVars>>

\* Mutant of BatchIsOpen: the function trusts the check the route has made.
BatchIsOpenAny(b) == b \in ImportBatch
\* What the database function asks of the batch, under a lock.
BatchIsOpen(b) == b \in ImportBatch /\ importBatches[b].status \in {"mapping", "processing"}

\* The student a row is about: a new one, or the chosen one if it can be linked
\* (the batch is of the entity of the default branch).
MayBeAbout(s, row) ==
  CASE DecisionOf(row) = "import_as_new" -> students[s].status = "none"
    [] DecisionOf(row) = "link_existing" ->
         /\ s = row.match /\ s \in Known /\ students[s].status # "merged"
         /\ EntityOf[students[s].home] = EntityOf[SomeBranch]
    [] OTHER -> FALSE

Taken(q, r, failed) ==
  [importCalls EXCEPT ![q].todo = @ \ {r}, ![q].failed = @ + (IF failed THEN 1 ELSE 0),
                      ![q].done = @ + (IF failed THEN 0 ELSE 1)]

SkipRow(q, r) ==
  /\ importCalls[q].step = "row" /\ r \in importCalls[q].todo
  /\ DecisionOf(importCalls[q].rows[r]) = "skip"
  /\ BatchIsOpen(importRows[r].batch) /\ ~UnderRevert(importRows[r].batch)
  /\ importRows' = [importRows EXCEPT ![r].status = "skipped"]
  /\ importCalls' = Taken(q, r, FALSE)
  /\ UNCHANGED <<importBatches, legacyRecords, importScreen, reverting, studentVars>>

TakeStudentRow(q, r, s) ==
  /\ importCalls[q].step = "row" /\ r \in importCalls[q].todo
  /\ MayBeAbout(s, importCalls[q].rows[r])
  /\ BatchIsOpen(importRows[r].batch) /\ ~UnderRevert(importRows[r].batch)
  /\ LET new == DecisionOf(importCalls[q].rows[r]) = "import_as_new"
         b == importRows[r].batch
     IN /\ students' = IF new THEN [students EXCEPT ![s] = [NoStudentRow EXCEPT !.status = "draft"]]
                       ELSE students
        /\ legacyRecords' = IF importBatches[b].mode = "legacy"
                            THEN legacyRecords \cup {<<b, s>>} ELSE legacyRecords
        /\ importRows' = [importRows EXCEPT
             ![r].status = IF new THEN "imported" ELSE "linked",
             ![r].created = IF new THEN s ELSE NoStudent]
  /\ importCalls' = Taken(q, r, FALSE)
  /\ UNCHANGED <<importBatches, importScreen, reverting, documentLinks, mergeEvents, studyVars>>

\* The function refuses a row: because of the batch or the match, or of a value
\* or relationship the route does not check.  The route marks it failed.
FailStudentRow(q, r) ==
  /\ importCalls[q].step = "row" /\ r \in importCalls[q].todo /\ r \notin Blocked
  /\ importRows' = IF importRows[r] = DeletedRow THEN importRows
                   ELSE [importRows EXCEPT ![r].status = "failed"]
  /\ importCalls' = Taken(q, r, TRUE)
  /\ UNCHANGED <<importBatches, legacyRecords, importScreen, reverting, studentVars>>

FinishImport(q) ==
  /\ importCalls[q].step = "row" /\ importCalls[q].todo = {}
  /\ ~UnderRevert(importCalls[q].batch)
  /\ LET c == importCalls[q] IN
     importBatches' = [importBatches EXCEPT ![c.batch].status =
       IF c.failed = 0 THEN "completed"
       ELSE IF c.done > 0 THEN "completed_with_errors" ELSE "failed"]
  /\ importCalls' = [importCalls EXCEPT ![q] = NoImportCall]
  /\ UNCHANGED <<importRows, legacyRecords, importScreen, reverting, studentVars>>

ImportCallDies(q) ==
  /\ importCalls[q] # NoImportCall
  /\ importCalls' = [importCalls EXCEPT ![q] = NoImportCall]
  /\ UNCHANGED <<importBatches, importRows, legacyRecords, importScreen, reverting, studentVars>>

-----------------------------------------------------------------------------
(* The revert and the merge *)

Created(rows) == {importRows[r].created : r \in rows} \ {NoStudent}

\* Mutant of WorkedOn: documents are not looked at.
WorkedOnButDocuments(s, records) ==
  s \in Enrolled \/ (\E x \in records : x[2] = s) \/ students[s].edited
\* Later activity on a student, given the legacy records that are left.
WorkedOn(s, records) ==
  \/ s \in Enrolled
  \/ s \in documentLinks
  \/ \E x \in records : x[2] = s
  \/ students[s].edited

\* The batch is locked, its legacy records are deleted, and the rows are marked
\* whose students show activity; nobody sees any of it yet.
RevertLooks(b) ==
  /\ ~UnderRevert(b) /\ importBatches[b].status \in {"completed", "completed_with_errors"}
  /\ LET left == {x \in legacyRecords : x[1] # b}
         made == Created(RowsOfBatch(b))
     IN reverting' = [c \in DOMAIN reverting \cup {b} |->
          IF c = b
          THEN [blocked |-> {r \in RowsOfBatch(b) :
                               importRows[r].created # NoStudent
                               /\ WorkedOn(importRows[r].created, left)},
                idle |-> made \ (Enrolled \cup documentLinks \cup {x[2] : x \in left}
                                \cup {s \in made : students[s].edited})]
          ELSE reverting[c]]
  /\ UNCHANGED <<importBatches, importRows, legacyRecords, importScreen, importCalls, studentVars>>

\* Those it removes: not those of rows it has marked, or an earlier one has.
Removable(b) ==
  Created({r \in RowsOfBatch(b) \ reverting[b].blocked : importRows[r].status # "revert_blocked"})

EndRevert(b) == reverting' = [c \in DOMAIN reverting \ {b} |-> reverting[c]]

\* The students are deleted as they now are.  A student that is enrolled or
\* takes part in a merge cannot be, and that undoes the whole revert.
RevertRemoves(b) ==
  /\ UnderRevert(b)
  /\ LET gone == Removable(b)
         unlinked(r) == IF importRows[r].created \in gone THEN NoStudent
                        ELSE importRows[r].created
     IN /\ gone \cap Enrolled = {}
        /\ \A x \in mergeEvents : x[1] \notin gone /\ x[2] \notin gone
        /\ legacyRecords' = {x \in legacyRecords : x[1] # b /\ x[2] \notin gone}
        /\ students' = [s \in Student |->
             IF s \in gone THEN [NoStudentRow EXCEPT !.status = "removed"]
             ELSE students[s]]
        /\ importRows' = [r \in ImportRow |->
             [importRows[r] EXCEPT !.created = unlinked(r),
                !.status = CASE r \in reverting[b].blocked -> "revert_blocked"
                             [] r \in RowsOfBatch(b) \ reverting[b].blocked
                                /\ @ \notin {"pending", "revert_blocked"} -> "reverted"
                             [] OTHER -> @]]
  /\ importBatches' = [importBatches EXCEPT ![b].status = "reverted"]
  /\ EndRevert(b)
  /\ UNCHANGED <<importScreen, importCalls, documentLinks, mergeEvents, studyVars>>

\* It is undone, for that reason or another.
RevertFails(b) ==
  /\ UnderRevert(b) /\ EndRevert(b)
  /\ UNCHANGED <<importBatches, importRows, legacyRecords, importScreen, importCalls, studentVars>>

\* A merge moves the legacy records of the source, and the rows that created
\* it; those a revert has deleted or marked make it wait.
MoveImports(source, target) ==
  /\ source \notin Created(Blocked)
  /\ \A b \in DOMAIN reverting : <<b, source>> \notin legacyRecords
  /\ legacyRecords' =
       {<<x[1], IF x[2] = source THEN target ELSE x[2]>> : x \in legacyRecords}
  /\ importRows' = [r \in ImportRow |->
       [importRows[r] EXCEPT !.created = IF @ = source THEN target ELSE @]]
  /\ UNCHANGED <<importBatches, importScreen, importCalls, reverting>>

-----------------------------------------------------------------------------
StudentImportInit ==
  /\ StudentRecordsInit
  /\ importBatches = [b \in ImportBatch |-> NoImportBatch]
  /\ importRows = [r \in ImportRow |-> NoImportRow]
  /\ legacyRecords = {} /\ importScreen = NoImportScreen
  /\ importCalls = [q \in ImportCall |-> NoImportCall]
  /\ reverting = <<>>

ParseStep(q) ==
  \/ \E f \in StudentFile, similar \in SUBSET Known :
       (\E mode \in ImportMode : ParseNew(q, f, mode, similar)) \/ ParseAgain(q, f, similar)
  \/ ClearRows(q) \/ ReplaceBatch(q) \/ InsertImportRows(q)

PreviewStep ==
  \/ \E r \in DOMAIN importScreen.rows :
       \/ CorrectImportRow(r) \/ UseRow(r)
       \/ \E decision \in StudentDecision : DecideRow(r, decision)
       \/ \E s \in Student : ChooseMatch(r, s)
  \/ CancelPreview

ConfirmStep(q) ==
  \/ ConfirmImport(q) \/ StartImport(q) \/ FinishImport(q) \/ ImportCallDies(q)
  \/ importCalls[q].step = "row" /\ \E r \in importCalls[q].todo :
       SkipRow(q, r) \/ FailStudentRow(q, r) \/ \E s \in Student : TakeStudentRow(q, r, s)

ImportStep ==
  \/ \E q \in ImportCall : ParseStep(q) \/ ConfirmStep(q)
  \/ \E b \in ImportBatch : RevertLooks(b) \/ RevertRemoves(b) \/ RevertFails(b)

MergeStep ==
  \E source, target \in Student, late \in BOOLEAN :
    MergeStudents(source, target, late) /\ MoveImports(source, target)

StudentImportNext ==
  \/ ImportStep
  \/ PreviewStep
  \/ MergeStep
  \/ (StudentStep \/ StudyStep) /\ UNCHANGED importVars

StudentImportSpec == StudentImportInit /\ [][StudentImportNext]_studentImportVars

-----------------------------------------------------------------------------
\* The rows of both tables are of their types.
StudentImportTypeOK ==
  /\ importBatches \in [ImportBatch -> [status : StudentBatchStatus, mode : {"standard", "legacy"}]]
  /\ importRows \in [ImportRow -> [batch : ImportBatch \cup {"none"}, status : RowStatus,
                                   created : Student \cup {NoStudent}]]
  /\ legacyRecords \subseteq ImportBatch \X Student
  /\ importScreen.batch \in ImportBatch \cup {"none"}
  /\ DOMAIN importScreen.rows \subseteq ImportRow
  /\ DOMAIN reverting \subseteq ImportBatch
  /\ \A b \in DOMAIN reverting :
        reverting[b] \in [blocked : SUBSET ImportRow, idle : SUBSET Student]

\* What a revert removes is a student of its batch on whom it saw no activity at
\* all, and who to this moment has no enrolment and takes part in no merge,
\* whatever was confirmed, saved, enrolled or merged while it ran.
RevertSparesWhatItSaw ==
  [][\A s \in Known : students'[s].status = "removed" =>
       /\ \E b \in DOMAIN reverting : s \in reverting[b].idle
       /\ s \notin Enrolled /\ \A x \in mergeEvents : s \notin {x[1], x[2]}]_studentImportVars

\* "Students with later enrolments, documents or edits are protected": a step
\* after which a student is gone finds none of them on the student.
RevertSparesActivity ==
  [][\A s \in Known : students'[s].status = "removed" =>
       s \notin Enrolled \cup documentLinks /\ ~students[s].edited]_studentImportVars

\* A reverted batch has left nothing, even with a confirmation of it still in
\* progress: no legacy record of it and no row that counts as imported.
RevertedLeavesNothing ==
  \A b \in ImportBatch : importBatches[b].status = "reverted" =>
    /\ \A x \in legacyRecords : x[1] # b
    /\ \A r \in RowsOfBatch(b) : importRows[r].status \notin {"imported", "linked", "skipped"}
=============================================================================
