---------------------------- MODULE StudentRecords ----------------------------
(***************************************************************************)
(* Students, the programmes and intakes they join, and their enrolments:   *)
(* the save routes, the merge of two students and the archive action.  An  *)
(* enrolment and an intake are saved from what the route read before, in a *)
(* request that may end in between; the other saves are one statement.     *)
(*                                                                         *)
(* A branch belongs to one entity and a record keeps the branch only.  A   *)
(* date is a small number and 0 is none; an amount of -1 is none.  Names,  *)
(* numbers and contact details are left out, except for whether any of the *)
(* recommended ones is missing.                                            *)
(***************************************************************************)
EXTENDS Integers, FiniteSets

CONSTANTS
  Student, NoStudent, Enrolment, Programme, NoProgramme, Intake,
  Branch,          \* those a student or an intake may have
  EntityOf,        \* the entity of each
  RecordCall,      \* save requests that may be in progress at once
  MaxDay,          \* bound: days and durations
  MaxFee           \* bound: amounts of a registration fee

ASSUME StudentRecordsAssumption ==
  /\ NoStudent \notin Student /\ NoProgramme \notin Programme
  /\ Branch # {} /\ DOMAIN EntityOf = Branch
  /\ MaxDay \in Nat /\ MaxFee \in Nat

VARIABLES
  students,        \* the rows of students
  documentLinks,   \* the students with a document linked to them
  mergeEvents,     \* the rows of student_merge_events: <<source, target>>
  programmes, intakes, enrolments,
  recordCalls      \* what each request holds between its read and its write

studentRecordVars == <<students, documentLinks, mergeEvents, programmes,
                       intakes, enrolments, recordCalls>>
studyVars == <<programmes, intakes, enrolments, recordCalls>>

StudentStatus == {"none", "draft", "active", "incomplete", "inactive", "archived",
                  "merged", "removed"}
ProgrammeStatus == {"none", "draft", "active", "incomplete", "inactive", "archived"}
IntakeStatus == {"planning", "open"}            \* "open" is all that are not planning
EnrolmentStatus == {"draft", "enrolled"}         \* "enrolled" is all that are not a draft
RegistrationStatus == {"not_paid", "partially_paid", "paid", "waived", "pending_confirmation"}
Day == 0 .. MaxDay
Fee == -1 .. MaxFee

SomeBranch == CHOOSE b \in Branch : TRUE
NoStudentRow == [status |-> "none", home |-> SomeBranch, edited |-> FALSE]
NoProgrammeRow == [status |-> "none", low |-> 0, high |-> 0]
NoIntakeRow == [status |-> "none", programme |-> NoProgramme, branch |-> SomeBranch,
                start |-> 0, expected |-> 0, original |-> 0]
NoEnrolmentRow == [status |-> "none", student |-> NoStudent, programme |-> NoProgramme,
                   branch |-> SomeBranch, fee |-> -1, paid |-> -1,
                   registration |-> "not_paid"]
NoRecordCall == [doing |-> "nothing"]

Known == {s \in Student : students[s].status \notin {"none", "removed"}}
Enrolled == {enrolments[e].student : e \in Enrolment} \ {NoStudent}

\* A row is updated; updated_at tells the change from the insertion only when
\* it is made more than five seconds later.
Updated(row, late) == [row EXCEPT !.edited = @ \/ late]

-----------------------------------------------------------------------------
(* Students *)

Lifecycle(draft, requested, missing) ==
  CASE draft -> "draft"
    [] ~draft /\ requested \in {"inactive", "archived"} -> requested
    [] OTHER -> IF missing THEN "incomplete" ELSE "active"

\* "draft" and "incomplete" are taken like "active".
Requested == {"active", "inactive", "archived"}

\* The update looks at no status: a merged student is given a status again.
SaveStudent(s, home, draft, requested, missing, late) ==
  /\ students[s].status # "removed"
  /\ requested \in Requested
  /\ students' = [students EXCEPT ![s] =
       LET row == [@ EXCEPT !.home = home,
                            !.status = Lifecycle(draft, requested, missing)]
       IN IF s \in Known THEN Updated(row, late) ELSE row]
  /\ UNCHANGED <<documentLinks, mergeEvents, studyVars>>

\* "archive" gives a status and "duplicate" only a remark and a review status.
RecordAction(s, action, late) ==
  /\ s \in Known
  /\ students' = [students EXCEPT ![s] =
       Updated(IF action = "archive" THEN [@ EXCEPT !.status = "archived"] ELSE @, late)]
  /\ UNCHANGED <<documentLinks, mergeEvents, studyVars>>

LinkDocument(s) ==
  /\ s \in Known
  /\ documentLinks' = documentLinks \cup {s}
  /\ UNCHANGED <<students, mergeEvents, studyVars>>

\* What the function asks of the two, with both rows locked; a student that was
\* merged and saved again may be merged again.
MayMerge(source, target) ==
  /\ {source, target} \subseteq Known /\ source # target
  /\ students[source].status # "merged"
  /\ students[target].status \notin {"merged", "inactive", "archived"}
  /\ EntityOf[students[source].home] = EntityOf[students[target].home]

\* Enrolments and documents move; StudentImport adds what the same function
\* moves of an import.
MergeStudents(source, target, late) ==
  /\ MayMerge(source, target)
  /\ enrolments' = [e \in Enrolment |->
       IF enrolments[e].student = source
       THEN [enrolments[e] EXCEPT !.student = target] ELSE enrolments[e]]
  /\ documentLinks' = IF source \in documentLinks
                      THEN (documentLinks \ {source}) \cup {target} ELSE documentLinks
  /\ students' = [students EXCEPT ![source] =
       Updated([@ EXCEPT !.status = "merged"], late)]
  /\ mergeEvents' = mergeEvents \cup {<<source, target>>}
  /\ UNCHANGED <<programmes, intakes, recordCalls>>

-----------------------------------------------------------------------------
(* Programmes and intakes *)

\* A single duration is kept as low alone and a range as low and high.
SaveProgramme(p, draft, requested, low, high) ==
  /\ requested \in ProgrammeStatus \ {"none"}
  /\ high > 0 => low > 0 /\ high >= low
  /\ programmes' = [programmes EXCEPT ![p] =
       [status |-> CASE draft -> "draft"
                     [] ~draft /\ requested = "draft" -> "active"
                     [] OTHER -> requested,
        low |-> low, high |-> high]]
  /\ UNCHANGED <<students, documentLinks, mergeEvents, intakes, enrolments, recordCalls>>

\* What the route asks of the dates of an intake.
IntakeDatesFit(status, start, expected) ==
  /\ status # "planning" => start > 0
  /\ expected > 0 => start > 0 /\ expected >= start

\* The route reads the stored dates; the original expected date is theirs, and
\* a change of the expected date has to be explained.
ReadIntake(q, i, p, branch, status, start, expected, reason) ==
  /\ recordCalls[q] = NoRecordCall
  /\ programmes[p].status # "none"
  /\ IntakeDatesFit(status, start, expected)
  /\ LET was == intakes[i] IN
     /\ was.expected # 0 /\ was.expected # expected => reason
     /\ recordCalls' = [recordCalls EXCEPT ![q] =
          [doing |-> "intake", id |-> i,
           row |-> [status |-> status, programme |-> p, branch |-> branch,
                    start |-> start, expected |-> expected,
                    original |-> IF was.original # 0 THEN was.original
                                 ELSE IF was.expected # 0 THEN was.expected
                                 ELSE expected]]]
  /\ UNCHANGED <<students, documentLinks, mergeEvents, programmes, intakes, enrolments>>

WriteIntake(q) ==
  /\ recordCalls[q].doing = "intake"
  /\ intakes' = [intakes EXCEPT ![recordCalls[q].id] = recordCalls[q].row]
  /\ recordCalls' = [recordCalls EXCEPT ![q] = NoRecordCall]
  /\ UNCHANGED <<students, documentLinks, mergeEvents, programmes, enrolments>>

-----------------------------------------------------------------------------
(* Enrolments *)

\* Mutant of FeeFits: what was paid may be above the fee.
FeeFitsAny(fee, paid) == paid # -1 => fee # -1

FeeFits(fee, paid) == paid # -1 => fee # -1 /\ paid <= fee

Registration(submitted, fee, paid) ==
  CASE submitted \in {"waived", "pending_confirmation"} -> submitted
    [] submitted \notin {"waived", "pending_confirmation"} /\ (fee = -1 \/ paid <= 0)
         -> "not_paid"
    [] OTHER -> IF paid >= fee THEN "paid" ELSE "partially_paid"

\* The route reads the student and the intake and checks they go together; the
\* status of the student is not read.
ReadEnrolment(q, e, s, i, status, fee, paid, submitted) ==
  /\ recordCalls[q] = NoRecordCall
  /\ s \in Known /\ intakes[i].status # "none"
  /\ EntityOf[students[s].home] = EntityOf[intakes[i].branch]
  /\ FeeFits(fee, paid)
  /\ recordCalls' = [recordCalls EXCEPT ![q] =
       [doing |-> "enrolment", id |-> e, intake |-> i,
        row |-> [status |-> status, student |-> s, programme |-> intakes[i].programme,
                 branch |-> intakes[i].branch, fee |-> fee, paid |-> paid,
                 registration |-> Registration(submitted, fee, paid)]]]
  /\ UNCHANGED <<students, documentLinks, mergeEvents, programmes, intakes, enrolments>>

\* A new enrolment is numbered, which needs the intake still to be at the
\* branch; the update of an old one is by id.  Both need the student to exist.
EnrolmentStands(q) ==
  LET c == recordCalls[q] IN
  /\ c.row.student \in Known
  /\ enrolments[c.id].status = "none" => intakes[c.intake].branch = c.row.branch

WriteEnrolment(q) ==
  /\ recordCalls[q].doing = "enrolment"
  /\ enrolments' = IF EnrolmentStands(q)
                   THEN [enrolments EXCEPT ![recordCalls[q].id] = recordCalls[q].row]
                   ELSE enrolments
  /\ recordCalls' = [recordCalls EXCEPT ![q] = NoRecordCall]
  /\ UNCHANGED <<students, documentLinks, mergeEvents, programmes, intakes>>

RecordCallDies(q) ==
  /\ recordCalls[q] # NoRecordCall
  /\ recordCalls' = [recordCalls EXCEPT ![q] = NoRecordCall]
  /\ UNCHANGED <<students, documentLinks, mergeEvents, programmes, intakes, enrolments>>

-----------------------------------------------------------------------------
StudentRecordsInit ==
  /\ students = [s \in Student |-> NoStudentRow]
  /\ documentLinks = {} /\ mergeEvents = {}
  /\ programmes = [p \in Programme |-> NoProgrammeRow]
  /\ intakes = [i \in Intake |-> NoIntakeRow]
  /\ enrolments = [e \in Enrolment |-> NoEnrolmentRow]
  /\ recordCalls = [q \in RecordCall |-> NoRecordCall]

StudentStep ==
  \/ \E s \in Student, home \in Branch, requested \in Requested,
        draft, missing, late \in BOOLEAN :
       SaveStudent(s, home, draft, requested, missing, late)
  \/ \E s \in Student, action \in {"archive", "duplicate"}, late \in BOOLEAN :
       RecordAction(s, action, late)
  \/ \E s \in Student : LinkDocument(s)

StudyStep ==
  \/ \E p \in Programme, draft \in BOOLEAN, requested \in ProgrammeStatus,
        low, high \in Day : SaveProgramme(p, draft, requested, low, high)
  \/ \E q \in RecordCall :
       \/ \E i \in Intake, p \in Programme, branch \in Branch, status \in IntakeStatus,
             start, expected \in Day, reason \in BOOLEAN :
            ReadIntake(q, i, p, branch, status, start, expected, reason)
       \/ WriteIntake(q)
       \/ \E e \in Enrolment, s \in Student, i \in Intake, status \in EnrolmentStatus,
             fee, paid \in Fee, submitted \in RegistrationStatus :
            ReadEnrolment(q, e, s, i, status, fee, paid, submitted)
       \/ WriteEnrolment(q)
       \/ RecordCallDies(q)

StudentRecordsNext ==
  \/ StudentStep \/ StudyStep
  \/ \E source, target \in Student, late \in BOOLEAN : MergeStudents(source, target, late)

StudentRecordsSpec == StudentRecordsInit /\ [][StudentRecordsNext]_studentRecordVars

-----------------------------------------------------------------------------
IntakeRow == [status : IntakeStatus \cup {"none"}, programme : Programme \cup {NoProgramme},
              branch : Branch, start : Day, expected : Day, original : Day]
EnrolmentRow == [status : EnrolmentStatus \cup {"none"}, student : Student \cup {NoStudent},
                 programme : Programme \cup {NoProgramme}, branch : Branch,
                 fee : Fee, paid : Fee, registration : RegistrationStatus]

\* The rows and what the requests hold are of their types; a stored intake has
\* dates in order, and what was paid of a registration is not above the fee.
StudentRecordsTypeOK ==
  /\ students \in [Student -> [status : StudentStatus, home : Branch, edited : BOOLEAN]]
  /\ documentLinks \subseteq Student
  /\ mergeEvents \subseteq Student \X Student
  /\ programmes \in [Programme -> [status : ProgrammeStatus, low : Day, high : Day]]
  /\ intakes \in [Intake -> IntakeRow] /\ enrolments \in [Enrolment -> EnrolmentRow]
  /\ \A q \in RecordCall :
       \/ recordCalls[q] = NoRecordCall
       \/ recordCalls[q].doing = "intake" /\ recordCalls[q].row \in IntakeRow
       \/ recordCalls[q].doing = "enrolment" /\ recordCalls[q].row \in EnrolmentRow
  /\ \A e \in Enrolment : enrolments[e].paid <= enrolments[e].fee
  /\ \A i \in Intake : intakes[i].expected = 0 \/ intakes[i].expected >= intakes[i].start
=============================================================================
