---------------------------- MODULE MCOperations ----------------------------
(***************************************************************************)
(* The smaller components on small sets, for TLC.  They share no variable, *)
(* so a behaviour is of one part: the component of the part moves and the  *)
(* others stay where they start.  The parts that begin with "card" are     *)
(* ClaimImport, and those from "students" on are StudentImport with the    *)
(* records beside it, each with the concurrency its part is about.         *)
(***************************************************************************)
EXTENDS BankImport, BankAllocation, StatementImport, Matching, Documents,
        RecurringBills, SupplierImport, IntakeReview, RequestGate,
        ClaimImport, ClaimForm, StudentImport, RegisterImport, TLC

CONSTANTS
  Parts,     \* the parts this run explores
  f1, f2,    \* statement files
  s1, s2,    \* suppliers of the intake under review
  g1, g2     \* requests of the gate

VARIABLE part

ASSUME OpenIntakeAssumption ==
  "students_enrol" \in Parts => Programme # {} /\ MaxDay >= 1

-----------------------------------------------------------------------------
(* Data *)

\* Statement files: two identical rows, a row of two amounts, a credit, a fee.
Cells(d, c, a) == [date |-> TRUE, text |-> TRUE, debit |-> d, credit |-> c,
                   amount |-> a, indicator |-> "none"]
wage == Cells({3}, {}, {})
fee == Cells({}, {}, {-1})
MCRowsOf == [f \in StatementFile |->
  IF f = f1 THEN <<wage, wage, Cells({1}, {1}, {}), Cells({}, {2}, {})>>
  ELSE <<Cells({}, {2}, {}), wage, fee>>]

\* What the comparison of a pair says, for the scoring and for the two pairs.
AnySignal ==
  [account : {"unknown", "same", "other"}, ref : {"none", "suffix", "exact"},
   diff : {"none", "rounding", "other"}, payee : BOOLEAN,
   name : {"none", "similar", "prefix", "exact"}, days : {-4, -3, -1, 0, 2, 5, 8, 14, 15}]
PlainSignal == [account |-> "same", ref |-> "none", diff |-> "none",
                payee |-> FALSE, name |-> "exact", days |-> 0]
MCSignalOf == [x \in Pay \X Debit |-> PlainSignal]

\* A payload that states all, and what is left out of it or wrong in it.
FullPayload ==
  [class |-> [f \in Field |-> IF f = "supersedes_intake_id" THEN "absent" ELSE "plain"],
   amount |-> [m \in Money |-> IF m = "tax_amount" THEN 20
                               ELSE IF m = "subtotal" THEN 100 ELSE 120],
   day |-> [d \in {"date", "due_date", "received_at"} |-> IF d = "due_date" THEN 2 ELSE 1],
   envelope |-> [e \in Envelope |-> "object"],
   extraKey |-> [e \in Envelope |-> FALSE]]
Without(fields) == [FullPayload EXCEPT !.class =
                      [f \in Field |-> IF f \in fields THEN "absent" ELSE @[f]]]
MCPayloads ==
  {[Without({"due_date", "date", "name", "registration_number"}) EXCEPT
      !.amount["tax_amount"] = 50],
   [Without({"total_amount", "subtotal", "tax_amount"}) EXCEPT !.class["entity_code"] = "null"],
   [FullPayload EXCEPT !.class["currency"] = "malformed"],
   [FullPayload EXCEPT !.extraKey["source"] = TRUE]}
MCSupplierOf ==
  [s \in Supplier |-> [active |-> TRUE, registration |-> s = s1,
                       similarity |-> IF s = s1 THEN 40 ELSE 100]]

\* Two deployments, the second with one key only and no database sign-in.
MCShapeOf ==
  [g \in Request |->
     IF g = g1 THEN [payment |-> FALSE, status |-> FALSE, key |-> "k1", secret |-> "x1",
                     fits |-> TRUE, sent |-> 1, faults |-> {}]
     ELSE [payment |-> TRUE, status |-> FALSE, key |-> "k2", secret |-> "x2",
           fits |-> TRUE, sent |-> 2, faults |-> {"hash", "metadata"}]]
TwoKeys == [enabled |-> TRUE, payments |-> TRUE, entities |-> TRUE, database |-> TRUE,
            keyId |-> [s \in Slot |-> IF s = "current" THEN "k1" ELSE "k2"],
            secret |-> [s \in Slot |-> IF s = "current" THEN "x1" ELSE "x2"],
            skew |-> 2, limit |-> 1]
MCConfigs == {TwoKeys, [TwoKeys EXCEPT !.database = FALSE, !.payments = FALSE,
                          !.keyId["next"] = Missing, !.limit = 2]}

MCCardFile == {<<"good", "bad">>, <<"good">>}
\* Old sheets: one payment in two spellings, a row with no entity and no key,
\* an empty one; and a closed payment with the reference of the first.
OldCells == [id |-> NoKey, ref |-> NoKey, named |-> {}, account |-> NoKey, payer |-> {},
             date |-> TRUE, amount |-> "positive", beneficiary |-> TRUE, purpose |-> TRUE,
             says |-> {}, invoiced |-> FALSE, recon |-> "blank", pending |-> FALSE]
OldFirst == [OldCells EXCEPT !.id = <<"7", "plain">>, !.ref = <<"8", "plain">>, !.named = {"IEA"},
                             !.says = {"wage"}]
OldAgain == [OldCells EXCEPT !.id = <<"7", "other">>, !.account = "77", !.pending = TRUE]
OldEmpty == [OldCells EXCEPT !.date = FALSE, !.amount = "none", !.beneficiary = FALSE]
OldClosed == [OldCells EXCEPT !.ref = <<"8", "other">>, !.payer = {"IEA"}, !.recon = "posted"]
MCOldFile == {<<OldFirst, OldAgain>>, <<OldEmpty, OldClosed, OldCells>>}

MCEntityOf == [b \in Branch |-> b]
MCStudentFile == {<<TRUE>>, <<FALSE>>}

-----------------------------------------------------------------------------
(* Where a behaviour starts *)

SomeOf(S) == CHOOSE x \in S : TRUE
StudentParts == {"students_calls", "students_screen", "students_work",
                 "students_enrol", "students_study", "students_people"}
\* The rows the work on imported students is about are there from the start.
OpenIntake == [status |-> "open", programme |-> SomeOf(Programme), branch |-> SomeBranch,
               start |-> 1, expected |-> 0, original |-> 0]

MCInit ==
  /\ part \in Parts
  /\ BankImportInit /\ BankAllocationInit /\ StatementInit /\ DocumentsInit
  /\ MatchingInit
  /\ sample \in IF part = "scoring" THEN AnySignal ELSE {PlainSignal}
  /\ RecurringInit /\ SupplierInit
  /\ IntakeReviewInit /\ (part # "review" => payload = SomeOf(Payloads))
  /\ GateInit /\ (part # "gate" => config = TwoKeys)
  /\ ClaimImportInit
  /\ ClaimFormInit /\ form.lines[SomeOf(FormLine)].is = "new"
  /\ students = [s \in Student |-> NoStudentRow]
  /\ documentLinks = {} /\ mergeEvents = {}
  /\ programmes = [p \in Programme |-> NoProgrammeRow]
  /\ intakes = [i \in Intake |-> IF part = "students_enrol" THEN OpenIntake ELSE NoIntakeRow]
  /\ enrolments = [e \in Enrolment |-> NoEnrolmentRow]
  /\ recordCalls = [q \in RecordCall |-> NoRecordCall]
  /\ importBatches = [b \in ImportBatch |-> NoImportBatch]
  /\ importRows = [r \in ImportRow |-> NoImportRow]
  /\ legacyRecords = {} /\ importScreen = NoImportScreen
  /\ importCalls = [q \in ImportCall |-> NoImportCall] /\ reverting = <<>>
  /\ RegisterImportInit /\ (part # "register" => oldScreen.owner)

-----------------------------------------------------------------------------
(* The parts *)

\* One reviewer ticks the boxes of the guesses; the other corrects and decides.
ReviewPart ==
  IntakeReviewNext /\ \A u \in Reviewer \ Resolver : screen'[u].panel.confirmed = {}

CardOne == Cardinality({q \in ClaimRequest : cardCalls'[q] # NoCardCall}) <= 1
CardPlain == Len(cardScreen'.rows) <= 1

ImportOne == Cardinality({q \in ImportCall : importCalls'[q] # NoImportCall}) <= 1
PlainRows == \A r \in DOMAIN importScreen'.rows :
               ~importScreen'.rows[r].excluded /\ importScreen'.rows[r].valid
OneParse == \A q \in ImportCall : importCalls'[q].step # "clear"

\* Work on the records beside an import: drafts saved and edited, documents
\* and one merge; or one enrolment.
DraftSaved == \E s \in Student : SaveStudent(s, SomeBranch, TRUE, "active", FALSE, TRUE)
RecordWork == DraftSaved \/ \E s \in Student : LinkDocument(s)
OneMerge == \E s, t \in Student : MergeStudents(s, t, FALSE) /\ MoveImports(s, t)
EnrolWork ==
  \/ DraftSaved
  \/ \E q \in RecordCall :
       \/ WriteEnrolment(q)
       \/ \E s \in Student, i \in Intake, e \in Enrolment :
            ReadEnrolment(q, e, s, i, "enrolled", -1, -1, "not_paid")
ImportWork == (ImportStep \/ PreviewStep) /\ ImportOne /\ PlainRows /\ OneParse

\* Programmes, intakes and enrolments of one student, with some amounts.
StudyWork ==
  /\ \/ \E s \in Student :
          Known \subseteq {s} /\ SaveStudent(s, SomeBranch, FALSE, "active", FALSE, FALSE)
     \/ StudyStep
  /\ \A p \in Programme : programmes'[p].low = 0 /\ programmes'[p].status \in {"none", "active"}
  /\ \A q \in RecordCall : LET c == recordCalls'[q] IN
       /\ c.doing = "intake" => c.row.expected # 1
       /\ c.doing = "enrolment" => c.row.paid # 0 /\ c.row.registration # "waived"

\* The branch of a student is about enrolments only.
OneBranch == \A s \in Known' : students'[s].home = SomeBranch

StudentPartStep ==
  \/ part = "students_calls" /\ ImportStep /\ PlainRows
  \/ part = "students_screen" /\ (ImportStep \/ PreviewStep) /\ ImportOne
  \/ part = "students_work" /\ (ImportWork \/ OneMerge \/ (RecordWork /\ UNCHANGED importVars))
     /\ Cardinality(mergeEvents') <= 1 /\ Cardinality(documentLinks') <= 1
  \/ part = "students_enrol" /\ (ImportWork \/ (EnrolWork /\ UNCHANGED importVars))
  \/ part = "students_study" /\ StudyWork /\ UNCHANGED importVars
  \/ part = "students_people"
     /\ (MergeStep \/ (StudentStep /\ UNCHANGED importVars)) /\ OneBranch

\* At most one choice of the page, and then one call; no choice and no preview
\* while a call runs; no type but "other".
ChoicesMade(c) ==
  LET rows == DOMAIN c.type IN
  Cardinality({i \in rows : c.type[i] # "none"}) + Cardinality({i \in rows : c.entity[i] # NoEntity})
    + Cardinality({c.default, c.accounts["77"]} \ {NoEntity})
RegisterPart ==
  /\ RegisterImportNext
  /\ (\E q \in OldCall : Running(q)) =>
        /\ UNCHANGED <<oldScreen.file, oldScreen.choice, oldScreen.waive>>
        /\ oldScreen'.rows \in {oldScreen.rows, <<>>}
  /\ (\E q \in OldCall : oldCalls[q] # NoOldCall) =>
        \/ oldScreen'.file # oldScreen.file
        \/ UNCHANGED <<oldScreen.choice, oldScreen.waive>>
  /\ LET c == oldScreen'.choice
         many == ChoicesMade(c) + (IF oldScreen'.waive THEN 1 ELSE 0)
         sent == Cardinality({q \in OldCall : oldCalls'[q] # NoOldCall}) IN
     /\ \A i \in DOMAIN c.type : c.type[i] \in {"none", "other"}
     /\ many <= 1
     /\ c.accounts["77"] = NoEntity => sent <= 1

Step ==
  \/ part = "bank" /\ BankImportNext
  \/ part = "allocation" /\ BankAllocationNext
  \/ part = "statement" /\ StatementNext
  \/ part = "matching" /\ MatchingNext
  \/ part = "documents" /\ DocumentsNext
  \/ part = "recurring" /\ RecurringNext
  \/ part = "supplier" /\ SupplierNext
  \/ part = "review" /\ ReviewPart
  \/ part = "gate" /\ GateNext
  \/ part = "card_screen" /\ ClaimImportNext /\ CardOne
  \/ part = "card_calls" /\ ClaimImportNext /\ CardPlain
  \/ part = "form" /\ ClaimFormNext
  \/ part = "register" /\ RegisterPart
  \/ StudentPartStep

Still(p, v) == IF part \in p THEN TRUE ELSE UNCHANGED v

OperationsStep ==
  /\ Step
  /\ UNCHANGED part
  /\ Still({"bank"}, bankImportVars)
  /\ Still({"allocation"}, allocationVars)
  /\ Still({"statement"}, statementVars)
  /\ Still({"matching"}, matchingVars)
  /\ Still({"documents"}, documentVars)
  /\ Still({"recurring"}, recurringVars)
  /\ Still({"supplier"}, supplierVars)
  /\ Still({"review"}, intakeVars)
  /\ Still({"gate"}, gateVars)
  /\ Still({"card_screen", "card_calls"}, claimImportVars)
  /\ Still({"form"}, claimFormVars)
  /\ Still(StudentParts, studentImportVars)
  /\ Still({"register"}, registerImportVars)

AllVars == <<part, bankImportVars, allocationVars, statementVars, matchingVars,
             documentVars, recurringVars, supplierVars, intakeVars, gateVars,
             claimImportVars, claimFormVars, studentImportVars, registerImportVars>>

MCSpec == MCInit /\ [][OperationsStep]_AllVars

-----------------------------------------------------------------------------
\* Every component's variables are of their types.
OperationsTypeOK ==
  CASE part = "bank" -> BankImportTypeOK
    [] part = "allocation" -> BankAllocationTypeOK
    [] part = "statement" -> StatementTypeOK
    [] part \in {"matching", "scoring"} -> MatchingTypeOK
    [] part = "documents" -> DocumentsTypeOK
    [] part = "recurring" -> RecurringTypeOK
    [] part = "supplier" -> SupplierTypeOK
    [] part = "review" -> IntakeReviewTypeOK
    [] part = "gate" -> GateTypeOK
    [] part \in {"card_screen", "card_calls"} -> ClaimImportTypeOK
    [] part = "form" -> ClaimFormTypeOK
    [] part = "register" -> RegisterImportTypeOK
    [] OTHER -> StudentRecordsTypeOK /\ StudentImportTypeOK

OperationsSymmetry ==
  Permutations(Student) \cup Permutations(ImportRow) \cup Permutations(SRequest)
=============================================================================
