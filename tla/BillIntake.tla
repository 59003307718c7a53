----------------------------- MODULE BillIntake -----------------------------
(***************************************************************************)
(* The intake of supplier bills from FinanceOps (persistBillIntake): store *)
(* the intake, then the draft bill, the file, the document, its link and   *)
(* the intake's own links, one call after the other, each an action here.  *)
(* Deliveries overlap, fail between any two calls and are sent again, and  *)
(* reviewers resolve, flag, reject and verify intakes and release bills in *)
(* the meantime.                                                           *)
(*                                                                         *)
(* An intake's bill and document have ids derived from its own, so they    *)
(* are named by the intake.  supplier_bill_id and document_id are written  *)
(* with the process_state that needs them, and nothing here clears them,   *)
(* so process_state tells them.  A delivery with another payload than the  *)
(* stored one is refused and changes nothing: the deliveries of an intake  *)
(* are all of one payload.  Their identity and declared entity have passed *)
(* the checks before the insert.                                           *)
(***************************************************************************)
EXTENDS Naturals, FiniteSets

CONSTANTS
  Intake,       \* intake ids
  Delivery,     \* deliveries by FinanceOps
  Entity,       \* approved entities
  Permitted,    \* those the identity and its key may act for
  File,         \* file contents (sha256)
  Scenario,     \* what FinanceOps may send, see Sending
  None,
  MaxFailures   \* bound on failed or unanswered calls, and failed audits

Sending == [intake : [Delivery -> Intake],
            declared : [Intake -> Entity \cup {None}],
            supersedes : [Intake -> Intake \cup {None}],
            file : [Intake -> File]]

ASSUME IntakeAssumption ==
  /\ None \notin Entity /\ None \notin Intake
  /\ Permitted \subseteq Entity
  /\ Scenario \subseteq Sending
  /\ \A s \in Scenario : \A i \in Intake :
       /\ s.declared[i] \in Permitted \cup {None}
       /\ s.supersedes[i] # None =>
            s.supersedes[i] # i /\ s.declared[i] # None
  /\ MaxFailures \in Nat

VARIABLES
  sent,      \* what FinanceOps sends: the intakes and their deliveries
  row,       \* the intake's row: entity_id, process_state, review_status
  bill,      \* payment_status of the intake's bill, "none" before
  objects,   \* intakes whose file is in the storage bucket
  documents, \* intakes whose document row exists
  links,     \* intakes whose document is linked to their bill
  req,       \* what each delivery knows
  passed,    \* intakes whose bill a release has found fit
  failures   \* calls failed so far

store == <<row, bill, objects, documents, links>>
vars  == <<sent, store, req, passed, failures>>

Stages == <<"awaiting_entity", "received", "bill_created",
            "document_attached", "complete">>
Rank == [s \in {Stages[k] : k \in 1..5} |-> CHOOSE k \in 1..5 : Stages[k] = s]

Verdict == {"data_verified", "rejected"}
Review  == {"pending_review", "needs_attention", "duplicate_suspected"}
             \cup Verdict

Row == [entity : Entity \cup {None}, process : DOMAIN Rank \cup {"none"},
        review : Review]

NoRow == [entity |-> None, process |-> "none", review |-> "pending_review"]
Stored(i) == row[i].process # "none"

BillLinked(r) == r.process \in {Stages[k] : k \in 3..5}
DocLinked(r)  == r.process \in {Stages[k] : k \in 4..5}

Superseded(i) == \E j \in Intake : sent.supersedes[j] = i /\ Stored(j)

PC == {"sent", "existing", "check", "flag", "getBill", "insertBill",
       "linkBill", "upload", "document", "link", "attach", "complete", "done"}

Request0 == [pc |-> "sent", replay |-> FALSE, code |-> 0]

Init ==
  /\ sent \in Scenario
  /\ row = [i \in Intake |-> NoRow]
  /\ bill = [i \in Intake |-> "none"]
  /\ objects = {} /\ documents = {} /\ links = {}
  /\ req = [d \in Delivery |-> Request0]
  /\ passed = {}
  /\ failures = 0

-----------------------------------------------------------------------------
(* The row rules, for an update by FinanceOps *)

\* Mutant of UpdateAllowed: a verdict does not freeze the row.
UpdateAllowedAfterVerdict(i, new) ==
  LET old == row[i] IN
  /\ new.process # old.process =>
       /\ Rank[new.process] = Rank[old.process] + 1
       /\ new.process = "bill_created" => bill[i] = "draft"
       /\ new.process = "document_attached" => i \in documents \cap links
  /\ new.review # old.review => old.review = "pending_review"

\* Nothing after a verdict; process_state only forward, to a state the links
\* support, which is the next one; a draft bill, a document that is visible
\* through its link; and a flag only on an intake pending review.
UpdateAllowed(i, new) ==
  LET old == row[i] IN
  /\ old.review \notin Verdict
  /\ new.process # old.process =>
       /\ Rank[new.process] = Rank[old.process] + 1
       /\ new.process = "bill_created" => bill[i] = "draft"
       /\ new.process = "document_attached" => i \in documents \cap links
  /\ new.review # old.review => old.review = "pending_review"

-----------------------------------------------------------------------------
(* The handler: one action per call *)

IntakeOf(d) == sent.intake[d]

At(d, pc) == req[d].pc = pc
Goto(d, pc) == req' = [req EXCEPT ![d].pc = pc]
Reply(d, code) ==
  req' = [req EXCEPT ![d] = [Request0 EXCEPT !.pc = "done", !.code = code]]

\* Where a delivery that holds the row r turns next: the loop of advance.
NextCall(r) ==
  CASE r.process = "received"          -> "check"
    [] r.process = "bill_created"      -> "upload"
    [] r.process = "document_attached" -> "complete"

Continue(d, r, replay) ==
  CASE r.process = "complete" -> Reply(d, IF replay THEN 200 ELSE 201)
    [] r.process = "received" /\ r.review # "pending_review" -> Reply(d, 409)
    [] OTHER -> req' = [req EXCEPT ![d].pc = NextCall(r), ![d].replay = replay]

\* Mutant of Advance: a resolved entity is not held against the identity's
\* limits.
AdvanceForAnyEntity(d, r, replay) ==
  CASE r.review = "rejected" -> Reply(d, 409)
    [] r.entity = None -> Reply(d, 202)
    [] OTHER -> Continue(d, r, replay)

\* A rejected intake is refused, an unresolved one waits for its entity, and
\* an entity outside the identity's limits gets nothing.
Advance(d, r, replay) ==
  CASE r.review = "rejected" -> Reply(d, 409)
    [] r.review # "rejected" /\ r.entity = None -> Reply(d, 202)
    [] r.review # "rejected" /\ r.entity \in Entity \ Permitted
         /\ r.process # "complete" -> Reply(d, 403)
    [] OTHER -> Continue(d, r, replay)

NewRow(i) ==
  [entity |-> sent.declared[i], review |-> "pending_review",
   process |-> IF sent.declared[i] = None THEN "awaiting_entity" ELSE "received"]

\* The insert trigger refuses a successor whose original is missing, resolved
\* or rejected.  It runs before any unique index is looked at.
SupersedeRefused(i) ==
  LET o == sent.supersedes[i] IN
  o # None /\ (~Stored(o) \/ row[o].entity # None \/ row[o].review = "rejected")

\* Mutant of InsertIntake: the insert trigger does not set process_state.
InsertIntakeAsReceived(d) ==
  /\ At(d, "sent")
  /\ LET i == IntakeOf(d) IN
       IF SupersedeRefused(i) THEN Reply(d, 409) /\ UNCHANGED row
       ELSE IF Stored(i) THEN Goto(d, "existing") /\ UNCHANGED row
       ELSE IF sent.supersedes[i] # None /\ Superseded(sent.supersedes[i])
              THEN Reply(d, 409) /\ UNCHANGED row
              ELSE /\ row' = [row EXCEPT ![i] = [NewRow(i) EXCEPT !.process = "received"]]
                   /\ Advance(d, NewRow(i), FALSE)
  /\ UNCHANGED <<sent, bill, objects, documents, links, passed, failures>>

\* Insert first: intake_id is unique, and so is the successor of an original.
InsertIntake(d) ==
  /\ At(d, "sent")
  /\ LET i == IntakeOf(d) IN
       IF SupersedeRefused(i) THEN Reply(d, 409) /\ UNCHANGED row
       ELSE IF Stored(i) THEN Goto(d, "existing") /\ UNCHANGED row
       ELSE IF sent.supersedes[i] # None /\ Superseded(sent.supersedes[i])
              THEN Reply(d, 409) /\ UNCHANGED row
              ELSE /\ row' = [row EXCEPT ![i] = NewRow(i)]
                   /\ Advance(d, NewRow(i), FALSE)
  /\ UNCHANGED <<sent, bill, objects, documents, links, passed, failures>>

\* A replay goes on from the stored process_state.
ReadExisting(d) ==
  /\ At(d, "existing")
  /\ Advance(d, row[IntakeOf(d)], TRUE)
  /\ UNCHANGED <<sent, store, passed, failures>>

\* The same file, linked to an active bill of the same entity.
Duplicate(i) ==
  \E j \in (documents \cap links) \ {i} :
    sent.file[j] = sent.file[i] /\ row[j].entity = row[i].entity

LoadDuplicates(d) ==
  /\ At(d, "check")
  /\ Goto(d, IF Duplicate(IntakeOf(d)) THEN "flag" ELSE "getBill")
  /\ UNCHANGED <<sent, store, passed, failures>>

\* The update of an intake's row, refused with its rules.
UpdateIntake(i, new) ==
  /\ row' = IF UpdateAllowed(i, new) THEN [row EXCEPT ![i] = new] ELSE row
  /\ UNCHANGED <<sent, bill, objects, documents, links, passed, failures>>

FlagDuplicate(d) ==
  LET i == IntakeOf(d) IN
  /\ At(d, "flag")
  /\ UpdateIntake(i, [row[i] EXCEPT !.review = "duplicate_suspected"])
  /\ Reply(d, 409)

\* Mutant of GetBill: the bill of an earlier attempt is taken for a conflict.
GetBillNotAdopted(d) ==
  /\ At(d, "getBill")
  /\ IF bill[IntakeOf(d)] = "none" THEN Goto(d, "insertBill") ELSE Reply(d, 409)
  /\ UNCHANGED <<sent, store, passed, failures>>

\* A draft bill of an earlier attempt is adopted, any other one is a conflict.
GetBill(d) ==
  /\ At(d, "getBill")
  /\ CASE bill[IntakeOf(d)] = "none"  -> Goto(d, "insertBill")
       [] bill[IntakeOf(d)] = "draft" -> Goto(d, "linkBill")
       [] OTHER -> Reply(d, 409)
  /\ UNCHANGED <<sent, store, passed, failures>>

\* A conflict of the primary key: read the bill again.
InsertBill(d) ==
  /\ At(d, "insertBill")
  /\ IF bill[IntakeOf(d)] = "none"
       THEN bill' = [bill EXCEPT ![IntakeOf(d)] = "draft"] /\ Goto(d, "linkBill")
       ELSE Goto(d, "getBill") /\ UNCHANGED bill
  /\ UNCHANGED <<sent, row, objects, documents, links, passed, failures>>

\* The delivery goes on with the row that the update returns.
MoveTo(d, pc, process) ==
  LET i == IntakeOf(d)
      new == [row[i] EXCEPT !.process = process] IN
  /\ At(d, pc)
  /\ UpdateIntake(i, new)
  /\ IF UpdateAllowed(i, new) THEN Continue(d, new, req[d].replay)
                              ELSE Reply(d, 409)

LinkBill(d) == MoveTo(d, "linkBill", "bill_created")

\* Mutant of UploadObject: a failed upload is taken for a success.
UploadObjectMayFail(d) ==
  /\ At(d, "upload")
  /\ objects' \in {objects, objects \cup {IntakeOf(d)}}
  /\ Goto(d, "document")
  /\ UNCHANGED <<sent, row, bill, documents, links, passed, failures>>

\* The path is deterministic; an object that is already there is as good, and
\* so are the document and the link below.
UploadObject(d) ==
  /\ At(d, "upload")
  /\ objects' = objects \cup {IntakeOf(d)}
  /\ Goto(d, "document")
  /\ UNCHANGED <<sent, row, bill, documents, links, passed, failures>>

InsertDocument(d) ==
  /\ At(d, "document")
  /\ documents' = documents \cup {IntakeOf(d)}
  /\ Goto(d, "link")
  /\ UNCHANGED <<sent, row, bill, objects, links, passed, failures>>

LinkDocument(d) ==
  /\ At(d, "link")
  /\ links' = links \cup {IntakeOf(d)}
  /\ Goto(d, "attach")
  /\ UNCHANGED <<sent, row, bill, objects, documents, passed, failures>>

AttachDocument(d) == MoveTo(d, "attach", "document_attached")
Complete(d)       == MoveTo(d, "complete", "complete")

Handler(d) ==
  \/ InsertIntake(d) \/ ReadExisting(d) \/ LoadDuplicates(d) \/ FlagDuplicate(d)
  \/ GetBill(d) \/ InsertBill(d) \/ LinkBill(d)
  \/ UploadObject(d) \/ InsertDocument(d) \/ LinkDocument(d) \/ AttachDocument(d)
  \/ Complete(d)

-----------------------------------------------------------------------------
(* FinanceOps and the network *)

\* A call fails, the function dies, or the answer is lost.
Fail(d) ==
  /\ req[d].code # 503
  /\ failures < MaxFailures
  /\ failures' = failures + 1
  /\ Reply(d, 503)
  /\ UNCHANGED <<sent, store, passed>>

\* next_action of the status endpoint.
Resubmit(r) ==
  /\ r.entity # None
  /\ r.review = "pending_review"
  /\ r.process # "complete"

\* A 5xx is retried, and an intake is sent again when its status says so.
Redeliver(d) ==
  /\ At(d, "done")
  /\ req[d].code = 503 \/ Resubmit(row[IntakeOf(d)])
  /\ req' = [req EXCEPT ![d] = Request0]
  /\ UNCHANGED <<sent, store, passed, failures>>

-----------------------------------------------------------------------------
(* Reviewers *)

\* Mutant of Resolve: a successor does not bar the resolution.
ResolveSuperseded(i, e) ==
  /\ row[i].process = "awaiting_entity"
  /\ row[i].review \notin Verdict
  /\ row' = [row EXCEPT ![i].entity = e, ![i].process = "received"]
  /\ UNCHANGED <<bill, passed, failures>>

\* The entity of an unresolved intake is set once, unless a successor is there.
Resolve(i, e) ==
  /\ row[i].process = "awaiting_entity"
  /\ row[i].review \notin Verdict
  /\ ~Superseded(i)
  /\ row' = [row EXCEPT ![i].entity = e, ![i].process = "received"]
  /\ UNCHANGED <<bill, passed, failures>>

Targets(r) ==
  IF r.entity = None
    THEN IF r.review \in Verdict THEN {} ELSE {"rejected"}
    ELSE LET verify == IF r.process = "complete" THEN {"data_verified"} ELSE {} IN
         CASE r.review = "pending_review" ->
                {"rejected", "needs_attention", "duplicate_suspected"} \cup verify
           [] r.review = "needs_attention" ->
                {"pending_review", "rejected"} \cup verify
           [] r.review = "duplicate_suspected" -> {"pending_review", "rejected"}
           [] OTHER -> {}

SetReview(i, target) ==
  /\ Stored(i)
  /\ target \in Targets(row[i])
  /\ row' = [row EXCEPT ![i].review = target]
  /\ UNCHANGED <<bill, passed, failures>>

\* The release of a bill, first call: a draft, and no intake is linked to it
\* that has not been verified.
ReadGate(i) ==
  /\ i \notin passed
  /\ bill[i] = "draft"
  /\ BillLinked(row[i]) => row[i].review = "data_verified"
  /\ passed' = passed \cup {i}
  /\ UNCHANGED <<row, bill, failures>>

\* Second call: the update, if the bill is still a draft.
ReleaseBill(i) ==
  /\ i \in passed
  /\ bill[i] = "draft"
  /\ bill' = [bill EXCEPT ![i] = "unpaid"]
  /\ passed' = passed \ {i}
  /\ UNCHANGED <<row, failures>>

\* The audit entry fails and the release is taken back.
RevertRelease(i) ==
  /\ bill[i] = "unpaid"
  /\ failures < MaxFailures
  /\ failures' = failures + 1
  /\ bill' = [bill EXCEPT ![i] = "draft"]
  /\ UNCHANGED <<row, passed>>

People ==
  /\ \E i \in Intake :
       \/ \E e \in Entity : Resolve(i, e)
       \/ \E target \in Review : SetReview(i, target)
       \/ ReadGate(i) \/ ReleaseBill(i) \/ RevertRelease(i)
  /\ UNCHANGED <<sent, objects, documents, links, req>>

-----------------------------------------------------------------------------

Next ==
  \/ \E d \in Delivery : Handler(d) \/ Fail(d) \/ Redeliver(d)
  \/ People

Spec == Init /\ [][Next]_vars

\* The handler runs to its end or fails; FinanceOps retries a failure and
\* follows the status endpoint; nobody owes a person's action.
FairSpec ==
  /\ Spec
  /\ \A d \in Delivery : WF_vars(Handler(d)) /\ WF_vars(Redeliver(d))

-----------------------------------------------------------------------------
(* Properties *)

\* Types, with the table's own check: an intake awaits its entity if and only
\* if it has none.
TypeOK ==
  /\ sent \in Scenario
  /\ row \in [Intake -> Row]
  /\ \A i \in Intake :
       (row[i].entity = None) = (row[i].process \in {"none", "awaiting_entity"})
  /\ bill \in [Intake -> {"none", "draft", "unpaid"}]
  /\ objects \subseteq Intake
  /\ documents \subseteq Intake
  /\ links \subseteq Intake
  /\ req \in [Delivery -> [pc : PC, replay : BOOLEAN,
                           code : {0, 200, 201, 202, 403, 409, 503}]]
  /\ passed \subseteq Intake
  /\ failures \in 0..MaxFailures

\* The intake never says more than there is, wherever deliveries stop and
\* overlap: with its document attached, the file is stored, and its document
\* is linked to a bill that exists.  ("The intake is never reported complete
\* early", persist.ts.)
AttachedIsStored ==
  \A i \in Intake :
    /\ BillLinked(row[i]) => bill[i] # "none"
    /\ DocLinked(row[i]) => i \in objects \cap documents \cap links

\* Whoever resolved the entity, and whichever delivery was on its way then:
\* bills and files exist only for entities the identity may act for.
OnlyPermittedEntities ==
  \A i \in Intake :
    bill[i] # "none" \/ i \in objects \cup documents \cup links =>
      row[i].entity \in Permitted

\* A superseded intake never gets an entity, a bill or a file, however its
\* resolution by a reviewer races the arrival of its successor (decision D10).
OneOfTwoPaths ==
  \A i \in Intake :
    Superseded(i) => /\ row[i].entity = None
                     /\ bill[i] = "none"
                     /\ i \notin objects \cup documents \cup links

\* The table keeps the promise of IntakeLedger: stages one by one, entity once,
\* verdicts final, against every delivery that read the row before.
Ledger == INSTANCE IntakeLedger WITH
  stage <- [i \in Intake |-> row[i].process],
  verdict <- [i \in Intake |-> IF row[i].review \in Verdict THEN row[i].review
                               ELSE None],
  lineage <- sent.supersedes

LedgerHolds == Ledger!Spec

\* An intake that only FinanceOps can bring further: it has a permitted entity,
\* no reviewer holds it, its bill was not released, and it is not complete.
Stranded(i) ==
  /\ Resubmit(row[i])
  /\ row[i].entity \in Permitted
  /\ bill[i] # "unpaid"

OriginalRejected(i) ==
  sent.supersedes[i] # None /\ row[sent.supersedes[i]].review = "rejected"

\* Wherever its deliveries fail, no intake stays unfinished for ever with
\* nobody but FinanceOps to finish it: a retry goes on from what is there.
\* (A successor whose original is rejected is the exception, see below.)
NeverStranded ==
  \A i \in Intake : []<>(~Stranded(i) \/ OriginalRejected(i))

\* A successor is no exception: its retry resumes like any other.  ("A step
\* fails ... the retry resumes", FINANCEOPS_INTEGRATION.md.)
SuccessorNeverStranded ==
  \A i \in Intake : []<>~Stranded(i)

\* A bill created from an intake is released only after a human has marked the
\* intake Data Verified.  (Decision Q5, in the release route.)
ReleasedWasVerified ==
  \A i \in Intake : bill[i] = "unpaid" => row[i].review = "data_verified"
=============================================================================
