--------------------------- MODULE PaymentCapture ---------------------------
(***************************************************************************)
(* The capture of one payment intake by Hermes (persistPaymentIntake):     *)
(* insert the register row first, then for each declared document the      *)
(* storage object and the document row, then finalise the status.  Every   *)
(* database or storage call is a step of its own, because nothing ties     *)
(* them together: the same intake_id may be delivered twice at once, with  *)
(* the same payload or with another; a delivery may die or lose its answer *)
(* between any two calls, and Hermes then sends it again; and people work  *)
(* on the payment from the moment its row exists.                          *)
(*                                                                         *)
(* The identity and entity lookups before the insert and the duplicate     *)
(* search before the finalise only read tables no action here changes, and *)
(* are left out; the attention flags are left out with them.               *)
(***************************************************************************)
EXTENDS Naturals, Sequences

CONSTANTS
  Request,      \* deliveries of the one intake_id, redeliveries apart
  Hash,         \* payload hashes
  Declared,     \* the declared documents, in order: part, role, file
  Required,     \* required_documents of the payment type
  Role, File,   \* document roles and file contents (sha256)
  HumanDoc,     \* <<role, file>> pairs a person may attach, each once
  MaxFailures   \* bound on failed or unanswered calls

Part   == {Declared[i].part : i \in 1..Len(Declared)}
Person == "person"  \* the id of a row a person inserted

ASSUME CaptureAssumption ==
  /\ "none" \notin Hash
  /\ Person \notin Part
  /\ Len(Declared) \in Nat
  /\ \A i \in 1..Len(Declared) :
        Declared[i].role \in Role /\ Declared[i].file \in File
  /\ \A i, j \in 1..Len(Declared) : Declared[i].part = Declared[j].part => i = j
  /\ Required \subseteq Role
  /\ HumanDoc \subseteq Role \X File
  /\ MaxFailures \in Nat

VARIABLES
  sent,      \* the payload hash each delivery was sent with
  status,    \* of the register row; "none" before, "beyond" stands for
             \* bank_matched and everything after it
  payload,   \* payload_hash of the row
  rows,      \* document rows of the payment
  objects,   \* parts whose object is in the storage bucket
  req,       \* what each delivery knows
  touched,   \* history: a person has acted on the payment
  failures   \* calls failed so far

vars == <<sent, status, payload, rows, objects, req, touched, failures>>
row  == <<sent, status, payload, rows>>

FoEarly == {"captured", "documents_pending", "ready_for_bank_match"}
Early   == FoEarly \cup {"bank_match_suggested"}
Status  == Early \cup {"none", "beyond"}

DocRow == [id : Part \cup {Person}, role : Role, file : File, live : BOOLEAN]
DocRef == [role : Role, file : File]

PC == {"sent", "existing", "list", "attach", "row", "done"}
Request0 == [pc |-> "sent", seen |-> "none", known |-> {}, adopted |-> {},
             next |-> 1, replay |-> FALSE, code |-> 0, complete |-> FALSE]

Live(rs) == {[role |-> r.role, file |-> r.file] : r \in {x \in rs : x.live}}
LiveIds(rs) == {r.id : r \in {x \in rs : x.live}}
Missing(refs) == Required \ {d.role : d \in refs}

Init ==
  /\ sent \in [Request -> Hash]
  /\ status = "none"
  /\ payload = "none"
  /\ rows = {}
  /\ objects = {}
  /\ req = [q \in Request |-> Request0]
  /\ touched = FALSE
  /\ failures = 0

-----------------------------------------------------------------------------
(* The handler: one action per call *)

At(q, pc) == req[q].pc = pc

\* The delivery q learns the given fields and changes nothing else.
Learn(q, fields) ==
  req' = [req EXCEPT ![q] =
            [f \in DOMAIN Request0 |->
               IF f \in DOMAIN fields THEN fields[f] ELSE req[q][f]]]

\* The delivery ends with an answer, and what it knew goes with it.
Reply(q, code, complete) ==
  req' = [req EXCEPT ![q] = [Request0 EXCEPT !.pc = "done", !.code = code,
                                             !.complete = complete]]

\* The answer 200 or 201, with the summary of the documents it knows.
Answer(q, known) ==
  Reply(q, IF req[q].replay THEN 200 ELSE 201, Missing(known) = {})

Refuse(q) == Reply(q, 409, FALSE)

\* Mutant of InsertPayment: a status the register does not know.
InsertPaymentAsNew(q) ==
  /\ At(q, "sent")
  /\ IF status = "none"
       THEN /\ status' = "new"
            /\ payload' = sent[q]
            /\ Learn(q, [pc |-> "list", seen |-> "captured"])
       ELSE /\ Learn(q, [pc |-> "existing"])
            /\ UNCHANGED <<status, payload>>
  /\ UNCHANGED <<sent, rows, objects, touched, failures>>

\* Insert first: the unique intake_id and the deterministic id decide which
\* delivery captured the payment.
InsertPayment(q) ==
  /\ At(q, "sent")
  /\ IF status = "none"
       THEN /\ status' = "captured"
            /\ payload' = sent[q]
            /\ Learn(q, [pc |-> "list", seen |-> "captured"])
       ELSE /\ Learn(q, [pc |-> "existing"])
            /\ UNCHANGED <<status, payload>>
  /\ UNCHANGED <<sent, rows, objects, touched, failures>>

\* Mutant of ReadExisting: the payload hash is not compared.
ReadExistingUnchecked(q) ==
  /\ At(q, "existing")
  /\ Learn(q, [pc |-> "list", seen |-> status, replay |-> TRUE])
  /\ UNCHANGED <<row, objects, touched, failures>>

\* Mutant of ReadExisting: a replay is answered without resuming the work.
ReadExistingAnswers(q) ==
  /\ At(q, "existing")
  /\ IF payload = sent[q]
       THEN Reply(q, 200, FALSE)
       ELSE Refuse(q)
  /\ UNCHANGED <<row, objects, touched, failures>>

\* The row exists: another payload is refused, the same one is a replay.
ReadExisting(q) ==
  /\ At(q, "existing")
  /\ IF payload = sent[q]
       THEN Learn(q, [pc |-> "list", seen |-> status, replay |-> TRUE])
       ELSE Refuse(q)
  /\ UNCHANGED <<row, objects, touched, failures>>

Doc(q) == Declared[req[q].next]
Ref(d) == [role |-> d.role, file |-> d.file]

\* Earlier work is adopted: the first document from position i on that is not
\* known by its own id, nor as the same file in the same role.
NextDocument(i, known, adopted) ==
  CHOOSE j \in i..Len(Declared) + 1 :
    /\ j <= Len(Declared) =>
         ~(Declared[j].part \in adopted \/ Ref(Declared[j]) \in known)
    /\ \A k \in i..j - 1 :
         Declared[k].part \in adopted \/ Ref(Declared[k]) \in known

\* The delivery q knows these documents and turns to the next one.
TurnToNext(q, i, known, adopted) ==
  Learn(q, [pc |-> "attach", known |-> known, adopted |-> adopted,
            next |-> NextDocument(i, known, adopted)])

\* List the documents; a payment whose row was past the early statuses when it
\* was read is reported as it is.
ListDocuments(q) ==
  /\ At(q, "list")
  /\ IF req[q].seen \in Early
       THEN TurnToNext(q, 1, Live(rows), LiveIds(rows))
       ELSE Answer(q, Live(rows))
  /\ UNCHANGED <<row, objects, touched, failures>>

\* Mutant of UploadObject: a failed upload is taken for a success.
UploadObjectMayFail(q) ==
  /\ At(q, "attach")
  /\ req[q].next <= Len(Declared)
  /\ objects' \in {objects, objects \cup {Doc(q).part}}
  /\ Learn(q, [pc |-> "row"])
  /\ UNCHANGED <<row, touched, failures>>

\* The object's path is deterministic; one that is already there is as good.
UploadObject(q) ==
  /\ At(q, "attach")
  /\ req[q].next <= Len(Declared)
  /\ objects' = objects \cup {Doc(q).part}
  /\ Learn(q, [pc |-> "row"])
  /\ UNCHANGED <<row, touched, failures>>

\* The primary key, or the unique index on the live files of a payment.
Conflict(d) ==
  \/ \E r \in rows : r.id = d.part
  \/ \E r \in rows : r.live /\ r.file = d.file

CountAsAttached(q) ==
  TurnToNext(q, req[q].next + 1, req[q].known \cup {Ref(Doc(q))},
             req[q].adopted \cup {Doc(q).part})

\* Mutant of InsertDocument: every error of the insert is taken for a conflict.
InsertDocumentMayFail(q) ==
  /\ At(q, "row")
  /\ rows' \in {rows, rows \cup {[id |-> Doc(q).part, role |-> Doc(q).role,
                                  file |-> Doc(q).file, live |-> TRUE]}}
  /\ CountAsAttached(q)
  /\ UNCHANGED <<sent, status, payload, objects, touched, failures>>

\* Insert the document row; a conflict is taken to mean that it is attached.
InsertDocument(q) ==
  /\ At(q, "row")
  /\ rows' = IF Conflict(Doc(q)) THEN rows
             ELSE rows \cup {[id |-> Doc(q).part, role |-> Doc(q).role,
                              file |-> Doc(q).file, live |-> TRUE]}
  /\ CountAsAttached(q)
  /\ UNCHANGED <<sent, status, payload, objects, touched, failures>>

FinalStatus(refs) ==
  IF Missing(refs) = {} THEN "ready_for_bank_match" ELSE "documents_pending"

\* Mutant of TriggerAllows: the old status is not looked at.
TriggerAllowsFoEarly(s) == s \in FoEarly

\* The register trigger on a status written by the FinanceOps session.
TriggerAllows(s) == s = status \/ (s \in FoEarly /\ status \in Early)

\* All documents are in: the status is written by id alone, if the row was in
\* a FinanceOps status when this delivery read it.
Finalise(q) ==
  /\ At(q, "attach")
  /\ req[q].next > Len(Declared)
  /\ IF req[q].seen \notin FoEarly
       THEN Answer(q, req[q].known) /\ UNCHANGED status
       ELSE LET s == FinalStatus(req[q].known)
            IN  IF TriggerAllows(s)
                  THEN status' = s /\ Answer(q, req[q].known)
                  ELSE Refuse(q) /\ UNCHANGED status
  /\ UNCHANGED <<sent, payload, rows, objects, touched, failures>>

Handler(q) ==
  \/ InsertPayment(q) \/ ReadExisting(q) \/ ListDocuments(q)
  \/ UploadObject(q) \/ InsertDocument(q) \/ Finalise(q)

-----------------------------------------------------------------------------
(* Hermes and the network *)

\* A call of the handler fails, the function dies, or the answer is lost: for
\* Hermes the delivery failed with a 5xx.
Fail(q) ==
  /\ req[q].code # 503
  /\ failures < MaxFailures
  /\ failures' = failures + 1
  /\ Reply(q, 503, FALSE)
  /\ UNCHANGED <<row, objects, touched>>

\* A 5xx is retried with the same intake_id and the same payload.
Redeliver(q) ==
  /\ At(q, "done")
  /\ req[q].code = 503
  /\ req' = [req EXCEPT ![q] = Request0]
  /\ UNCHANGED <<row, objects, touched, failures>>

-----------------------------------------------------------------------------
(* People *)

\* Early housekeeping, and the mark that runMatching leaves.
PersonMovesEarly(s) ==
  /\ status \in Early
  /\ s # status
  /\ status' = s
  /\ UNCHANGED <<payload, rows>>

PersonMovesOn ==
  /\ status \in Early
  /\ status' = "beyond"
  /\ UNCHANGED <<payload, rows>>

PersonReturns ==
  /\ status = "beyond"
  /\ status' = "ready_for_bank_match"
  /\ UNCHANGED <<payload, rows>>

PersonAttaches(role, file) ==
  /\ status # "none"
  /\ ~\E r \in rows : r.live /\ r.file = file
  /\ ~\E r \in rows : r.id = Person /\ r.role = role /\ r.file = file
  /\ rows' = rows \cup
       {[id |-> Person, role |-> role, file |-> file, live |-> TRUE]}
  /\ UNCHANGED <<status, payload>>

PersonRemoves(r) ==
  /\ r.live
  /\ rows' = (rows \ {r}) \cup {[r EXCEPT !.live = FALSE]}
  /\ UNCHANGED <<status, payload>>

People ==
  /\ \/ \E s \in Early : PersonMovesEarly(s)
     \/ PersonMovesOn
     \/ PersonReturns
     \/ \E d \in HumanDoc : PersonAttaches(d[1], d[2])
     \/ \E r \in rows : PersonRemoves(r)
  /\ touched' = TRUE
  /\ UNCHANGED <<sent, objects, req, failures>>

-----------------------------------------------------------------------------

Next ==
  \/ \E q \in Request : Handler(q) \/ Fail(q) \/ Redeliver(q)
  \/ People

Spec == Init /\ [][Next]_vars

\* A delivery arrives, the handler runs to its end or fails, and Hermes retries
\* a failure; nobody owes a person's action.
Fairness ==
  \A q \in Request : WF_vars(Handler(q)) /\ WF_vars(Redeliver(q))

FairSpec == Spec /\ Fairness

-----------------------------------------------------------------------------
(* Properties *)

TypeOK ==
  /\ sent \in [Request -> Hash]
  /\ status \in Status
  /\ payload \in Hash \cup {"none"}
  /\ rows \subseteq DocRow
  /\ objects \subseteq Part
  /\ \A q \in Request :
       /\ req[q].pc \in PC
       /\ req[q].seen \in Status
       /\ req[q].known \subseteq DocRef
       /\ req[q].adopted \subseteq Part \cup {Person}
       /\ req[q].next \in 1..Len(Declared) + 1
       /\ req[q].replay \in BOOLEAN
       /\ req[q].code \in {0, 200, 201, 409, 503}
       /\ req[q].complete \in BOOLEAN
  /\ touched \in BOOLEAN
  /\ failures \in 0..MaxFailures

\* A payment that people have moved past the early statuses is never moved by
\* a delivery, however old the status that delivery read at its start.
MovedOnStays ==
  [][\A q \in Request :
       Handler(q) /\ status = "beyond" => status' = "beyond"]_vars

\* Two deliveries with different payloads are never both accepted: whatever
\* the interleaving, a delivery that was told 200 or 201 is the one whose
\* payload the row holds.
AcceptedPayloadIsTheRows ==
  \A q \in Request :
     req[q].code \in {200, 201} => sent[q] = payload

\* No document row of a delivery points to an object that was never stored,
\* across deliveries that die between the two.
EvidenceIsStored == \A r \in rows : r.id # Person => r.id \in objects

\* A delivery told that the documents are complete can point to a row, live or
\* since removed, for every required role.
CompleteHasEvidence ==
  \A q \in Request :
     req[q].complete => Required \subseteq {r.role : r \in rows}

\* The payment with every declared document live, in the status they call for.
Settled ==
  /\ status = FinalStatus({Ref(Declared[i]) : i \in 1..Len(Declared)})
  /\ Part \subseteq LiveIds(rows)

\* A captured payment is finished whatever fails on the way, and stays
\* finished, unless a person acts on it: the retry adopts the row, objects
\* and documents its predecessors left.
CaptureSettles ==
  <>[](status = "none" \/ touched \/ Settled)

\* What a delivery counts as attached is attached: a role it adds to what it
\* knows has a live document.  ("The payment is never reported complete
\* early", persist.ts.)
CountedIsAttached ==
  [][\A q \in Request :
       \A d \in req'[q].known \ req[q].known :
          \E r \in rows' : r.live /\ r.role = d.role]_vars

\* A delivery does not touch a payment that matching has moved past
\* ready_for_bank_match.  (Section 16 of the payment handover.)
SuggestedStays ==
  [][\A q \in Request :
       Handler(q) /\ status = "bank_match_suggested" => status' = status]_vars
=============================================================================
