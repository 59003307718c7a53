-------------------------- MODULE BillIntakeProofs --------------------------
(***************************************************************************)
(* Theorems about the intake of supplier bills, for any number of intakes, *)
(* deliveries, entities and failures, and that the table implements        *)
(* IntakeLedger.  A delivery works on a row that others change under it:   *)
(* the invariant relates the place of each delivery in the handler to what *)
(* the row and the storage must hold by then.                              *)
(***************************************************************************)
EXTENDS BillIntake, TLAPS

Process == {"awaiting_entity", "received", "bill_created", "document_attached",
            "complete", "none"}
WithBill == {"bill_created", "document_attached", "complete"}
WithDocument == {"document_attached", "complete"}

RowType == [entity : Entity \cup {None}, process : Process, review : Review]

RowTyped(r) ==
  /\ r \in RowType
  /\ (r.entity = None) = (r.process \in {"none", "awaiting_entity"})

Working == {"check", "flag", "getBill", "insertBill", "linkBill",
            "upload", "document", "link", "attach"}

\* What holds of the intake of a delivery at its place in the handler.
Place(d) ==
  LET i == sent.intake[d]
      pc == req[d].pc
  IN /\ pc \in Working \cup {"existing", "complete"} => row[i].process # "none"
     /\ pc \in Working => row[i].entity \in Permitted
     /\ pc \in {"upload", "document", "link", "attach"} =>
          row[i].process \in WithBill
     /\ pc \in {"document", "link", "attach"} => i \in objects
     /\ pc \in {"link", "attach"} => i \in documents
     /\ pc = "attach" => i \in links

RequestType == [pc : PC, replay : BOOLEAN,
                code : {0, 200, 201, 202, 403, 409, 503}]

Typed ==
  /\ sent \in Scenario
  /\ row \in [Intake -> RowType] /\ \A i \in Intake : RowTyped(row[i])
  /\ bill \in [Intake -> {"none", "draft", "unpaid"}]
  /\ objects \subseteq Intake /\ documents \subseteq Intake
  /\ links \subseteq Intake
  /\ req \in [Delivery -> RequestType]
  /\ passed \subseteq Intake
  /\ failures \in 0..MaxFailures

\* The row of an intake never says more than there is.
FilesThere ==
  \A i \in Intake :
    /\ row[i].process \in WithBill => bill[i] # "none"
    /\ row[i].process \in WithDocument =>
         i \in objects /\ i \in documents /\ i \in links

\* A superseded intake is stored, waits for an entity and has no bill.
SupersededWaits ==
  \A i, j \in Intake :
    sent.supersedes[j] = i /\ row[j].process # "none" =>
      row[i].process # "none" /\ row[i].entity = None

\* Only an intake with an entity is verified.
VerifiedHasEntity ==
  \A i \in Intake : row[i].review = "data_verified" => row[i].entity # None

\* No reviewer has seen what is not stored.
NothingBefore ==
  \A i \in Intake :
    row[i].process = "none" => row[i].review = "pending_review"

RowsInv == /\ FilesThere /\ OnlyPermittedEntities /\ SupersededWaits
           /\ VerifiedHasEntity /\ NothingBefore

IInv == Typed /\ RowsInv /\ \A d \in Delivery : Place(d)

-----------------------------------------------------------------------------
(* Lemmas about the operators *)

LEMMA StagesAre ==
  /\ Stages[1] = "awaiting_entity" /\ Stages[2] = "received"
  /\ Stages[3] = "bill_created" /\ Stages[4] = "document_attached"
  /\ Stages[5] = "complete"
  /\ {Stages[k] : k \in 1..5} = Process \ {"none"}
  /\ {Stages[k] : k \in 3..5} = WithBill
  /\ {Stages[k] : k \in 4..5} = WithDocument
<1>1. /\ Stages[1] = "awaiting_entity" /\ Stages[2] = "received"
      /\ Stages[3] = "bill_created" /\ Stages[4] = "document_attached"
      /\ Stages[5] = "complete"
  BY DEF Stages
<1>2. 1..5 = {1, 2, 3, 4, 5} /\ 3..5 = {3, 4, 5} /\ 4..5 = {4, 5}
  OBVIOUS
<1>3. QED
  BY <1>1, <1>2 DEF Process, WithBill, WithDocument

LEMMA RankIs ==
  /\ DOMAIN Rank = Process \ {"none"}
  /\ Rank["awaiting_entity"] = 1 /\ Rank["received"] = 2
  /\ Rank["bill_created"] = 3 /\ Rank["document_attached"] = 4
  /\ Rank["complete"] = 5
<1>1. DOMAIN Rank = Process \ {"none"}
  BY StagesAre DEF Rank
<1>2. \A s \in Process \ {"none"} : Rank[s] = CHOOSE k \in 1..5 : Stages[k] = s
  BY StagesAre DEF Rank
<1>3. 1..5 = {1, 2, 3, 4, 5}
  OBVIOUS
<1>4. QED
  BY <1>1, <1>2, <1>3, StagesAre DEF Process

LEMMA TypedIsTypeOK == Typed <=> TypeOK
<1>1. Row = RowType
  BY RankIs DEF Row, RowType, Process
<1>2. QED
  BY <1>1 DEF TypeOK, Typed, RowTyped, RequestType

\* The stage after each stage.
LEMMA NextRank ==
  ASSUME NEW s \in Process, NEW t \in Process \ {"none", s},
         s # "none", Rank[t] = Rank[s] + 1
  PROVE  \/ s = "awaiting_entity" /\ t = "received"
         \/ s = "received" /\ t = "bill_created"
         \/ s = "bill_created" /\ t = "document_attached"
         \/ s = "document_attached" /\ t = "complete"
BY RankIs DEF Process

-----------------------------------------------------------------------------
(* A row changes *)

\* What a step may do to a row without setting back any delivery.
Grows(i) ==
  /\ row[i].process # "none" => row'[i].process # "none"
  /\ row[i].entity # None => row'[i].entity = row[i].entity
  /\ row[i].process \in WithBill => row'[i].process \in WithBill

\* The conditions under which a row may become new, the rest staying.
Fit(i, new) ==
  /\ RowTyped(new)
  /\ new.process # "none"
  /\ row[i].entity # None => new.entity = row[i].entity
  /\ row[i].entity = None /\ new.entity # None =>
       \A j \in Intake : ~(sent.supersedes[j] = i /\ row[j].process # "none")
  /\ row[i].process \in WithBill => new.process \in WithBill
  /\ new.process \in WithBill => bill[i] # "none"
  /\ new.process \in WithDocument =>
       i \in objects /\ i \in documents /\ i \in links
  /\ new.review = "data_verified" => new.entity # None
  /\ row[i].process = "none" /\ sent.supersedes[i] # None =>
       /\ sent.supersedes[i] # i
       /\ row[sent.supersedes[i]].process # "none"
       /\ row[sent.supersedes[i]].entity = None

LEMMA RowChanges ==
  ASSUME IInv, NEW i \in Intake, NEW new, Fit(i, new),
         row' = [row EXCEPT ![i] = new],
         UNCHANGED <<sent, bill, objects, documents, links>>
  PROVE  /\ row' \in [Intake -> RowType]
         /\ \A j \in Intake : RowTyped(row'[j])
         /\ RowsInv'
         /\ \A j \in Intake : Grows(j)
<1>1. /\ row \in [Intake -> RowType] /\ \A j \in Intake : RowTyped(row[j])
      /\ new \in RowType /\ RowTyped(new)
  BY DEF IInv, Typed, Fit, RowTyped
<1>2. /\ row' \in [Intake -> RowType] /\ row'[i] = new
      /\ \A j \in Intake \ {i} : row'[j] = row[j]
      /\ \A j \in Intake : RowTyped(row'[j])
  BY <1>1
<1>3. FilesThere'
  BY <1>2 DEF IInv, RowsInv, FilesThere, Fit
<1>4. OnlyPermittedEntities'
  <2> SUFFICES ASSUME NEW j \in Intake,
                      bill[j] # "none" \/ j \in objects \cup documents \cup links
               PROVE  row'[j].entity \in Permitted
    BY DEF OnlyPermittedEntities
  <2>1. row[j].entity \in Permitted
    BY DEF IInv, RowsInv, OnlyPermittedEntities
  <2>2. row[j].entity # None
    BY <2>1, IntakeAssumption
  <2>3. QED
    BY <1>2, <2>1, <2>2 DEF Fit
<1>5. SupersededWaits'
  <2> SUFFICES ASSUME NEW j \in Intake, NEW k \in Intake,
                      sent.supersedes[k] = j, row'[k].process # "none"
               PROVE  row'[j].process # "none" /\ row'[j].entity = None
    BY DEF SupersededWaits
  <2>1. j # None
    BY IntakeAssumption
  <2>2. row[k].process # "none" =>
          row[j].process # "none" /\ row[j].entity = None
    BY DEF IInv, RowsInv, SupersededWaits
  <2>3. CASE row[k].process # "none"
    BY <1>2, <2>2, <2>3 DEF Fit
  <2>4. CASE row[k].process = "none"
    <3>1. k = i
      BY <1>2, <2>4
    <3>2. j # i /\ row[j].process # "none" /\ row[j].entity = None
      BY <2>1, <2>4, <3>1 DEF Fit
    <3>3. QED
      BY <1>2, <3>2
  <2>5. QED
    BY <2>3, <2>4
<1>6. VerifiedHasEntity' /\ NothingBefore'
  BY <1>2 DEF IInv, RowsInv, VerifiedHasEntity, NothingBefore, Fit
<1>7. \A j \in Intake : Grows(j)
  BY <1>2 DEF Grows, Fit
<1>8. QED
  BY <1>2, <1>3, <1>4, <1>5, <1>6, <1>7 DEF RowsInv

\* What sets no delivery back keeps the places of the others.
LEMMA PlacesStay ==
  ASSUME IInv, sent' = sent, \A i \in Intake : Grows(i),
         objects \subseteq objects', documents \subseteq documents',
         links \subseteq links',
         NEW d \in Delivery, req'[d] = req[d]
  PROVE  Place(d)'
<1>1. sent.intake[d] \in Intake
  BY IntakeAssumption DEF IInv, Typed, Sending
<1>2. None \notin Permitted
  BY IntakeAssumption
<1>3. Place(d)
  BY DEF IInv
<1>4. QED
  BY <1>1, <1>2, <1>3 DEF Place, Grows, Working

\* The rows stay, and what is stored beside them grows.
LEMMA RowsStay ==
  ASSUME row' = row
  PROVE  \A i \in Intake : Grows(i)
BY DEF Grows

\* The intake of a delivery.
LEMMA IntakeOfTyped ==
  ASSUME IInv, NEW d \in Delivery
  PROVE  /\ IntakeOf(d) \in Intake /\ IntakeOf(d) = sent.intake[d]
         /\ row[IntakeOf(d)] \in RowType /\ RowTyped(row[IntakeOf(d)])
         /\ sent \in Sending
BY IntakeAssumption DEF IInv, Typed, Sending, IntakeOf

\* How a delivery moves on in the handler.
LEMMA GotoIs ==
  ASSUME IInv, NEW d \in Delivery, NEW pc \in PC, Goto(d, pc)
  PROVE  /\ req' \in [Delivery -> RequestType]
         /\ req'[d].pc = pc
         /\ \A p \in Delivery \ {d} : req'[p] = req[p]
<1>1. req \in [Delivery -> RequestType]
  BY DEF IInv, Typed
<1> DEFINE new == [req[d] EXCEPT !.pc = pc]
<1>2. req' = [req EXCEPT ![d] = new]
  BY DEF Goto
<1>3. new \in RequestType /\ new.pc = pc
  BY <1>1 DEF RequestType
<1> HIDE DEF new
<1>4. QED
  BY <1>1, <1>2, <1>3

LEMMA ReplyIs ==
  ASSUME IInv, NEW d \in Delivery,
         NEW code \in {0, 200, 201, 202, 403, 409, 503}, Reply(d, code)
  PROVE  /\ req' \in [Delivery -> RequestType]
         /\ req'[d].pc = "done"
         /\ \A p \in Delivery \ {d} : req'[p] = req[p]
<1> DEFINE r == [Request0 EXCEPT !.pc = "done", !.code = code]
           x == [Request0 EXCEPT !.pc = "done"]
<1>1. req \in [Delivery -> RequestType]
  BY DEF IInv, Typed
<1>2. req' = [req EXCEPT ![d] = r]
  BY DEF Reply
<1>3. Request0 \in RequestType
  BY DEF Request0, RequestType, PC
<1>4. x \in RequestType /\ x.pc = "done"
  BY <1>3 DEF RequestType, PC
<1> HIDE DEF x
<1>5. [x EXCEPT !.code = code] \in RequestType
      /\ [x EXCEPT !.code = code].pc = "done"
  BY <1>4 DEF RequestType
<1>6. r \in RequestType /\ r.pc = "done"
  BY <1>5 DEF x
<1> HIDE DEF r
<1>7. QED
  BY <1>1, <1>2, <1>6

\* The loop of advance, for a row r.
Continued(d, r) ==
  \/ Reply(d, 200) \/ Reply(d, 201) \/ Reply(d, 409)
  \/ \E pc \in {"check", "upload", "complete"}, replay \in BOOLEAN :
       /\ req' = [req EXCEPT ![d].pc = pc, ![d].replay = replay]
       /\ pc = "check" => r.process = "received"
       /\ pc = "upload" => r.process = "bill_created"
       /\ pc = "complete" => r.process = "document_attached"

Advanced(d, r) ==
  \/ Reply(d, 409) \/ Reply(d, 202) \/ Reply(d, 403)
  \/ /\ r.entity \in Permitted \/ r.process = "complete"
     /\ Continued(d, r)

LEMMA ContinueIs ==
  ASSUME IInv, NEW d \in Delivery, NEW r,
         r.process \in {"received", "bill_created", "document_attached"},
         Continued(d, r)
  PROVE  /\ req' \in [Delivery -> RequestType]
         /\ \A p \in Delivery \ {d} : req'[p] = req[p]
         /\ req'[d].pc \in {"done", "check", "upload", "complete"}
         /\ req'[d].pc = "check" => r.process = "received"
         /\ req'[d].pc = "upload" => r.process = "bill_created"
<1>1. CASE Reply(d, 200) \/ Reply(d, 201) \/ Reply(d, 409)
  BY <1>1, ReplyIs
<1>2. CASE \E pc \in {"check", "upload", "complete"}, replay \in BOOLEAN :
             /\ req' = [req EXCEPT ![d].pc = pc, ![d].replay = replay]
             /\ pc = "check" => r.process = "received"
             /\ pc = "upload" => r.process = "bill_created"
  <2>1. req \in [Delivery -> RequestType]
    BY DEF IInv, Typed
  <2>2. PICK pc \in {"check", "upload", "complete"}, replay \in BOOLEAN :
             /\ req' = [req EXCEPT ![d].pc = pc, ![d].replay = replay]
             /\ pc = "check" => r.process = "received"
             /\ pc = "upload" => r.process = "bill_created"
    BY <1>2
  <2>3. pc \in PC
    BY DEF PC
  <2> DEFINE new == [req[d] EXCEPT !.pc = pc, !.replay = replay]
  <2>4. req' = [req EXCEPT ![d] = new]
    <3>1. req[d] \in RequestType
      BY <2>1
    <3>2. /\ DOMAIN req' = Delivery /\ req' = [p \in Delivery |-> req'[p]]
          /\ \A p \in Delivery \ {d} : req'[p] = req[p]
      BY <2>1, <2>2
    <3>3. req'[d] = new
      BY <2>1, <2>2, <3>1
    <3>4. QED
      BY <2>1, <3>2, <3>3
  <2>5. new \in RequestType /\ new.pc = pc
    <3> DEFINE x == [req[d] EXCEPT !.pc = pc]
    <3>1. x \in RequestType /\ x.pc = pc
      BY <2>1, <2>3 DEF RequestType
    <3> HIDE DEF x
    <3>2. [x EXCEPT !.replay = replay] \in RequestType
          /\ [x EXCEPT !.replay = replay].pc = x.pc
      BY <3>1 DEF RequestType
    <3>3. QED
      BY <3>1, <3>2 DEF x
  <2> HIDE DEF new
  <2>6. /\ req' \in [Delivery -> RequestType]
        /\ \A p \in Delivery \ {d} : req'[p] = req[p]
        /\ req'[d].pc = pc
    BY <2>1, <2>4, <2>5
  <2>7. QED
    BY <2>2, <2>6
<1>3. QED
  BY <1>1, <1>2 DEF Continued

\* A row in a stage goes on with a permitted entity, or not at all.
LEMMA AdvanceIs ==
  ASSUME IInv, NEW d \in Delivery, NEW r, RowTyped(r), r.process # "none",
         Advanced(d, r)
  PROVE  /\ req' \in [Delivery -> RequestType]
         /\ \A p \in Delivery \ {d} : req'[p] = req[p]
         /\ req'[d].pc \in {"done", "check", "upload", "complete"}
         /\ req'[d].pc = "check" => r.entity \in Permitted
         /\ req'[d].pc = "upload" =>
              r.entity \in Permitted /\ r.process = "bill_created"
<1>1. CASE Reply(d, 409) \/ Reply(d, 202) \/ Reply(d, 403)
  BY <1>1, ReplyIs
<1>2. CASE Continued(d, r) /\ (r.entity \in Permitted \/ r.process = "complete")
  <2>1. CASE r.process \in {"received", "bill_created", "document_attached"}
    BY <1>2, <2>1, ContinueIs
  <2>2. CASE r.process \in {"complete", "awaiting_entity"}
    <3>1. Reply(d, 200) \/ Reply(d, 201) \/ Reply(d, 409)
      BY <1>2, <2>2 DEF Continued
    <3>2. QED
      BY <3>1, ReplyIs
  <2>3. QED
    BY <2>1, <2>2 DEF RowTyped, RowType, Process
<1>3. QED
  BY <1>1, <1>2 DEF Advanced

\* A delivery makes one step: what it writes is typed and sets nobody back,
\* and its own place is as it should be.
LEMMA DeliveryKeeps ==
  ASSUME IInv, NEW d \in Delivery, sent' = sent,
         req' \in [Delivery -> RequestType],
         \A p \in Delivery \ {d} : req'[p] = req[p],
         row' \in [Intake -> RowType], \A i \in Intake : RowTyped(row'[i]),
         RowsInv', \A i \in Intake : Grows(i),
         bill' \in [Intake -> {"none", "draft", "unpaid"}],
         objects' \subseteq Intake, documents' \subseteq Intake,
         links' \subseteq Intake,
         objects \subseteq objects', documents \subseteq documents',
         links \subseteq links',
         passed' = passed, failures' \in 0..MaxFailures,
         Place(d)'
  PROVE  IInv'
<1>1. \A p \in Delivery : Place(p)'
  BY PlacesStay
<1>2. Typed'
  BY DEF IInv, Typed, RequestType
<1>3. QED
  BY <1>1, <1>2 DEF IInv

\* A delivery that only moves on in the handler.
LEMMA OnlyMoves ==
  ASSUME IInv, NEW d \in Delivery,
         UNCHANGED <<sent, row, bill, objects, documents, links, passed>>,
         failures' \in 0..MaxFailures,
         req' \in [Delivery -> RequestType],
         \A p \in Delivery \ {d} : req'[p] = req[p],
         Place(d)'
  PROVE  IInv'
<1>1. /\ row' \in [Intake -> RowType] /\ \A i \in Intake : RowTyped(row'[i])
      /\ bill' \in [Intake -> {"none", "draft", "unpaid"}]
      /\ objects' \subseteq Intake /\ documents' \subseteq Intake
      /\ links' \subseteq Intake
  BY DEF IInv, Typed
<1>2. RowsInv'
  BY DEF IInv, RowsInv, FilesThere, OnlyPermittedEntities, SupersededWaits,
     VerifiedHasEntity, NothingBefore
<1>3. \A i \in Intake : Grows(i)
  BY RowsStay
<1>4. QED
  BY <1>1, <1>2, <1>3, DeliveryKeeps

\* A delivery that ended has no place to keep.
LEMMA DonePlace ==
  ASSUME NEW d, req'[d].pc = "done"
  PROVE  Place(d)'
BY DEF Place, Working

-----------------------------------------------------------------------------
(* The steps of a delivery *)

\* A delivery that answers and changes nothing.
LEMMA AnswerKeeps ==
  ASSUME IInv, NEW d \in Delivery,
         NEW code \in {0, 200, 201, 202, 403, 409, 503}, Reply(d, code),
         UNCHANGED <<sent, row, bill, objects, documents, links, passed>>,
         failures' \in 0..MaxFailures
  PROVE  IInv'
<1>1. /\ req' \in [Delivery -> RequestType] /\ req'[d].pc = "done"
      /\ \A p \in Delivery \ {d} : req'[p] = req[p]
  BY ReplyIs
<1>2. Place(d)'
  BY <1>1, DonePlace
<1>3. QED
  BY <1>1, <1>2, OnlyMoves

LEMMA FailuresStay ==
  ASSUME IInv, failures' = failures
  PROVE  failures' \in 0..MaxFailures
BY DEF IInv, Typed

LEMMA NewRowIs ==
  ASSUME IInv, NEW i \in Intake
  PROVE  /\ RowTyped(NewRow(i)) /\ NewRow(i).process # "none"
         /\ NewRow(i).process \notin WithBill
         /\ NewRow(i).entity = sent.declared[i]
         /\ NewRow(i).review = "pending_review"
         /\ sent.declared[i] \in Permitted \cup {None}
         /\ sent.supersedes[i] \in Intake \cup {None}
         /\ sent.supersedes[i] # i
<1>1. /\ sent.declared[i] \in Permitted \cup {None}
      /\ sent.supersedes[i] \in Intake \cup {None}
      /\ sent.supersedes[i] # i
  BY IntakeAssumption DEF IInv, Typed, Sending
<1>2. sent.declared[i] \in Entity \cup {None}
  BY <1>1, IntakeAssumption
<1>3. QED
  BY <1>1, <1>2 DEF NewRow, RowTyped, RowType, Process, Review, WithBill

LEMMA InsertIntakeKeeps ==
  ASSUME IInv, NEW d \in Delivery, InsertIntake(d)
  PROVE  IInv'
<1> DEFINE i == IntakeOf(d)
<1>1. /\ i \in Intake /\ i = sent.intake[d]
      /\ row[i] \in RowType /\ RowTyped(row[i])
  BY IntakeOfTyped
<1>2. UNCHANGED <<sent, bill, objects, documents, links, passed, failures>>
  BY DEF InsertIntake
<1>3. CASE Reply(d, 409) /\ row' = row
  BY <1>2, <1>3, AnswerKeeps, FailuresStay
<1>4. CASE Stored(i) /\ Goto(d, "existing") /\ row' = row
  <2>1. /\ req' \in [Delivery -> RequestType] /\ req'[d].pc = "existing"
        /\ \A p \in Delivery \ {d} : req'[p] = req[p]
    BY <1>4, GotoIs DEF PC
  <2>2. Place(d)'
    BY <1>1, <1>2, <1>4, <2>1 DEF Place, Stored, Working
  <2>3. QED
    BY <1>2, <1>4, <2>1, <2>2, OnlyMoves, FailuresStay
<1>5. CASE /\ ~SupersedeRefused(i) /\ ~Stored(i)
           /\ row' = [row EXCEPT ![i] = NewRow(i)]
           /\ Advanced(d, NewRow(i))
  <2> DEFINE new == NewRow(i)
  <2>1. /\ RowTyped(new) /\ new.process # "none" /\ new.process \notin WithBill
        /\ new.entity = sent.declared[i] /\ new.review = "pending_review"
        /\ sent.declared[i] \in Permitted \cup {None}
        /\ sent.supersedes[i] # i
    BY <1>1, NewRowIs
  <2> HIDE DEF new
  <2>2. row[i].process = "none" /\ row[i].entity = None
    BY <1>1, <1>5 DEF Stored, RowTyped
  <2>3. \A j \in Intake : ~(sent.supersedes[j] = i /\ row[j].process # "none")
    BY <1>1, <2>2 DEF IInv, RowsInv, SupersededWaits
  <2>4. sent.supersedes[i] # None =>
          /\ row[sent.supersedes[i]].process # "none"
          /\ row[sent.supersedes[i]].entity = None
    BY <1>5 DEF SupersedeRefused, Stored
  <2>5. Fit(i, new)
    BY <2>1, <2>2, <2>3, <2>4 DEF Fit, WithBill, WithDocument
  <2>6. /\ row' \in [Intake -> RowType] /\ \A j \in Intake : RowTyped(row'[j])
        /\ RowsInv' /\ \A j \in Intake : Grows(j)
    BY <1>1, <1>2, <1>5, <2>5, RowChanges DEF new
  <2>7. row'[i] = new
    BY <1>1, <1>5 DEF new, IInv, Typed
  <2>8. /\ req' \in [Delivery -> RequestType]
        /\ \A p \in Delivery \ {d} : req'[p] = req[p]
        /\ req'[d].pc \in {"done", "check", "complete"}
        /\ req'[d].pc = "check" => new.entity \in Permitted
    BY <1>5, <2>1, AdvanceIs DEF new, WithBill
  <2>9. Place(d)'
    BY <1>1, <1>2, <2>1, <2>7, <2>8 DEF Place, Working
  <2>10. QED
    BY <1>2, <2>6, <2>8, <2>9, DeliveryKeeps, FailuresStay DEF IInv, Typed
<1>6. ~SupersedeRefused(i) /\ ~Stored(i) /\ Advance(d, NewRow(i), FALSE) =>
        Advanced(d, NewRow(i))
  <2>1. RowTyped(NewRow(i))
    BY <1>1, NewRowIs
  <2>2. QED
    BY <2>1 DEF Advance, Continue, NextCall, Advanced, Continued, RowTyped,
       RowType, Process
<1>7. QED
  BY <1>3, <1>4, <1>5, <1>6 DEF InsertIntake

LEMMA ReadExistingKeeps ==
  ASSUME IInv, NEW d \in Delivery, ReadExisting(d)
  PROVE  IInv'
<1> DEFINE i == IntakeOf(d)
<1>1. /\ i \in Intake /\ i = sent.intake[d]
      /\ row[i] \in RowType /\ RowTyped(row[i])
  BY IntakeOfTyped
<1>2. UNCHANGED <<sent, row, bill, objects, documents, links, passed, failures>>
  BY DEF ReadExisting, store
<1>3. row[i].process # "none"
  BY <1>1 DEF ReadExisting, At, IInv, Place
<1>4. Advanced(d, row[i])
  BY <1>1 DEF ReadExisting, Advance, Continue, NextCall, Advanced, Continued,
     RowTyped, RowType, Process
<1>5. /\ req' \in [Delivery -> RequestType]
      /\ \A p \in Delivery \ {d} : req'[p] = req[p]
      /\ req'[d].pc \in {"done", "check", "upload", "complete"}
      /\ req'[d].pc = "check" => row[i].entity \in Permitted
      /\ req'[d].pc = "upload" =>
           row[i].entity \in Permitted /\ row[i].process = "bill_created"
  BY <1>1, <1>3, <1>4, AdvanceIs
<1>6. Place(d)'
  BY <1>1, <1>2, <1>3, <1>5 DEF Place, Working, WithBill
<1>7. QED
  BY <1>2, <1>5, <1>6, OnlyMoves, FailuresStay

LEMMA LoadDuplicatesKeeps ==
  ASSUME IInv, NEW d \in Delivery, LoadDuplicates(d)
  PROVE  IInv'
<1>1. /\ req[d].pc = "check"
      /\ UNCHANGED <<sent, row, bill, objects, documents, links, passed, failures>>
      /\ \E pc \in {"flag", "getBill"} : Goto(d, pc)
  BY DEF LoadDuplicates, At, store
<1>2. /\ req' \in [Delivery -> RequestType] /\ req'[d].pc \in {"flag", "getBill"}
      /\ \A p \in Delivery \ {d} : req'[p] = req[p]
  BY <1>1, GotoIs DEF PC
<1>3. Place(d)'
  BY <1>1, <1>2 DEF IInv, Place, Working
<1>4. QED
  BY <1>1, <1>2, <1>3, OnlyMoves, FailuresStay

\* What an update of FinanceOps may make of a row, as long as the file is there
\* when the document is attached.
LEMMA UpdateFits ==
  ASSUME IInv, NEW i \in Intake, NEW new, RowTyped(new),
         new.entity = row[i].entity, new.process # "none",
         row[i].process # "none",
         new.review = "data_verified" => row[i].review = "data_verified",
         UpdateAllowed(i, new),
         new.process # row[i].process =>
           /\ new.process = "document_attached" => i \in objects
  PROVE  Fit(i, new)
<1>1. /\ row[i] \in RowType /\ RowTyped(row[i]) /\ new \in RowType
  BY DEF IInv, Typed, RowTyped
<1>2. /\ row[i].process \in Process /\ new.process \in Process
  BY <1>1 DEF RowType
<1>3. /\ row[i].process \in WithBill => bill[i] # "none"
      /\ row[i].process \in WithDocument =>
           i \in objects /\ i \in documents /\ i \in links
      /\ row[i].review = "data_verified" => row[i].entity # None
  BY DEF IInv, RowsInv, FilesThere, VerifiedHasEntity
<1>4. CASE new.process = row[i].process
  BY <1>1, <1>3, <1>4 DEF Fit
<1>5. CASE new.process # row[i].process
  <2>1. /\ Rank[new.process] = Rank[row[i].process] + 1
        /\ new.process = "bill_created" => bill[i] = "draft"
        /\ new.process = "document_attached" => i \in documents \cap links
    BY <1>5 DEF UpdateAllowed
  <2>2. \/ row[i].process = "awaiting_entity" /\ new.process = "received"
        \/ row[i].process = "received" /\ new.process = "bill_created"
        \/ row[i].process = "bill_created" /\ new.process = "document_attached"
        \/ row[i].process = "document_attached" /\ new.process = "complete"
    BY <1>2, <1>5, <2>1, NextRank
  <2>3. QED
    BY <1>1, <1>3, <1>5, <2>1, <2>2 DEF Fit, WithBill, WithDocument
<1>6. QED
  BY <1>4, <1>5

LEMMA FlagDuplicateKeeps ==
  ASSUME IInv, NEW d \in Delivery, FlagDuplicate(d)
  PROVE  IInv'
<1> DEFINE i == IntakeOf(d)
           new == [row[i] EXCEPT !.review = "duplicate_suspected"]
<1>1. /\ i \in Intake /\ i = sent.intake[d]
      /\ row[i] \in RowType /\ RowTyped(row[i])
  BY IntakeOfTyped
<1>2. /\ UNCHANGED <<sent, bill, objects, documents, links, passed, failures>>
      /\ row' = IF UpdateAllowed(i, new) THEN [row EXCEPT ![i] = new] ELSE row
      /\ Reply(d, 409)
  BY DEF FlagDuplicate, UpdateIntake
<1>3. row[i].process # "none"
  BY <1>1 DEF FlagDuplicate, At, IInv, Place, Working
<1>4. CASE ~UpdateAllowed(i, new)
  BY <1>2, <1>4, AnswerKeeps, FailuresStay
<1>5. CASE UpdateAllowed(i, new)
  <2>1. /\ new.entity = row[i].entity /\ new.process = row[i].process
        /\ new.review = "duplicate_suspected" /\ new \in RowType
    BY <1>1 DEF RowType, Review
  <2>2. RowTyped(new)
    BY <1>1, <2>1 DEF RowTyped
  <2> HIDE DEF new
  <2>3. Fit(i, new)
    BY <1>1, <1>3, <1>5, <2>1, <2>2, UpdateFits
  <2>4. /\ row' \in [Intake -> RowType] /\ \A j \in Intake : RowTyped(row'[j])
        /\ RowsInv' /\ \A j \in Intake : Grows(j)
    BY <1>1, <1>2, <1>5, <2>3, RowChanges
  <2>5. /\ req' \in [Delivery -> RequestType] /\ req'[d].pc = "done"
        /\ \A p \in Delivery \ {d} : req'[p] = req[p]
    BY <1>2, ReplyIs
  <2>6. Place(d)'
    BY <2>5, DonePlace
  <2>7. QED
    BY <1>2, <2>4, <2>5, <2>6, DeliveryKeeps, FailuresStay DEF IInv, Typed
<1>6. QED
  BY <1>4, <1>5

LEMMA GetBillKeeps ==
  ASSUME IInv, NEW d \in Delivery, GetBill(d)
  PROVE  IInv'
<1>1. /\ req[d].pc = "getBill"
      /\ UNCHANGED <<sent, row, bill, objects, documents, links, passed, failures>>
  BY DEF GetBill, At, store
<1>2. Reply(d, 409) \/ \E pc \in {"insertBill", "linkBill"} : Goto(d, pc)
  BY DEF GetBill
<1>3. CASE Reply(d, 409)
  BY <1>1, <1>3, AnswerKeeps, FailuresStay
<1>4. CASE \E pc \in {"insertBill", "linkBill"} : Goto(d, pc)
  <2>1. /\ req' \in [Delivery -> RequestType]
        /\ req'[d].pc \in {"insertBill", "linkBill"}
        /\ \A p \in Delivery \ {d} : req'[p] = req[p]
    BY <1>4, GotoIs DEF PC
  <2>2. Place(d)'
    BY <1>1, <2>1 DEF IInv, Place, Working
  <2>3. QED
    BY <1>1, <2>1, <2>2, OnlyMoves, FailuresStay
<1>5. QED
  BY <1>2, <1>3, <1>4

LEMMA InsertBillKeeps ==
  ASSUME IInv, NEW d \in Delivery, InsertBill(d)
  PROVE  IInv'
<1> DEFINE i == IntakeOf(d)
<1>1. /\ i \in Intake /\ i = sent.intake[d]
  BY IntakeOfTyped
<1>2. /\ req[d].pc = "insertBill"
      /\ UNCHANGED <<sent, row, objects, documents, links, passed, failures>>
      /\ bill' = bill \/ bill' = [bill EXCEPT ![i] = "draft"]
      /\ \E pc \in {"linkBill", "getBill"} : Goto(d, pc)
  BY DEF InsertBill, At
<1>3. /\ req' \in [Delivery -> RequestType]
      /\ req'[d].pc \in {"linkBill", "getBill"}
      /\ \A p \in Delivery \ {d} : req'[p] = req[p]
  BY <1>2, GotoIs DEF PC
<1>4. /\ bill' \in [Intake -> {"none", "draft", "unpaid"}]
      /\ \A j \in Intake : bill[j] # "none" => bill'[j] # "none"
      /\ \A j \in Intake \ {i} : bill'[j] = bill[j]
  BY <1>1, <1>2 DEF IInv, Typed
<1>5. row[i].process # "none" /\ row[i].entity \in Permitted
  BY <1>1, <1>2 DEF IInv, Place, Working
<1>6. RowsInv'
  BY <1>1, <1>2, <1>4, <1>5 DEF IInv, RowsInv, FilesThere,
     OnlyPermittedEntities, SupersededWaits, VerifiedHasEntity, NothingBefore
<1>7. Place(d)'
  BY <1>1, <1>2, <1>3, <1>5 DEF Place, Working
<1>8. \A j \in Intake : Grows(j)
  BY <1>2, RowsStay
<1>9. QED
  BY <1>2, <1>3, <1>4, <1>6, <1>7, <1>8, DeliveryKeeps, FailuresStay
     DEF IInv, Typed

LEMMA MoveToKeeps ==
  ASSUME IInv, NEW d \in Delivery, NEW pc \in {"linkBill", "attach", "complete"},
         NEW process \in WithBill, MoveTo(d, pc, process),
         pc = "complete" <=> process = "complete",
         pc = "attach" <=> process = "document_attached"
  PROVE  IInv'
<1> DEFINE i == IntakeOf(d)
           new == [row[i] EXCEPT !.process = process]
<1>1. /\ i \in Intake /\ i = sent.intake[d]
      /\ row[i] \in RowType /\ RowTyped(row[i])
  BY IntakeOfTyped
<1>2. /\ UNCHANGED <<sent, bill, objects, documents, links, passed, failures>>
      /\ row' = IF UpdateAllowed(i, new) THEN [row EXCEPT ![i] = new] ELSE row
      /\ req[d].pc = pc
  BY DEF MoveTo, UpdateIntake, At
<1>3. /\ row[i].process # "none"
      /\ pc # "complete" => row[i].entity \in Permitted
      /\ pc = "attach" => i \in objects
  BY <1>1, <1>2 DEF IInv, Place, Working
<1>4. CASE ~UpdateAllowed(i, new)
  <2>1. Reply(d, 409) /\ row' = row
    BY <1>2, <1>4 DEF MoveTo
  <2>2. QED
    BY <1>2, <2>1, AnswerKeeps, FailuresStay
<1>5. CASE UpdateAllowed(i, new)
  <2>1. /\ new.entity = row[i].entity /\ new.process = process
        /\ new.review = row[i].review /\ new \in RowType
    BY <1>1 DEF RowType, WithBill, Process
  <2>2. Continued(d, new)
    <3>1. Continue(d, new, req[d].replay)
      BY <1>5 DEF MoveTo
    <3>2. req[d].replay \in BOOLEAN
      BY DEF IInv, Typed, RequestType
    <3> HIDE DEF new
    <3>3. QED
      BY <2>1, <3>1, <3>2 DEF Continue, NextCall, Continued, WithBill
  <2> HIDE DEF new
  <2>3. row[i].process # "awaiting_entity"
    <3>1. CASE process = row[i].process
      BY <3>1 DEF WithBill
    <3>2. CASE process # row[i].process
      <4>1. Rank[process] = Rank[row[i].process] + 1
        BY <1>5, <2>1, <3>2 DEF UpdateAllowed
      <4>2. QED
        BY <4>1, RankIs DEF WithBill
    <3>3. QED
      BY <3>1, <3>2
  <2>4. RowTyped(new) /\ process # "none"
    BY <1>1, <1>3, <2>1, <2>3 DEF RowTyped, WithBill
  <2>5. Fit(i, new)
    BY <1>1, <1>3, <1>5, <2>1, <2>4, UpdateFits
  <2>6. /\ row' \in [Intake -> RowType] /\ \A j \in Intake : RowTyped(row'[j])
        /\ RowsInv' /\ \A j \in Intake : Grows(j)
    BY <1>1, <1>2, <1>5, <2>5, RowChanges
  <2>7. row'[i] = new
    BY <1>1, <1>2, <1>5 DEF IInv, Typed
  <2>8. /\ req' \in [Delivery -> RequestType]
        /\ \A p \in Delivery \ {d} : req'[p] = req[p]
        /\ req'[d].pc \in {"done", "upload", "complete"}
        /\ req'[d].pc = "upload" => process = "bill_created"
    <3>1. CASE process = "complete"
      <4>1. Reply(d, 200) \/ Reply(d, 201) \/ Reply(d, 409)
        BY <2>1, <2>2, <3>1 DEF Continued
      <4>2. QED
        BY <4>1, ReplyIs
    <3>2. CASE process # "complete"
      BY <2>1, <2>2, <3>2, ContinueIs DEF WithBill
    <3>3. QED
      BY <3>1, <3>2
  <2>9. Place(d)'
    BY <1>1, <1>2, <1>3, <2>1, <2>4, <2>7, <2>8 DEF Place, Working, WithBill
  <2>10. QED
    BY <1>2, <2>6, <2>8, <2>9, DeliveryKeeps, FailuresStay DEF IInv, Typed
<1>6. QED
  BY <1>4, <1>5

\* The file, its document and the link: what is stored grows.
LEMMA StoresKeep ==
  ASSUME IInv, NEW d \in Delivery,
         UploadObject(d) \/ InsertDocument(d) \/ LinkDocument(d)
  PROVE  IInv'
<1> DEFINE i == IntakeOf(d)
<1>1. i \in Intake /\ i = sent.intake[d]
  BY IntakeOfTyped
<1>2. /\ UNCHANGED <<sent, row, bill, passed, failures>>
      /\ \/ /\ req[d].pc = "upload" /\ objects' = objects \cup {i}
            /\ UNCHANGED <<documents, links>> /\ Goto(d, "document")
         \/ /\ req[d].pc = "document" /\ documents' = documents \cup {i}
            /\ UNCHANGED <<objects, links>> /\ Goto(d, "link")
         \/ /\ req[d].pc = "link" /\ links' = links \cup {i}
            /\ UNCHANGED <<objects, documents>> /\ Goto(d, "attach")
  BY DEF UploadObject, InsertDocument, LinkDocument, At
<1>3. /\ req' \in [Delivery -> RequestType]
      /\ \A p \in Delivery \ {d} : req'[p] = req[p]
      /\ \/ /\ req[d].pc = "upload" /\ i \in objects' /\ req'[d].pc = "document"
         \/ /\ req[d].pc = "document" /\ i \in documents' /\ req'[d].pc = "link"
         \/ /\ req[d].pc = "link" /\ i \in links' /\ req'[d].pc = "attach"
  BY <1>2, GotoIs DEF PC
<1>4. /\ objects \subseteq objects' /\ objects' \subseteq objects \cup {i}
      /\ documents \subseteq documents' /\ documents' \subseteq documents \cup {i}
      /\ links \subseteq links' /\ links' \subseteq links \cup {i}
  BY <1>2
<1>5. /\ objects' \subseteq Intake /\ documents' \subseteq Intake
      /\ links' \subseteq Intake
  BY <1>1, <1>4 DEF IInv, Typed
<1>6. row[i].process \in WithBill /\ row[i].entity \in Permitted
  BY <1>1, <1>3 DEF IInv, Place, Working
<1>7. RowsInv'
  <2>1. FilesThere' /\ SupersededWaits' /\ VerifiedHasEntity' /\ NothingBefore'
    BY <1>2, <1>4 DEF IInv, RowsInv, FilesThere, SupersededWaits,
       VerifiedHasEntity, NothingBefore
  <2>2. OnlyPermittedEntities'
    BY <1>1, <1>2, <1>4, <1>6 DEF IInv, RowsInv, OnlyPermittedEntities
  <2>3. QED
    BY <2>1, <2>2 DEF RowsInv
<1>8. Place(d)'
  BY <1>1, <1>2, <1>3, <1>4, <1>6 DEF IInv, Place, Working, WithBill
<1>9. \A j \in Intake : Grows(j)
  BY <1>2, RowsStay
<1>10. QED
  BY <1>2, <1>3, <1>4, <1>5, <1>7, <1>8, <1>9, DeliveryKeeps, FailuresStay
     DEF IInv, Typed

LEMMA HandlerKeeps ==
  ASSUME IInv, NEW d \in Delivery, Handler(d)
  PROVE  IInv'
<1>1. CASE LinkBill(d)
  BY <1>1, MoveToKeeps DEF LinkBill, WithBill
<1>2. CASE AttachDocument(d)
  BY <1>2, MoveToKeeps DEF AttachDocument, WithBill
<1>3. CASE Complete(d)
  BY <1>3, MoveToKeeps DEF Complete, WithBill
<1>4. QED
  BY <1>1, <1>2, <1>3, InsertIntakeKeeps, ReadExistingKeeps,
     LoadDuplicatesKeeps, FlagDuplicateKeeps, GetBillKeeps, InsertBillKeeps,
     StoresKeep DEF Handler

LEMMA FailKeeps ==
  ASSUME IInv, NEW d \in Delivery, Fail(d)
  PROVE  IInv'
<1>1. failures \in 0..MaxFailures /\ MaxFailures \in Nat
  BY IntakeAssumption DEF IInv, Typed
<1>2. failures' \in 0..MaxFailures
  BY <1>1 DEF Fail
<1>3. /\ UNCHANGED <<sent, row, bill, objects, documents, links, passed>>
      /\ Reply(d, 503)
  BY DEF Fail, store
<1>4. QED
  BY <1>2, <1>3, AnswerKeeps

LEMMA RedeliverKeeps ==
  ASSUME IInv, NEW d \in Delivery, Redeliver(d)
  PROVE  IInv'
<1>1. /\ UNCHANGED <<sent, row, bill, objects, documents, links, passed, failures>>
      /\ req' = [req EXCEPT ![d] = Request0]
  BY DEF Redeliver, store
<1>2. Request0 \in RequestType /\ Request0.pc = "sent"
  BY DEF Request0, RequestType, PC
<1>3. /\ req' \in [Delivery -> RequestType] /\ req'[d].pc = "sent"
      /\ \A p \in Delivery \ {d} : req'[p] = req[p]
  BY <1>1, <1>2 DEF IInv, Typed
<1>4. Place(d)'
  BY <1>3 DEF Place, Working
<1>5. QED
  BY <1>1, <1>3, <1>4, OnlyMoves, FailuresStay

-----------------------------------------------------------------------------
(* The steps of people *)

\* A step of a reviewer on a row leaves every delivery where it is.
LEMMA ReviewerKeeps ==
  ASSUME IInv, UNCHANGED <<sent, objects, documents, links, req>>,
         row' \in [Intake -> RowType], \A i \in Intake : RowTyped(row'[i]),
         RowsInv', \A i \in Intake : Grows(i),
         bill' \in [Intake -> {"none", "draft", "unpaid"}],
         passed' \subseteq Intake, failures' \in 0..MaxFailures
  PROVE  IInv'
<1>1. \A d \in Delivery : Place(d)'
  BY PlacesStay
<1>2. Typed'
  BY DEF IInv, Typed
<1>3. QED
  BY <1>1, <1>2 DEF IInv

LEMMA RowSetKeeps ==
  ASSUME IInv, NEW i \in Intake, NEW new, Fit(i, new),
         row' = [row EXCEPT ![i] = new],
         UNCHANGED <<sent, bill, objects, documents, links, req, passed, failures>>
  PROVE  IInv'
<1>1. /\ row' \in [Intake -> RowType] /\ \A j \in Intake : RowTyped(row'[j])
      /\ RowsInv' /\ \A j \in Intake : Grows(j)
  BY RowChanges
<1>2. QED
  BY <1>1, ReviewerKeeps DEF IInv, Typed

LEMMA ResolveKeeps ==
  ASSUME IInv, NEW i \in Intake, NEW e \in Entity, Resolve(i, e),
         UNCHANGED <<sent, objects, documents, links, req>>
  PROVE  IInv'
<1> DEFINE x == [row[i] EXCEPT !.entity = e]
           new == [x EXCEPT !.process = "received"]
<1>1. row[i] \in RowType /\ RowTyped(row[i]) /\ row \in [Intake -> RowType]
  BY DEF IInv, Typed
<1>2. /\ x \in RowType /\ x.entity = e /\ x.review = row[i].review
      /\ x.process = row[i].process
  BY <1>1 DEF RowType
<1>3. row' = [row EXCEPT ![i] = new]
  BY <1>1 DEF Resolve, RowType
<1> HIDE DEF x
<1>4. /\ new \in RowType /\ new.entity = e /\ new.process = "received"
      /\ new.review = row[i].review
  BY <1>2 DEF RowType, Process
<1> HIDE DEF new
<1>5. row[i].process = "awaiting_entity" /\ row[i].entity = None
  BY <1>1 DEF Resolve, RowTyped
<1>6. \A j \in Intake : ~(sent.supersedes[j] = i /\ row[j].process # "none")
  BY DEF Resolve, Superseded, Stored
<1>7. e # None
  BY IntakeAssumption
<1>8. Fit(i, new)
  BY <1>4, <1>5, <1>6, <1>7 DEF Fit, RowTyped, WithBill, WithDocument
<1>9. UNCHANGED <<bill, passed, failures>>
  BY DEF Resolve
<1>10. QED
  BY <1>3, <1>8, <1>9, RowSetKeeps

\* Only an intake with an entity is a target of "data_verified".
LEMMA TargetsAre ==
  ASSUME NEW r, r.review \in Review, NEW target \in Targets(r)
  PROVE  /\ target \in Review
         /\ r.review \notin Verdict
         /\ target = "data_verified" => r.process = "complete" /\ r.entity # None
BY DEF Targets, Review, Verdict

LEMMA SetReviewKeeps ==
  ASSUME IInv, NEW i \in Intake, NEW target \in Review, SetReview(i, target),
         UNCHANGED <<sent, objects, documents, links, req>>
  PROVE  IInv'
<1> DEFINE new == [row[i] EXCEPT !.review = target]
<1>1. row[i] \in RowType /\ RowTyped(row[i]) /\ row[i].process # "none"
  BY DEF IInv, Typed, SetReview, Stored
<1>2. row' = [row EXCEPT ![i] = new]
  BY DEF SetReview
<1>3. /\ new \in RowType /\ new.entity = row[i].entity
      /\ new.process = row[i].process /\ new.review = target
  BY <1>1 DEF RowType
<1> HIDE DEF new
<1>4. target = "data_verified" => row[i].entity # None
  BY <1>1, TargetsAre DEF SetReview, RowType
<1>5. /\ row[i].process \in WithBill => bill[i] # "none"
      /\ row[i].process \in WithDocument =>
           i \in objects /\ i \in documents /\ i \in links
  BY DEF IInv, RowsInv, FilesThere
<1>6. Fit(i, new)
  BY <1>1, <1>3, <1>4, <1>5 DEF Fit, RowTyped
<1>7. UNCHANGED <<bill, passed, failures>>
  BY DEF SetReview
<1>8. QED
  BY <1>2, <1>6, <1>7, RowSetKeeps

\* The release and its way back: a bill that is there stays.
LEMMA BillKeeps ==
  ASSUME IInv, UNCHANGED <<sent, row, objects, documents, links, req>>,
         bill' \in [Intake -> {"none", "draft", "unpaid"}],
         \A i \in Intake : (bill'[i] = "none") = (bill[i] = "none"),
         passed' \subseteq Intake, failures' \in 0..MaxFailures
  PROVE  IInv'
<1>1. RowsInv'
  BY DEF IInv, RowsInv, FilesThere, OnlyPermittedEntities, SupersededWaits,
     VerifiedHasEntity, NothingBefore
<1>2. \A i \in Intake : Grows(i)
  BY RowsStay
<1>3. row' \in [Intake -> RowType] /\ \A i \in Intake : RowTyped(row'[i])
  BY DEF IInv, Typed
<1>4. QED
  BY <1>1, <1>2, <1>3, ReviewerKeeps

LEMMA PeopleKeep ==
  ASSUME IInv, People
  PROVE  IInv'
<1>1. UNCHANGED <<sent, objects, documents, links, req>>
  BY DEF People
<1>2. PICK i \in Intake :
        \/ \E e \in Entity : Resolve(i, e)
        \/ \E target \in Review : SetReview(i, target)
        \/ ReadGate(i) \/ ReleaseBill(i) \/ RevertRelease(i)
  BY DEF People
<1>3. /\ bill \in [Intake -> {"none", "draft", "unpaid"}]
      /\ passed \subseteq Intake /\ failures \in 0..MaxFailures
      /\ MaxFailures \in Nat
  BY IntakeAssumption DEF IInv, Typed
<1>4. CASE \E e \in Entity : Resolve(i, e)
  BY <1>1, <1>4, ResolveKeeps
<1>5. CASE \E target \in Review : SetReview(i, target)
  BY <1>1, <1>5, SetReviewKeeps
<1>6. CASE ReadGate(i)
  <2>1. row' = row /\ bill' = bill /\ failures' = failures
    BY <1>6 DEF ReadGate
  <2>2. passed' \subseteq Intake
    BY <1>3, <1>6 DEF ReadGate
  <2>3. QED
    BY <1>1, <1>3, <2>1, <2>2, BillKeeps
<1>7. CASE ReleaseBill(i)
  <2>1. /\ row' = row /\ failures' = failures /\ bill[i] = "draft"
        /\ bill' = [bill EXCEPT ![i] = "unpaid"]
    BY <1>7 DEF ReleaseBill
  <2>2. passed' \subseteq Intake
    BY <1>3, <1>7 DEF ReleaseBill
  <2>3. /\ bill' \in [Intake -> {"none", "draft", "unpaid"}]
        /\ \A j \in Intake : (bill'[j] = "none") = (bill[j] = "none")
    BY <1>3, <2>1
  <2>4. QED
    BY <1>1, <1>3, <2>1, <2>2, <2>3, BillKeeps
<1>8. CASE RevertRelease(i)
  <2>1. /\ row' = row /\ passed' = passed /\ bill[i] = "unpaid"
        /\ bill' = [bill EXCEPT ![i] = "draft"]
    BY <1>8 DEF RevertRelease
  <2>2. failures' \in 0..MaxFailures
    BY <1>3, <1>8 DEF RevertRelease
  <2>3. /\ bill' \in [Intake -> {"none", "draft", "unpaid"}]
        /\ \A j \in Intake : (bill'[j] = "none") = (bill[j] = "none")
    BY <1>3, <2>1
  <2>4. QED
    BY <1>1, <1>3, <2>1, <2>2, <2>3, BillKeeps
<1>9. QED
  BY <1>2, <1>4, <1>5, <1>6, <1>7, <1>8

-----------------------------------------------------------------------------
(* The invariant *)

LEMMA IInvInit == Init => IInv
<1> SUFFICES ASSUME Init PROVE IInv
  OBVIOUS
<1>1. NoRow \in RowType /\ NoRow.entity = None /\ NoRow.process = "none"
      /\ NoRow.review = "pending_review"
  BY DEF NoRow, RowType, Process, Review
<1>2. RowTyped(NoRow)
  BY <1>1 DEF RowTyped
<1>3. row = [i \in Intake |-> NoRow] /\ \A i \in Intake : row[i] = NoRow
  BY DEF Init
<1>4. Request0 \in RequestType /\ Request0.pc = "sent"
  BY DEF Request0, RequestType, PC
<1>5. 0 \in 0..MaxFailures
  BY IntakeAssumption
<1>6. Typed
  BY <1>1, <1>2, <1>3, <1>4, <1>5 DEF Init, Typed
<1>7. RowsInv
  BY <1>1, <1>3 DEF Init, RowsInv, FilesThere, OnlyPermittedEntities,
     SupersededWaits, VerifiedHasEntity, NothingBefore, WithBill, WithDocument
<1>8. \A d \in Delivery : Place(d)
  BY <1>4 DEF Init, Place, Working
<1>9. QED
  BY <1>6, <1>7, <1>8 DEF IInv

LEMMA IInvNext == IInv /\ [Next]_vars => IInv'
<1> SUFFICES ASSUME IInv, [Next]_vars PROVE IInv'
  OBVIOUS
<1>1. CASE \E d \in Delivery : Handler(d) \/ Fail(d) \/ Redeliver(d)
  BY <1>1, HandlerKeeps, FailKeeps, RedeliverKeeps
<1>2. CASE People
  BY <1>2, PeopleKeep
<1>3. CASE UNCHANGED vars
  BY <1>3 DEF vars, store, IInv, Typed, RowsInv, FilesThere, Place,
     OnlyPermittedEntities, SupersededWaits, VerifiedHasEntity, NothingBefore
<1>4. QED
  BY <1>1, <1>2, <1>3 DEF Next

LEMMA IInvHolds == Spec => []IInv
BY IInvInit, IInvNext, PTL DEF Spec

-----------------------------------------------------------------------------
(* The theorems *)

\* The table's own check holds: an intake awaits its entity if and only if it
\* has none; and every delivery and bill is in a state the code knows.
THEOREM IntakeTypeCorrect == Spec => []TypeOK
<1>1. IInv => TypeOK
  BY TypedIsTypeOK DEF IInv
<1>2. QED
  BY <1>1, IInvHolds, PTL

\* An intake whose document is attached has its file stored and its document
\* linked to a bill that exists, wherever its deliveries stopped or overlapped.
THEOREM AttachedIsStoredHolds == Spec => []AttachedIsStored
<1>1. IInv => AttachedIsStored
  BY StagesAre DEF IInv, RowsInv, FilesThere, AttachedIsStored, BillLinked,
     DocLinked
<1>2. QED
  BY <1>1, IInvHolds, PTL

\* Bills and files exist only for entities the identity may act for, whoever
\* resolved the entity and whichever delivery was on its way then.
THEOREM OnlyPermittedEntitiesHolds == Spec => []OnlyPermittedEntities
<1>1. IInv => OnlyPermittedEntities
  BY DEF IInv, RowsInv
<1>2. QED
  BY <1>1, IInvHolds, PTL

\* A superseded intake never gets an entity, a bill or a file, however its
\* resolution races the arrival of its successor.
THEOREM OneOfTwoPathsHolds == Spec => []OneOfTwoPaths
<1>1. IInv => OneOfTwoPaths
  <2> SUFFICES ASSUME IInv, NEW i \in Intake, Superseded(i)
               PROVE  /\ row[i].entity = None
                      /\ bill[i] = "none"
                      /\ i \notin objects \cup documents \cup links
    BY DEF OneOfTwoPaths
  <2>1. row[i].entity = None
    BY DEF Superseded, Stored, IInv, RowsInv, SupersededWaits
  <2>2. row[i].entity \notin Permitted
    BY <2>1, IntakeAssumption
  <2>3. QED
    BY <2>1, <2>2 DEF IInv, RowsInv, OnlyPermittedEntities
<1>2. QED
  BY <1>1, IInvHolds, PTL

-----------------------------------------------------------------------------
(* The refinement *)

Decided(r) == IF r.review \in Verdict THEN r.review ELSE None

\* What a step of the table must be for the ledger.
LEMMA LedgerStutters ==
  ASSUME sent' = sent,
         \A i \in Intake : row'[i].process = row[i].process
                           /\ Decided(row'[i]) = Decided(row[i])
  PROVE  UNCHANGED <<[i \in Intake |-> row[i].process],
                     [i \in Intake |-> Decided(row[i])], sent.supersedes>>
OBVIOUS

LEMMA ExceptIs ==
  ASSUME NEW S, NEW f, NEW g, NEW i \in S, NEW v,
         f = [j \in S |-> f[j]], g = [j \in S |-> g[j]],
         g[i] = v, \A j \in S \ {i} : g[j] = f[j]
  PROVE  g = [f EXCEPT ![i] = v]
OBVIOUS

\* The ledger's view of a row that changes.
LEMMA ViewChanges ==
  ASSUME NEW i \in Intake, \A j \in Intake \ {i} : row'[j] = row[j]
  PROVE  /\ [j \in Intake |-> row'[j].process] =
              [[j \in Intake |-> row[j].process] EXCEPT ![i] = row'[i].process]
         /\ [j \in Intake |-> Decided(row'[j])] =
              [[j \in Intake |-> Decided(row[j])] EXCEPT ![i] = Decided(row'[i])]
<1>1. [j \in Intake |-> row'[j].process] =
        [[j \in Intake |-> row[j].process] EXCEPT ![i] = row'[i].process]
  <2> DEFINE f == [j \in Intake |-> row[j].process]
             g == [j \in Intake |-> row'[j].process]
  <2>1. /\ f = [j \in Intake |-> f[j]] /\ g = [j \in Intake |-> g[j]]
        /\ g[i] = row'[i].process /\ \A j \in Intake \ {i} : g[j] = f[j]
    OBVIOUS
  <2> HIDE DEF f, g
  <2>2. g = [f EXCEPT ![i] = row'[i].process]
    BY <2>1, ExceptIs
  <2>3. QED
    BY <2>2 DEF f, g
<1>2. [j \in Intake |-> Decided(row'[j])] =
        [[j \in Intake |-> Decided(row[j])] EXCEPT ![i] = Decided(row'[i])]
  <2> DEFINE f == [j \in Intake |-> Decided(row[j])]
             g == [j \in Intake |-> Decided(row'[j])]
  <2>1. /\ f = [j \in Intake |-> f[j]] /\ g = [j \in Intake |-> g[j]]
        /\ g[i] = Decided(row'[i]) /\ \A j \in Intake \ {i} : g[j] = f[j]
    OBVIOUS
  <2> HIDE DEF f, g
  <2>2. g = [f EXCEPT ![i] = Decided(row'[i])]
    BY <2>1, ExceptIs
  <2>3. QED
    BY <2>2 DEF f, g
<1>3. QED
  BY <1>1, <1>2

LEMMA LedgerStores ==
  ASSUME IInv, NEW i \in Intake, NEW new, sent' = sent,
         row' = [row EXCEPT ![i] = new],
         row[i].process = "none", row[i].review = "pending_review",
         new.process \in {"awaiting_entity", "received"},
         new.process = "awaiting_entity" => sent.supersedes[i] = None,
         new.review = "pending_review",
         ~SupersedeRefused(i),
         sent.supersedes[i] # None => ~Superseded(sent.supersedes[i])
  PROVE  Ledger!Next
<1>1. row \in [Intake -> RowType]
  BY DEF IInv, Typed
<1>2. row'[i] = new /\ \A j \in Intake \ {i} : row'[j] = row[j]
  BY <1>1
<1>3. sent.supersedes[i] \in Intake \cup {None}
  BY NewRowIs
<1>4. ASSUME sent.supersedes[i] # None
      PROVE  /\ row[sent.supersedes[i]].process = "awaiting_entity"
             /\ row[sent.supersedes[i]].review \notin Verdict
             /\ ~Superseded(sent.supersedes[i])
  <2> DEFINE o == sent.supersedes[i]
  <2>1. o \in Intake
    BY <1>3, <1>4
  <2>2. /\ row[o].process # "none" /\ row[o].entity = None
        /\ row[o].review # "rejected"
    BY <1>4 DEF SupersedeRefused, Stored
  <2>3. RowTyped(row[o])
    BY <2>1 DEF IInv, Typed
  <2>4. row[o].review # "data_verified"
    BY <2>1, <2>2 DEF IInv, RowsInv, VerifiedHasEntity
  <2>5. QED
    BY <1>4, <2>2, <2>3, <2>4 DEF RowTyped, Verdict
<1>5. Ledger!Store(i)
  <2>1. [j \in Intake |-> row'[j].process] =
          [[j \in Intake |-> row[j].process] EXCEPT ![i] = new.process]
    BY <1>2, ViewChanges
  <2>2. [j \in Intake |-> Decided(row'[j])] = [j \in Intake |-> Decided(row[j])]
    BY <1>2 DEF Decided, Verdict
  <2>3. sent.supersedes[i] # None => Ledger!Replaceable(sent.supersedes[i])
    BY <1>3, <1>4 DEF Ledger!Replaceable, Ledger!Superseded, Superseded, Stored
  <2>4. QED
    BY <2>1, <2>2, <2>3 DEF Ledger!Store, Decided
<1>6. QED
  BY <1>5 DEF Ledger!Next

LEMMA LedgerProceeds ==
  ASSUME IInv, NEW i \in Intake, NEW new, sent' = sent,
         row' = [row EXCEPT ![i] = new],
         row[i].review \notin Verdict, new.review = row[i].review,
         ~Superseded(i),
         \/ row[i].process = "awaiting_entity" /\ new.process = "received"
         \/ row[i].process = "received" /\ new.process = "bill_created"
         \/ row[i].process = "bill_created" /\ new.process = "document_attached"
         \/ row[i].process = "document_attached" /\ new.process = "complete"
  PROVE  Ledger!Next
<1>1. row \in [Intake -> RowType]
  BY DEF IInv, Typed
<1>2. row'[i] = new /\ \A j \in Intake \ {i} : row'[j] = row[j]
  BY <1>1
<1>3. [j \in Intake |-> row'[j].process] =
        [[j \in Intake |-> row[j].process] EXCEPT ![i] = new.process]
  BY <1>2, ViewChanges
<1>4. [j \in Intake |-> Decided(row'[j])] = [j \in Intake |-> Decided(row[j])]
  BY <1>2 DEF Decided
<1>5. \E k \in 1..4 : row[i].process = Ledger!Stages[k]
                      /\ new.process = Ledger!Stages[k + 1]
  <2>1. 1 \in 1..4 /\ 2 \in 1..4 /\ 3 \in 1..4 /\ 4 \in 1..4
        /\ 1 + 1 = 2 /\ 2 + 1 = 3 /\ 3 + 1 = 4 /\ 4 + 1 = 5
    OBVIOUS
  <2>2. /\ Ledger!Stages[1] = "awaiting_entity" /\ Ledger!Stages[2] = "received"
        /\ Ledger!Stages[3] = "bill_created"
        /\ Ledger!Stages[4] = "document_attached" /\ Ledger!Stages[5] = "complete"
    BY DEF Ledger!Stages
  <2>3. QED
    BY <2>1, <2>2
<1>6. ~Ledger!Superseded(i)
  BY DEF Ledger!Superseded, Superseded, Stored
<1>7. Ledger!Proceed(i)
  BY <1>3, <1>4, <1>5, <1>6 DEF Ledger!Proceed, Decided
<1>8. QED
  BY <1>7 DEF Ledger!Next

LEMMA LedgerDecides ==
  ASSUME IInv, NEW i \in Intake, NEW new, sent' = sent,
         row' = [row EXCEPT ![i] = new],
         row[i].process # "none", row[i].review \notin Verdict,
         new.process = row[i].process, new.review \in Verdict,
         new.review = "data_verified" => row[i].process = "complete"
  PROVE  Ledger!Next
<1>1. row \in [Intake -> RowType]
  BY DEF IInv, Typed
<1>2. row'[i] = new /\ \A j \in Intake \ {i} : row'[j] = row[j]
  BY <1>1
<1>3. [j \in Intake |-> row'[j].process] = [j \in Intake |-> row[j].process]
  BY <1>2
<1>4. [j \in Intake |-> Decided(row'[j])] =
        [[j \in Intake |-> Decided(row[j])] EXCEPT ![i] = new.review]
  <2>1. Decided(row'[i]) = new.review
    BY <1>2 DEF Decided
  <2>2. QED
    BY <1>2, <2>1, ViewChanges
<1>5. Ledger!Decide(i)
  BY <1>3, <1>4 DEF Ledger!Decide, Decided, Verdict
<1>6. QED
  BY <1>5 DEF Ledger!Next

LedgerView == <<[i \in Intake |-> row[i].process],
                [i \in Intake |-> Decided(row[i])], sent.supersedes>>

LEMMA LedgerStill ==
  ASSUME sent' = sent, row' = row
  PROVE  UNCHANGED LedgerView
BY LedgerStutters DEF LedgerView

LEMMA InsertIntakeInLedger ==
  ASSUME IInv, NEW d \in Delivery, InsertIntake(d)
  PROVE  Ledger!Next \/ UNCHANGED LedgerView
<1> DEFINE i == IntakeOf(d)
<1>1. /\ i \in Intake /\ row[i] \in RowType /\ RowTyped(row[i])
  BY IntakeOfTyped
<1>2. sent' = sent
  BY DEF InsertIntake
<1>3. CASE row' = row
  BY <1>2, <1>3, LedgerStill
<1>4. CASE /\ ~SupersedeRefused(i) /\ ~Stored(i)
           /\ sent.supersedes[i] # None => ~Superseded(sent.supersedes[i])
           /\ row' = [row EXCEPT ![i] = NewRow(i)]
  <2>1. row[i].process = "none"
    BY <1>4 DEF Stored
  <2>2. /\ NewRow(i).review = "pending_review"
        /\ NewRow(i).process \in {"awaiting_entity", "received"}
        /\ NewRow(i).process = "awaiting_entity" => sent.declared[i] = None
    BY DEF NewRow
  <2>3. sent.declared[i] = None => sent.supersedes[i] = None
    <3>1. sent \in Scenario
      BY DEF IInv, Typed
    <3>2. QED
      BY <1>1, <3>1, IntakeAssumption
  <2>4. row[i].review = "pending_review"
    BY <1>1, <2>1 DEF IInv, RowsInv, NothingBefore
  <2>5. QED
    BY <1>1, <1>2, <1>4, <2>1, <2>2, <2>3, <2>4, LedgerStores
<1>5. QED
  BY <1>3, <1>4 DEF InsertIntake

LEMMA NotSuperseded ==
  ASSUME IInv, NEW i \in Intake, row[i].process \notin {"none", "awaiting_entity"}
  PROVE  ~Superseded(i)
<1>1. RowTyped(row[i])
  BY DEF IInv, Typed
<1>2. row[i].entity # None
  BY <1>1 DEF RowTyped
<1>3. QED
  BY <1>2 DEF IInv, RowsInv, SupersededWaits, Superseded, Stored

LEMMA MoveToInLedger ==
  ASSUME IInv, NEW d \in Delivery, NEW pc, NEW process \in WithBill,
         MoveTo(d, pc, process), row[IntakeOf(d)].process # "none"
  PROVE  Ledger!Next \/ UNCHANGED LedgerView
<1> DEFINE i == IntakeOf(d)
           new == [row[i] EXCEPT !.process = process]
<1>1. /\ i \in Intake /\ row[i] \in RowType /\ RowTyped(row[i])
  BY IntakeOfTyped
<1>2. /\ sent' = sent
      /\ row' = IF UpdateAllowed(i, new) THEN [row EXCEPT ![i] = new] ELSE row
  BY DEF MoveTo, UpdateIntake
<1>3. CASE ~UpdateAllowed(i, new)
  BY <1>2, <1>3, LedgerStill
<1>4. /\ new.process = process /\ new.review = row[i].review
  BY <1>1 DEF RowType
<1>5. CASE UpdateAllowed(i, new) /\ row[i].process = process
  <2>1. /\ row'[i] = new /\ \A j \in Intake \ {i} : row'[j] = row[j]
    BY <1>1, <1>2, <1>5 DEF IInv, Typed
  <2> HIDE DEF new
  <2>2. QED
    BY <1>2, <1>4, <1>5, <2>1, LedgerStutters DEF LedgerView, Decided
<1>6. CASE UpdateAllowed(i, new) /\ row[i].process # process
  <2>1. /\ row[i].review \notin Verdict
        /\ Rank[process] = Rank[row[i].process] + 1
    BY <1>4, <1>6 DEF UpdateAllowed
  <2>2. row[i].process \in Process /\ process \in Process \ {"none"}
    BY <1>1 DEF RowType, Process, WithBill
  <2>3. \/ row[i].process = "awaiting_entity" /\ process = "received"
        \/ row[i].process = "received" /\ process = "bill_created"
        \/ row[i].process = "bill_created" /\ process = "document_attached"
        \/ row[i].process = "document_attached" /\ process = "complete"
    BY <1>6, <2>1, <2>2, NextRank
  <2>4. ~Superseded(i)
    BY <1>1, <2>3, NotSuperseded DEF WithBill
  <2>5. row' = [row EXCEPT ![i] = new]
    BY <1>2, <1>6
  <2> HIDE DEF new
  <2>6. QED
    BY <1>1, <1>2, <1>4, <2>1, <2>3, <2>4, <2>5, LedgerProceeds
<1>7. QED
  BY <1>3, <1>5, <1>6

LEMMA FlagDuplicateInLedger ==
  ASSUME IInv, NEW d \in Delivery, FlagDuplicate(d)
  PROVE  Ledger!Next \/ UNCHANGED LedgerView
<1> DEFINE i == IntakeOf(d)
           new == [row[i] EXCEPT !.review = "duplicate_suspected"]
<1>1. /\ i \in Intake /\ row[i] \in RowType
  BY IntakeOfTyped
<1>2. /\ sent' = sent
      /\ row' = IF UpdateAllowed(i, new) THEN [row EXCEPT ![i] = new] ELSE row
  BY DEF FlagDuplicate, UpdateIntake
<1>3. CASE ~UpdateAllowed(i, new)
  BY <1>2, <1>3, LedgerStill
<1>4. CASE UpdateAllowed(i, new)
  <2>1. /\ new.process = row[i].process /\ new.review = "duplicate_suspected"
    BY <1>1 DEF RowType
  <2>2. row[i].review \notin Verdict
    BY <1>4 DEF UpdateAllowed
  <2>3. /\ row'[i] = new /\ \A j \in Intake \ {i} : row'[j] = row[j]
    BY <1>1, <1>2, <1>4 DEF IInv, Typed
  <2> HIDE DEF new
  <2>4. Decided(row'[i]) = Decided(row[i])
    BY <2>1, <2>2, <2>3 DEF Decided, Verdict
  <2>5. QED
    BY <1>2, <2>1, <2>3, <2>4, LedgerStutters DEF LedgerView
<1>5. QED
  BY <1>3, <1>4

LEMMA HandlerInLedger ==
  ASSUME IInv, NEW d \in Delivery, Handler(d)
  PROVE  Ledger!Next \/ UNCHANGED LedgerView
<1>1. /\ IntakeOf(d) = sent.intake[d] /\ Place(d)
  BY IntakeOfTyped DEF IInv
<1>2. CASE LinkBill(d)
  <2>1. row[IntakeOf(d)].process # "none"
    BY <1>1, <1>2 DEF LinkBill, MoveTo, At, Place, Working
  <2>2. QED
    BY <1>2, <2>1, MoveToInLedger DEF LinkBill, WithBill
<1>3. CASE AttachDocument(d)
  <2>1. row[IntakeOf(d)].process # "none"
    BY <1>1, <1>3 DEF AttachDocument, MoveTo, At, Place, Working
  <2>2. QED
    BY <1>3, <2>1, MoveToInLedger DEF AttachDocument, WithBill
<1>4. CASE Complete(d)
  <2>1. row[IntakeOf(d)].process # "none"
    BY <1>1, <1>4 DEF Complete, MoveTo, At, Place, Working
  <2>2. QED
    BY <1>4, <2>1, MoveToInLedger DEF Complete, WithBill
<1>5. CASE ReadExisting(d) \/ LoadDuplicates(d) \/ GetBill(d) \/ InsertBill(d)
           \/ UploadObject(d) \/ InsertDocument(d) \/ LinkDocument(d)
  BY <1>5, LedgerStill DEF ReadExisting, LoadDuplicates, GetBill, InsertBill,
     UploadObject, InsertDocument, LinkDocument, store
<1>6. QED
  BY <1>2, <1>3, <1>4, <1>5, InsertIntakeInLedger, FlagDuplicateInLedger
     DEF Handler

LEMMA PeopleInLedger ==
  ASSUME IInv, People
  PROVE  Ledger!Next \/ UNCHANGED LedgerView
<1>1. sent' = sent
  BY DEF People
<1>2. PICK i \in Intake :
        \/ \E e \in Entity : Resolve(i, e)
        \/ \E target \in Review : SetReview(i, target)
        \/ ReadGate(i) \/ ReleaseBill(i) \/ RevertRelease(i)
  BY DEF People
<1>3. row[i] \in RowType /\ row \in [Intake -> RowType]
  BY DEF IInv, Typed
<1>4. ASSUME NEW e \in Entity, Resolve(i, e)
      PROVE  Ledger!Next
  <2> DEFINE x == [row[i] EXCEPT !.entity = e]
             new == [x EXCEPT !.process = "received"]
  <2>1. x \in RowType /\ x.review = row[i].review
    BY <1>3 DEF RowType
  <2>2. row' = [row EXCEPT ![i] = new]
    BY <1>3, <1>4 DEF Resolve, RowType
  <2> HIDE DEF x
  <2>3. new.process = "received" /\ new.review = row[i].review
    BY <2>1 DEF RowType
  <2> HIDE DEF new
  <2>4. /\ row[i].process = "awaiting_entity" /\ row[i].review \notin Verdict
        /\ ~Superseded(i)
    BY <1>4 DEF Resolve
  <2>5. QED
    BY <1>1, <2>2, <2>3, <2>4, LedgerProceeds
<1>5. ASSUME NEW target \in Review, SetReview(i, target)
      PROVE  Ledger!Next \/ UNCHANGED LedgerView
  <2> DEFINE new == [row[i] EXCEPT !.review = target]
  <2>1. row' = [row EXCEPT ![i] = new]
    BY <1>5 DEF SetReview
  <2>2. new.process = row[i].process /\ new.review = target
    BY <1>3 DEF RowType
  <2>3. row'[i] = new /\ \A j \in Intake \ {i} : row'[j] = row[j]
    BY <1>3, <2>1
  <2> HIDE DEF new
  <2>4. /\ row[i].process # "none" /\ row[i].review \notin Verdict
        /\ target = "data_verified" => row[i].process = "complete"
    BY <1>3, <1>5, TargetsAre DEF SetReview, Stored, RowType
  <2>5. CASE target \in Verdict
    BY <1>1, <2>1, <2>2, <2>4, <2>5, LedgerDecides
  <2>6. CASE target \notin Verdict
    BY <1>1, <2>2, <2>3, <2>4, <2>6, LedgerStutters DEF LedgerView, Decided
  <2>7. QED
    BY <2>5, <2>6
<1>6. CASE ReadGate(i) \/ ReleaseBill(i) \/ RevertRelease(i)
  BY <1>1, <1>6, LedgerStill DEF ReadGate, ReleaseBill, RevertRelease
<1>7. QED
  BY <1>2, <1>4, <1>5, <1>6

LEMMA LedgerNext ==
  IInv /\ [Next]_vars => [Ledger!Next]_LedgerView
<1> SUFFICES ASSUME IInv, [Next]_vars
             PROVE  Ledger!Next \/ UNCHANGED LedgerView
  OBVIOUS
<1>1. CASE \E d \in Delivery : Handler(d)
  BY <1>1, HandlerInLedger
<1>2. CASE \E d \in Delivery : Fail(d) \/ Redeliver(d)
  BY <1>2, LedgerStill DEF Fail, Redeliver, store
<1>3. CASE People
  BY <1>3, PeopleInLedger
<1>4. CASE UNCHANGED vars
  BY <1>4, LedgerStill DEF vars, store
<1>5. QED
  BY <1>1, <1>2, <1>3, <1>4 DEF Next

LEMMA LedgerInit == Init => Ledger!Init
<1> SUFFICES ASSUME Init PROVE Ledger!Init
  OBVIOUS
<1>1. /\ \A i \in Intake : row[i].process = "none" /\ Decided(row[i]) = None
  BY DEF Init, NoRow, Decided, Verdict
<1>2. sent.supersedes \in [Intake -> Intake \cup {None}]
  BY IntakeAssumption DEF Init, Sending
<1>3. QED
  BY <1>1, <1>2 DEF Ledger!Init, Decided

\* Against every delivery that read the row before, the table keeps the promise
\* of IntakeLedger: stages one by one, the entity once, verdicts final.
THEOREM ImplementsIntakeLedger == Spec => LedgerHolds
<1>1. Ledger!Spec <=> Ledger!Init /\ [][Ledger!Next]_LedgerView
  BY DEF Ledger!Spec, LedgerView, Decided
<1>2. QED
  BY <1>1, IInvHolds, LedgerInit, LedgerNext, PTL DEF Spec, LedgerHolds
=============================================================================
