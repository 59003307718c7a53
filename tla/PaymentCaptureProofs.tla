------------------------ MODULE PaymentCaptureProofs ------------------------
(***************************************************************************)
(* Theorems about the capture of a payment intake, for any number of       *)
(* deliveries, payloads, documents and failures.  The invariant says what  *)
(* a delivery at each call has already seen to: past the insert the row is *)
(* there, past the comparison the row holds the payload of this delivery,  *)
(* and before the document row the object is stored.                       *)
(***************************************************************************)
EXTENDS PaymentCapture, WellFoundedInduction, TLAPS

Fields == {"pc", "seen", "known", "adopted", "next", "replay", "code",
           "complete"}

RequestTyped(r) ==
  /\ r.pc \in PC
  /\ r.seen \in Status
  /\ r.known \subseteq DocRef
  /\ r.adopted \subseteq Part \cup {Person}
  /\ r.next \in 1..Len(Declared) + 1
  /\ r.replay \in BOOLEAN
  /\ r.code \in {0, 200, 201, 409, 503}
  /\ r.complete \in BOOLEAN

\* What a delivery at its call, or with its answer, has seen to.
SeenTo(q) ==
  /\ RequestTyped(req[q])
  /\ req[q].pc \in {"existing", "list", "attach", "row"} => status # "none"
  /\ req[q].pc \in {"list", "attach", "row"} => sent[q] = payload
  /\ req[q].code \in {200, 201} => status # "none" /\ sent[q] = payload
  /\ req[q].pc = "row" => /\ req[q].next <= Len(Declared)
                          /\ Declared[req[q].next].part \in objects

IInv ==
  /\ sent \in [Request -> Hash]
  /\ status \in Status
  /\ payload \in Hash \cup {"none"}
  /\ rows \subseteq DocRow
  /\ objects \subseteq Part
  /\ DOMAIN req = Request
  /\ touched \in BOOLEAN
  /\ failures \in 0..MaxFailures
  /\ \A q \in Request : SeenTo(q)
  /\ EvidenceIsStored

-----------------------------------------------------------------------------
(* Lemmas about the operators *)

\* Among natural numbers there is a least one.
LEMMA Least ==
  ASSUME NEW S \in SUBSET Nat, S # {}
  PROVE  \E x \in S : \A y \in S : x <= y
<1>1. PICK x \in S : \A y \in S : <<y, x>> \notin OpToRel(<, Nat)
  BY NatLessThanWellFounded, WFMin
<1>2. \A y \in S : ~(y < x)
  BY <1>1 DEF OpToRel
<1>3. \A y \in S : x <= y
  <2>1. TAKE y \in S
  <2>2. y \in Nat /\ x \in Nat /\ ~(y < x)
    BY <1>2
  <2>3. QED
    BY ONLY <2>2
<1>4. QED
  BY ONLY <1>3, x \in S

\* There is a next document to attach, or the place after the last.
LEMMA NextDocumentIs ==
  ASSUME NEW i \in 1..Len(Declared) + 1, NEW known, NEW adopted
  PROVE  NextDocument(i, known, adopted) \in i..Len(Declared) + 1
<1> DEFINE Done(k) == Declared[k].part \in adopted \/ Ref(Declared[k]) \in known
           S == {j \in i..Len(Declared) + 1 : j <= Len(Declared) => ~Done(j)}
<1> HIDE DEF Done
<1>1. Len(Declared) \in Nat
  BY CaptureAssumption
<1>2. Len(Declared) + 1 \in S /\ S \in SUBSET Nat
  BY <1>1
<1>3. PICK j \in S : \A k \in S : j <= k
  BY <1>2, Least
<1>4. \A k \in i..j - 1 : Done(k)
  <2>1. TAKE k \in i..j - 1
  <2>2. k \in i..Len(Declared) + 1 /\ k <= Len(Declared) /\ ~(j <= k)
    BY <1>1, <1>3
  <2>3. QED
    BY <1>3, <2>2
<1>5. \E x \in i..Len(Declared) + 1 :
        /\ x <= Len(Declared) => ~Done(x)
        /\ \A k \in i..x - 1 : Done(k)
  BY <1>3, <1>4
<1>6. QED
  BY <1>5 DEF NextDocument, Done

\* What a delivery knows after it learned something.
LEMMA LearnIs ==
  ASSUME IInv, NEW q \in Request, NEW fields, Learn(q, fields)
  PROVE  /\ DOMAIN req' = Request
         /\ \A p \in Request \ {q} : req'[p] = req[p]
         /\ \A f \in Fields :
              req'[q][f] = IF f \in DOMAIN fields THEN fields[f] ELSE req[q][f]
<1>1. DOMAIN Request0 = Fields
  BY DEF Request0, Fields
<1>2. QED
  BY <1>1 DEF Learn, IInv

\* A delivery is refused, or fails.
Refused(q) == Reply(q, 409, FALSE) \/ Reply(q, 503, FALSE)

\* What is left of a delivery that failed or was refused.
LEMMA RefusalIs ==
  ASSUME IInv, NEW q \in Request, Refused(q)
  PROVE  /\ DOMAIN req' = Request
         /\ \A p \in Request \ {q} : req'[p] = req[p]
         /\ RequestTyped(req'[q])
         /\ req'[q].pc = "done" /\ req'[q].known = {}
         /\ req'[q].code \in {409, 503} /\ ~req'[q].complete
<1>0. PICK code \in {409, 503} :
        req' = [req EXCEPT ![q] = [Request0 EXCEPT !.pc = "done",
                                     !.code = code, !.complete = FALSE]]
  BY DEF Refused, Reply
<1> DEFINE r == [Request0 EXCEPT !.pc = "done", !.code = code,
                                !.complete = FALSE]
<1>1. req' = [req EXCEPT ![q] = r]
  BY <1>0
<1>2. Len(Declared) \in Nat
  BY CaptureAssumption
<1>3. /\ r.pc = "done" /\ r.code = code
      /\ r.known = {} /\ r.seen = "none" /\ r.adopted = {} /\ r.next = 1
  BY DEF Request0
<1>4. /\ ~r.complete
      /\ r.complete \in BOOLEAN /\ r.replay \in BOOLEAN
  BY DEF Request0
<1> HIDE DEF r
<1>5. /\ DOMAIN req' = Request /\ req'[q] = r
      /\ \A p \in Request \ {q} : req'[p] = req[p]
  BY <1>1 DEF IInv
<1>6. RequestTyped(r)
  BY <1>2, <1>3, <1>4 DEF RequestTyped, PC, Status, Early, FoEarly
<1>7. QED
  BY <1>3, <1>4, <1>5, <1>6

\* What is left of a delivery that was accepted.
LEMMA AnswerIs ==
  ASSUME IInv, NEW q \in Request, NEW known, Answer(q, known)
  PROVE  /\ DOMAIN req' = Request
         /\ \A p \in Request \ {q} : req'[p] = req[p]
         /\ RequestTyped(req'[q])
         /\ req'[q].pc = "done" /\ req'[q].known = {}
         /\ req'[q].complete = (Missing(known) = {})
<1> DEFINE r == [Request0 EXCEPT !.pc = "done", !.code = (IF req[q].replay THEN 200 ELSE 201),
                                !.complete = (Missing(known) = {})]
<1>1. req' = [req EXCEPT ![q] = r]
  BY DEF Answer, Reply
<1>2. Len(Declared) \in Nat
  BY CaptureAssumption
<1>3. /\ r.pc = "done" /\ r.code = (IF req[q].replay THEN 200 ELSE 201)
      /\ r.known = {} /\ r.seen = "none" /\ r.adopted = {} /\ r.next = 1
  BY DEF Request0
<1>4. /\ r.complete = (Missing(known) = {})
      /\ r.complete \in BOOLEAN /\ r.replay \in BOOLEAN
  BY DEF Request0
<1> HIDE DEF r
<1>5. /\ DOMAIN req' = Request /\ req'[q] = r
      /\ \A p \in Request \ {q} : req'[p] = req[p]
  BY <1>1 DEF IInv
<1>6. RequestTyped(r)
  BY <1>2, <1>3, <1>4 DEF RequestTyped, PC, Status, Early, FoEarly
<1>7. QED
  BY <1>3, <1>4, <1>5, <1>6

\* A step of one delivery keeps what the others have seen to.
LEMMA OthersSeenTo ==
  ASSUME IInv, NEW q \in Request,
         \A p \in Request \ {q} : req'[p] = req[p],
         sent' = sent, objects \subseteq objects',
         status # "none" => status' # "none" /\ payload' = payload
  PROVE  \A p \in Request \ {q} : SeenTo(p)'
BY DEF IInv, SeenTo

\* So does a step of nobody's.
LEMMA AllSeenTo ==
  ASSUME IInv, req' = req, sent' = sent, objects \subseteq objects',
         status # "none" => status' # "none" /\ payload' = payload
  PROVE  \A p \in Request : SeenTo(p)'
BY DEF IInv, SeenTo

LEMMA LiveIsTyped ==
  ASSUME rows \subseteq DocRow
  PROVE  Live(rows) \subseteq DocRef /\ LiveIds(rows) \subseteq Part \cup {Person}
BY DEF Live, LiveIds, DocRow, DocRef

-----------------------------------------------------------------------------
(* The steps of a delivery *)

\* A delivery that ends with an answer: its answer is accepted only when the
\* row holds its payload.
LEMMA AnswerKeeps ==
  ASSUME IInv, NEW q \in Request,
         DOMAIN req' = Request, \A p \in Request \ {q} : req'[p] = req[p],
         RequestTyped(req'[q]), req'[q].pc = "done",
         req'[q].code \in {200, 201} => status # "none" /\ sent[q] = payload,
         sent' = sent, payload' = payload, rows' = rows, objects' = objects,
         status' \in Status, status # "none" => status' # "none",
         touched' \in BOOLEAN, failures' \in 0..MaxFailures
  PROVE  IInv'
<1>1. SeenTo(q)'
  BY DEF SeenTo
<1>2. \A p \in Request \ {q} : SeenTo(p)'
  BY OthersSeenTo
<1>3. QED
  BY <1>1, <1>2 DEF IInv, EvidenceIsStored

LEMMA InsertPaymentKeeps ==
  ASSUME IInv, NEW q \in Request, InsertPayment(q)
  PROVE  IInv'
<1>1. UNCHANGED <<sent, rows, objects, touched, failures>>
  BY DEF InsertPayment
<1>2. RequestTyped(req[q])
  BY DEF IInv, SeenTo
<1>3. CASE status = "none"
  <2>1. /\ status' = "captured" /\ payload' = sent[q]
        /\ Learn(q, [pc |-> "list", seen |-> "captured"])
    BY <1>3 DEF InsertPayment
  <2>2. /\ DOMAIN req' = Request
        /\ \A p \in Request \ {q} : req'[p] = req[p]
        /\ req'[q].pc = "list" /\ req'[q].seen = "captured"
        /\ req'[q].known = req[q].known /\ req'[q].adopted = req[q].adopted
        /\ req'[q].next = req[q].next /\ req'[q].replay = req[q].replay
        /\ req'[q].code = req[q].code /\ req'[q].complete = req[q].complete
    BY <2>1, LearnIs DEF Fields
  <2>3. RequestTyped(req'[q])
    BY <1>2, <2>2 DEF RequestTyped, PC, Status, Early, FoEarly
  <2>4. SeenTo(q)'
    BY <1>1, <2>1, <2>2, <2>3 DEF SeenTo
  <2>5. \A p \in Request \ {q} : SeenTo(p)'
    BY <1>1, <1>3, <2>2, OthersSeenTo
  <2>6. status' \in Status /\ payload' \in Hash
    BY <2>1 DEF IInv, Status, Early, FoEarly
  <2>7. QED
    BY <1>1, <2>2, <2>4, <2>5, <2>6 DEF IInv, EvidenceIsStored
<1>4. CASE status # "none"
  <2>1. UNCHANGED <<status, payload>> /\ Learn(q, [pc |-> "existing"])
    BY <1>4 DEF InsertPayment
  <2>2. /\ DOMAIN req' = Request
        /\ \A p \in Request \ {q} : req'[p] = req[p]
        /\ req'[q].pc = "existing" /\ req'[q].seen = req[q].seen
        /\ req'[q].known = req[q].known /\ req'[q].adopted = req[q].adopted
        /\ req'[q].next = req[q].next /\ req'[q].replay = req[q].replay
        /\ req'[q].code = req[q].code /\ req'[q].complete = req[q].complete
    BY <2>1, LearnIs DEF Fields
  <2>3. RequestTyped(req'[q])
    BY <1>2, <2>2 DEF RequestTyped, PC
  <2>4. SeenTo(q)'
    BY <1>1, <1>4, <2>1, <2>2, <2>3 DEF SeenTo, IInv
  <2>5. \A p \in Request \ {q} : SeenTo(p)'
    BY <1>1, <2>1, <2>2, OthersSeenTo
  <2>6. QED
    BY <1>1, <2>1, <2>2, <2>4, <2>5 DEF IInv, EvidenceIsStored
<1>5. QED
  BY <1>3, <1>4

LEMMA ReadExistingKeeps ==
  ASSUME IInv, NEW q \in Request, ReadExisting(q)
  PROVE  IInv'
<1>1. /\ req[q].pc = "existing"
      /\ UNCHANGED <<sent, status, payload, rows, objects, touched, failures>>
  BY DEF ReadExisting, At, row
<1>2. RequestTyped(req[q]) /\ status # "none"
  BY <1>1 DEF IInv, SeenTo
<1>3. CASE payload = sent[q]
  <2>1. Learn(q, [pc |-> "list", seen |-> status, replay |-> TRUE])
    BY <1>3 DEF ReadExisting
  <2>2. /\ DOMAIN req' = Request
        /\ \A p \in Request \ {q} : req'[p] = req[p]
        /\ req'[q].pc = "list" /\ req'[q].seen = status
        /\ req'[q].known = req[q].known /\ req'[q].adopted = req[q].adopted
        /\ req'[q].next = req[q].next /\ req'[q].replay = TRUE
        /\ req'[q].code = req[q].code /\ req'[q].complete = req[q].complete
    BY <2>1, LearnIs DEF Fields
  <2>3. RequestTyped(req'[q])
    BY <1>2, <2>2, ZenonT(30) DEF RequestTyped, PC, IInv
  <2>4. SeenTo(q)'
    BY <1>1, <1>2, <1>3, <2>2, <2>3 DEF SeenTo, IInv
  <2>5. \A p \in Request \ {q} : SeenTo(p)'
    BY <1>1, <2>2, OthersSeenTo
  <2>6. QED
    BY <1>1, <2>2, <2>4, <2>5 DEF IInv, EvidenceIsStored
<1>4. CASE payload # sent[q]
  <2>1. Refused(q)
    BY <1>4 DEF ReadExisting, Refuse, Refused, Reply
  <2>2. /\ DOMAIN req' = Request
        /\ \A p \in Request \ {q} : req'[p] = req[p]
        /\ RequestTyped(req'[q]) /\ req'[q].pc = "done" /\ req'[q].code \notin {200, 201}
    BY <2>1, RefusalIs
  <2>3. /\ status' \in Status /\ touched' \in BOOLEAN
        /\ failures' \in 0..MaxFailures
    BY <1>1 DEF IInv
  <2>4. QED
    BY <1>1, <2>2, <2>3, AnswerKeeps
<1>5. QED
  BY <1>3, <1>4

\* A delivery that turns to the next document, from a place of its own.
LEMMA TurnToNextTyped ==
  ASSUME IInv, NEW q \in Request, NEW i \in 1..Len(Declared) + 1,
         NEW known \in SUBSET DocRef, NEW adopted \in SUBSET (Part \cup {Person}),
         TurnToNext(q, i, known, adopted)
  PROVE  /\ DOMAIN req' = Request
         /\ \A p \in Request \ {q} : req'[p] = req[p]
         /\ RequestTyped(req'[q])
         /\ req'[q].pc = "attach" /\ req'[q].code = req[q].code
         /\ req'[q].known = known /\ req'[q].complete = req[q].complete
<1> DEFINE n == NextDocument(i, known, adopted)
<1>1. n \in 1..Len(Declared) + 1
  <2>1. n \in i..Len(Declared) + 1
    BY NextDocumentIs
  <2>2. QED
    BY <2>1
<1> HIDE DEF n
<1>2. Learn(q, [pc |-> "attach", known |-> known, adopted |-> adopted,
                next |-> n])
  BY DEF TurnToNext, n
<1>3. /\ DOMAIN req' = Request
      /\ \A p \in Request \ {q} : req'[p] = req[p]
      /\ req'[q].pc = "attach" /\ req'[q].seen = req[q].seen
      /\ req'[q].known = known /\ req'[q].adopted = adopted
      /\ req'[q].next = n /\ req'[q].replay = req[q].replay
      /\ req'[q].code = req[q].code /\ req'[q].complete = req[q].complete
  BY <1>2, LearnIs DEF Fields
<1>4. RequestTyped(req[q])
  BY DEF IInv, SeenTo
<1>5. RequestTyped(req'[q])
  BY <1>1, <1>3, <1>4 DEF RequestTyped, PC
<1>6. QED
  BY <1>3, <1>5

LEMMA ListDocumentsKeeps ==
  ASSUME IInv, NEW q \in Request, ListDocuments(q)
  PROVE  IInv'
<1>1. /\ req[q].pc = "list"
      /\ UNCHANGED <<sent, status, payload, rows, objects, touched, failures>>
  BY DEF ListDocuments, At, row
<1>2. status # "none" /\ sent[q] = payload
  BY <1>1 DEF IInv, SeenTo
<1>3. CASE req[q].seen \in Early
  <2>1. TurnToNext(q, 1, Live(rows), LiveIds(rows))
    BY <1>3 DEF ListDocuments
  <2>2. 1 \in 1..Len(Declared) + 1
    BY CaptureAssumption
  <2>3. /\ DOMAIN req' = Request
        /\ \A p \in Request \ {q} : req'[p] = req[p]
        /\ RequestTyped(req'[q])
        /\ req'[q].pc = "attach" /\ req'[q].code = req[q].code
    BY <2>1, <2>2, TurnToNextTyped, LiveIsTyped DEF IInv
  <2>4. SeenTo(q)'
    BY <1>1, <1>2, <2>3 DEF SeenTo, IInv
  <2>5. \A p \in Request \ {q} : SeenTo(p)'
    BY <1>1, <2>3, OthersSeenTo
  <2>6. QED
    BY <1>1, <2>3, <2>4, <2>5 DEF IInv, EvidenceIsStored
<1>4. CASE req[q].seen \notin Early
  <2>1. Answer(q, Live(rows))
    BY <1>4 DEF ListDocuments
  <2>2. /\ DOMAIN req' = Request
        /\ \A p \in Request \ {q} : req'[p] = req[p]
        /\ RequestTyped(req'[q]) /\ req'[q].pc = "done"
    BY <2>1, AnswerIs
  <2>3. /\ status' \in Status /\ touched' \in BOOLEAN
        /\ failures' \in 0..MaxFailures
    BY <1>1 DEF IInv
  <2>4. QED
    BY <1>1, <1>2, <2>2, <2>3, AnswerKeeps
<1>5. QED
  BY <1>3, <1>4

LEMMA UploadObjectKeeps ==
  ASSUME IInv, NEW q \in Request, UploadObject(q)
  PROVE  IInv'
<1>1. /\ req[q].pc = "attach" /\ req[q].next <= Len(Declared)
      /\ UNCHANGED <<sent, status, payload, rows, touched, failures>>
      /\ objects' = objects \cup {Declared[req[q].next].part}
      /\ Learn(q, [pc |-> "row"])
  BY DEF UploadObject, At, row, Doc
<1>2. /\ DOMAIN req' = Request
      /\ \A p \in Request \ {q} : req'[p] = req[p]
      /\ req'[q].pc = "row" /\ req'[q].seen = req[q].seen
      /\ req'[q].known = req[q].known /\ req'[q].adopted = req[q].adopted
      /\ req'[q].next = req[q].next /\ req'[q].replay = req[q].replay
      /\ req'[q].code = req[q].code /\ req'[q].complete = req[q].complete
  BY <1>1, LearnIs DEF Fields
<1>3. RequestTyped(req[q])
  BY DEF IInv, SeenTo
<1>4. RequestTyped(req'[q])
  BY <1>2, <1>3 DEF RequestTyped, PC
<1>5. Declared[req[q].next].part \in Part
  <2>1. Len(Declared) \in Nat /\ req[q].next \in 1..Len(Declared) + 1
    BY <1>3, CaptureAssumption DEF RequestTyped
  <2>2. req[q].next \in 1..Len(Declared)
    BY <1>1, <2>1
  <2>3. QED
    BY <2>2 DEF Part
<1>6. \A p \in Request \ {q} : SeenTo(p)'
  BY <1>1, <1>2, OthersSeenTo
<1>7. QED
  BY <1>1, <1>2, <1>4, <1>5, <1>6 DEF IInv, EvidenceIsStored, SeenTo

\* The document of a delivery that is about to insert its row.
LEMMA DocOf ==
  ASSUME IInv, NEW q \in Request, req[q].pc = "row"
  PROVE  /\ req[q].next \in 1..Len(Declared)
         /\ Doc(q) = Declared[req[q].next]
         /\ Doc(q).part \in objects /\ Doc(q).part \in Part
         /\ Doc(q).role \in Role /\ Doc(q).file \in File
<1>1. /\ req[q].next \in 1..Len(Declared) + 1 /\ req[q].next <= Len(Declared)
      /\ Declared[req[q].next].part \in objects
  BY DEF IInv, SeenTo, RequestTyped
<1>2. Len(Declared) \in Nat
  BY CaptureAssumption
<1>3. req[q].next \in 1..Len(Declared)
  BY <1>1, <1>2
<1>4. QED
  BY <1>1, <1>3, CaptureAssumption DEF Doc, Part

LEMMA InsertDocumentKeeps ==
  ASSUME IInv, NEW q \in Request, InsertDocument(q)
  PROVE  IInv'
<1> DEFINE new == [id |-> Doc(q).part, role |-> Doc(q).role,
                   file |-> Doc(q).file, live |-> TRUE]
<1>1. /\ req[q].pc = "row"
      /\ UNCHANGED <<sent, status, payload, objects, touched, failures>>
      /\ CountAsAttached(q)
      /\ rows' \in {rows, rows \cup {new}}
  BY DEF InsertDocument, At
<1>2. /\ req[q].next \in 1..Len(Declared)
      /\ Doc(q).part \in objects /\ Doc(q).part \in Part
      /\ Doc(q).role \in Role /\ Doc(q).file \in File
  BY <1>1, DocOf
<1>3. new \in DocRow /\ new.id \in objects
  BY <1>2 DEF DocRow
<1>4. RequestTyped(req[q]) /\ status # "none" /\ sent[q] = payload
  BY <1>1 DEF IInv, SeenTo
<1>5. Ref(Doc(q)) \in DocRef
  BY <1>2 DEF Ref, DocRef
<1>6. /\ req[q].next + 1 \in 1..Len(Declared) + 1
      /\ req[q].known \cup {Ref(Doc(q))} \in SUBSET DocRef
      /\ req[q].adopted \cup {Doc(q).part} \in SUBSET (Part \cup {Person})
  BY <1>2, <1>4, <1>5, CaptureAssumption DEF RequestTyped
<1>7. /\ DOMAIN req' = Request
      /\ \A p \in Request \ {q} : req'[p] = req[p]
      /\ RequestTyped(req'[q])
      /\ req'[q].pc = "attach" /\ req'[q].code = req[q].code
  BY <1>1, <1>6, TurnToNextTyped DEF CountAsAttached
<1> HIDE DEF new
<1>8. SeenTo(q)'
  BY <1>1, <1>4, <1>7 DEF SeenTo, IInv
<1>9. \A p \in Request \ {q} : SeenTo(p)'
  BY <1>1, <1>7, OthersSeenTo
<1>10. rows' \subseteq DocRow /\ EvidenceIsStored'
  BY <1>1, <1>3 DEF IInv, EvidenceIsStored
<1>11. QED
  BY <1>1, <1>7, <1>8, <1>9, <1>10 DEF IInv

LEMMA FinaliseKeeps ==
  ASSUME IInv, NEW q \in Request, Finalise(q)
  PROVE  IInv'
<1>1. /\ req[q].pc = "attach"
      /\ UNCHANGED <<sent, payload, rows, objects, touched, failures>>
  BY DEF Finalise, At
<1>2. status # "none" /\ sent[q] = payload
  BY <1>1 DEF IInv, SeenTo
<1>3. FinalStatus(req[q].known) \in FoEarly
  BY DEF FinalStatus, FoEarly
<1>4. status' \in Status /\ status' # "none"
  BY <1>2, <1>3 DEF Finalise, IInv, Status, Early, FoEarly
<1>5. Answer(q, req[q].known) \/ Refused(q)
  BY DEF Finalise, Refuse, Refused, Reply
<1>6. /\ DOMAIN req' = Request
      /\ \A p \in Request \ {q} : req'[p] = req[p]
      /\ RequestTyped(req'[q]) /\ req'[q].pc = "done"
  BY <1>5, AnswerIs, RefusalIs
<1>7. touched' \in BOOLEAN /\ failures' \in 0..MaxFailures
  BY <1>1 DEF IInv
<1>8. QED
  BY <1>1, <1>2, <1>4, <1>6, <1>7, AnswerKeeps

LEMMA FailKeeps ==
  ASSUME IInv, NEW q \in Request, Fail(q)
  PROVE  IInv'
<1>1. /\ UNCHANGED <<sent, status, payload, rows, objects, touched>>
      /\ failures < MaxFailures /\ failures' = failures + 1
      /\ Refused(q)
  BY DEF Fail, row, Refused, Reply
<1>2. /\ DOMAIN req' = Request
      /\ \A p \in Request \ {q} : req'[p] = req[p]
      /\ RequestTyped(req'[q]) /\ req'[q].pc = "done"
      /\ req'[q].code \notin {200, 201}
  BY <1>1, RefusalIs
<1>3. /\ status' \in Status /\ touched' \in BOOLEAN
      /\ failures' \in 0..MaxFailures
  BY <1>1, CaptureAssumption DEF IInv
<1>4. QED
  BY <1>1, <1>2, <1>3, AnswerKeeps

LEMMA RedeliverKeeps ==
  ASSUME IInv, NEW q \in Request, Redeliver(q)
  PROVE  IInv'
<1>1. /\ UNCHANGED <<sent, status, payload, rows, objects, touched, failures>>
      /\ req' = [req EXCEPT ![q] = Request0]
  BY DEF Redeliver, row
<1>2. Len(Declared) \in Nat
  BY CaptureAssumption
<1>3. RequestTyped(Request0) /\ Request0.pc = "sent" /\ Request0.code = 0
  BY <1>2 DEF Request0, RequestTyped, PC, Status, Early, FoEarly
<1>4. /\ DOMAIN req' = Request /\ req'[q] = Request0
      /\ \A p \in Request \ {q} : req'[p] = req[p]
  BY <1>1 DEF IInv
<1>5. SeenTo(q)'
  BY <1>3, <1>4 DEF SeenTo
<1>6. \A p \in Request \ {q} : SeenTo(p)'
  BY <1>1, <1>4, OthersSeenTo
<1>7. QED
  BY <1>1, <1>4, <1>5, <1>6 DEF IInv, EvidenceIsStored

-----------------------------------------------------------------------------
(* People *)

\* The rows people leave: theirs, or a row that was there, perhaps removed.
LEMMA PeopleRows ==
  ASSUME IInv, People
  PROVE  /\ rows' \subseteq DocRow
         /\ \A x \in rows' : x.id = Person \/ \E y \in rows : y.id = x.id
<1>1. CASE rows' = rows
  BY <1>1 DEF IInv
<1>2. CASE \E d \in HumanDoc : PersonAttaches(d[1], d[2])
  <2>1. PICK d \in HumanDoc : PersonAttaches(d[1], d[2])
    BY <1>2
  <2>2. d[1] \in Role /\ d[2] \in File
    BY CaptureAssumption
  <2>3. [id |-> Person, role |-> d[1], file |-> d[2], live |-> TRUE] \in DocRow
    BY <2>2 DEF DocRow
  <2> DEFINE new == [id |-> Person, role |-> d[1], file |-> d[2], live |-> TRUE]
  <2>4. rows' = rows \cup {new} /\ new.id = Person
    BY <2>1 DEF PersonAttaches
  <2> HIDE DEF new
  <2>5. new \in DocRow
    BY <2>3 DEF new
  <2>6. QED
    BY <2>4, <2>5 DEF IInv
<1>3. CASE \E r \in rows : PersonRemoves(r)
  <2>1. PICK r \in rows : PersonRemoves(r)
    BY <1>3
  <2>2. r \in DocRow
    BY DEF IInv
  <2>3. [r EXCEPT !.live = FALSE] \in DocRow /\ [r EXCEPT !.live = FALSE].id = r.id
    BY <2>2 DEF DocRow
  <2>4. QED
    BY <2>1, <2>3 DEF PersonRemoves, IInv
<1>4. QED
  BY <1>1, <1>2, <1>3 DEF People, PersonMovesEarly, PersonMovesOn, PersonReturns

LEMMA PeopleKeep ==
  ASSUME IInv, People
  PROVE  IInv'
<1>1. /\ UNCHANGED <<sent, objects, req, failures>> /\ touched' = TRUE
      /\ status' \in Status /\ payload' = payload
      /\ status # "none" => status' # "none"
  BY DEF People, PersonMovesEarly, PersonMovesOn, PersonReturns,
     PersonAttaches, PersonRemoves, IInv, Status, Early, FoEarly
<1>2. \A q \in Request : SeenTo(q)'
  BY <1>1, AllSeenTo
<1>3. rows' \subseteq DocRow /\ EvidenceIsStored'
  BY <1>1, PeopleRows DEF IInv, EvidenceIsStored
<1>4. QED
  BY <1>1, <1>2, <1>3 DEF IInv

-----------------------------------------------------------------------------
(* The invariant *)

LEMMA IInvInit == Init => IInv
<1> SUFFICES ASSUME Init PROVE IInv
  OBVIOUS
<1>1. Len(Declared) \in Nat
  BY CaptureAssumption
<1>2. RequestTyped(Request0) /\ Request0.pc = "sent" /\ Request0.code = 0
  BY <1>1 DEF Request0, RequestTyped, PC, Status, Early, FoEarly
<1>3. DOMAIN req = Request /\ \A q \in Request : req[q] = Request0
  BY DEF Init
<1>4. \A q \in Request : SeenTo(q)
  <2>1. TAKE q \in Request
  <2>2. req[q] = Request0
    BY <1>3
  <2>3. req[q].pc = "sent" /\ req[q].code = 0
    BY <1>2, <2>2
  <2>4. RequestTyped(req[q])
    BY <1>2, <2>2, Zenon
  <2>5. QED
    BY <2>3, <2>4 DEF SeenTo
<1>5. /\ sent \in [Request -> Hash] /\ status = "none" /\ payload = "none"
      /\ rows = {} /\ objects = {} /\ touched = FALSE /\ failures = 0
  BY DEF Init
<1>6. status \in Status
  BY <1>5 DEF Status
<1>7. touched \in BOOLEAN
  BY <1>5
<1>8. failures \in 0..MaxFailures
  BY <1>5, CaptureAssumption
<1>9. QED
  BY <1>3, <1>4, <1>5, <1>6, <1>7, <1>8 DEF IInv, EvidenceIsStored

LEMMA IInvNext == IInv /\ [Next]_vars => IInv'
<1> SUFFICES ASSUME IInv, [Next]_vars PROVE IInv'
  OBVIOUS
<1>1. ASSUME NEW q \in Request, Handler(q)
      PROVE  IInv'
  BY <1>1, InsertPaymentKeeps, ReadExistingKeeps, ListDocumentsKeeps,
     UploadObjectKeeps, InsertDocumentKeeps, FinaliseKeeps DEF Handler
<1>2. CASE UNCHANGED vars
  <2>1. UNCHANGED <<sent, status, payload, rows, objects, req, touched, failures>>
    BY <1>2 DEF vars
  <2>2. \A q \in Request : SeenTo(q)'
    BY <2>1, AllSeenTo
  <2>3. QED
    BY <2>1, <2>2 DEF IInv, EvidenceIsStored
<1>3. QED
  BY <1>1, <1>2, FailKeeps, RedeliverKeeps, PeopleKeep DEF Next

LEMMA IInvHolds == Spec => []IInv
BY IInvInit, IInvNext, PTL DEF Spec

-----------------------------------------------------------------------------
(* The theorems *)

\* Every field of the register row, the documents and the deliveries has its
\* type; in particular a delivery always has a next document or none left.
THEOREM CaptureTypeCorrect == Spec => []TypeOK
<1>1. IInv => TypeOK
  BY DEF IInv, SeenTo, RequestTyped, TypeOK
<1>2. QED
  BY <1>1, IInvHolds, PTL

\* Whatever the interleaving of deliveries, failures and people, a delivery
\* that was accepted is one whose payload the row holds.
THEOREM AcceptedPayloadIsTheRowsHolds == Spec => []AcceptedPayloadIsTheRows
<1>1. IInv => AcceptedPayloadIsTheRows
  BY DEF IInv, SeenTo, AcceptedPayloadIsTheRows
<1>2. QED
  BY <1>1, IInvHolds, PTL

\* No document row of a delivery points to an object that was never stored.
THEOREM EvidenceIsStoredHolds == Spec => []EvidenceIsStored
<1>1. IInv => EvidenceIsStored
  BY DEF IInv
<1>2. QED
  BY <1>1, IInvHolds, PTL

\* No delivery, however old, moves a payment that people have moved past the
\* early statuses.
THEOREM MovedOnStaysHolds == Spec => MovedOnStays
<1>1. [Next]_vars =>
        [\A q \in Request :
           Handler(q) /\ status = "beyond" => status' = "beyond"]_vars
  <2> SUFFICES ASSUME NEW q \in Request, Handler(q), status = "beyond"
               PROVE  status' = "beyond"
    OBVIOUS
  <2>1. \A refs : FinalStatus(refs) \in FoEarly
    BY DEF FinalStatus, FoEarly
  <2>2. status \notin Early
    BY DEF Early, FoEarly
  <2>3. QED
    BY <2>1, <2>2 DEF Handler, InsertPayment, ReadExisting, ListDocuments,
       UploadObject, InsertDocument, Finalise, TriggerAllows, row, FoEarly
<1>2. QED
  BY <1>1, PTL DEF Spec, MovedOnStays

-----------------------------------------------------------------------------
(* Completeness *)

\* No file stands for two roles: neither among the declared documents nor
\* between them and what people attach.  Without this a conflict on the file
\* hides that the second role has no document.
OneRolePerFile ==
  /\ \A i, j \in 1..Len(Declared) :
        Declared[i].file = Declared[j].file => Declared[i].role = Declared[j].role
  /\ \A h \in HumanDoc, i \in 1..Len(Declared) :
        h[2] = Declared[i].file => h[1] = Declared[i].role

HasRole(role) == \E r \in rows : r.role = role

\* Where a document row comes from.
Origin(r) ==
  \/ r.id = Person /\ <<r.role, r.file>> \in HumanDoc
  \/ \E i \in 1..Len(Declared) : /\ r.id = Declared[i].part
                                 /\ r.role = Declared[i].role
                                 /\ r.file = Declared[i].file

\* What a delivery counts as known has had a row, and so have the required
\* roles of one that was told the documents are complete.
Backed(q) ==
  /\ \A d \in req[q].known : HasRole(d.role)
  /\ req[q].complete => \A role \in Required : HasRole(role)

EInv ==
  /\ \A r \in rows : Origin(r)
  /\ \A q \in Request : Backed(q)

\* Rows change only by removal, which keeps the role, and by new rows of known
\* origin: what was backed stays backed.
LEMMA BackedStays ==
  ASSUME IInv, EInv, \A role : HasRole(role) => HasRole(role)',
         NEW q \in Request, \A p \in Request \ {q} : req'[p] = req[p],
         \A r \in rows' : Origin(r),
         Backed(q)'
  PROVE  EInv'
BY DEF EInv, Backed, Origin

\* A delivery that learns something else knows the same documents.
LEMMA LearnOther ==
  ASSUME IInv, EInv, NEW q \in Request, NEW fields, Learn(q, fields),
         "known" \notin DOMAIN fields, "complete" \notin DOMAIN fields,
         rows' = rows
  PROVE  EInv'
<1>1. /\ \A p \in Request \ {q} : req'[p] = req[p]
      /\ \A f \in Fields :
           req'[q][f] = IF f \in DOMAIN fields THEN fields[f] ELSE req[q][f]
  BY LearnIs
<1>2. req'[q].known = req[q].known /\ req'[q].complete = req[q].complete
  BY <1>1 DEF Fields
<1>3. QED
  BY <1>1, <1>2 DEF EInv, Backed, HasRole, Origin

\* A refused delivery knows nothing.
LEMMA RefusedBacked ==
  ASSUME IInv, EInv, NEW q \in Request, Refused(q), rows' = rows
  PROVE  EInv'
<1>1. /\ \A p \in Request \ {q} : req'[p] = req[p]
      /\ req'[q].known = {} /\ ~req'[q].complete
  BY RefusalIs
<1>2. QED
  BY <1>1 DEF EInv, Backed, HasRole, Origin

\* The answer says complete only if every required role is known.
LEMMA AnswerBacked ==
  ASSUME IInv, EInv, NEW q \in Request, NEW known, Answer(q, known),
         \A d \in known : HasRole(d.role), rows' = rows
  PROVE  EInv'
<1>1. /\ \A p \in Request \ {q} : req'[p] = req[p]
      /\ req'[q].known = {} /\ req'[q].complete = (Missing(known) = {})
  BY AnswerIs
<1>2. Missing(known) = {} => \A role \in Required : HasRole(role)
  BY DEF Missing
<1>3. req'[q].complete => \A role \in Required : HasRole(role)
  BY <1>1, <1>2, Zenon
<1>4. QED
  BY <1>1, <1>3 DEF EInv, Backed, HasRole, Origin

\* A document counted as attached has had a row in its role: its own, or the
\* row it conflicts with.
LEMMA InsertDocumentBacked ==
  ASSUME OneRolePerFile, IInv, EInv, NEW q \in Request, InsertDocument(q)
  PROVE  EInv'
<1> DEFINE i == req[q].next
           new == [id |-> Doc(q).part, role |-> Doc(q).role,
                   file |-> Doc(q).file, live |-> TRUE]
<1>1. /\ req[q].pc = "row" /\ CountAsAttached(q)
      /\ rows' = IF Conflict(Doc(q)) THEN rows ELSE rows \cup {new}
  BY DEF InsertDocument, At
<1>2. /\ i \in 1..Len(Declared) /\ Doc(q) = Declared[i]
      /\ Doc(q).part \in Part /\ Doc(q).role \in Role /\ Doc(q).file \in File
  BY <1>1, DocOf
<1>3. /\ new.id = Doc(q).part /\ new.role = Doc(q).role
      /\ new.file = Doc(q).file
  OBVIOUS
<1> HIDE DEF i, new
<1>4. Origin(new)
  BY <1>2, <1>3 DEF Origin
<1>5. \E r \in rows' : r.role = Doc(q).role
  <2>1. CASE ~Conflict(Doc(q))
    BY <1>1, <1>3, <2>1
  <2>2. CASE Conflict(Doc(q))
    <3>1. PICK r \in rows : r.id = Doc(q).part \/ r.file = Doc(q).file
      BY <2>2 DEF Conflict
    <3>2. Origin(r)
      BY DEF EInv
    <3>3. r.role = Doc(q).role
      BY <1>2, <3>1, <3>2, CaptureAssumption DEF Origin, OneRolePerFile
    <3>4. QED
      BY <1>1, <2>2, <3>3
  <2>3. QED
    BY <2>1, <2>2
<1>6. /\ \A p \in Request \ {q} : req'[p] = req[p]
      /\ req'[q].known = req[q].known \cup {Ref(Doc(q))}
      /\ req'[q].complete = req[q].complete
  <2>1. RequestTyped(req[q])
    BY DEF IInv, SeenTo
  <2>2. /\ req[q].next + 1 \in 1..Len(Declared) + 1
        /\ req[q].known \cup {Ref(Doc(q))} \in SUBSET DocRef
        /\ req[q].adopted \cup {Doc(q).part} \in SUBSET (Part \cup {Person})
    BY <1>2, <2>1, CaptureAssumption DEF RequestTyped, Ref, DocRef, i
  <2>3. QED
    BY <1>1, <2>2, TurnToNextTyped DEF CountAsAttached
<1>7. \A role : HasRole(role) => HasRole(role)'
  BY <1>1 DEF HasRole
<1>8. \A r \in rows' : Origin(r)
  BY <1>1, <1>4 DEF EInv
<1>9. Ref(Doc(q)).role = Doc(q).role
  BY DEF Ref
<1>10. Backed(q)'
  <2>1. \A d \in req'[q].known : HasRole(d.role)'
    <3>1. TAKE d \in req'[q].known
    <3>2. CASE d \in req[q].known
      BY <1>7, <3>2 DEF EInv, Backed
    <3>3. CASE d = Ref(Doc(q))
      <4>1. d.role = Doc(q).role
        BY <1>9, <3>3
      <4>2. QED
        BY <1>5, <4>1 DEF HasRole
    <3>4. QED
      BY <1>6, <3>2, <3>3
  <2>2. req'[q].complete => \A role \in Required : HasRole(role)'
    BY <1>6, <1>7 DEF EInv, Backed
  <2>3. QED
    BY <2>1, <2>2 DEF Backed
<1>11. QED
  BY <1>6, <1>7, <1>8, <1>10, BackedStays

LEMMA HandlerBacked ==
  ASSUME OneRolePerFile, IInv, EInv, NEW q \in Request, Handler(q)
  PROVE  EInv'
<1>1. CASE InsertPayment(q)
  <2>1. CASE Learn(q, [pc |-> "list", seen |-> "captured"])
    BY <1>1, <2>1, LearnOther DEF InsertPayment
  <2>2. CASE Learn(q, [pc |-> "existing"])
    BY <1>1, <2>2, LearnOther DEF InsertPayment
  <2>3. QED
    BY <1>1, <2>1, <2>2 DEF InsertPayment
<1>2. CASE ReadExisting(q)
  <2>1. rows' = rows
    BY <1>2 DEF ReadExisting, row
  <2>2. CASE Learn(q, [pc |-> "list", seen |-> status, replay |-> TRUE])
    BY <2>1, <2>2, LearnOther
  <2>3. CASE Refused(q)
    BY <2>1, <2>3, RefusedBacked
  <2>4. QED
    BY <1>2, <2>2, <2>3 DEF ReadExisting, Refuse, Refused, Reply
<1>3. CASE ListDocuments(q)
  <2>1. rows' = rows
    BY <1>3 DEF ListDocuments, row
  <2>2. \A d \in Live(rows) : HasRole(d.role)
    BY DEF Live, HasRole
  <2>3. CASE Answer(q, Live(rows))
    BY <2>1, <2>2, <2>3, AnswerBacked
  <2>4. CASE TurnToNext(q, 1, Live(rows), LiveIds(rows))
    <3>1. 1 \in 1..Len(Declared) + 1
      BY CaptureAssumption
    <3>2. Live(rows) \in SUBSET DocRef /\ LiveIds(rows) \in SUBSET (Part \cup {Person})
      BY LiveIsTyped DEF IInv
    <3>3. /\ \A p \in Request \ {q} : req'[p] = req[p]
          /\ req'[q].known = Live(rows)
          /\ req'[q].complete = req[q].complete
      BY <2>4, <3>1, <3>2, TurnToNextTyped
    <3>4. QED
      BY <2>1, <2>2, <3>3 DEF EInv, Backed, HasRole, Origin
  <2>5. QED
    BY <1>3, <2>3, <2>4 DEF ListDocuments
<1>4. CASE UploadObject(q)
  <2>1. Learn(q, [pc |-> "row"]) /\ rows' = rows
    BY <1>4 DEF UploadObject, row
  <2>2. QED
    BY <2>1, LearnOther
<1>5. CASE InsertDocument(q)
  BY <1>5, InsertDocumentBacked
<1>6. CASE Finalise(q)
  <2>1. rows' = rows
    BY <1>6 DEF Finalise
  <2>2. \A d \in req[q].known : HasRole(d.role)
    BY DEF EInv, Backed
  <2>3. CASE Answer(q, req[q].known)
    BY <2>1, <2>2, <2>3, AnswerBacked
  <2>4. CASE Refused(q)
    BY <2>1, <2>4, RefusedBacked
  <2>5. QED
    BY <1>6, <2>3, <2>4 DEF Finalise, Refuse, Refused, Reply
<1>7. QED
  BY <1>1, <1>2, <1>3, <1>4, <1>5, <1>6 DEF Handler

\* A step that leaves the deliveries alone and keeps every role that had a row.
LEMMA SameRequestsBacked ==
  ASSUME EInv, req' = req, \A r \in rows' : Origin(r),
         \A r \in rows : \E x \in rows' : x.role = r.role
  PROVE  EInv'
BY DEF EInv, Backed, HasRole, Origin

LEMMA PeopleBacked ==
  ASSUME IInv, EInv, People
  PROVE  EInv'
<1>1. req' = req
  BY DEF People
<1>2. CASE rows' = rows
  BY <1>1, <1>2, SameRequestsBacked DEF EInv
<1>3. CASE \E d \in HumanDoc : PersonAttaches(d[1], d[2])
  <2>1. PICK d \in HumanDoc : PersonAttaches(d[1], d[2])
    BY <1>3
  <2> DEFINE new == [id |-> Person, role |-> d[1], file |-> d[2], live |-> TRUE]
  <2>2. rows' = rows \cup {new}
    BY <2>1 DEF PersonAttaches
  <2>3. d \in Role \X File
    BY CaptureAssumption
  <2>4. <<d[1], d[2]>> = d
    BY <2>3
  <2>5. new.id = Person /\ <<new.role, new.file>> \in HumanDoc
    BY <2>4
  <2> HIDE DEF new
  <2>6. Origin(new)
    BY <2>5 DEF Origin
  <2>7. QED
    BY <1>1, <2>2, <2>6, SameRequestsBacked DEF EInv
<1>4. CASE \E r \in rows : PersonRemoves(r)
  <2>1. PICK r \in rows : PersonRemoves(r)
    BY <1>4
  <2> DEFINE gone == [r EXCEPT !.live = FALSE]
  <2>2. rows' = (rows \ {r}) \cup {gone}
    BY <2>1 DEF PersonRemoves
  <2>3. r \in DocRow
    BY DEF IInv
  <2>4. gone.id = r.id /\ gone.role = r.role /\ gone.file = r.file
    BY <2>3 DEF DocRow
  <2> HIDE DEF gone
  <2>5. Origin(gone)
    BY <2>4 DEF EInv, Origin
  <2>6. QED
    BY <1>1, <2>2, <2>4, <2>5, SameRequestsBacked DEF EInv
<1>5. QED
  BY <1>2, <1>3, <1>4 DEF People, PersonMovesEarly, PersonMovesOn, PersonReturns

LEMMA EInvInit == Init => EInv
<1> SUFFICES ASSUME Init PROVE EInv
  OBVIOUS
<1>1. rows = {} /\ \A q \in Request : req[q] = Request0
  BY DEF Init
<1>2. Request0.known = {} /\ ~Request0.complete
  BY DEF Request0
<1>3. QED
  BY <1>1, <1>2 DEF EInv, Backed

LEMMA EInvNext ==
  ASSUME OneRolePerFile, IInv, EInv, [Next]_vars
  PROVE  EInv'
<1>1. ASSUME NEW q \in Request, Fail(q)
      PROVE  EInv'
  <2>1. Refused(q) /\ rows' = rows
    BY <1>1 DEF Fail, row, Refused, Reply
  <2>2. QED
    BY <2>1, RefusedBacked
<1>2. ASSUME NEW q \in Request, Redeliver(q)
      PROVE  EInv'
  <2>1. req' = [req EXCEPT ![q] = Request0] /\ rows' = rows
    BY <1>2 DEF Redeliver, row
  <2>2. Request0.known = {} /\ ~Request0.complete
    BY DEF Request0
  <2>3. /\ \A p \in Request \ {q} : req'[p] = req[p]
        /\ req'[q].known = {} /\ ~req'[q].complete
    BY <2>1, <2>2 DEF IInv
  <2>4. QED
    BY <2>1, <2>3 DEF EInv, Backed, HasRole, Origin
<1>3. CASE UNCHANGED vars
  BY <1>3, SameRequestsBacked DEF vars, EInv
<1>4. QED
  BY <1>1, <1>2, <1>3, HandlerBacked, PeopleBacked DEF Next

\* Where no file stands for two roles, a delivery told that the documents are
\* complete can point to a row, live or since removed, for every required role.
THEOREM CompleteHasEvidenceHolds ==
  ASSUME OneRolePerFile
  PROVE  Spec => []CompleteHasEvidence
<1>1. IInv /\ EInv /\ [Next]_vars => EInv'
  BY EInvNext
<1>2. EInv => CompleteHasEvidence
  BY DEF EInv, Backed, HasRole, CompleteHasEvidence
<1>3. QED
  BY <1>1, <1>2, EInvInit, IInvHolds, PTL DEF Spec
=============================================================================
