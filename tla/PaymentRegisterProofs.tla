----------------------- MODULE PaymentRegisterProofs -----------------------
(***************************************************************************)
(* Proofs about PaymentRegister, for every set of payments, bank rows,     *)
(* bills, document roles, details, notes and references.                   *)
(***************************************************************************)
EXTENDS PaymentRegister, TLAPS

-----------------------------------------------------------------------------
(* Type correctness *)

\* The empty register has its types.
LEMMA InitTypeOK == Init => TypeOK
BY DataAssumption DEF Init, TypeOK, Status, Source, MatchStatus

\* Every statement keeps the types: one step per group of actions.
LEMMA NextTypeOK == TypeOK /\ [Next]_vars => TypeOK'
<1> SUFFICES ASSUME TypeOK, [Next]_vars PROVE TypeOK'
  OBVIOUS
<1> USE DataAssumption
<1>1. ASSUME NEW r \in Actor, NEW p \in Payment, Capture(r, p) PROVE TypeOK'
  <2>1. ASSUME NEW d \in Detail, CaptureManual(r, p, d) PROVE TypeOK'
    BY <2>1 DEF CaptureManual, Insert, TypeOK, history, Source, Status, Early, FoEarly
  <2>2. ASSUME NEW d \in Detail, CaptureFinanceOps(p, d) PROVE TypeOK'
    BY <2>2 DEF CaptureFinanceOps, Insert, TypeOK, history, Source, Status, Early, FoEarly
  <2>3. ASSUME NEW d \in Detail, NEW s \in Status, ImportOpen(r, p, d, s)
        PROVE  TypeOK'
    BY <2>3 DEF ImportOpen, Insert, TypeOK, history, Source
  <2>4. ASSUME NEW d \in Detail, NEW s \in Status, NEW n \in Note \cup {None},
               ImportAsOwner(r, p, d, s, n)
        PROVE  TypeOK'
    <3>1. CASE s \in Locked
      <4>1. /\ basis' = [basis EXCEPT ![p] = "import"]
            /\ reviewedDetails' = [reviewedDetails EXCEPT ![p] = d]
        BY <2>4, <3>1 DEF ImportAsOwner
      <4>2. /\ basis' \in [Payment -> Basis \cup {None}]
            /\ reviewedDetails' \in [Payment -> Detail \cup {None}]
        BY <4>1 DEF TypeOK, Basis
      <4>3. QED
        BY <2>4, <4>2 DEF ImportAsOwner, Insert, TypeOK, Source
    <3>2. CASE s \notin Locked
      BY <2>4, <3>2 DEF ImportAsOwner, Insert, TypeOK, Source, history
    <3>3. QED
      BY <3>1, <3>2
  <2>5. QED
    BY <1>1, <2>1, <2>2, <2>3, <2>4 DEF Capture
<1>2. ASSUME NEW r \in Actor, NEW p \in Payment, Decide(r, p) PROVE TypeOK'
  <2>1. ASSUME NEW d \in Detail, EditDetails(r, p, d) PROVE TypeOK'
    BY <2>1 DEF EditDetails, TypeOK, history
  <2>2. ASSUME NEW b \in Bill \cup {None}, LinkBill(r, p, b) PROVE TypeOK'
    BY <2>2 DEF LinkBill, TypeOK, history
  <2>3. ASSUME NEW ds \in SUBSET DocRole, SetNotApplicable(r, p, ds)
        PROVE  TypeOK'
    BY <2>3 DEF SetNotApplicable, TypeOK, history
  <2>4. ASSUME NEW n \in Note \cup {None},
               SetException(r, p, n) \/ SetBankNA(r, p, n)
        PROVE  TypeOK'
    BY <2>4, SMTT(20) DEF SetException, SetBankNA, TypeOK, history
  <2>5. ASSUME NEW v \in SqlRef \cup {None}, CorrectSqlRecord(r, p, v)
        PROVE  TypeOK'
    BY <2>5 DEF CorrectSqlRecord, TypeOK, history
  <2>6. QED
    BY <1>2, <2>1, <2>2, <2>3, <2>4, <2>5 DEF Decide
<1>3. ASSUME NEW r \in Actor, NEW p \in Payment, Advance(r, p) PROVE TypeOK'
  <2>1. ASSUME NEW s \in Status, NEW st \in SUBSET Stamp, Move(p, s, st),
               UNCHANGED <<sqlRef, history>>
        PROVE  TypeOK'
    BY <2>1 DEF Move, TypeOK, history
  <2>2. stamps[p] \in SUBSET Stamp /\ details[p] \in Detail \cup {None}
    BY DEF TypeOK
  <2>3. ASSUME NEW s \in Early, EarlyMove(r, p, s) PROVE TypeOK'
    BY <2>1, <2>2, <2>3 DEF EarlyMove, Status
  <2>4. CASE \/ MarkBankMatched(r, p) \/ ReturnToBankMatch(r, p)
             \/ ReturnToBankMatched(r, p) \/ ReturnToReview(r, p)
    BY <2>1, <2>2, <2>4 DEF MarkBankMatched, ReturnToBankMatch,
       ReturnToBankMatched, ReturnToReview, Status, Early, FoEarly, Locked
  <2>5. CASE StartReview(r, p)
    BY <2>2, <2>5 DEF StartReview, Move, TypeOK, Status, Locked, Stamp, Basis
  <2>6. CASE \/ MarkReadyForSql(r, p) \/ Reconcile(r, p)
             \/ ReversePosting(r, p) \/ ReverseReconciliation(r, p)
    BY <2>1, <2>2, <2>6 DEF MarkReadyForSql, Reconcile, ReversePosting,
       ReverseReconciliation, Status, Locked, Stamp
  <2>7. ASSUME NEW v \in SqlRef, Post(r, p, v) PROVE TypeOK'
    BY <2>2, <2>7 DEF Post, Move, TypeOK, history, Status, Locked, Stamp
  <2>8. QED
    BY <1>3, <2>3, <2>4, <2>5, <2>6, <2>7 DEF Advance
<1>4. ASSUME NEW r \in Actor, NEW p \in Payment, Documents(r, p) PROVE TypeOK'
  BY <1>4 DEF Documents, AttachDocument, RemoveDocument, TypeOK, history, register
<1>5. ASSUME NEW r \in Actor, NEW p \in Payment, Matching(r, p) PROVE TypeOK'
  <2>1. PICK b \in BankRow, m \in MatchStatus : SetMatch(p, b, m)
    BY <1>5 DEF Matching, SuggestMatch, InsertConfirmed, ConfirmMatch,
       RejectMatch, ReopenMatch, MatchStatus
  <2>2. match' \in [Payment -> [BankRow -> MatchStatus]]
    BY <2>1 DEF SetMatch, TypeOK
  <2>3. QED
    BY <2>1, <2>2 DEF SetMatch, TypeOK, history, register
<1>6. ASSUME Bills PROVE TypeOK'
  BY <1>6 DEF Bills, BillDeleted, BillInvoice, TypeOK, history, register
<1>7. CASE UNCHANGED vars
  BY <1>7 DEF vars, register, history, TypeOK
<1>8. QED
  BY <1>1, <1>2, <1>3, <1>4, <1>5, <1>6, <1>7 DEF Next

\* The register keeps its types, whatever statements are issued.
THEOREM TypeCorrect == Spec => []TypeOK
BY InitTypeOK, NextTypeOK, PTL DEF Spec

-----------------------------------------------------------------------------
(* What a step leaves alone, and what it does to the payment it is about.  *)
(* These frame facts carry every invariant below.                          *)

\* A new row arrives with no stamp, and if it arrives closed its history says
\* that it was imported, with the details it came with.
LEMMA CaptureFrame ==
  ASSUME NEW r \in Actor, NEW p \in Payment, Capture(r, p)
  PROVE  /\ status[p] = "none"
         /\ UNCHANGED <<match, stamps>>
         /\ \E d \in Detail, s \in Status :
              /\ status' = [status EXCEPT ![p] = s]
              /\ details' = [details EXCEPT ![p] = d]
              /\ \/ s \in Early /\ UNCHANGED history
                 \/ /\ s \in Locked
                    /\ basis' = [basis EXCEPT ![p] = "import"]
                    /\ reviewedDetails' = [reviewedDetails EXCEPT ![p] = d]
<1> DEFINE Opened(d, s) ==
      /\ status[p] = "none"
      /\ UNCHANGED <<match, stamps>>
      /\ status' = [status EXCEPT ![p] = s]
      /\ details' = [details EXCEPT ![p] = d]
<1>1. ASSUME NEW d \in Detail, CaptureManual(r, p, d)
      PROVE  Opened(d, "documents_pending") /\ UNCHANGED history
  BY <1>1 DEF CaptureManual, Insert, Exists
<1>2. ASSUME NEW d \in Detail, CaptureFinanceOps(p, d)
      PROVE  Opened(d, "captured") /\ UNCHANGED history
  BY <1>2 DEF CaptureFinanceOps, Insert, Exists
<1>3. ASSUME NEW d \in Detail, NEW s \in Status, ImportOpen(r, p, d, s)
      PROVE  Opened(d, s) /\ s \in Early /\ UNCHANGED history
  BY <1>3 DEF ImportOpen, Insert, Exists, Early, FoEarly
<1>4. ASSUME NEW d \in Detail, NEW s \in Status, NEW n \in Note \cup {None},
             ImportAsOwner(r, p, d, s, n)
      PROVE  /\ Opened(d, s)
             /\ \/ s \in Early /\ UNCHANGED history
                \/ /\ s \in Locked
                   /\ basis' = [basis EXCEPT ![p] = "import"]
                   /\ reviewedDetails' = [reviewedDetails EXCEPT ![p] = d]
  BY <1>4 DEF ImportAsOwner, Insert, Exists, Early, FoEarly, Locked
<1>5. "documents_pending" \in Early \cap Status /\ "captured" \in Early \cap Status
  BY DEF Early, FoEarly, Status
<1>6. QED
  BY <1>1, <1>2, <1>3, <1>4, <1>5 DEF Capture

\* A decision or a correction moves no status and touches no match, and the
\* details only before finance review.
LEMMA DecideFrame ==
  ASSUME NEW r \in Actor, NEW p \in Payment, Decide(r, p)
  PROVE  /\ UNCHANGED <<status, stamps, match, history>>
         /\ \/ UNCHANGED details
            \/ /\ status[p] \in Early \cup {"bank_matched"}
               /\ \E d \in Detail : details' = [details EXCEPT ![p] = d]
BY DEF Decide, EditDetails, LinkBill, SetNotApplicable, SetException,
   SetBankNA, CorrectSqlRecord, MayEdit

\* A move leaves the details and the matches alone; only the opening of finance
\* review takes a payment into the locked statuses.
LEMMA AdvanceFrame ==
  ASSUME NEW r \in Actor, NEW p \in Payment, Advance(r, p)
  PROVE  /\ UNCHANGED <<details, match>>
         /\ \/ StartReview(r, p)
            \/ /\ UNCHANGED history
               /\ \E s \in Status :
                    /\ status' = [status EXCEPT ![p] = s]
                    /\ s \in Locked => status[p] \in Locked
<1>1. UNCHANGED <<details, match>>
  BY DEF Advance, Move, EarlyMove, MarkBankMatched, ReturnToBankMatch,
     StartReview, ReturnToBankMatched, MarkReadyForSql, ReturnToReview, Post,
     Reconcile, ReversePosting, ReverseReconciliation
<1>2. ASSUME \/ \E s \in Early : EarlyMove(r, p, s)
             \/ MarkBankMatched(r, p) \/ ReturnToBankMatch(r, p)
             \/ ReturnToBankMatched(r, p)
      PROVE  /\ UNCHANGED history
             /\ \E s \in Early \cup {"bank_matched"} :
                  status' = [status EXCEPT ![p] = s]
  BY <1>2 DEF Move, EarlyMove, MarkBankMatched, ReturnToBankMatch,
     ReturnToBankMatched, Early, FoEarly
<1>3. ASSUME \/ MarkReadyForSql(r, p) \/ ReturnToReview(r, p)
             \/ \E v \in SqlRef : Post(r, p, v)
             \/ Reconcile(r, p) \/ ReversePosting(r, p)
             \/ ReverseReconciliation(r, p)
      PROVE  /\ UNCHANGED history
             /\ status[p] \in Locked
             /\ \E s \in Locked : status' = [status EXCEPT ![p] = s]
  BY <1>3 DEF Move, MarkReadyForSql, ReturnToReview, Post, Reconcile,
     ReversePosting, ReverseReconciliation, Locked
<1>4. (Early \cup {"bank_matched"}) \cap Locked = {}
  BY DEF Early, FoEarly, Locked
<1>5. Early \cup {"bank_matched"} \subseteq Status /\ Locked \subseteq Status
  BY DEF Status
<1>6. QED
  BY <1>1, <1>2, <1>3, <1>4, <1>5 DEF Advance

\* Documents, bills and stuttering touch nothing the invariants speak of.
LEMMA QuietFrame ==
  ASSUME \/ \E r \in Actor, p \in Payment : Documents(r, p)
         \/ Bills
         \/ UNCHANGED vars
  PROVE  UNCHANGED <<status, details, stamps, match, history>>
BY DEF Documents, AttachDocument, RemoveDocument, Bills, BillDeleted,
   BillInvoice, vars, register

\* A match statement changes one pair, confirms only what the indexes allow, and
\* undoes a confirmation only before finance review.
LEMMA MatchingFrame ==
  ASSUME NEW r \in Actor, NEW p \in Payment, Matching(r, p)
  PROVE  /\ UNCHANGED <<register, history>>
         /\ \E b \in BankRow, m \in MatchStatus :
              /\ match' = [match EXCEPT ![p][b] = m]
              /\ m = "confirmed" =>
                   /\ status[p] \in Early
                   /\ match[p][b] # "confirmed"
                   /\ NoOtherConfirmed(p, b)
              /\ match[p][b] = "confirmed" =>
                   status[p] \in Early \cup {"bank_matched"}
BY DEF Matching, SuggestMatch, InsertConfirmed, ConfirmMatch, RejectMatch,
   ReopenMatch, SetMatch, MatchStatus

\* A payment cannot be locked and early, or locked and absent.
LEMMA LockedIsLate ==
  /\ (Early \cup {"bank_matched", "none"}) \cap Locked = {}
  /\ "none" \notin Early
BY DEF Early, FoEarly, Locked

-----------------------------------------------------------------------------
(* Reviewed on its match *)

\* The evidence of a review survives every statement: a match statement on the
\* payment finds it locked, a move that locks it records what it saw.
LEMMA NextReviewedOnItsMatch ==
  TypeOK /\ ReviewedOnItsMatch /\ [Next]_vars => ReviewedOnItsMatch'
<1> SUFFICES ASSUME TypeOK, ReviewedOnItsMatch, [Next]_vars,
                    NEW q \in Payment,
                    status'[q] \in Locked, basis'[q] = "match"
             PROVE  HasConfirmed(q)'
  BY DEF ReviewedOnItsMatch
<1>1. ASSUME NEW r \in Actor, NEW p \in Payment, Capture(r, p)
      PROVE  HasConfirmed(q)'
  <2>1. q # p
    BY <1>1, CaptureFrame, LockedIsLate DEF TypeOK, history
  <2>2. PICK s \in Status : status' = [status EXCEPT ![p] = s]
    BY <1>1, CaptureFrame
  <2>3. basis' = basis \/ basis' = [basis EXCEPT ![p] = "import"]
    BY <1>1, CaptureFrame DEF history
  <2>4. status[q] \in Locked /\ basis[q] = "match"
    BY <2>1, <2>2, <2>3 DEF TypeOK
  <2>5. QED
    BY <1>1, <2>4, CaptureFrame DEF ReviewedOnItsMatch, HasConfirmed
<1>2. ASSUME NEW r \in Actor, NEW p \in Payment, Decide(r, p)
      PROVE  HasConfirmed(q)'
  BY <1>2, DecideFrame DEF ReviewedOnItsMatch, HasConfirmed, history
<1>3. ASSUME NEW r \in Actor, NEW p \in Payment, Advance(r, p)
      PROVE  HasConfirmed(q)'
  <2>1. CASE StartReview(r, p) /\ q = p
    BY <2>1 DEF StartReview, Move, HasConfirmed, TypeOK
  <2>2. CASE StartReview(r, p) /\ q # p
    BY <2>2 DEF StartReview, Move, HasConfirmed, TypeOK, ReviewedOnItsMatch
  <2>3. CASE ~StartReview(r, p)
    BY <1>3, <2>3, AdvanceFrame
    DEF HasConfirmed, TypeOK, ReviewedOnItsMatch, history
  <2>4. QED
    BY <2>1, <2>2, <2>3
<1>4. ASSUME NEW r \in Actor, NEW p \in Payment, Matching(r, p)
      PROVE  HasConfirmed(q)'
  <2>1. PICK c \in BankRow : match[q][c] = "confirmed"
    BY <1>4, MatchingFrame
    DEF ReviewedOnItsMatch, HasConfirmed, register, history
  <2>2. PICK b \in BankRow, m \in MatchStatus :
           /\ match' = [match EXCEPT ![p][b] = m]
           /\ match[p][b] = "confirmed" =>
                status[p] \in Early \cup {"bank_matched"}
    BY <1>4, MatchingFrame
  <2>3. status[q] \in Locked
    BY <1>4, MatchingFrame DEF register
  <2>4. ~(q = p /\ c = b)
    BY <2>1, <2>2, <2>3, LockedIsLate
  <2>5. match'[q][c] = "confirmed"
    BY <2>1, <2>2, <2>4 DEF TypeOK
  <2>6. QED
    BY <2>5 DEF HasConfirmed
<1>5. CASE \/ \E r \in Actor, p \in Payment : Documents(r, p)
           \/ Bills
           \/ UNCHANGED vars
  BY <1>5, QuietFrame DEF ReviewedOnItsMatch, HasConfirmed, history
<1>6. QED
  BY <1>1, <1>2, <1>3, <1>4, <1>5 DEF Next

\* A payment reviewed on a confirmed match keeps one for as long as it is in
\* finance review or beyond.
THEOREM ReviewedOnItsMatchHolds == Spec => []ReviewedOnItsMatch
<1>1. Init => ReviewedOnItsMatch
  BY LockedIsLate DEF Init, ReviewedOnItsMatch
<1>2. QED
  BY <1>1, InitTypeOK, NextTypeOK, NextReviewedOnItsMatch, PTL DEF Spec

-----------------------------------------------------------------------------
(* Details frozen *)

\* No statement changes the details of a payment that finance review holds.
LEMMA NextDetailsFrozen ==
  TypeOK /\ DetailsFrozen /\ [Next]_vars => DetailsFrozen'
<1> SUFFICES ASSUME TypeOK, DetailsFrozen, [Next]_vars, NEW q \in Payment,
                    status'[q] \in Locked
             PROVE  details'[q] = reviewedDetails'[q]
  BY DEF DetailsFrozen
<1>1. ASSUME NEW r \in Actor, NEW p \in Payment, Capture(r, p)
      PROVE  details'[q] = reviewedDetails'[q]
  BY <1>1, CaptureFrame, LockedIsLate DEF DetailsFrozen, TypeOK, history
<1>2. ASSUME NEW r \in Actor, NEW p \in Payment, Decide(r, p)
      PROVE  details'[q] = reviewedDetails'[q]
  BY <1>2, DecideFrame, LockedIsLate DEF DetailsFrozen, TypeOK, history
<1>3. ASSUME NEW r \in Actor, NEW p \in Payment, Advance(r, p)
      PROVE  details'[q] = reviewedDetails'[q]
  <2>1. CASE StartReview(r, p)
    BY <2>1 DEF StartReview, Move, DetailsFrozen, TypeOK
  <2>2. CASE ~StartReview(r, p)
    BY <1>3, <2>2, AdvanceFrame DEF DetailsFrozen, TypeOK, history
  <2>3. QED
    BY <2>1, <2>2
<1>4. ASSUME NEW r \in Actor, NEW p \in Payment, Matching(r, p)
      PROVE  details'[q] = reviewedDetails'[q]
  BY <1>4, MatchingFrame DEF DetailsFrozen, register, history
<1>5. CASE \/ \E r \in Actor, p \in Payment : Documents(r, p)
           \/ Bills
           \/ UNCHANGED vars
  BY <1>5, QuietFrame DEF DetailsFrozen, history
<1>6. QED
  BY <1>1, <1>2, <1>3, <1>4, <1>5 DEF Next

\* What is posted and reconciled is what the reviewer saw.
THEOREM DetailsFrozenHolds == Spec => []DetailsFrozen
<1>1. Init => DetailsFrozen
  BY LockedIsLate DEF Init, DetailsFrozen
<1>2. QED
  BY <1>1, InitTypeOK, NextTypeOK, NextDetailsFrozen, PTL DEF Spec

-----------------------------------------------------------------------------
(* Stamps tell the status *)

\* Every move writes the stamps of the status it moves to and clears those of
\* the status it reverses.
LEMMA NextStampsTellTheStatus ==
  TypeOK /\ StampsTellTheStatus /\ [Next]_vars => StampsTellTheStatus'
<1> SUFFICES ASSUME TypeOK, StampsTellTheStatus, [Next]_vars,
                    NEW q \in Payment
             PROVE  StampsAgree(q)'
  BY DEF StampsTellTheStatus
<1>0. StampsAgree(q)
  BY DEF StampsTellTheStatus
<1>1. ASSUME NEW r \in Actor, NEW p \in Payment, Capture(r, p)
      PROVE  StampsAgree(q)'
  <2>1. PICK s \in Status :
           /\ status' = [status EXCEPT ![p] = s]
           /\ \/ s \in Early /\ UNCHANGED basis
              \/ basis' = [basis EXCEPT ![p] = "import"]
    BY <1>1, CaptureFrame DEF history
  <2>2. status[p] = "none" /\ UNCHANGED stamps
    BY <1>1, CaptureFrame
  <2>3. CASE q = p
    BY <1>0, <2>1, <2>2, <2>3 DEF StampsAgree, TypeOK, Early, FoEarly, Locked
  <2>4. CASE q # p
    BY <1>0, <2>1, <2>2, <2>4 DEF StampsAgree, TypeOK
  <2>5. QED
    BY <2>3, <2>4
<1>2. ASSUME NEW r \in Actor, NEW p \in Payment, Decide(r, p)
      PROVE  StampsAgree(q)'
  BY <1>0, <1>2, DecideFrame DEF StampsAgree, history
<1>3. ASSUME NEW r \in Actor, NEW p \in Payment, Advance(r, p)
      PROVE  StampsAgree(q)'
  <2>1. ASSUME q # p PROVE StampsAgree(q)'
    <3>1. /\ status'[q] = status[q]
          /\ stamps'[q] = stamps[q]
          /\ basis'[q] = basis[q]
      BY <1>3, <2>1 DEF Advance, Move, EarlyMove, MarkBankMatched,
         ReturnToBankMatch, StartReview, ReturnToBankMatched, MarkReadyForSql,
         ReturnToReview, Post, Reconcile, ReversePosting,
         ReverseReconciliation, TypeOK, history
    <3>2. QED
      BY <1>0, <3>1 DEF StampsAgree
  <2>2. CASE q = p
    <3>1. ASSUME \/ \E s \in Early : EarlyMove(r, p, s)
                 \/ MarkBankMatched(r, p) \/ ReturnToBankMatch(r, p)
                 \/ ReturnToBankMatched(r, p)
          PROVE  StampsAgree(q)'
      BY <1>0, <2>2, <3>1 DEF Move, EarlyMove, MarkBankMatched,
         ReturnToBankMatch, ReturnToBankMatched, StampsAgree, TypeOK, history,
         Early, FoEarly, Locked
    <3>2. CASE StartReview(r, p)
      BY <1>0, <2>2, <3>2 DEF StartReview, Move, StampsAgree, TypeOK,
         Early, FoEarly, Locked
    <3>3. CASE MarkReadyForSql(r, p) \/ ReturnToReview(r, p)
      BY <1>0, <2>2, <3>3 DEF MarkReadyForSql, ReturnToReview, Move,
         StampsAgree, TypeOK, history, Locked
    <3>4. ASSUME \/ \E v \in SqlRef : Post(r, p, v)
                 \/ Reconcile(r, p)
          PROVE  StampsAgree(q)'
      BY <1>0, <2>2, <3>4 DEF Post, Reconcile, Move, StampsAgree, TypeOK,
         history, Locked
    <3>5. CASE ReversePosting(r, p) \/ ReverseReconciliation(r, p)
      BY <1>0, <2>2, <3>5 DEF ReversePosting, ReverseReconciliation, Move,
         StampsAgree, TypeOK, history, Locked
    <3>6. QED
      BY <1>3, <3>1, <3>2, <3>3, <3>4, <3>5 DEF Advance
  <2>3. QED
    BY <2>1, <2>2
<1>4. ASSUME NEW r \in Actor, NEW p \in Payment, Matching(r, p)
      PROVE  StampsAgree(q)'
  BY <1>0, <1>4, MatchingFrame DEF StampsAgree, register, history
<1>5. CASE \/ \E r \in Actor, p \in Payment : Documents(r, p)
           \/ Bills
           \/ UNCHANGED vars
  BY <1>0, <1>5, QuietFrame DEF StampsAgree, history
<1>6. QED
  BY <1>1, <1>2, <1>3, <1>4, <1>5 DEF Next

\* No posting or reconciliation stamp outlives its status, and no stage of a
\* payment is reached without the stamps of the stages before it.
THEOREM StampsTellTheStatusHolds == Spec => []StampsTellTheStatus
<1>1. Init => StampsTellTheStatus
  BY DEF Init, StampsTellTheStatus, StampsAgree, Locked
<1>2. QED
  BY <1>1, InitTypeOK, NextTypeOK, NextStampsTellTheStatus, PTL DEF Spec

-----------------------------------------------------------------------------
(* The refinement of BankTie *)

\* Membership in the refinement mapping, for one pair.
LEMMA TieMember ==
  ASSUME NEW p \in Payment, NEW b \in BankRow
  PROVE  <<p, b>> \in Ties <=> match[p][b] = "confirmed"
BY DEF Ties

\* The initial states map to initial states of BankTie.
LEMMA InitImplementsBankTie == Init => Tie!TieInit
BY LockedIsLate DEF Init, Tie!TieInit, Ties, Held

\* Every statement maps to a step of BankTie or to a stutter: moves hold or
\* release one payment, match statements tie or untie one pair.
LEMMA NextImplementsBankTie ==
  TypeOK /\ [Next]_vars => [Tie!TieNext]_(Tie!tieVars)
<1> SUFFICES ASSUME TypeOK, [Next]_vars
             PROVE  Tie!TieNext \/ UNCHANGED <<Ties, Held>>
  BY DEF Tie!tieVars
<1>1. ASSUME NEW p \in Payment, NEW s \in Status,
             status' = [status EXCEPT ![p] = s], UNCHANGED match
      PROVE  Tie!TieNext
  <2>1. UNCHANGED Ties
    BY <1>1 DEF Ties
  <2>2. CASE s \in Locked
    <3>1. Held' = Held \cup {p}
      BY <1>1, <2>2 DEF Held, TypeOK
    <3>2. QED
      BY <2>1, <3>1 DEF Tie!TieNext, Tie!Hold
  <2>3. CASE s \notin Locked
    <3>1. Held' = Held \ {p}
      BY <1>1, <2>3 DEF Held, TypeOK
    <3>2. QED
      BY <2>1, <3>1 DEF Tie!TieNext, Tie!Release
  <2>4. QED
    BY <2>2, <2>3
<1>2. ASSUME NEW r \in Actor, NEW p \in Payment, Capture(r, p)
      PROVE  Tie!TieNext
  BY <1>1, <1>2, CaptureFrame
<1>3. ASSUME NEW r \in Actor, NEW p \in Payment, Advance(r, p)
      PROVE  Tie!TieNext
  <2>1. PICK s \in Status : status' = [status EXCEPT ![p] = s]
    BY <1>3, AdvanceFrame DEF StartReview, Move, Status, Locked
  <2>2. QED
    BY <1>1, <1>3, <2>1, AdvanceFrame
<1>4. ASSUME NEW r \in Actor, NEW p \in Payment, Decide(r, p)
      PROVE  UNCHANGED <<Ties, Held>>
  BY <1>4, DecideFrame DEF Ties, Held
<1>5. ASSUME NEW r \in Actor, NEW p \in Payment, Matching(r, p)
      PROVE  Tie!TieNext \/ UNCHANGED <<Ties, Held>>
  <2>1. PICK b \in BankRow, m \in MatchStatus :
           /\ match' = [match EXCEPT ![p][b] = m]
           /\ m = "confirmed" =>
                /\ status[p] \in Early
                /\ match[p][b] # "confirmed"
                /\ NoOtherConfirmed(p, b)
           /\ match[p][b] = "confirmed" =>
                status[p] \in Early \cup {"bank_matched"}
    BY <1>5, MatchingFrame
  <2>2. UNCHANGED Held
    BY <1>5, MatchingFrame DEF Held, register
  <2>3. \A q \in Payment, c \in BankRow :
           match'[q][c] = IF q = p /\ c = b THEN m ELSE match[q][c]
    BY <2>1 DEF TypeOK
  <2>4. CASE m = "confirmed"
    <3>1. Ties' = Ties \cup {<<p, b>>}
      BY <2>3, <2>4 DEF Ties
    <3>2. p \notin Held
      BY <2>1, <2>4, LockedIsLate DEF Held
    <3>3. \A x \in Ties : x[1] # p /\ x[2] # b
      BY <2>1, <2>4 DEF Ties, NoOtherConfirmed
    <3>4. QED
      BY <2>2, <3>1, <3>2, <3>3 DEF Tie!TieNext, Tie!Tie
  <2>5. CASE m # "confirmed" /\ match[p][b] = "confirmed"
    <3>1. Ties' = Ties \ {<<p, b>>}
      BY <2>3, <2>5 DEF Ties
    <3>2. p \notin Held
      BY <2>1, <2>5, LockedIsLate DEF Held
    <3>3. <<p, b>> \in Ties
      BY <2>5, TieMember
    <3>4. QED
      BY <2>2, <3>1, <3>2, <3>3 DEF Tie!TieNext, Tie!Untie
  <2>6. CASE m # "confirmed" /\ match[p][b] # "confirmed"
    BY <2>2, <2>3, <2>6 DEF Ties
  <2>7. QED
    BY <2>4, <2>5, <2>6
<1>6. CASE \/ \E r \in Actor, p \in Payment : Documents(r, p)
           \/ Bills
           \/ UNCHANGED vars
  BY <1>6, QuietFrame DEF Ties, Held
<1>7. QED
  BY <1>2, <1>3, <1>4, <1>5, <1>6 DEF Next

\* The register implements BankTie: the tie of a payment to a bank row is made
\* and undone only while the payment is outside finance review.
THEOREM RegisterImplementsBankTie == Spec => ImplementsBankTie
BY InitTypeOK, NextTypeOK, InitImplementsBankTie, NextImplementsBankTie, PTL
DEF Spec, ImplementsBankTie, Tie!TieSpec

\* The invariant of BankTie itself, carried over by the refinement.
LEMMA TieNextOneToOne ==
  OneToOne /\ [Tie!TieNext]_(Tie!tieVars) => OneToOne'
<1> SUFFICES ASSUME OneToOne, [Tie!TieNext]_(Tie!tieVars) PROVE OneToOne'
  OBVIOUS
<1>1. ASSUME NEW p \in Payment, NEW b \in BankRow, Tie!Tie(p, b)
      PROVE  OneToOne'
  BY <1>1 DEF Tie!Tie, OneToOne, Tie!OneToOne
<1>2. ASSUME Ties' \subseteq Ties PROVE OneToOne'
  BY <1>2 DEF OneToOne, Tie!OneToOne
<1>3. QED
  BY <1>1, <1>2 DEF Tie!TieNext, Tie!tieVars, Tie!Untie, Tie!Hold, Tie!Release

\* A payment has at most one confirmed bank row, a bank row at most one payment.
THEOREM OneToOneHolds == Spec => []OneToOne
<1>1. Init => OneToOne
  BY DEF Init, OneToOne, Tie!OneToOne, Ties
<1>2. QED
  BY <1>1, InitTypeOK, NextTypeOK, NextImplementsBankTie, TieNextOneToOne, PTL
  DEF Spec

=============================================================================
